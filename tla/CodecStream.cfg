SPECIFICATION Spec
CONSTANTS
    Samples <- FirstAndSecond
    Rooms = {1, 4, 40}
    Tags = {2}
INVARIANTS RoundTrip TornRefused Aligned
CHECK_DEADLOCK FALSE
