------------------------------ MODULE MCMuBuf ------------------------------
(* Instances of MuBuf for TLC. *)
EXTENDS MuBuf

(* Texts shorter than the room their formats ask for at first, as long, and *)
(* longer; those of two, three and four bytes may just fill the buffer.     *)
Texts == {<<1, 1>>, <<2, 3>>, <<1, 2>>, <<1, 4>>, <<1, 5>>}

(* What the theorems assume, for the sizes that the runs reach. *)
ASSUME CapacitiesGrow == \A n \in 1..(2 * MaxBytes) : Grows(n)
=============================================================================
