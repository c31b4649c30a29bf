------------------------------ MODULE MCMtkI2c --------------------------------
(* TLC instances of MtkI2c. *)
EXTENDS MtkI2c

\* A command, a register read, a plain read, and what the checks refuse.
MCRequests == {[w |-> 2, r |-> 0], [w |-> 1, r |-> 1], [w |-> 0, r |-> 2],
               [w |-> 0, r |-> 0], [w |-> 0, r |-> 3]}
=============================================================================
