------------------------------- MODULE MCDwI2c --------------------------------
(* TLC instances of DwI2c. *)
EXTENDS DwI2c

\* A command, a register read and a plain read longer than the RX FIFO, and
\* the call the argument check refuses.
MCRequests == {[w |-> 2, r |-> 0], [w |-> 1, r |-> 1], [w |-> 0, r |-> 3],
               [w |-> 0, r |-> 0]}
=============================================================================
