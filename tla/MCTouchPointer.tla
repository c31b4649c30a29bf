---------------------------- MODULE MCTouchPointer ----------------------------
(* TLC instances of TouchPointer. *)
EXTENDS TouchPointer

\* A corner inside the logical range and one beyond it on both axes.
MCContacts == {<<0, 1>>, <<2, 3>>}
=============================================================================
