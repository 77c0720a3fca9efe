----------------------------- MODULE MCSocketIO -----------------------------
(* The transfers with chunks of two bytes. *)
EXTENDS SocketIO

\* The third byte ends a line.
LineEndAt3 == {3}

=============================================================================
