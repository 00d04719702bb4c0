------------------------------- MODULE MCTty --------------------------------
(* A small screen, narrow enough to wrap and low enough to scroll in the
   middle of the text, with handlers that print nothing but a newline or a
   full row.  The history of the text bounds the run. *)
EXTENDS Tty
=============================================================================
