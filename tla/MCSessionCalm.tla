--------------------------- MODULE MCSessionCalm ---------------------------
(* The constants of MCSession, for the sessions that are watched. *)
EXTENDS SessionCalm, MCSession

=============================================================================
