------------------------------- MODULE MCXMsg -------------------------------
(* Two users, one of whom answers at once or pages through what was held.  *)
EXTENDS XMsg, TLC

CONSTANTS ann, bob, cor

=============================================================================
