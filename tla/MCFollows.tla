------------------------------ MODULE MCFollows ------------------------------
(* Model checking of Follows: its constants are model values, so the configuration *)
(* needs no definition of its own.                                                 *)
EXTENDS Follows
==============================================================================
