------------------------------ MODULE MCRecounts ------------------------------
(* Model checking of Recounts. *)
EXTENDS Recounts, TLC

CONSTANTS ann, bob, p1, p2

\* Ann manages both profiles, so two users act for p2.
MCManages == (ann :> {p1, p2}) @@ (bob :> {p2})
MCCurrent == (ann :> p1) @@ (bob :> p2)
MCWorth == ("first" :> 1) @@ ("second" :> 2)
MCBefore == {<<p2, p1>>}
==============================================================================
