------------------------------ MODULE MCComments -----------------------------
(* Model checking of Comments. *)
EXTENDS Comments, TLC

\* Request slots are interchangeable, and so are targets.
Interchangeable == Permutations(Request) \cup Permutations(Target)

\* Bound: with a change made in the admin site there is one request less.
Bounded == adminRequests + requests <= MaxRequests
==============================================================================
