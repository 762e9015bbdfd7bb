---------------------------- MODULE MCChatRooms -----------------------------
(* Model checking of ChatRooms: the edits clients send, and the properties. *)
EXTENDS ChatRooms

NoEdits == {}
NoBlocks == {}
Profiles == {"ann", "bob", "cat"}
Crowd == Profiles \cup {"dan"}

\* Edits that add somebody, or remove or leave, one profile at a time.
SingleEdits == {<<{p}, {}>> : p \in Profiles} \cup {<<{}, {p}>> : p \in Profiles}
OneBlock == {{"bob", "cat"}}

\* ann and bob are in both rooms and ann founded the first; cat and dan are in none,
\* so that two requests can add the same or different profiles to common rooms.
AddsInit ==
  /\ Init
  /\ \A r \in Room : MembersOf(r) = {"ann", "bob"}
  /\ IsAdmin(1, "ann")
AddsSpec == AddsInit /\ [][Next]_vars /\ Fairness

-----------------------------------------------------------------------------
(* What a comment says, and two concurrent demotions do not keep.            *)

\* mutations.py:670, on ChatRoomToggleAdmin: "Ensure at least one admin remains,
\* in a concurrent-safe way".
OneAdminRemains == AdminRemains
=============================================================================
