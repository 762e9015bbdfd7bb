---------------------------- MODULE MCChatUnread ----------------------------
(* Model checking of ChatUnread. *)
EXTENDS ChatUnread, TLC

Symmetry == Permutations(Profile) \cup Permutations(Room) \cup Permutations(MsgId)
              \cup Permutations(Request)

\* Bound: at most one room is flagged unread at a time, and none once an operator
\* has edited a status; nothing but marked_unread itself depends on the flag.
FewMarks == Cardinality(marked) <= IF edited THEN 0 ELSE 1
=============================================================================
