---------------------------- MODULE UnreadBadge -----------------------------
(***************************************************************************)
(* What unread badges promise their reader, with no statuses, triggers or  *)
(* requests: a badge is the size of a set of messages; a message enters    *)
(* the sets of its audience once, when it is sent; it leaves a profile's   *)
(* set when that profile sees it, and never comes back.                    *)
(***************************************************************************)
EXTENDS Naturals, FiniteSets

CONSTANTS Profile, Room, MsgId

VARIABLES
  sent,     \* messages that have been sent
  unread,   \* unread[r][p]: messages of r that p has still to see
  badge     \* badge[r][p]: the number shown to p for r

Init ==
  /\ sent = {}
  /\ unread = [r \in Room |-> [p \in Profile |-> {}]]
  /\ badge = [r \in Room |-> [p \in Profile |-> 0]]

Deliver(m, r, audience) ==
  /\ m \notin sent
  /\ sent' = sent \cup {m}
  /\ unread' = [unread EXCEPT ![r] =
       [p \in Profile |-> IF p \in audience THEN unread[r][p] \cup {m} ELSE unread[r][p]]]

See(p, seen) ==
  /\ sent' = sent
  /\ unread' = [r \in Room |-> [unread[r] EXCEPT ![p] = unread[r][p] \ seen]]

Next ==
  /\ \/ \E m \in MsgId, r \in Room, audience \in SUBSET Profile : Deliver(m, r, audience)
     \/ \E p \in Profile, seen \in SUBSET MsgId : See(p, seen)
  /\ badge' = [r \in Room |-> [p \in Profile |-> Cardinality(unread'[r][p])]]

Spec == Init /\ [][Next]_<<sent, unread, badge>>
=============================================================================
