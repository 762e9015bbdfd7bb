----------------------------- MODULE ChatUnread -----------------------------
(***************************************************************************)
(* Read receipts and unread badges of baseapp_chats.                       *)
(*                                                                         *)
(* A Message row gets one MessageStatus row per participant of its room,   *)
(* and an UnreadMessageCount row per (room, profile) is kept by database   *)
(* triggers that fire when a status is inserted unread or flips to read.   *)
(* Nothing recomputes the counter: it is right only if every way a status  *)
(* can appear, flip or vanish moves it by the same amount.                 *)
(*                                                                         *)
(* A missing UnreadMessageCount row and a row with count 0 behave alike    *)
(* for every statement modelled here, so the row's existence is not kept.  *)
(***************************************************************************)
EXTENDS Naturals, FiniteSets

CONSTANTS
  Profile,       \* profiles that take part in chats
  Room,          \* chat rooms
  MsgId,         \* primary keys Message rows may take (a sequence never reuses one)
  Request,       \* GraphQL requests in flight
  Unsent,        \* home of a primary key not yet used
  Erased,        \* home of a message an operator has deleted
  Idle           \* state of a request that is not running

ASSUME FiniteAssumption == IsFiniteSet(MsgId)
ASSUME HomeAssumption == Unsent \notin Room /\ Erased \notin Room /\ Unsent # Erased

VARIABLES
  members,   \* members[r]: profiles with a ChatRoomParticipant row in r
  home,      \* home[m]: the room of message m, or Unsent, or Erased
  status,    \* status[m][p]: the MessageStatus row of m for p, "none" when absent
  count,     \* count[r][p]: UnreadMessageCount.count
  marked,    \* <<r, p>> pairs whose UnreadMessageCount.marked_unread is set
  req,       \* req[q]: what request q is doing
  edited     \* history: an operator has turned a read status back to unread

vars == <<members, home, status, count, marked, req, edited>>

RequestState == [stage : {"posted", "reading"}, who : Profile,
                 where : Room, cand : SUBSET MsgId]

TypeOK ==
  /\ members \in [Room -> SUBSET Profile]
  /\ home \in [MsgId -> Room \cup {Unsent, Erased}]
  /\ status \in [MsgId -> [Profile -> {"none", "unread", "read"}]]
  /\ count \in [Room -> [Profile -> Nat]]
  /\ marked \subseteq Room \X Profile
  /\ req \in [Request -> RequestState \cup {Idle}]
  /\ edited \in BOOLEAN

\* The messages of room r that p has not read: what the badge stands for.
UnreadIn(r, p) == {m \in MsgId : home[m] = r /\ status[m][p] = "unread"}

-----------------------------------------------------------------------------
(* The two triggers on MessageStatus. *)

\* increment_unread_count: an unread status was inserted in room r for each of ps.
Increment(cnt, r, ps) ==
  [cnt EXCEPT ![r] = [p \in Profile |-> IF p \in ps THEN cnt[r][p] + 1 ELSE cnt[r][p]]]

\* GREATEST(0, n - k): the row trigger applied k times.
MinusUnfloored(n, k) == n - k
FloorMinus(n, k) == IF k <= n THEN n - k ELSE 0

DecrementOncePerStatement(cnt, p, flipped) ==
  [r \in Room |-> [cnt[r] EXCEPT ![p] =
     FloorMinus(cnt[r][p], IF \E m \in flipped : home[m] = r THEN 1 ELSE 0)]]

\* decrement_unread_count: p's statuses of the messages in flipped became read.
Decrement(cnt, p, flipped) ==
  [r \in Room |-> [cnt[r] EXCEPT ![p] =
     FloorMinus(cnt[r][p], Cardinality({m \in flipped : home[m] = r}))]]

-----------------------------------------------------------------------------
Init ==
  /\ members \in [Room -> SUBSET Profile]
  /\ home = [m \in MsgId |-> Unsent]
  /\ status = [m \in MsgId |-> [p \in Profile |-> "none"]]
  /\ count = [r \in Room |-> [p \in Profile |-> 0]]
  /\ marked = {}
  /\ req = [q \in Request |-> Idle]
  /\ edited = FALSE

CreateMessageStatusCountingAuthor(m, r, author) ==
  /\ status' = [status EXCEPT ![m] = [p \in Profile |->
                  IF p \notin members[r] THEN "none"
                  ELSE IF p = author THEN "read" ELSE "unread"]]
  /\ count' = Increment(count, r, members[r])

\* The create_message_status trigger: one status per participant, read for the author.
CreateMessageStatus(m, r, author) ==
  /\ status' = [status EXCEPT ![m] = [p \in Profile |->
                  IF p \notin members[r] THEN "none"
                  ELSE IF p = author THEN "read" ELSE "unread"]]
  /\ count' = Increment(count, r, members[r] \ {author})

\* ChatRoomSendMessage up to its insert.  The permission check saw p as a
\* participant, but p's row may be gone by the time of the insert.
SendMessage(q, m, r, p) ==
  /\ req[q] = Idle
  /\ home[m] = Unsent
  /\ home' = [home EXCEPT ![m] = r]
  /\ CreateMessageStatus(m, r, p)
  /\ req' = [req EXCEPT ![q] = [stage |-> "posted", who |-> p, where |-> r, cand |-> {}]]
  /\ UNCHANGED <<members, marked, edited>>

\* A system message has no statuses: the trigger's condition is USER_MESSAGE.
SendSystemMessage(m, r) ==
  /\ home[m] = Unsent
  /\ home' = [home EXCEPT ![m] = r]
  /\ UNCHANGED <<members, status, count, marked, req, edited>>

\* ChatRoomSendMessage ends by reading the whole room as the author; unlike
\* ChatRoomReadMessages it leaves marked_unread alone.
ReadAfterSend(q) ==
  /\ req[q] # Idle
  /\ req[q].stage = "posted"
  /\ req' = [req EXCEPT ![q] = [stage |-> "reading", who |-> req[q].who, where |-> req[q].where,
                                cand |-> UnreadIn(req[q].where, req[q].who)]]
  /\ UNCHANGED <<members, home, status, count, marked, edited>>

\* Mentions or notifications raised between the insert and the trailing read.
SendFails(q) ==
  /\ req[q] # Idle
  /\ req[q].stage = "posted"
  /\ req' = [req EXCEPT ![q] = Idle]
  /\ UNCHANGED <<members, home, status, count, marked, edited>>

\* ChatRoomReadMessages for a whole room (ids empty) or for named messages, which
\* are not restricted to that room.  It clears marked_unread, then starts its
\* UPDATE on the statuses that are unread at that moment.
ReadMessages(q, r, p, ids) ==
  /\ req[q] = Idle
  /\ p \in members[r]
  /\ marked' = marked \ {<<r, p>>}
  /\ req' = [req EXCEPT ![q] =
       [stage |-> "reading", who |-> p, where |-> r,
        cand |-> IF ids = {} THEN UnreadIn(r, p)
                 ELSE {m \in ids : status[m][p] = "unread"}]]
  /\ UNCHANGED <<members, home, status, count, edited>>

FlippedUnchecked(q) == req[q].cand

\* The rows a reader's UPDATE changes once it holds their locks: READ COMMITTED
\* re-evaluates is_read = False on the latest version of each row.
Flipped(q) == {m \in req[q].cand : status[m][req[q].who] = "unread"}

\* messages_status_qs.update(is_read=True) and the row triggers it fires.
FinishRead(q) ==
  /\ req[q] # Idle
  /\ req[q].stage = "reading"
  /\ status' = [m \in MsgId |-> IF m \in Flipped(q)
                                THEN [status[m] EXCEPT ![req[q].who] = "read"]
                                ELSE status[m]]
  /\ count' = Decrement(count, req[q].who, Flipped(q))
  /\ req' = [req EXCEPT ![q] = Idle]
  /\ UNCHANGED <<members, home, marked, edited>>

\* ChatRoomUnread: update_or_create with defaults marked_unread = True.
MarkUnread(r, p) ==
  /\ p \in members[r]
  /\ marked' = marked \cup {<<r, p>>}
  /\ UNCHANGED <<members, home, status, count, req, edited>>

\* A participant row appears or goes; statuses and counters stay as they are.
Join(r, p) ==
  /\ p \notin members[r]
  /\ members' = [members EXCEPT ![r] = @ \cup {p}]
  /\ UNCHANGED <<home, status, count, marked, req, edited>>

Leave(r, p) ==
  /\ p \in members[r]
  /\ members' = [members EXCEPT ![r] = @ \ {p}]
  /\ UNCHANGED <<home, status, count, marked, req, edited>>

\* MessageAdmin deletes a Message row: its statuses cascade, and no trigger of
\* MessageStatus fires on a delete.
AdminDelete(m) ==
  /\ home[m] \in Room
  /\ home' = [home EXCEPT ![m] = Erased]
  /\ status' = [status EXCEPT ![m] = [p \in Profile |-> "none"]]
  /\ UNCHANGED <<members, count, marked, req, edited>>

\* MessageStatusInline: an operator ticks is_read of one status ...
AdminRead(m, p) ==
  /\ status[m][p] = "unread"
  /\ status' = [status EXCEPT ![m][p] = "read"]
  /\ count' = Decrement(count, p, {m})
  /\ UNCHANGED <<members, home, marked, req, edited>>

\* ... or clears it, which no trigger of MessageStatus has a case for.
AdminUnread(m, p) ==
  /\ status[m][p] = "read"
  /\ status' = [status EXCEPT ![m][p] = "unread"]
  /\ edited' = TRUE
  /\ UNCHANGED <<members, home, count, marked, req>>

Next ==
  \/ \E q \in Request, m \in MsgId, r \in Room, p \in Profile : SendMessage(q, m, r, p)
  \/ \E m \in MsgId, r \in Room : SendSystemMessage(m, r)
  \/ \E q \in Request : ReadAfterSend(q) \/ SendFails(q) \/ FinishRead(q)
  \/ \E q \in Request, r \in Room, p \in Profile, ids \in SUBSET MsgId : ReadMessages(q, r, p, ids)
  \/ \E r \in Room, p \in Profile : MarkUnread(r, p) \/ Join(r, p) \/ Leave(r, p)
  \/ \E m \in MsgId : AdminDelete(m)
  \/ \E m \in MsgId, p \in Profile : AdminRead(m, p) \/ AdminUnread(m, p)

Spec == Init /\ [][Next]_vars

-----------------------------------------------------------------------------
(* What the badge promises. *)

\* No operator has deleted a message or turned a status back to unread.
Intact == ~edited /\ \A m \in MsgId : home[m] # Erased

\* The badge of every profile in every room is the number of its unread
\* statuses there: triggers.py keeps the counter, and nothing ever recounts it.
UnreadExact ==
  Intact => \A r \in Room, p \in Profile : count[r][p] = Cardinality(UnreadIn(r, p))

\* Even after an operator has deleted messages, a badge never hides an unread
\* message: it may only be too high (no trigger runs when a status is deleted).
UnreadNeverUndercounts ==
  ~edited => \A r \in Room, p \in Profile : count[r][p] >= Cardinality(UnreadIn(r, p))

\* The abstract badge this module implements while operators keep away.
Badge == INSTANCE UnreadBadge WITH
  sent <- {m \in MsgId : home[m] # Unsent},
  unread <- [r \in Room |-> [p \in Profile |-> UnreadIn(r, p)]],
  badge <- count

BadgeVars == <<{m \in MsgId : home[m] # Unsent},
               [r \in Room |-> [p \in Profile |-> UnreadIn(r, p)]], count>>

\* While the state stays intact, every step of the triggers and mutations delivers
\* new messages, has one profile see some of its messages, or leaves badges alone.
ImplementsBadge == Badge!Init /\ [][Intact' => Badge!Next]_BadgeVars
=============================================================================
