----------------------------- MODULE ChatRooms ------------------------------
(***************************************************************************)
(* Group rooms of baseapp_chats: participant rows, roles, the denormalised *)
(* ChatRoom.participants_count and ChatRoom.last_message, and the requests *)
(* that change them at the same time.                                      *)
(*                                                                         *)
(* A request reads the rows it needs, then writes.  Reads that no write of *)
(* the request separates are one step; a transaction's writes become       *)
(* visible together when it commits.  The ChatRoom instance a request      *)
(* loaded at its start stays in its memory, and Model.save() without       *)
(* update_fields writes every column of it back.                           *)
(***************************************************************************)
EXTENDS Integers, FiniteSets, Sequences

CONSTANTS
  Room,            \* primary keys of the group rooms
  Profile,
  Request,         \* requests in flight
  Idle,            \* state of a request slot that is not in use
  Free,            \* lock value of a room row nobody has selected for update
  Ops,             \* operations clients send, among OpNames
  Edits,           \* <<add, remove>> pairs ChatRoomUpdate is called with
  Blocked,         \* sets {p, q} of profiles with a block between them
  AtomicRequests,  \* ATOMIC_REQUESTS: is a request one transaction?
  Concurrency,     \* how many requests run at once
  MaxRequests      \* bound on the requests started in a behaviour

OpNames == {"update", "add", "toggle", "send", "cleanup"}

ASSUME RoomAssumption == Room \subseteq Nat /\ IsFiniteSet(Room)
ASSUME ProfileAssumption == IsFiniteSet(Profile)
ASSUME OpsAssumption == Ops \subseteq OpNames
ASSUME EditsAssumption == Edits \subseteq (SUBSET Profile) \X (SUBSET Profile)
ASSUME ValueAssumption == Free \notin Request
ASSUME BoundAssumption == Concurrency \in Nat /\ MaxRequests \in Nat

VARIABLES
  rows,      \* ChatRoomParticipant rows
  info,      \* info[r]: the ChatRoom columns that other rows determine
  newest,    \* newest[r]: the last message inserted in r (0: none)
  lock,      \* lock[r]: the request that holds r FOR UPDATE
  req,       \* req[q]: what request q is doing
  clock,     \* time of the last bulk_create; accepted_at of new rows is later
  msgs,      \* messages inserted so far, in any room
  started    \* requests started so far

vars == <<rows, info, newest, lock, req, clock, msgs, started>>

Row == [room : Room, profile : Profile, role : {"member", "admin"}, since : Nat]
Info == [count : Int, last : Nat]

\* A request: its operation and stage, the acting profile and its arguments; the rows
\* and profiles it read and will delete (gone), insert (fresh) or change the role of
\* (chosen); the rooms it has still to notify; the room instances it has in memory.
RequestState ==
  [op : OpNames, stage : {"run", "write", "post", "save"}, who : Profile,
   rooms : SUBSET Room, add : SUBSET Profile, out : SUBSET Profile, left : BOOLEAN,
   handoff : BOOLEAN, gone : SUBSET Row, fresh : SUBSET Profile, chosen : SUBSET Row,
   todo : Seq(Room), mem : [Room -> Info]]

ASSUME IdleAssumption == Idle \notin RequestState

TypeOK ==
  /\ rows \subseteq Row
  /\ info \in [Room -> Info]
  /\ newest \in [Room -> Nat]
  /\ lock \in [Room -> Request \cup {Free}]
  /\ req \in [Request -> RequestState \cup {Idle}]
  /\ clock \in Nat /\ msgs \in Nat /\ started \in 0..MaxRequests

-----------------------------------------------------------------------------
RowsOf(r) == {x \in rows : x.room = r}
AdminsOf(r) == {x \in RowsOf(r) : x.role = "admin"}
MembersOf(r) == {x.profile : x \in RowsOf(r)}
IsAdmin(r, p) == \E x \in AdminsOf(r) : x.profile = p

Newest(S) == CHOOSE n \in S : \A k \in S : k <= n
Lowest(S) == CHOOSE n \in S : \A k \in S : n <= k

\* Rows compare by primary key, which a role change keeps.
SameRow(x, y) == x.room = y.room /\ x.profile = y.profile /\ x.since = y.since
Exists(x) == \E y \in rows : SameRow(x, y)
Without(S, T) == {x \in S : \A y \in T : ~SameRow(x, y)}
SetRole(S, x, role) == Without(S, {x}) \cup {[x EXCEPT !.role = role]}

NewRow(r, p) == [room |-> r, profile |-> p, role |-> "member", since |-> clock + 1]

\* Unique (message, profile): with two rows of one profile in r the status
\* trigger makes every user message in r fail.
HasDuplicate(r) == \E x, y \in RowsOf(r) : x # y /\ x.profile = y.profile

Unlocked(q, r) == lock[r] \in {Free, q}

\* add_profiles_to_room: the profiles of ps that the existing rows do not hold.
FreshProfilesUnchecked(existing, ps) == ps
FreshProfiles(existing, ps) == ps \ {x.profile : x \in existing}

\* The new participants_count of ChatRoomUpdate, from the one it had in memory.
AdjustedCountIgnoringRemovals(n, gone, fresh) == n + Cardinality(fresh)
AdjustedCount(n, gone, fresh) == n - Cardinality(gone) + Cardinality(fresh)

\* Who may inherit the admin role: the oldest remaining row, or nobody.
HeirsNone(handoff, stay) == {{}}
Heirs(handoff, stay) ==
  IF handoff /\ stay # {} THEN {{x} : x \in {y \in stay : \A z \in stay : y.since <= z.since}}
  ELSE {{}}

\* send_message keeps the instance in memory up to date with its own message.
WithLastForgotten(mem, r, n) == mem
WithLast(mem, r, n) == [mem EXCEPT ![r].last = n]

-----------------------------------------------------------------------------
(* Requests. *)

Blank(op, p, rs) ==
  [op |-> op, stage |-> "run", who |-> p, rooms |-> rs, add |-> {}, out |-> {}, left |-> FALSE,
   handoff |-> FALSE, gone |-> {}, fresh |-> {}, chosen |-> {}, todo |-> <<>>, mem |-> info]

\* The room of a request that has one.
TheRoom(q) == CHOOSE r \in req[q].rooms : TRUE

\* A free slot takes a new request, whose first reads give it state s.
Start(q, s) ==
  /\ req[q] = Idle
  /\ s.op \in Ops
  /\ started < MaxRequests
  /\ Cardinality({k \in Request : req[k] # Idle}) < Concurrency
  /\ started' = started + 1
  /\ req' = [req EXCEPT ![q] = s]
  /\ UNCHANGED <<rows, info, newest, lock, clock, msgs>>

At(q, op, stage) == req[q] # Idle /\ req[q].op = op /\ req[q].stage = stage

\* The request ends with an error payload or an exception, having written nothing.
GiveUp(q) ==
  /\ req' = [req EXCEPT ![q] = Idle]
  /\ lock' = [r \in Room |-> IF lock[r] = q THEN Free ELSE lock[r]]
  /\ UNCHANGED <<rows, info, newest, clock, msgs, started>>

\* The request has saved `saved` and has a system or user message to post in each
\* room of todo, with the instances mem.  In one transaction all of it commits now.
Emit(q, saved, mem, todo) ==
  IF AtomicRequests \/ todo = <<>>
  THEN LET posted == {todo[i] : i \in DOMAIN todo}
           lastOf(r) == msgs + Newest({i \in DOMAIN todo : todo[i] = r})
       IN /\ info' = [r \in Room |-> IF r \in posted THEN [mem[r] EXCEPT !.last = lastOf(r)]
                                     ELSE saved[r]]
          /\ newest' = [r \in Room |-> IF r \in posted THEN lastOf(r) ELSE newest[r]]
          /\ msgs' = msgs + Len(todo)
          /\ req' = [req EXCEPT ![q] = Idle]
  ELSE /\ info' = saved
       /\ req' = [req EXCEPT ![q].stage = "post", ![q].mem = mem, ![q].todo = todo]
       /\ UNCHANGED <<newest, msgs>>

\* send_message, first statement: the insert, whose trigger sets last_message.
Post(q) ==
  /\ req[q] # Idle /\ req[q].stage = "post"
  /\ LET r == Head(req[q].todo) IN
       /\ Unlocked(q, r)
       /\ IF req[q].op = "send" /\ HasDuplicate(r) THEN GiveUp(q)
          ELSE /\ msgs' = msgs + 1
               /\ newest' = [newest EXCEPT ![r] = msgs + 1]
               /\ info' = [info EXCEPT ![r].last = msgs + 1]
               /\ req' = [req EXCEPT ![q].stage = "save", ![q].mem = WithLast(@, r, msgs + 1)]
               /\ UNCHANGED <<rows, lock, clock, started>>

\* send_message, second statement: room.save(), every column from memory.
Save(q) ==
  /\ req[q] # Idle /\ req[q].stage = "save"
  /\ LET r == Head(req[q].todo)
         rest == Tail(req[q].todo)
     IN /\ Unlocked(q, r)
        /\ info' = [info EXCEPT ![r] = req[q].mem[r]]
        /\ req' = [req EXCEPT ![q] = IF rest = <<>> THEN Idle
                                     ELSE [@ EXCEPT !.stage = "post", !.todo = rest]]
  /\ UNCHANGED <<rows, newest, lock, clock, msgs, started>>

-----------------------------------------------------------------------------
(* ChatRoomSendMessage. *)

SendRead(q, r, p) ==
  /\ p \in MembersOf(r)
  /\ \A other \in MembersOf(r) : {p, other} \notin Blocked
  /\ Start(q, [Blank("send", p, {r}) EXCEPT !.stage = "write"])

SendWrite(q) ==
  /\ At(q, "send", "write")
  /\ LET r == TheRoom(q) IN
       /\ Unlocked(q, r)
       /\ IF HasDuplicate(r) THEN GiveUp(q)
          ELSE /\ Emit(q, info, req[q].mem, <<r>>)
               /\ UNCHANGED <<rows, lock, clock, started>>

-----------------------------------------------------------------------------
(* ChatRoomUpdate: one admin edits the participants, or one participant leaves. *)

\* The checks, on the state at the start of the request.
UpdateRead(q, r, p, add, remove) ==
  LET leaving == remove = {p} IN
  /\ \A a \in add : {p, a} \notin Blocked
  /\ p \in MembersOf(r)
  /\ (leaving /\ add = {}) \/ IsAdmin(r, p)
  /\ Start(q, [Blank("update", p, {r}) EXCEPT
                 !.add = add, !.out = remove, !.left = leaving,
                 !.handoff = leaving /\ IsAdmin(r, p) /\ Cardinality(AdminsOf(r)) = 1])

\* Inside transaction.atomic(), the reads: which rows go, who inherits the admin
\* role, and which of the added profiles are not participants yet.
UpdateTransaction(q) ==
  /\ At(q, "update", "run")
  /\ LET r == TheRoom(q)
         gone == {x \in RowsOf(r) : x.profile \in req[q].out}
         stay == RowsOf(r) \ gone
     IN \E heir \in Heirs(req[q].handoff, stay) :
          req' = [req EXCEPT ![q].stage = "write", ![q].gone = gone, ![q].chosen = heir,
                             ![q].fresh = FreshProfiles(stay, req[q].add)]
  /\ UNCHANGED <<rows, info, newest, lock, clock, msgs, started>>

\* Its writes and commit, then the system messages.  The count comes from the
\* instance loaded at the start; saving the heir fails when its row is gone.
UpdateWrite(q) ==
  /\ At(q, "update", "write")
  /\ LET r == TheRoom(q)
         gone == req[q].gone
         fresh == req[q].fresh
         mem == [req[q].mem EXCEPT ![r].count = AdjustedCount(@, gone, fresh)]
         notices == Cardinality(fresh) + IF req[q].left THEN 1 ELSE Cardinality(gone)
     IN /\ Unlocked(q, r)
        /\ IF \E x \in req[q].chosen : ~Exists(x) THEN GiveUp(q)
           ELSE /\ rows' = (Without(rows, gone \cup req[q].chosen)
                              \cup {[x EXCEPT !.role = "admin"] : x \in req[q].chosen})
                             \cup {NewRow(r, p) : p \in fresh}
                /\ clock' = clock + 1
                /\ Emit(q, [info EXCEPT ![r] = mem[r]], mem, [i \in 1..notices |-> r])
                /\ UNCHANGED <<lock, started>>

-----------------------------------------------------------------------------
(* ChatRoomsAddParticipant: one profile into several rooms, all or nothing. *)

AddRead(q, rs, p, newcomer) ==
  /\ rs # {}
  /\ {p, newcomer} \notin Blocked
  /\ Start(q, [Blank("add", p, rs) EXCEPT !.add = {newcomer}])

\* select_for_update().order_by("pk"): the room rows are locked one by one, lowest
\* key first, and each is read as it is when its lock is granted.
AnyToLock(q) == {r \in req[q].rooms : lock[r] # q}
NextToLock(q) == {r \in AnyToLock(q) : r = Lowest(AnyToLock(q))}

\* READ COMMITTED re-reads a row after waiting for its lock.
InstanceFromStart(q, r) == req[q].mem[r]
LockedInstance(q, r) == info[r]

LockFree(r) == lock[r] = Free

AddLock(q) ==
  /\ At(q, "add", "run")
  /\ \E r \in NextToLock(q) :
       /\ LockFree(r)
       /\ lock' = [lock EXCEPT ![r] = q]
       /\ req' = [req EXCEPT ![q].mem[r] = LockedInstance(q, r)]
  /\ UNCHANGED <<rows, info, newest, clock, msgs, started>>

\* Under the locks, for every room before any write: the permission check, and
\* which rooms the profile is not in yet (they are notified in request order).
AddCheck(q) ==
  /\ At(q, "add", "run")
  /\ \A r \in req[q].rooms : lock[r] = q
  /\ IF \A r \in req[q].rooms : IsAdmin(r, req[q].who)
     THEN LET into == {r \in req[q].rooms : FreshProfiles(RowsOf(r), req[q].add) # {}} IN
          /\ \E order \in [1..Cardinality(into) -> into] :
               /\ \A r \in into : \E i \in DOMAIN order : order[i] = r
               /\ req' = [req EXCEPT ![q].stage = "write", ![q].todo = order]
          /\ UNCHANGED <<rows, info, newest, lock, clock, msgs, started>>
     ELSE GiveUp(q)

\* Insert where missing, save participants_count, commit; then notify.
AddWrite(q) ==
  /\ At(q, "add", "write")
  /\ LET into == {req[q].todo[i] : i \in DOMAIN req[q].todo}
         mem == [r \in Room |-> IF r \in into THEN [req[q].mem[r] EXCEPT !.count = @ + 1]
                                ELSE req[q].mem[r]]
         saved == [r \in Room |-> IF r \in into THEN [info[r] EXCEPT !.count = mem[r].count]
                                  ELSE info[r]]
     IN /\ rows' = rows \cup UNION {{NewRow(r, p) : p \in req[q].add} : r \in into}
        /\ Emit(q, saved, mem, req[q].todo)
  /\ clock' = clock + 1
  /\ lock' = [r \in Room |-> IF lock[r] = q THEN Free ELSE lock[r]]
  /\ UNCHANGED started

\* A notification of one room raised: it is logged and the next room goes on.
AddNoticeFails(q) ==
  /\ At(q, "add", "post")
  /\ LET rest == Tail(req[q].todo) IN
       req' = [req EXCEPT ![q] = IF rest = <<>> THEN Idle ELSE [@ EXCEPT !.todo = rest]]
  /\ UNCHANGED <<rows, info, newest, lock, clock, msgs, started>>

-----------------------------------------------------------------------------
(* ChatRoomToggleAdmin. *)

\* The reads: permission, the target's role, and the number of admins when the
\* target is one.  FOR UPDATE is dropped from a count(), so nothing is locked.
ToggleRead(q, r, p, x) ==
  /\ IsAdmin(r, p)
  /\ x \in RowsOf(r)
  /\ x.role = "admin" => Cardinality(AdminsOf(r)) > 1
  /\ Start(q, [Blank("toggle", p, {r}) EXCEPT !.stage = "write", !.chosen = {x}])

ToggleWrite(q) ==
  /\ At(q, "toggle", "write")
  /\ \E x \in req[q].chosen :
       IF ~Exists(x) THEN GiveUp(q)
       ELSE LET promote == x.role = "member" IN
            /\ \A r \in req[q].rooms : promote => Unlocked(q, r)
            /\ rows' = SetRole(rows, x, IF promote THEN "admin" ELSE "member")
            /\ Emit(q, info, req[q].mem, IF promote THEN <<x.room>> ELSE <<>>)
            /\ UNCHANGED <<lock, clock, started>>

-----------------------------------------------------------------------------
(* ChatsParticipationService.cleanup_user_participation, one transaction. *)

\* The rows of the user's profile go, and each room they were in is recounted.
CleanupRead(q, p) ==
  LET gone == {x \in rows : x.profile = p}
      rs == {x.room : x \in gone}
      recount(r) == Cardinality(RowsOf(r) \ gone)
  IN Start(q, [Blank("cleanup", p, rs) EXCEPT !.stage = "write", !.gone = gone,
                 !.mem = [r \in Room |-> [info[r] EXCEPT !.count = recount(r)]]])

\* room.save(update_fields=["participants_count"]) for each, and the commit.
CleanupWrite(q) ==
  /\ At(q, "cleanup", "write")
  /\ \A r \in req[q].rooms : Unlocked(q, r)
  /\ rows' = Without(rows, req[q].gone)
  /\ info' = [r \in Room |-> IF r \in req[q].rooms
                             THEN [info[r] EXCEPT !.count = req[q].mem[r].count] ELSE info[r]]
  /\ req' = [req EXCEPT ![q] = Idle]
  /\ UNCHANGED <<newest, lock, clock, msgs, started>>

-----------------------------------------------------------------------------
\* Rooms as ChatRoomCreate leaves them: the creator is the admin and, appended
\* last, the youngest row; the count is the number of rows; no message yet.
NewRoomRows(r, founder, guests) ==
  {[room |-> r, profile |-> g, role |-> "member", since |-> 0] : g \in guests}
    \cup {[room |-> r, profile |-> founder, role |-> "admin", since |-> 1]}

Init ==
  /\ \E founder \in [Room -> Profile], guests \in [Room -> SUBSET Profile] :
       /\ \A r \in Room : guests[r] # {} /\ founder[r] \notin guests[r]
       /\ rows = UNION {NewRoomRows(r, founder[r], guests[r]) : r \in Room}
       /\ info = [r \in Room |-> [count |-> Cardinality(guests[r]) + 1, last |-> 0]]
  /\ newest = [r \in Room |-> 0]
  /\ lock = [r \in Room |-> Free]
  /\ req = [q \in Request |-> Idle]
  /\ clock = 1 /\ msgs = 0 /\ started = 0

Begin(q) ==
  \/ \E r \in Room, p \in Profile : SendRead(q, r, p)
  \/ \E r \in Room, p \in Profile, e \in Edits : UpdateRead(q, r, p, e[1], e[2])
  \/ \E rs \in SUBSET Room, p, newcomer \in Profile : AddRead(q, rs, p, newcomer)
  \/ \E r \in Room, p \in Profile, x \in rows : ToggleRead(q, r, p, x)
  \/ \E p \in Profile : CleanupRead(q, p)

Continue(q) ==
  \/ SendWrite(q)
  \/ UpdateTransaction(q) \/ UpdateWrite(q)
  \/ AddLock(q) \/ AddCheck(q) \/ AddWrite(q) \/ AddNoticeFails(q)
  \/ ToggleWrite(q)
  \/ CleanupWrite(q)
  \/ Post(q) \/ Save(q)

Next == \E q \in Request : Begin(q) \/ Continue(q)

Spec == Init /\ [][Next]_vars

\* A server process runs its request to the end, and a row lock that keeps being
\* released is granted to each of its waiters in turn.
Fairness == \A q \in Request : SF_vars(Continue(q))

-----------------------------------------------------------------------------
(* What the rooms promise. *)

\* A profile has at most one participant row in a room: there is no constraint in
\* the database, only the check before the insert in add_profiles_to_room.
NoDuplicates == \A r \in Room : ~HasDuplicate(r)

\* The state of serial requests is well typed, and nobody is in a room twice.
TypedAndUnique == TypeOK /\ NoDuplicates

\* participants_count is the number of participants.  It is adjusted from an
\* in-memory instance by three mutations and recounted by the cleanup.
CountExact == \A r \in Room : info[r].count = Cardinality(RowsOf(r))

\* Overlapping adds neither duplicate a participant nor lose one from the count.
AddsExact == NoDuplicates /\ CountExact

\* last_message is the message inserted last: the trigger sets it, and a later save
\* of a stale instance must not set it back.
LastMessageNewest == \A r \in Room : info[r].last = newest[r]

\* A room with participants has an admin, who alone can add, remove and promote.
AdminRemains == \A r \in Room : RowsOf(r) # {} => AdminsOf(r) # {}

\* No request takes the last admin from a room that keeps participants, except the
\* cleanup of a deleted user, which deletes rows without looking at their role.
AdminKept ==
  [][\A r \in Room : AdminsOf(r) # {} /\ RowsOf(r)' # {}
       => \/ AdminsOf(r)' # {}
          \/ \E q \in Request : At(q, "cleanup", "write") /\ req'[q] = Idle]_vars

\* A request of several rooms that ends has waited for its locks and got them all.
AddsEnd == \A q \in Request :
  (req[q] # Idle /\ req[q].op = "add") ~> (req[q] = Idle \/ req[q].op # "add")
=============================================================================
