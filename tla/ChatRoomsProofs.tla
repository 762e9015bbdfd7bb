--------------------------- MODULE ChatRoomsProofs ---------------------------
(***************************************************************************)
(* What is proved of the group rooms, for any number of rooms, profiles    *)
(* and requests.                                                           *)
(*                                                                         *)
(* Overlapping adds (OnlyAdds): what a request has read of a room it holds *)
(* locked is still true when it writes (Holds), because nobody writes a    *)
(* room whose lock another request holds; so no profile is added twice and *)
(* no increment of participants_count is lost.                             *)
(*                                                                         *)
(* Any mix of requests: rows, locks and requests keep their types (Typed). *)
(*                                                                         *)
(* One request at a time (OneAtATime), of every kind: what the request has *)
(* read is still what the database holds (Serial, Knows), up to its last   *)
(* save; so participants stay unique, the count and last_message stay      *)
(* exact, and an admin remains when edits are plain (PlainEdits).          *)
(***************************************************************************)
EXTENDS ChatRooms, FiniteSetTheorems, WellFoundedInduction, TLAPS

\* The setting of the theorems.
OnlyAdds == Ops = {"add"} /\ AtomicRequests

\* What request q, which is adding a profile, may rely on.
Holds(q) ==
  /\ req[q].op = "add" /\ req[q].stage \in {"run", "write"}
  /\ \E p \in Profile : req[q].add = {p}
  /\ \A r \in Room : lock[r] = q => r \in req[q].rooms /\ req[q].mem[r] = info[r]
  /\ req[q].stage = "write" =>
       \A i \in DOMAIN req[q].todo : /\ lock[req[q].todo[i]] = q
                                     /\ MembersOf(req[q].todo[i]) \cap req[q].add = {}

LockDiscipline ==
  \A q \in Request : IF req[q] = Idle THEN \A r \in Room : lock[r] # q ELSE Holds(q)

\* The inductive invariant.
Inv ==
  /\ TypeOK
  /\ \A r \in Room : IsFiniteSet(RowsOf(r))
  /\ LockDiscipline
  /\ NoDuplicates
  /\ CountExact

-----------------------------------------------------------------------------
(* Arithmetic. *)

\* A non-empty set of naturals has a least element.
LEMMA LeastExists ==
  ASSUME NEW S \in SUBSET Nat, S # {}
  PROVE  \E n \in S : \A k \in S : n <= k
<1> DEFINE R == OpToRel(<, Nat)
<1>1. PICK n \in S : \A k \in S : ~(<<k, n>> \in R)
  BY NatLessThanWellFounded, WFMin
<1>2. R = {ss \in Nat \X Nat : ss[1] < ss[2]}
  BY Zenon DEF OpToRel
<1>3. \A k \in S : k < n => <<k, n>> \in R
  <2> HIDE DEF R
  <2> QED BY <1>2
<1> HIDE DEF R
<1>4. \A k \in S : ~(k < n)
  BY <1>1, <1>3, Zenon
<1> QED
  <2>1. n \in Nat /\ \A k \in S : k \in Nat
    OBVIOUS
  <2> QED BY <1>4, <2>1

\* Newest returns the greatest element of a bounded non-empty set of naturals.
LEMMA NewestIsGreatest ==
  ASSUME NEW N \in Nat, NEW S \in SUBSET (0..N), S # {}
  PROVE  Newest(S) \in S /\ \A k \in S : k <= Newest(S)
<1> DEFINE T == {N - k : k \in S}
<1>1. T \in SUBSET Nat /\ T # {}
  <2>1. \A k \in S : k \in Nat /\ N - k \in Nat
    OBVIOUS
  <2>2. PICK k \in S : TRUE
    OBVIOUS
  <2> QED BY <2>1, <2>2, N - k \in T
<1>2. PICK n \in T : \A k \in T : n <= k
  BY <1>1, LeastExists
<1>3. N - n \in S /\ \A k \in S : k <= N - n
  BY <1>2
<1> QED BY <1>3 DEF Newest

-----------------------------------------------------------------------------
(* The initial state. *)

\* The rows of a new room are as many as its guests, and the founder's.
LEMMA NewRoom ==
  ASSUME NEW r \in Room, NEW G \in SUBSET Profile, NEW f \in Profile, f \notin G,
         NEW S, S = NewRoomRows(r, f, G)
  PROVE  IsFiniteSet(S) /\ Cardinality(S) = Cardinality(G) + 1
<1> DEFINE row(g) == [room |-> r, profile |-> g, role |-> "member", since |-> 0]
           T == {row(g) : g \in G}
           F == [g \in G |-> row(g)]
           a == [room |-> r, profile |-> f, role |-> "admin", since |-> 1]
<1>1. IsFiniteSet(G)
  BY FS_Subset, ProfileAssumption
<1>2. ExistsBijection(G, T)
  <2>1. \A g, h \in G : row(g) = row(h) => g = h
    OBVIOUS
  <2>2. F \in Bijection(G, T)
    BY <2>1 DEF Bijection, Injection, Surjection, IsInjective
  <2> QED BY <2>2 DEF ExistsBijection
<1>3. IsFiniteSet(T) /\ Cardinality(T) = Cardinality(G)
  <2> HIDE DEF T
  <2> QED BY <1>1, <1>2, FS_Bijection
<1>4. a \notin T
  OBVIOUS
<1>5. S = T \cup {a}
  BY Zenon DEF NewRoomRows
<1> HIDE DEF T, a
<1>6. IsFiniteSet(T \cup {a}) /\ Cardinality(T \cup {a}) = Cardinality(T) + 1
  BY <1>3, <1>4, FS_AddElement
<1> QED BY ONLY <1>3, <1>5, <1>6

\* At the start nobody holds a lock and the counts are those of the new rooms.
LEMMA InvInit == Init => Inv
<1> SUFFICES ASSUME Init PROVE Inv
  OBVIOUS
<1>1. PICK founder \in [Room -> Profile], guests \in [Room -> SUBSET Profile] :
        /\ \A r \in Room : guests[r] # {} /\ founder[r] \notin guests[r]
        /\ rows = UNION {NewRoomRows(r, founder[r], guests[r]) : r \in Room}
        /\ info = [r \in Room |-> [count |-> Cardinality(guests[r]) + 1, last |-> 0]]
  BY DEF Init
<1> DEFINE new(r) == NewRoomRows(r, founder[r], guests[r])
<1>2. \A r \in Room : RowsOf(r) = new(r)
  <2>1. \A r \in Room : \A x \in new(r) : x.room = r
    BY DEF NewRoomRows
  <2> QED BY <1>1, <2>1 DEF RowsOf
<1>3. \A r \in Room : /\ IsFiniteSet(RowsOf(r))
                      /\ Cardinality(RowsOf(r)) = Cardinality(guests[r]) + 1
  BY <1>1, <1>2, NewRoom
<1>4. \A r \in Room : Cardinality(guests[r]) \in Nat
  <2> SUFFICES ASSUME NEW r \in Room PROVE Cardinality(guests[r]) \in Nat
    OBVIOUS
  <2>1. IsFiniteSet(guests[r])
    BY <1>1, FS_Subset, ProfileAssumption
  <2> QED BY <2>1, FS_CardinalityType
<1>5. TypeOK
  <2>1. rows \subseteq Row
    <3>1. \A r \in Room : new(r) \subseteq Row
      BY <1>1 DEF Row, NewRoomRows
    <3> QED BY <1>1, <3>1
  <2>2. info \in [Room -> Info]
    BY <1>1, <1>4 DEF Info
  <2> QED BY <2>1, <2>2, BoundAssumption DEF Init, TypeOK
<1>6. CountExact
  BY <1>1, <1>3 DEF CountExact
<1>7. NoDuplicates
  BY <1>1, <1>2 DEF NoDuplicates, HasDuplicate, NewRoomRows
<1>8. LockDiscipline
  BY ValueAssumption DEF Init, LockDiscipline
<1> QED BY <1>3, <1>5, <1>6, <1>7, <1>8 DEF Inv

-----------------------------------------------------------------------------
(* The steps. *)

\* While adds are the only requests, these are the only steps.
LEMMA OnlyAddSteps ==
  ASSUME OnlyAdds, Inv, Next
  PROVE  \E q \in Request :
           \/ \E rs \in SUBSET Room, p, newcomer \in Profile : AddRead(q, rs, p, newcomer)
           \/ AddLock(q) \/ AddCheck(q) \/ AddWrite(q)
<1>1. PICK q \in Request : Begin(q) \/ Continue(q)
  BY DEF Next
<1>2. CASE Begin(q)
  BY <1>1, <1>2 DEF Begin, SendRead, UpdateRead, ToggleRead, CleanupRead, Start, Blank, OnlyAdds
<1>3. CASE Continue(q)
  <2>1. req[q] # Idle => req[q].op = "add" /\ req[q].stage \in {"run", "write"}
    BY DEF Inv, LockDiscipline, Holds
  <2> QED
    BY <1>3, <2>1 DEF Continue, SendWrite, UpdateTransaction, UpdateWrite, AddNoticeFails,
       ToggleWrite, CleanupWrite, Post, Save, At
<1> QED BY <1>1, <1>2, <1>3

\* A step that leaves rows and info alone and gives no lock of another request
\* away keeps what the other requests hold.
LEMMA OthersHold ==
  ASSUME LockDiscipline, NEW q \in Request,
         UNCHANGED <<rows, info>>,
         \A k \in Request \ {q} : req'[k] = req[k],
         TypeOK,
         \A r \in Room : \A k \in Request \ {q} : lock'[r] = k <=> lock[r] = k
  PROVE  \A k \in Request \ {q} :
           IF req'[k] = Idle THEN \A r \in Room : lock'[r] # k ELSE Holds(k)'
<1> SUFFICES ASSUME NEW k \in Request \ {q}, req[k] # Idle PROVE Holds(k)'
  BY DEF LockDiscipline
<1>1. Holds(k)
  BY DEF LockDiscipline
<1>2. req[k].todo \in Seq(Room)
  BY DEF TypeOK, RequestState
<1>3. \A i \in DOMAIN req[k].todo : req[k].todo[i] \in Room
  BY <1>2
<1>4. \A r \in Room : MembersOf(r)' = MembersOf(r)
  BY DEF MembersOf, RowsOf
<1> QED BY <1>1, <1>3, <1>4 DEF Holds

\* Rows and counts that do not change stay unique and exact.
LEMMA SameRows ==
  ASSUME Inv, UNCHANGED <<rows, info>>, TypeOK', LockDiscipline'
  PROVE  Inv'
BY DEF Inv, NoDuplicates, HasDuplicate, CountExact, RowsOf

\* The lookup of the room reads nothing that a later step relies on.
LEMMA AddReadStep ==
  ASSUME Inv, NEW q \in Request, NEW rs \in SUBSET Room, NEW p \in Profile,
         NEW newcomer \in Profile, AddRead(q, rs, p, newcomer)
  PROVE  Inv'
<1> DEFINE b == Blank("add", p, rs)
           s == [b EXCEPT !.add = {newcomer}]
<1>1. s \in RequestState /\ s.op = "add" /\ s.stage = "run" /\ s.add = {newcomer}
  <2>1. <<>> \in Seq(Room) /\ info \in [Room -> Info]
    BY DEF Inv, TypeOK
  <2>2. b \in RequestState /\ b.op = "add" /\ b.stage = "run"
    BY <2>1 DEF Blank, RequestState, OpNames
  <2> HIDE DEF b
  <2>3. {newcomer} \in SUBSET Profile
    OBVIOUS
  <2> QED BY <2>2, <2>3 DEF RequestState
<1>2. /\ req[q] = Idle /\ started < MaxRequests /\ started' = started + 1
      /\ req' = [req EXCEPT ![q] = s]
      /\ UNCHANGED <<rows, info, newest, lock, clock, msgs>>
  BY DEF AddRead, Start
<1> HIDE DEF s
<1>3. TypeOK'
  BY <1>1, <1>2, BoundAssumption DEF Inv, TypeOK
<1>4. req'[q] = s /\ \A k \in Request \ {q} : req'[k] = req[k]
  BY <1>2 DEF Inv, TypeOK
<1>5. LockDiscipline'
  <2>1. Holds(q)'
    <3>1. \A r \in Room : lock'[r] # q
      BY <1>2 DEF Inv, LockDiscipline
    <3> QED BY <1>1, <1>4, <3>1 DEF Holds
  <2>2. req'[q] # Idle
    BY <1>1, <1>4, IdleAssumption
  <2> QED BY <1>2, <1>4, <2>1, <2>2, OthersHold DEF Inv, LockDiscipline
<1> QED BY <1>2, <1>3, <1>5, SameRows

\* A request that takes the next room lock is the only holder of that room.
LEMMA AddLockStep ==
  ASSUME Inv, NEW q \in Request, AddLock(q)
  PROVE  Inv'
<1>1. PICK r \in Room :
        /\ lock[r] = Free /\ lock' = [lock EXCEPT ![r] = q]
        /\ r \in req[q].rooms
        /\ req' = [req EXCEPT ![q].mem[r] = info[r]]
  BY DEF AddLock, NextToLock, AnyToLock, LockFree, LockedInstance, Inv, TypeOK, RequestState, At
<1>2. req[q] # Idle /\ req[q].op = "add" /\ req[q].stage = "run"
      /\ UNCHANGED <<rows, info, newest, clock, msgs, started>>
  BY DEF AddLock, At
<1>3. req[q] \in RequestState
  BY <1>2 DEF Inv, TypeOK
<1>4. /\ req'[q] = [req[q] EXCEPT !.mem = [req[q].mem EXCEPT ![r] = info[r]]]
      /\ \A k \in Request \ {q} : req'[k] = req[k]
  BY <1>1 DEF Inv, TypeOK
<1>5. [req[q].mem EXCEPT ![r] = info[r]] \in [Room -> Info]
  BY <1>3 DEF RequestState, Inv, TypeOK
<1>6. req'[q] \in RequestState /\ req'[q] # Idle
  <2> DEFINE m == [req[q].mem EXCEPT ![r] = info[r]]
  <2>1. \A n \in [Room -> Info] : [req[q] EXCEPT !.mem = n] \in RequestState
    BY <1>3 DEF RequestState
  <2> QED BY <1>4, <1>5, <2>1, IdleAssumption
<1>7. TypeOK'
  BY <1>1, <1>2, <1>6 DEF Inv, TypeOK
<1>8. LockDiscipline'
  <2>1. Holds(q)'
    <3>1. \A x \in Room : lock'[x] = q => x \in req[q].rooms /\ (x # r => req[q].mem[x] = info[x])
      BY <1>1, <1>2 DEF Inv, TypeOK, LockDiscipline, Holds
    <3>2. /\ req'[q].op = "add" /\ req'[q].stage = "run" /\ req'[q].add = req[q].add
          /\ req'[q].rooms = req[q].rooms
          /\ req'[q].mem = [req[q].mem EXCEPT ![r] = info[r]]
      BY <1>2, <1>3, <1>4 DEF RequestState
    <3>3. \A x \in Room : req'[q].mem[x] = IF x = r THEN info[r] ELSE req[q].mem[x]
      BY <1>3, <3>2 DEF RequestState
    <3> QED BY <1>2, <3>1, <3>2, <3>3 DEF Holds, Inv, LockDiscipline
  <2>2. \A x : \A k \in Request \ {q} : lock'[x] = k <=> lock[x] = k
    BY <1>1, ValueAssumption DEF Inv, TypeOK
  <2> QED BY <1>2, <1>4, <1>6, <2>1, <2>2, OthersHold DEF Inv, LockDiscipline
<1> QED BY <1>2, <1>7, <1>8, SameRows

\* A request that ends without writing releases its locks.
LEMMA GiveUpStep ==
  ASSUME Inv, NEW q \in Request, GiveUp(q)
  PROVE  Inv'
<1>1. req'[q] = Idle /\ \A k \in Request \ {q} : req'[k] = req[k]
  BY DEF GiveUp, Inv, TypeOK
<1>2. \A r \in Room : lock'[r] # q
  BY ValueAssumption DEF GiveUp
<1>3. \A r \in Room : \A k \in Request \ {q} : lock'[r] = k <=> lock[r] = k
  BY ValueAssumption DEF GiveUp
<1>4. TypeOK'
  BY DEF GiveUp, Inv, TypeOK
<1>5. LockDiscipline'
  BY <1>1, <1>2, <1>3, OthersHold DEF GiveUp, Inv, LockDiscipline
<1> QED BY <1>4, <1>5, SameRows DEF GiveUp

\* Under the locks, the profiles found missing are exactly the missing ones.
LEMMA AddCheckStep ==
  ASSUME Inv, NEW q \in Request, AddCheck(q)
  PROVE  Inv'
<1> SUFFICES ASSUME ~GiveUp(q) PROVE Inv'
  BY GiveUpStep
<1> DEFINE into == {r \in req[q].rooms : FreshProfiles(RowsOf(r), req[q].add) # {}}
<1>1. /\ req[q] # Idle /\ req[q].op = "add" /\ req[q].stage = "run"
      /\ \A r \in req[q].rooms : lock[r] = q
  BY DEF AddCheck, At
<1>2. PICK order \in [1..Cardinality(into) -> into] :
        req' = [req EXCEPT ![q].stage = "write", ![q].todo = order]
  BY DEF AddCheck
<1>3. UNCHANGED <<rows, info, newest, lock, clock, msgs, started>>
  BY DEF AddCheck
<1>4. req[q] \in RequestState /\ req[q].rooms \in SUBSET Room
  BY <1>1 DEF Inv, TypeOK, RequestState
<1>5. order \in Seq(Room)
  <2>1. into \subseteq Room
    BY <1>4
  <2>2. Cardinality(into) \in Nat
    BY <2>1, RoomAssumption, FS_Subset, FS_CardinalityType
  <2>3. \A n \in Nat : \A f \in [1..n -> Room] : f \in Seq(Room)
    OBVIOUS
  <2> HIDE DEF into
  <2>4. order \in [1..Cardinality(into) -> Room]
    BY <2>1
  <2> QED BY <2>2, <2>3, <2>4
<1>6. PICK p \in Profile : req[q].add = {p}
  BY <1>1 DEF Inv, LockDiscipline, Holds
<1>7. \A r \in into : lock[r] = q /\ MembersOf(r) \cap req[q].add = {}
  BY <1>1, <1>6 DEF FreshProfiles, MembersOf
<1>8. \A i \in DOMAIN order : order[i] \in into
  OBVIOUS
<1> HIDE DEF into
<1> DEFINE s == [[req[q] EXCEPT !.stage = "write"] EXCEPT !.todo = order]
<1>9. req'[q] = s /\ \A k \in Request \ {q} : req'[k] = req[k]
  BY <1>2 DEF Inv, TypeOK
<1>10. /\ s \in RequestState
       /\ s.op = "add" /\ s.stage = "write" /\ s.add = req[q].add /\ s.rooms = req[q].rooms
       /\ s.mem = req[q].mem /\ s.todo = order
  BY <1>1, <1>4, <1>5 DEF RequestState
<1> HIDE DEF s
<1>11. TypeOK'
  BY <1>2, <1>3, <1>9, <1>10 DEF Inv, TypeOK
<1>12. LockDiscipline'
  <2>1. Holds(q)
    BY <1>1 DEF Inv, LockDiscipline
  <2>2. \A r : MembersOf(r)' = MembersOf(r)
    BY <1>3 DEF MembersOf, RowsOf
  <2>3. Holds(q)'
    BY <1>3, <1>7, <1>8, <1>9, <1>10, <2>1, <2>2 DEF Holds
  <2>4. req'[q] # Idle
    BY <1>9, <1>10, IdleAssumption
  <2> QED BY <1>3, <1>9, <2>3, <2>4, OthersHold DEF Inv, LockDiscipline
<1> QED BY <1>3, <1>11, <1>12, SameRows

\* What the write and commit of an add do to the rows and the count of each room:
\* one row and one increment where the profile is missing, nothing elsewhere.
LEMMA AddWriteEffect ==
  ASSUME OnlyAdds, Inv, NEW q \in Request, AddWrite(q),
         NEW p \in Profile, req[q].add = {p}
  PROVE  LET into == {req[q].todo[i] : i \in DOMAIN req[q].todo} IN
         /\ into \subseteq Room
         /\ rows' = rows \cup {NewRow(r, p) : r \in into}
         /\ info' \in [Room -> Info]
         /\ \A r \in Room : info'[r].count = IF r \in into THEN info[r].count + 1 ELSE info[r].count
         /\ \A r \in Room \ into : info'[r] = info[r]
         /\ newest' \in [Room -> Nat] /\ msgs' \in Nat
         /\ req' = [req EXCEPT ![q] = Idle]
<1> DEFINE into == {req[q].todo[i] : i \in DOMAIN req[q].todo}
           todo == req[q].todo
           mem == [r \in Room |-> IF r \in into THEN [req[q].mem[r] EXCEPT !.count = @ + 1]
                                  ELSE req[q].mem[r]]
           saved == [r \in Room |-> IF r \in into THEN [info[r] EXCEPT !.count = mem[r].count]
                                    ELSE info[r]]
           lastOf(r) == msgs + Newest({i \in DOMAIN todo : todo[i] = r})
<1>1. req[q] \in RequestState /\ todo \in Seq(Room) /\ req[q].mem \in [Room -> Info]
  BY DEF AddWrite, At, Inv, TypeOK, RequestState
<1>2. into \subseteq Room
  BY <1>1
<1>3. \A r \in into : req[q].mem[r] = info[r]
  BY <1>2 DEF AddWrite, At, Inv, LockDiscipline, Holds
<1>4. rows' = rows \cup {NewRow(r, p) : r \in into}
  <2>1. rows' = rows \cup UNION {{NewRow(r, n) : n \in req[q].add} : r \in into}
    BY DEF AddWrite
  <2>2. \A r : {NewRow(r, n) : n \in req[q].add} = {NewRow(r, p)}
    OBVIOUS
  <2> HIDE DEF into
  <2> QED BY <2>1, <2>2
<1>5. Emit(q, saved, mem, todo)
  BY DEF AddWrite
<1>6. /\ info' = [r \in Room |-> IF r \in into THEN [mem[r] EXCEPT !.last = lastOf(r)] ELSE saved[r]]
      /\ newest' = [r \in Room |-> IF r \in into THEN lastOf(r) ELSE newest[r]]
      /\ msgs' = msgs + Len(todo)
      /\ req' = [req EXCEPT ![q] = Idle]
  <2> HIDE DEF mem, saved
  <2> QED BY <1>5, Zenon DEF Emit, OnlyAdds
<1>7. \A r \in into : lastOf(r) \in Nat
  <2> SUFFICES ASSUME NEW r \in into PROVE lastOf(r) \in Nat
    OBVIOUS
  <2> DEFINE S == {i \in DOMAIN todo : todo[i] = r}
  <2>1. Len(todo) \in Nat /\ DOMAIN todo = 1..Len(todo)
    BY <1>1
  <2>2. S \in SUBSET (0..Len(todo)) /\ S # {}
    BY <2>1
  <2>3. Newest(S) \in S
    BY <2>1, <2>2, NewestIsGreatest
  <2>4. Newest(S) \in Nat /\ msgs \in Nat
    BY <2>1, <2>3 DEF Inv, TypeOK
  <2> QED BY <2>4
<1>8. \A r \in into : mem[r] = [info[r] EXCEPT !.count = @ + 1]
  BY <1>2, <1>3
<1>9. \A r \in Room \ into : saved[r] = info[r]
  OBVIOUS
<1>10. info \in [Room -> Info] /\ newest \in [Room -> Nat] /\ msgs \in Nat /\ Len(todo) \in Nat
  BY <1>1 DEF Inv, TypeOK
<1> HIDE DEF into, todo, mem, saved, lastOf
<1>11. \A r \in into : /\ [mem[r] EXCEPT !.last = lastOf(r)] \in Info
                         /\ [mem[r] EXCEPT !.last = lastOf(r)].count = info[r].count + 1
  <2>1. \A x \in Info : [x EXCEPT !.count = @ + 1] \in Info /\ [x EXCEPT !.count = @ + 1].count = x.count + 1
    BY DEF Info
  <2>2. \A x \in Info : \A n \in Nat : [x EXCEPT !.last = n] \in Info /\ [x EXCEPT !.last = n].count = x.count
    BY DEF Info
  <2>3. \A r \in into : mem[r] \in Info /\ mem[r].count = info[r].count + 1
    BY <1>2, <1>8, <1>10, <2>1
  <2> QED BY <1>7, <2>2, <2>3
<1>12. \A r \in into : info'[r] = [mem[r] EXCEPT !.last = lastOf(r)]
  BY <1>2, <1>6
<1>13. \A r \in Room \ into : info'[r] = info[r]
  BY <1>6, <1>9
<1>14. newest' \in [Room -> Nat] /\ msgs' \in Nat
  BY <1>6, <1>7, <1>10
<1>15. info' \in [Room -> Info]
  <2>1. \A r \in Room : info'[r] \in Info
    <3>1. \A r \in Room \ into : info'[r] \in Info
      BY <1>10, <1>13
    <3>2. \A r \in into : info'[r] \in Info
      BY <1>11, <1>12
    <3> QED BY <3>1, <3>2
  <2>2. info' = [r \in Room |-> info'[r]]
    BY <1>6
  <2> QED BY <2>1, <2>2
<1>16. \A r \in Room : info'[r].count = IF r \in into THEN info[r].count + 1 ELSE info[r].count
  BY <1>11, <1>12, <1>13
<1>17. req' = [req EXCEPT ![q] = Idle]
  BY <1>6
<1> QED BY <1>2, <1>4, <1>13, <1>14, <1>15, <1>16, <1>17, Zenon DEF into

\* The write inserts each missing profile once and counts it once.
LEMMA AddWriteStep ==
  ASSUME OnlyAdds, Inv, NEW q \in Request, AddWrite(q)
  PROVE  Inv'
<1> DEFINE into == {req[q].todo[i] : i \in DOMAIN req[q].todo}
<1>1. req[q] # Idle /\ req[q].stage = "write" /\ Holds(q)
  BY DEF AddWrite, At, Inv, LockDiscipline
<1>2. PICK p \in Profile : req[q].add = {p}
  BY <1>1 DEF Holds
<1>3. /\ into \subseteq Room
      /\ rows' = rows \cup {NewRow(r, p) : r \in into}
      /\ info' \in [Room -> Info]
      /\ newest' \in [Room -> Nat] /\ msgs' \in Nat
      /\ req' = [req EXCEPT ![q] = Idle]
  BY <1>2, AddWriteEffect
<1>4. \A r \in Room : info'[r].count = IF r \in into THEN info[r].count + 1 ELSE info[r].count
  BY <1>2, AddWriteEffect
<1>5. \A r \in Room \ into : info'[r] = info[r]
  BY <1>2, AddWriteEffect
<1>6. \A r \in into : lock[r] = q /\ p \notin MembersOf(r)
  BY <1>1, <1>2 DEF Holds
<1>7. /\ lock' = [r \in Room |-> IF lock[r] = q THEN Free ELSE lock[r]]
      /\ clock' = clock + 1 /\ started' = started
  BY DEF AddWrite
<1> HIDE DEF into
<1>8. \A r \in Room : /\ RowsOf(r)' = IF r \in into THEN RowsOf(r) \cup {NewRow(r, p)} ELSE RowsOf(r)
                      /\ r \in into => NewRow(r, p) \notin RowsOf(r)
  <2>1. \A r : NewRow(r, p).room = r /\ NewRow(r, p).profile = p
    BY DEF NewRow
  <2> QED BY <1>3, <1>6, <2>1 DEF RowsOf, MembersOf
<1>9. TypeOK'
  <2>1. \A r \in into : NewRow(r, p) \in Row
    BY <1>3 DEF NewRow, Row, Inv, TypeOK
  <2> QED BY <1>3, <1>7, <2>1 DEF Inv, TypeOK
<1>10. (\A r \in Room : IsFiniteSet(RowsOf(r)))' /\ CountExact'
  <2> SUFFICES ASSUME NEW r \in Room
               PROVE  IsFiniteSet(RowsOf(r)') /\ info'[r].count = Cardinality(RowsOf(r)')
    BY DEF CountExact
  <2>1. IsFiniteSet(RowsOf(r)) /\ info[r].count = Cardinality(RowsOf(r))
    BY DEF Inv, CountExact
  <2>2. CASE r \in into
    <3>1. RowsOf(r)' = RowsOf(r) \cup {NewRow(r, p)} /\ NewRow(r, p) \notin RowsOf(r)
      BY <1>8, <2>2
    <3>2. IsFiniteSet(RowsOf(r)') /\ Cardinality(RowsOf(r)') = Cardinality(RowsOf(r)) + 1
      BY <2>1, <3>1, FS_AddElement
    <3> QED BY <1>4, <2>1, <2>2, <3>2
  <2>3. CASE r \notin into
    BY <1>4, <1>8, <2>1, <2>3
  <2> QED BY <2>2, <2>3
<1>11. NoDuplicates'
  <2> SUFFICES ASSUME NEW r \in Room, NEW x \in RowsOf(r)', NEW y \in RowsOf(r)',
                      x.profile = y.profile
               PROVE  x = y
    BY DEF NoDuplicates, HasDuplicate
  <2>1. x \in RowsOf(r) /\ y \in RowsOf(r) => x = y
    BY DEF Inv, NoDuplicates, HasDuplicate
  <2>2. r \in into => \A z \in RowsOf(r) : z.profile # p
    BY <1>6 DEF MembersOf
  <2>3. NewRow(r, p).profile = p
    BY DEF NewRow
  <2> QED BY <1>8, <2>1, <2>2, <2>3
<1>12. LockDiscipline'
  <2> SUFFICES ASSUME NEW k \in Request
               PROVE  IF req'[k] = Idle THEN \A r \in Room : lock'[r] # k ELSE Holds(k)'
    BY DEF LockDiscipline
  <2>1. CASE k = q
    BY <1>3, <1>7, <2>1, ValueAssumption DEF Inv, TypeOK
  <2>2. CASE k # q
    <3>1. req'[k] = req[k]
      BY <1>3, <2>2
    <3>2. \A r \in Room : lock'[r] = k <=> lock[r] = k
      BY <1>7, <2>2, ValueAssumption
    <3>3. \A r \in Room : lock[r] = k => info'[r] = info[r] /\ MembersOf(r)' = MembersOf(r)
      <4>1. \A r \in Room : lock[r] = k => r \notin into
        BY <1>6, <2>2
      <4> QED BY <1>5, <1>8, <4>1 DEF MembersOf
    <3>4. CASE req[k] = Idle
      BY <3>1, <3>2, <3>4 DEF Inv, LockDiscipline
    <3>5. CASE req[k] # Idle
      <4>1. Holds(k)
        BY <3>5 DEF Inv, LockDiscipline
      <4>2. \A i \in DOMAIN req[k].todo : req[k].todo[i] \in Room
        <5>1. req[k].todo \in Seq(Room)
          BY <3>5 DEF Inv, TypeOK, RequestState
        <5> QED BY <5>1
      <4> QED BY <3>1, <3>2, <3>3, <3>5, <4>1, <4>2 DEF Holds
    <3> QED BY <3>4, <3>5
  <2> QED BY <2>1, <2>2
<1> QED BY <1>9, <1>10, <1>11, <1>12 DEF Inv

\* Every step of a run of adds keeps the invariant.
LEMMA InvStep == OnlyAdds /\ Inv /\ [Next]_vars => Inv'
<1> SUFFICES ASSUME OnlyAdds, Inv, [Next]_vars PROVE Inv'
  OBVIOUS
<1>1. CASE Next
  BY <1>1, OnlyAddSteps, AddReadStep, AddLockStep, AddCheckStep, AddWriteStep
<1>2. CASE UNCHANGED vars
  BY <1>2 DEF vars, Inv, TypeOK, LockDiscipline, Holds, MembersOf, RowsOf, NoDuplicates,
     HasDuplicate, CountExact
<1> QED BY <1>1, <1>2

-----------------------------------------------------------------------------
(* The theorems. *)

\* Concurrent ChatRoomsAddParticipant requests never insert a profile twice: the
\* promise of add_profiles_to_room to callers that lock the room.
THEOREM AddsNeverDuplicate ==
  ASSUME OnlyAdds PROVE Spec => []NoDuplicates
<1>1. Inv => NoDuplicates
  BY DEF Inv
<1>2. Inv /\ [Next]_vars => Inv'
  BY InvStep
<1> QED BY <1>1, <1>2, InvInit, PTL DEF Spec

\* ... and lose no increment of participants_count.
THEOREM AddsLoseNoIncrement ==
  ASSUME OnlyAdds PROVE Spec => []CountExact
<1>1. Inv => CountExact
  BY DEF Inv
<1>2. Inv /\ [Next]_vars => Inv'
  BY InvStep
<1> QED BY <1>1, <1>2, InvInit, PTL DEF Spec

\* The two together: what the run of overlapping adds checks.
THEOREM OverlappingAddsExact ==
  ASSUME OnlyAdds PROVE Spec => []AddsExact
<1>1. Inv => AddsExact
  BY DEF Inv, AddsExact
<1>2. Inv /\ [Next]_vars => Inv'
  BY InvStep
<1> QED BY <1>1, <1>2, InvInit, PTL DEF Spec

-----------------------------------------------------------------------------
(* Type correctness, whatever requests run and overlap.                    *)

\* What a request in flight is made of, beyond its type.
Formed(s) ==
  /\ s.stage \in {"post", "save"} => s.todo # <<>>
  /\ s.op \in {"update", "send"} => \E r \in Room : s.rooms = {r}
  /\ s.op = "add" => \E p \in Profile : s.add = {p}
  /\ s.op = "cleanup" => s.stage = "write"
  /\ IsFiniteSet(s.gone)
  /\ s.chosen = {} \/ \E x \in Row : s.chosen = {x}

\* What a request has read, as long as no other request has written since.
EditRead(s, r) ==
  /\ s.left = (s.out = {s.who})
  /\ s.handoff = (s.left /\ IsAdmin(r, s.who) /\ Cardinality(AdminsOf(r)) = 1)
  /\ (s.left /\ s.add = {}) \/ IsAdmin(r, s.who)
  /\ \E e \in Edits : s.add = e[1] /\ s.out = e[2]

EditPlanned(s, r) ==
  LET stay == RowsOf(r) \ s.gone
  IN /\ s.gone = {x \in RowsOf(r) : x.profile \in s.out}
     /\ s.fresh = s.add \ {x.profile : x \in stay}
     /\ \/ s.chosen = {} /\ ~(s.handoff /\ stay # {})
        \/ \E x \in stay : s.chosen = {x}

Knows(s) ==
  /\ s.op # "cleanup" => s.mem = info
  /\ s.op = "cleanup" =>
       /\ s.gone = {x \in rows : x.profile = s.who}
       /\ s.rooms = {x.room : x \in s.gone}
       /\ \A r \in Room : s.mem[r].count = Cardinality(RowsOf(r) \ s.gone)
  /\ s.op = "add" /\ s.stage = "write" =>
       \A i \in DOMAIN s.todo : MembersOf(s.todo[i]) \cap s.add = {}
  /\ s.op = "toggle" /\ s.stage = "write" =>
       \E x \in rows : /\ s.chosen = {x} /\ s.rooms = {x.room}
                       /\ x.role = "admin" => Cardinality(AdminsOf(x.room)) > 1
  /\ s.op = "update" /\ s.stage \in {"run", "write"} =>
       \E r \in Room : s.rooms = {r} /\ EditRead(s, r) /\ (s.stage = "write" => EditPlanned(s, r))

Typed ==
  /\ TypeOK
  /\ IsFiniteSet(rows)
  /\ \A q \in Request : req[q] # Idle => Formed(req[q])

\* A request that begins is well formed and knows the rooms as they are.
LEMMA BeginsWell ==
  ASSUME Typed, NEW q \in Request, Begin(q)
  PROVE  \E s \in RequestState : Start(q, s) /\ Formed(s) /\ Knows(s)
<1>1. info \in [Room -> Info] /\ rows \subseteq Row /\ IsFiniteSet(rows) /\ <<>> \in Seq(Room)
  BY DEF Typed, TypeOK
<1>2. \A r \in Room : IsFiniteSet(RowsOf(r)) /\ RowsOf(r) \subseteq rows
  BY <1>1, FS_Subset DEF RowsOf
<1>3. ASSUME NEW op \in OpNames, NEW p \in Profile, NEW rs \in SUBSET Room
      PROVE  LET b == Blank(op, p, rs) IN
             /\ b \in RequestState /\ b.op = op /\ b.stage = "run" /\ b.who = p /\ b.rooms = rs
             /\ b.gone = {} /\ b.chosen = {} /\ b.mem = info
  BY <1>1 DEF Blank, RequestState
<1>4. IsFiniteSet({})
  BY FS_EmptySet
<1>5. ASSUME NEW r \in Room, NEW p \in Profile, SendRead(q, r, p)
      PROVE  \E s \in RequestState : Start(q, s) /\ Formed(s) /\ Knows(s)
  <2> DEFINE b == Blank("send", p, {r})
             s == [b EXCEPT !.stage = "write"]
  <2>1. b \in RequestState /\ b.op = "send" /\ b.rooms = {r} /\ b.gone = {} /\ b.chosen = {} /\ b.mem = info
    <3>1. "send" \in OpNames /\ {r} \in SUBSET Room
      BY DEF OpNames
    <3> QED BY <1>3, <3>1
  <2> HIDE DEF b
  <2>2. /\ s \in RequestState /\ s.op = "send" /\ s.rooms = {r} /\ s.gone = {} /\ s.chosen = {}
        /\ s.mem = info /\ s.stage = "write"
    BY <2>1 DEF RequestState
  <2>3. Start(q, s)
    BY <1>5 DEF SendRead, b
  <2> HIDE DEF s
  <2> QED BY <1>4, <2>2, <2>3 DEF Formed, Knows
<1>6. ASSUME NEW r \in Room, NEW p \in Profile, NEW e \in Edits, UpdateRead(q, r, p, e[1], e[2])
      PROVE  \E s \in RequestState : Start(q, s) /\ Formed(s) /\ Knows(s)
  <2> DEFINE b == Blank("update", p, {r})
             left == e[2] = {p}
             s == [b EXCEPT !.add = e[1], !.out = e[2], !.left = left,
                            !.handoff = left /\ IsAdmin(r, p) /\ Cardinality(AdminsOf(r)) = 1]
  <2>1. /\ b \in RequestState /\ b.op = "update" /\ b.rooms = {r} /\ b.gone = {} /\ b.chosen = {}
        /\ b.mem = info /\ b.stage = "run" /\ b.who = p
    <3>1. "update" \in OpNames /\ {r} \in SUBSET Room
      BY DEF OpNames
    <3> QED BY <1>3, <3>1
  <2>2. e[1] \in SUBSET Profile /\ e[2] \in SUBSET Profile
    BY EditsAssumption
  <2>3. Start(q, s) /\ ((left /\ e[1] = {}) \/ IsAdmin(r, p))
    BY <1>6 DEF UpdateRead
  <2> HIDE DEF b
  <2> DEFINE h == left /\ IsAdmin(r, p) /\ Cardinality(AdminsOf(r)) = 1
  <2>4. left \in BOOLEAN /\ h \in BOOLEAN
    BY Zenon
  <2> HIDE DEF left, h
  <2>5. /\ s \in RequestState /\ s.op = "update" /\ s.rooms = {r} /\ s.gone = {} /\ s.chosen = {}
        /\ s.mem = info /\ s.stage = "run" /\ s.who = p /\ s.add = e[1] /\ s.out = e[2] /\ s.left = left
        /\ s.handoff = h
    BY <2>1, <2>2, <2>4 DEF RequestState, h
  <2> HIDE DEF s
  <2>6. EditRead(s, r)
    <3>1. s.left = (s.out = {s.who})
      BY <2>5, Zenon DEF left
    <3>2. s.handoff = (s.left /\ IsAdmin(r, s.who) /\ Cardinality(AdminsOf(r)) = 1)
      BY <2>5, Zenon DEF h
    <3>3. (s.left /\ s.add = {}) \/ IsAdmin(r, s.who)
      BY <2>3, <2>5, Zenon
    <3>4. \E d \in Edits : s.add = d[1] /\ s.out = d[2]
      BY <2>5
    <3> QED BY <3>1, <3>2, <3>3, <3>4, Zenon DEF EditRead
  <2> QED BY <1>4, <2>3, <2>5, <2>6 DEF Formed, Knows
<1>7. ASSUME NEW rs \in SUBSET Room, NEW p \in Profile, NEW newcomer \in Profile, AddRead(q, rs, p, newcomer)
      PROVE  \E s \in RequestState : Start(q, s) /\ Formed(s) /\ Knows(s)
  <2> DEFINE b == Blank("add", p, rs)
             s == [b EXCEPT !.add = {newcomer}]
  <2>1. b \in RequestState /\ b.op = "add" /\ b.stage = "run" /\ b.gone = {} /\ b.chosen = {} /\ b.mem = info
    <3>1. "add" \in OpNames
      BY DEF OpNames
    <3> QED BY <1>3, <3>1
  <2> HIDE DEF b
  <2>2. /\ s \in RequestState /\ s.op = "add" /\ s.stage = "run" /\ s.gone = {} /\ s.chosen = {}
        /\ s.mem = info /\ s.add = {newcomer}
    BY <2>1 DEF RequestState
  <2>3. Start(q, s)
    BY <1>7 DEF AddRead, b
  <2> HIDE DEF s
  <2> QED BY <1>4, <2>2, <2>3 DEF Formed, Knows
<1>8. ASSUME NEW r \in Room, NEW p \in Profile, NEW x \in rows, ToggleRead(q, r, p, x)
      PROVE  \E s \in RequestState : Start(q, s) /\ Formed(s) /\ Knows(s)
  <2> DEFINE b == Blank("toggle", p, {r})
             s == [b EXCEPT !.stage = "write", !.chosen = {x}]
  <2>1. b \in RequestState /\ b.op = "toggle" /\ b.rooms = {r} /\ b.gone = {} /\ b.mem = info
    <3>1. "toggle" \in OpNames /\ {r} \in SUBSET Room
      BY DEF OpNames
    <3> QED BY <1>3, <3>1
  <2> HIDE DEF b
  <2>2. x \in Row /\ x.room = r /\ (x.role = "admin" => Cardinality(AdminsOf(r)) > 1)
    BY <1>1, <1>8 DEF ToggleRead, RowsOf
  <2>3. /\ s \in RequestState /\ s.op = "toggle" /\ s.rooms = {r} /\ s.gone = {} /\ s.chosen = {x}
        /\ s.mem = info /\ s.stage = "write"
    BY <2>1, <2>2 DEF RequestState
  <2>4. Start(q, s)
    BY <1>8 DEF ToggleRead, b
  <2> HIDE DEF s
  <2> QED BY <1>4, <2>2, <2>3, <2>4 DEF Formed, Knows
<1>9. ASSUME NEW p \in Profile, CleanupRead(q, p)
      PROVE  \E s \in RequestState : Start(q, s) /\ Formed(s) /\ Knows(s)
  <2> DEFINE gone == {x \in rows : x.profile = p}
             rs == {x.room : x \in gone}
             mem == [r \in Room |-> [info[r] EXCEPT !.count = Cardinality(RowsOf(r) \ gone)]]
             b == Blank("cleanup", p, rs)
             s == [b EXCEPT !.stage = "write", !.gone = gone, !.mem = mem]
  <2>1. gone \subseteq Row /\ IsFiniteSet(gone) /\ rs \subseteq Room
    BY <1>1, FS_Subset DEF Row
  <2>2. \A r \in Room : Cardinality(RowsOf(r) \ gone) \in Nat
    <3> SUFFICES ASSUME NEW r \in Room PROVE Cardinality(RowsOf(r) \ gone) \in Nat
      OBVIOUS
    <3>1. IsFiniteSet(RowsOf(r) \ gone)
      BY <1>2, FS_Subset
    <3> QED BY <3>1, FS_CardinalityType
  <2>3. mem \in [Room -> Info] /\ \A r \in Room : mem[r].count = Cardinality(RowsOf(r) \ gone)
    <3> HIDE DEF gone
    <3>1. \A i \in Info, n \in Nat : [i EXCEPT !.count = n] \in Info /\ [i EXCEPT !.count = n].count = n
      BY DEF Info
    <3>2. \A r \in Room : info[r] \in Info
      BY <1>1
    <3>3. \A r \in Room : LET i == [info[r] EXCEPT !.count = Cardinality(RowsOf(r) \ gone)]
                          IN i \in Info /\ i.count = Cardinality(RowsOf(r) \ gone)
      BY <2>2, <3>1, <3>2
    <3> QED BY <3>3
  <2>4. Start(q, s)
    BY <1>9 DEF CleanupRead
  <2>5. b \in RequestState /\ b.op = "cleanup" /\ b.who = p /\ b.rooms = rs /\ b.chosen = {}
    <3>1. "cleanup" \in OpNames
      BY DEF OpNames
    <3> HIDE DEF gone, rs
    <3> QED BY <1>3, <2>1, <3>1
  <2> HIDE DEF b, mem
  <2>6. /\ s \in RequestState /\ s.op = "cleanup" /\ s.stage = "write" /\ s.who = p /\ s.rooms = rs
        /\ s.gone = gone /\ s.mem = mem /\ s.chosen = {}
    <3> HIDE DEF gone, rs
    <3> QED BY <2>1, <2>3, <2>5 DEF RequestState
  <2> HIDE DEF s
  <2> QED BY <2>1, <2>3, <2>4, <2>6 DEF Formed, Knows
<1> QED BY <1>5, <1>6, <1>7, <1>8, <1>9 DEF Begin

\* One request at a time: what is in the database is what the request has read of it.
Serial ==
  /\ Typed
  /\ \A q, k \in Request : req[q] # Idle /\ req[k] # Idle => q = k
  /\ NoDuplicates /\ CountExact /\ LastMessageNewest
  /\ \A q \in Request : req[q] # Idle => Knows(req[q])

\* A step that changes one request keeps the form of the others.
LEMMA TypedClose ==
  ASSUME Typed, NEW q \in Request, NEW c \in RequestState \cup {Idle},
         req' = [req EXCEPT ![q] = c], c # Idle => Formed(c),
         rows' \subseteq Row, IsFiniteSet(rows'), info' \in [Room -> Info], newest' \in [Room -> Nat],
         lock' \in [Room -> Request \cup {Free}], clock' \in Nat, msgs' \in Nat, started' \in 0..MaxRequests
  PROVE  Typed'
<1>1. req' \in [Request -> RequestState \cup {Idle}]
  BY DEF Typed, TypeOK
<1>2. TypeOK'
  BY <1>1 DEF TypeOK
<1>3. ASSUME NEW k \in Request, req'[k] # Idle PROVE Formed(req'[k])
  <2>1. CASE k = q
    <3>1. req'[k] = c
      BY <2>1 DEF Typed, TypeOK
    <3> QED BY <1>3, <3>1
  <2>2. CASE k # q
    <3>1. req'[k] = req[k]
      BY <2>2 DEF Typed, TypeOK
    <3> QED BY <1>3, <3>1 DEF Typed
  <2> QED BY <2>1, <2>2
<1>4. (\A k \in Request : req[k] # Idle => Formed(req[k]))'
  BY <1>3 DEF Formed
<1> QED BY <1>2, <1>4 DEF Typed

\* ... and, when it is the only one, need only keep the promises and what it knows.
LEMMA SerialClose ==
  ASSUME Serial, Typed', NEW q \in Request, NEW c \in RequestState \cup {Idle},
         req[q] # Idle, req' = [req EXCEPT ![q] = c],
         NoDuplicates', CountExact', LastMessageNewest', c # Idle => Knows(c)'
  PROVE  Serial'
<1>1. req'[q] = c /\ \A k \in Request \ {q} : req'[k] = Idle
  BY DEF Serial, Typed, TypeOK
<1>2. (\A k, o \in Request : req[k] # Idle /\ req[o] # Idle => k = o)'
  BY <1>1
<1>3. ASSUME NEW k \in Request, req'[k] # Idle PROVE Knows(req[k])'
  <2>1. k = q /\ req'[k] = c
    BY <1>1, <1>3
  <2> QED BY <1>3, <2>1 DEF Knows, EditRead, EditPlanned
<1> QED BY <1>2, <1>3 DEF Serial

\* Rows that do not change stay unique, and counted if the counts do not change.
LEMMA SameRooms ==
  ASSUME UNCHANGED rows
  PROVE  /\ NoDuplicates => NoDuplicates'
         /\ CountExact /\ (\A r \in Room : info'[r].count = info[r].count) => CountExact'
BY DEF NoDuplicates, HasDuplicate, CountExact, RowsOf

\* A request that gives up leaves the rooms as they are.
LEMMA GiveUpWell ==
  ASSUME Typed, NEW q \in Request, req[q] # Idle, GiveUp(q)
  PROVE  Typed' /\ (Serial => Serial')
<1>1. /\ req' = [req EXCEPT ![q] = Idle] /\ UNCHANGED <<rows, info, newest, clock, msgs, started>>
      /\ lock' = [r \in Room |-> IF lock[r] = q THEN Free ELSE lock[r]]
  BY DEF GiveUp
<1>2. lock' \in [Room -> Request \cup {Free}]
  BY <1>1 DEF Typed, TypeOK
<1>3. Typed'
  BY <1>1, <1>2, TypedClose DEF Typed, TypeOK
<1>4. Serial => NoDuplicates' /\ CountExact' /\ LastMessageNewest'
  BY <1>1, SameRooms DEF Serial, LastMessageNewest
<1> QED BY <1>1, <1>3, <1>4, SerialClose

\* What posting the messages of a request does to the rooms and to the request: while
\* requests do not overlap, the newest message of each room becomes its last one and the
\* counts saved are those that the request has in memory.
LEMMA EmitWell ==
  ASSUME Typed, NEW q \in Request, req[q] # Idle, req[q].op # "cleanup",
         NEW saved \in [Room -> Info], NEW mem \in [Room -> Info], NEW todo \in Seq(Room),
         Emit(q, saved, mem, todo),
         rows' \subseteq Row, IsFiniteSet(rows'), lock' \in [Room -> Request \cup {Free}],
         clock' \in Nat, started' = started,
         Serial => /\ NoDuplicates'
                   /\ \A r \in Room : /\ saved[r] = mem[r] /\ mem[r].last = newest[r]
                                      /\ mem[r].count = Cardinality(RowsOf(r)')
  PROVE  Typed' /\ (Serial => Serial')
<1>1. info \in [Room -> Info] /\ newest \in [Room -> Nat] /\ msgs \in Nat /\ req[q] \in RequestState
      /\ Formed(req[q]) /\ started \in 0..MaxRequests
  BY DEF Typed, TypeOK
<1>2. /\ info' \in [Room -> Info] /\ newest' \in [Room -> Nat] /\ msgs' \in Nat
      /\ \A r \in Room : \/ info'[r].last = newest'[r] /\ info'[r].count = mem[r].count
                         \/ info'[r] = saved[r] /\ newest'[r] = newest[r]
      /\ \E c \in RequestState \cup {Idle} :
           /\ req' = [req EXCEPT ![q] = c]
           /\ c # Idle => /\ Formed(c) /\ c.stage = "post" /\ c.op = req[q].op
                          /\ c.mem = mem /\ info' = saved
  <2>1. CASE AtomicRequests \/ todo = <<>>
    <3> DEFINE posted == {todo[i] : i \in DOMAIN todo}
               lastOf(r) == msgs + Newest({i \in DOMAIN todo : todo[i] = r})
    <3>1. /\ info' = [r \in Room |-> IF r \in posted THEN [mem[r] EXCEPT !.last = lastOf(r)] ELSE saved[r]]
          /\ newest' = [r \in Room |-> IF r \in posted THEN lastOf(r) ELSE newest[r]]
          /\ msgs' = msgs + Len(todo)
          /\ req' = [req EXCEPT ![q] = Idle]
      BY <2>1, Zenon DEF Emit
    <3>2. \A r \in posted : lastOf(r) \in Nat
      <4> SUFFICES ASSUME NEW r \in posted PROVE lastOf(r) \in Nat
        OBVIOUS
      <4> DEFINE S == {i \in DOMAIN todo : todo[i] = r}
      <4>1. Len(todo) \in Nat /\ DOMAIN todo = 1..Len(todo)
        OBVIOUS
      <4>2. S \in SUBSET (0..Len(todo)) /\ S # {}
        BY <4>1
      <4>3. Newest(S) \in S
        BY <4>1, <4>2, NewestIsGreatest
      <4> QED BY <1>1, <4>1, <4>3
    <3> HIDE DEF posted, lastOf
    <3>3. \A i \in Info, n \in Nat : /\ [i EXCEPT !.last = n] \in Info /\ [i EXCEPT !.last = n].last = n
                                     /\ [i EXCEPT !.last = n].count = i.count
      BY DEF Info
    <3>4. \A r \in Room : mem[r] \in Info /\ saved[r] \in Info
      OBVIOUS
    <3>5. \A r \in Room : r \in posted =>
            LET i == [mem[r] EXCEPT !.last = lastOf(r)]
            IN i \in Info /\ i.last = lastOf(r) /\ i.count = mem[r].count
      BY <3>2, <3>3, <3>4
    <3>6. \A r \in Room : /\ info'[r] = IF r \in posted THEN [mem[r] EXCEPT !.last = lastOf(r)] ELSE saved[r]
                          /\ newest'[r] = IF r \in posted THEN lastOf(r) ELSE newest[r]
      BY <3>1
    <3>7. info' \in [Room -> Info]
      <4>1. \A r \in Room : info'[r] \in Info
        BY <3>4, <3>5, <3>6
      <4>2. info' = [r \in Room |-> info'[r]]
        BY <3>1
      <4> QED BY <4>1, <4>2
    <3>8. newest' \in [Room -> Nat]
      <4>1. \A r \in Room : newest'[r] \in Nat
        BY <1>1, <3>2, <3>6
      <4>2. newest' = [r \in Room |-> newest'[r]]
        BY <3>1
      <4> QED BY <4>1, <4>2
    <3>9. msgs' \in Nat
      BY <1>1, <3>1
    <3>10. \A r \in Room : \/ info'[r].last = newest'[r] /\ info'[r].count = mem[r].count
                           \/ info'[r] = saved[r] /\ newest'[r] = newest[r]
      BY <3>5, <3>6
    <3> QED BY <3>1, <3>7, <3>8, <3>9, <3>10
  <2>2. CASE ~(AtomicRequests \/ todo = <<>>)
    <3> DEFINE c == [[[req[q] EXCEPT !.stage = "post"] EXCEPT !.mem = mem] EXCEPT !.todo = todo]
    <3>1. req' = [req EXCEPT ![q].stage = "post", ![q].mem = mem, ![q].todo = todo]
          /\ info' = saved /\ newest' = newest /\ msgs' = msgs
      BY <2>2, Zenon DEF Emit
    <3>2. req' = [req EXCEPT ![q] = c]
      BY <3>1 DEF Typed, TypeOK
    <3>3. /\ c \in RequestState /\ c.stage = "post" /\ c.op = req[q].op /\ c.mem = mem /\ c.todo = todo
          /\ c.rooms = req[q].rooms /\ c.add = req[q].add /\ c.gone = req[q].gone /\ c.chosen = req[q].chosen
      BY <1>1 DEF RequestState
    <3> HIDE DEF c
    <3>4. Formed(c)
      BY <1>1, <2>2, <3>3 DEF Formed
    <3> QED BY <1>1, <3>1, <3>2, <3>3, <3>4
  <2> QED BY <2>1, <2>2
<1>3. PICK c \in RequestState \cup {Idle} :
        /\ req' = [req EXCEPT ![q] = c]
        /\ c # Idle => /\ Formed(c) /\ c.stage = "post" /\ c.op = req[q].op
                       /\ c.mem = mem /\ info' = saved
  BY <1>2
<1>4. Typed'
  BY <1>1, <1>2, <1>3, TypedClose
<1>5. ASSUME Serial PROVE Serial'
  <2>1. NoDuplicates' /\ LastMessageNewest' /\ CountExact'
    BY <1>2, <1>5 DEF LastMessageNewest, CountExact
  <2>2. c # Idle => Knows(c)'
    <3>1. saved = mem
      BY <1>5
    <3> QED BY <1>3, <3>1 DEF Knows
  <2> QED BY <1>3, <1>4, <1>5, <2>1, <2>2, SerialClose
<1> QED BY <1>4, <1>5

\* Sending a message.
LEMMA SendWriteWell ==
  ASSUME Typed, NEW q \in Request, SendWrite(q)
  PROVE  Typed' /\ (Serial => Serial')
<1>1. req[q] # Idle /\ req[q].op = "send" /\ req[q].stage = "write" /\ Formed(req[q]) /\ req[q] \in RequestState
  BY DEF SendWrite, At, Typed, TypeOK
<1>2. PICK r \in Room : req[q].rooms = {r}
  BY <1>1 DEF Formed
<1>3. TheRoom(q) = r
  BY <1>2 DEF TheRoom
<1>4. CASE GiveUp(q)
  BY <1>1, <1>4, GiveUpWell
<1>5. CASE ~GiveUp(q)
  <2>1. Emit(q, info, req[q].mem, <<r>>) /\ UNCHANGED <<rows, lock, clock, started>>
    BY <1>3, <1>5 DEF SendWrite
  <2>2. info \in [Room -> Info] /\ req[q].mem \in [Room -> Info] /\ <<r>> \in Seq(Room)
    BY <1>1 DEF Typed, TypeOK, RequestState
  <2>3. ASSUME Serial
        PROVE  /\ NoDuplicates'
               /\ \A x \in Room : /\ info[x] = req[q].mem[x] /\ req[q].mem[x].last = newest[x]
                                  /\ req[q].mem[x].count = Cardinality(RowsOf(x)')
    <3>1. req[q].mem = info
      BY <1>1, <2>3 DEF Serial, Knows
    <3> QED BY <2>1, <2>3, <3>1, SameRooms DEF Serial, CountExact, LastMessageNewest, RowsOf
  <2>4. /\ rows' \subseteq Row /\ IsFiniteSet(rows') /\ lock' \in [Room -> Request \cup {Free}]
        /\ clock' \in Nat /\ started' = started
    BY <2>1 DEF Typed, TypeOK
  <2> QED BY <1>1, <2>1, <2>2, <2>3, <2>4, EmitWell
<1> QED BY <1>4, <1>5

\* What a step of q that leaves the rooms alone has to show.
LEMMA QuietStep ==
  ASSUME Typed, NEW q \in Request, req[q] # Idle, NEW c \in RequestState \cup {Idle},
         req' = [req EXCEPT ![q] = c], c # Idle => Formed(c),
         UNCHANGED <<rows, info, newest, clock, msgs, started>>,
         lock' \in [Room -> Request \cup {Free}],
         Serial /\ c # Idle => Knows(c)'
  PROVE  Typed' /\ (Serial => Serial')
<1>1. Typed'
  BY TypedClose DEF Typed, TypeOK
<1>2. ASSUME Serial PROVE Serial'
  <2>1. NoDuplicates' /\ CountExact' /\ LastMessageNewest'
    BY <1>2, SameRooms DEF Serial, LastMessageNewest
  <2> QED BY <1>1, <1>2, <2>1, SerialClose
<1> QED BY <1>1, <1>2

\* Its own rows and counts are read by an update as they are.
LEMMA UpdateTransactionWell ==
  ASSUME Typed, NEW q \in Request, UpdateTransaction(q)
  PROVE  Typed' /\ (Serial => Serial')
<1>1. req[q] # Idle /\ req[q].op = "update" /\ req[q].stage = "run" /\ Formed(req[q]) /\ req[q] \in RequestState
  BY DEF UpdateTransaction, At, Typed, TypeOK
<1>2. PICK r \in Room : req[q].rooms = {r}
  BY <1>1 DEF Formed
<1>3. TheRoom(q) = r
  BY <1>2 DEF TheRoom
<1> DEFINE gone == {x \in RowsOf(r) : x.profile \in req[q].out}
           stay == RowsOf(r) \ gone
           fresh == req[q].add \ {x.profile : x \in stay}
<1>4. PICK heir \in Heirs(req[q].handoff, stay) :
        req' = [req EXCEPT ![q].stage = "write", ![q].gone = gone, ![q].chosen = heir, ![q].fresh = fresh]
  BY <1>3 DEF UpdateTransaction, FreshProfiles
<1>5. UNCHANGED <<rows, info, newest, lock, clock, msgs, started>>
  BY DEF UpdateTransaction
<1>6. gone \subseteq Row /\ IsFiniteSet(gone) /\ stay \subseteq Row /\ fresh \subseteq Profile
  <2>1. RowsOf(r) \subseteq rows /\ rows \subseteq Row /\ IsFiniteSet(rows)
    BY DEF RowsOf, Typed, TypeOK
  <2>2. IsFiniteSet(gone)
    BY <2>1, FS_Subset
  <2>3. fresh \subseteq Profile
    BY <1>1 DEF RequestState
  <2> QED BY <2>1, <2>2, <2>3
<1>7. \/ heir = {} /\ ~(req[q].handoff /\ stay # {})
      \/ \E x \in stay : heir = {x}
  <2> HIDE DEF stay
  <2> QED BY <1>4 DEF Heirs
<1> HIDE DEF gone, stay, fresh
<1> DEFINE d == [[[[req[q] EXCEPT !.stage = "write"] EXCEPT !.gone = gone] EXCEPT !.chosen = heir]
                 EXCEPT !.fresh = fresh]
<1>8. req' = [req EXCEPT ![q] = d]
  BY <1>4 DEF Typed, TypeOK
<1>9. heir \subseteq Row
  BY <1>6, <1>7
<1>10. PICK c \in RequestState :
         /\ c = d /\ c.stage = "write" /\ c.op = "update" /\ c.gone = gone /\ c.chosen = heir
         /\ c.fresh = fresh /\ c.rooms = {r} /\ c.mem = req[q].mem /\ c.who = req[q].who /\ c.add = req[q].add
         /\ c.out = req[q].out /\ c.left = req[q].left /\ c.handoff = req[q].handoff
  <2>1. /\ d \in RequestState /\ d.stage = "write" /\ d.op = "update" /\ d.gone = gone /\ d.chosen = heir
        /\ d.fresh = fresh /\ d.rooms = {r} /\ d.mem = req[q].mem /\ d.who = req[q].who /\ d.add = req[q].add
        /\ d.out = req[q].out /\ d.left = req[q].left /\ d.handoff = req[q].handoff
    BY <1>1, <1>2, <1>6, <1>9 DEF RequestState
  <2> HIDE DEF d
  <2> QED BY <2>1
<1> HIDE DEF d
<1>11. Formed(c)
  BY <1>6, <1>7, <1>10 DEF Formed
<1>12. ASSUME Serial PROVE Knows(c)'
  <2>1. Knows(req[q])
    BY <1>1, <1>12 DEF Serial
  <2>2. EditRead(req[q], r) /\ req[q].mem = info
    BY <1>1, <1>2, <2>1 DEF Knows
  <2>3. \A x : RowsOf(x)' = RowsOf(x) /\ AdminsOf(x)' = AdminsOf(x)
    BY <1>5 DEF RowsOf, AdminsOf
  <2>4. \A x, p : IsAdmin(x, p)' = IsAdmin(x, p)
    BY <2>3 DEF IsAdmin
  <2>5. EditRead(c, r)'
    BY <1>10, <2>2, <2>3, <2>4 DEF EditRead
  <2>6. EditPlanned(c, r)
    <3>1. c.gone = {x \in RowsOf(r) : x.profile \in c.out}
      BY <1>10 DEF gone
    <3>2. RowsOf(r) \ c.gone = stay
      BY <1>10 DEF stay
    <3>3. c.fresh = c.add \ {x.profile : x \in RowsOf(r) \ c.gone}
      BY <1>10, <3>2 DEF fresh
    <3>4. \/ c.chosen = {} /\ ~(c.handoff /\ RowsOf(r) \ c.gone # {})
          \/ \E x \in RowsOf(r) \ c.gone : c.chosen = {x}
      BY <1>7, <1>10, <3>2
    <3> QED BY <3>1, <3>3, <3>4 DEF EditPlanned
  <2>7. EditPlanned(c, r)'
    BY <2>3, <2>6 DEF EditPlanned
  <2> QED BY <1>5, <1>10, <2>2, <2>5, <2>7 DEF Knows
<1> QED BY <1>1, <1>5, <1>8, <1>10, <1>11, <1>12, QuietStep DEF Typed, TypeOK

\* A room that is locked is read again, as it is.
LEMMA AddLockWell ==
  ASSUME Typed, NEW q \in Request, AddLock(q)
  PROVE  Typed' /\ (Serial => Serial')
<1>1. req[q] # Idle /\ req[q].op = "add" /\ req[q].stage = "run" /\ Formed(req[q]) /\ req[q] \in RequestState
      /\ info \in [Room -> Info]
  BY DEF AddLock, At, Typed, TypeOK
<1>2. PICK r \in Room : lock' = [lock EXCEPT ![r] = q] /\ req' = [req EXCEPT ![q].mem[r] = info[r]]
  BY <1>1 DEF AddLock, NextToLock, AnyToLock, LockedInstance, RequestState
<1>3. UNCHANGED <<rows, info, newest, clock, msgs, started>>
  BY DEF AddLock
<1> DEFINE m == [req[q].mem EXCEPT ![r] = info[r]]
           d == [req[q] EXCEPT !.mem = m]
<1>4. req' = [req EXCEPT ![q] = d]
  BY <1>2 DEF Typed, TypeOK
<1>5. m \in [Room -> Info] /\ (req[q].mem = info => m = info)
  BY <1>1 DEF RequestState
<1> HIDE DEF m
<1>6. PICK c \in RequestState :
        /\ c = d /\ c.mem = m /\ c.op = "add" /\ c.stage = "run" /\ c.add = req[q].add
        /\ c.gone = req[q].gone /\ c.chosen = req[q].chosen
  <2>1. /\ d \in RequestState /\ d.mem = m /\ d.op = "add" /\ d.stage = "run" /\ d.add = req[q].add
        /\ d.gone = req[q].gone /\ d.chosen = req[q].chosen
    BY <1>1, <1>5 DEF RequestState
  <2> HIDE DEF d
  <2> QED BY <2>1
<1> HIDE DEF d
<1>7. Formed(c)
  BY <1>1, <1>6 DEF Formed
<1>8. Serial => Knows(c)'
  BY <1>1, <1>3, <1>5, <1>6 DEF Serial, Knows
<1>9. lock' \in [Room -> Request \cup {Free}]
  BY <1>2 DEF Typed, TypeOK
<1> QED BY <1>1, <1>3, <1>4, <1>6, <1>7, <1>8, <1>9, QuietStep

\* The rooms to notify are those that the profile is not in.
LEMMA AddCheckWell ==
  ASSUME Typed, NEW q \in Request, AddCheck(q)
  PROVE  Typed' /\ (Serial => Serial')
<1>1. req[q] # Idle /\ req[q].op = "add" /\ req[q].stage = "run" /\ Formed(req[q]) /\ req[q] \in RequestState
  BY DEF AddCheck, At, Typed, TypeOK
<1>2. CASE GiveUp(q)
  BY <1>1, <1>2, GiveUpWell
<1>3. CASE ~GiveUp(q)
  <2> DEFINE into == {r \in req[q].rooms : FreshProfiles(RowsOf(r), req[q].add) # {}}
  <2>1. PICK order \in [1..Cardinality(into) -> into] :
          req' = [req EXCEPT ![q].stage = "write", ![q].todo = order]
    BY <1>3 DEF AddCheck
  <2>2. UNCHANGED <<rows, info, newest, lock, clock, msgs, started>>
    BY <1>3 DEF AddCheck
  <2>3. into \subseteq Room
    BY <1>1 DEF RequestState
  <2>4. \A r \in into : MembersOf(r) \cap req[q].add = {}
    <3>1. PICK p \in Profile : req[q].add = {p}
      BY <1>1 DEF Formed
    <3> QED BY <3>1 DEF FreshProfiles, MembersOf
  <2> HIDE DEF into
  <2>5. order \in Seq(Room) /\ \A i \in DOMAIN order : order[i] \in into
    <3>1. Cardinality(into) \in Nat
      BY <2>3, RoomAssumption, FS_Subset, FS_CardinalityType
    <3>2. \A n \in Nat : \A f \in [1..n -> Room] : f \in Seq(Room)
      OBVIOUS
    <3>3. order \in [1..Cardinality(into) -> Room]
      BY <2>3
    <3> QED BY <3>1, <3>2, <3>3
  <2> DEFINE d == [[req[q] EXCEPT !.stage = "write"] EXCEPT !.todo = order]
  <2>6. req' = [req EXCEPT ![q] = d]
    BY <2>1 DEF Typed, TypeOK
  <2>7. PICK c \in RequestState :
          /\ c = d /\ c.mem = req[q].mem /\ c.op = "add" /\ c.stage = "write" /\ c.add = req[q].add
          /\ c.gone = req[q].gone /\ c.chosen = req[q].chosen /\ c.todo = order
    <3>1. /\ d \in RequestState /\ d.mem = req[q].mem /\ d.op = "add" /\ d.stage = "write" /\ d.add = req[q].add
          /\ d.gone = req[q].gone /\ d.chosen = req[q].chosen /\ d.todo = order
      BY <1>1, <2>5 DEF RequestState
    <3> HIDE DEF d
    <3> QED BY <3>1
  <2> HIDE DEF d
  <2>8. Formed(c)
    BY <1>1, <2>7 DEF Formed
  <2>9. ASSUME Serial PROVE Knows(c)'
    <3>1. req[q].mem = info
      BY <1>1, <2>9 DEF Serial, Knows
    <3>2. \A r : MembersOf(r)' = MembersOf(r)
      BY <2>2 DEF MembersOf, RowsOf
    <3> QED BY <2>2, <2>4, <2>5, <2>7, <3>1, <3>2 DEF Knows
  <2> QED BY <1>1, <2>2, <2>6, <2>7, <2>8, <2>9, QuietStep DEF Typed, TypeOK
<1> QED BY <1>2, <1>3

\* A notification that fails is skipped.
LEMMA AddNoticeFailsWell ==
  ASSUME Typed, NEW q \in Request, AddNoticeFails(q)
  PROVE  Typed' /\ (Serial => Serial')
<1>1. req[q] # Idle /\ req[q].op = "add" /\ req[q].stage = "post" /\ Formed(req[q]) /\ req[q] \in RequestState
  BY DEF AddNoticeFails, At, Typed, TypeOK
<1> DEFINE rest == Tail(req[q].todo)
           next == [req[q] EXCEPT !.todo = rest]
<1>2. /\ req' = [req EXCEPT ![q] = IF rest = <<>> THEN Idle ELSE next]
      /\ UNCHANGED <<rows, info, newest, lock, clock, msgs, started>>
  BY Zenon DEF AddNoticeFails
<1>3. rest \in Seq(Room)
  BY <1>1 DEF RequestState, Formed
<1> HIDE DEF rest
<1>4. /\ next \in RequestState /\ next.mem = req[q].mem /\ next.op = "add" /\ next.stage = "post"
      /\ next.add = req[q].add /\ next.gone = req[q].gone /\ next.chosen = req[q].chosen /\ next.todo = rest
  BY <1>1, <1>3 DEF RequestState
<1> HIDE DEF next
<1>8. PICK c \in RequestState \cup {Idle} : c = IF rest = <<>> THEN Idle ELSE next
  BY <1>4
<1>5. c # Idle => Formed(c)
  BY <1>1, <1>4, <1>8 DEF Formed
<1>6. Serial /\ c # Idle => Knows(c)'
  BY <1>1, <1>2, <1>4, <1>8 DEF Serial, Knows
<1>7. req' = [req EXCEPT ![q] = c]
  BY <1>2, <1>8
<1> QED BY <1>1, <1>2, <1>5, <1>6, <1>7, QuietStep DEF Typed, TypeOK

\* A message is inserted, and the instance in memory learns of it.
LEMMA PostWell ==
  ASSUME Typed, NEW q \in Request, Post(q)
  PROVE  Typed' /\ (Serial => Serial')
<1>1. /\ req[q] # Idle /\ req[q].stage = "post" /\ Formed(req[q]) /\ req[q] \in RequestState
      /\ info \in [Room -> Info] /\ newest \in [Room -> Nat] /\ msgs \in Nat
  BY DEF Post, Typed, TypeOK
<1>2. PICK r \in Room : r = Head(req[q].todo)
  BY <1>1 DEF RequestState, Formed
<1>3. CASE GiveUp(q)
  BY <1>1, <1>3, GiveUpWell
<1>4. CASE ~GiveUp(q)
  <2> DEFINE mem == [req[q].mem EXCEPT ![r].last = msgs + 1]
             d == [[req[q] EXCEPT !.stage = "save"] EXCEPT !.mem = mem]
  <2>1. /\ msgs' = msgs + 1 /\ newest' = [newest EXCEPT ![r] = msgs + 1]
        /\ info' = [info EXCEPT ![r].last = msgs + 1]
        /\ req' = [req EXCEPT ![q].stage = "save", ![q].mem = WithLast(@, r, msgs + 1)]
        /\ UNCHANGED <<rows, lock, clock, started>>
    BY <1>2, <1>4 DEF Post
  <2>2. req' = [req EXCEPT ![q] = d]
    BY <2>1 DEF Typed, TypeOK, WithLast
  <2>3. \A f \in [Room -> Info], n \in Nat : [f EXCEPT ![r].last = n] \in [Room -> Info]
    <3>1. \A i \in Info, n \in Nat : [i EXCEPT !.last = n] \in Info
      BY DEF Info
    <3>2. \A f \in [Room -> Info], n \in Nat : [f EXCEPT ![r].last = n] = [f EXCEPT ![r] = [f[r] EXCEPT !.last = n]]
      OBVIOUS
    <3>3. \A f \in [Room -> Info], n \in Nat : [f EXCEPT ![r] = [f[r] EXCEPT !.last = n]] \in [Room -> Info]
      BY <3>1
    <3> QED BY <3>2, <3>3
  <2>4. mem \in [Room -> Info] /\ info' \in [Room -> Info]
    <3>1. req[q].mem \in [Room -> Info] /\ msgs + 1 \in Nat
      BY <1>1 DEF RequestState
    <3> QED BY <1>1, <2>1, <2>3, <3>1
  <2>5. req[q].mem = info => mem = info'
    BY <2>1
  <2> HIDE DEF mem
  <2>6. PICK c \in RequestState :
          /\ c = d /\ c.stage = "save" /\ c.mem = mem /\ c.todo = req[q].todo /\ c.op = req[q].op
          /\ c.rooms = req[q].rooms /\ c.add = req[q].add /\ c.gone = req[q].gone /\ c.chosen = req[q].chosen
    <3>1. /\ d \in RequestState /\ d.stage = "save" /\ d.mem = mem /\ d.todo = req[q].todo /\ d.op = req[q].op
          /\ d.rooms = req[q].rooms /\ d.add = req[q].add /\ d.gone = req[q].gone /\ d.chosen = req[q].chosen
      BY <1>1, <2>4 DEF RequestState
    <3> HIDE DEF d
    <3> QED BY <3>1
  <2> HIDE DEF d
  <2>7. Formed(c)
    BY <1>1, <2>6 DEF Formed
  <2>8. newest' \in [Room -> Nat] /\ msgs' \in Nat
    BY <1>1, <2>1
  <2>9. Typed'
    BY <2>1, <2>2, <2>4, <2>6, <2>7, <2>8, TypedClose DEF Typed, TypeOK
  <2>10. ASSUME Serial PROVE Serial'
    <3>1. \A x \in Room : info'[x].count = info[x].count
      BY <1>1, <2>1 DEF Info
    <3>2. NoDuplicates' /\ CountExact'
      BY <2>1, <2>10, <3>1, SameRooms DEF Serial
    <3>3. LastMessageNewest'
      BY <1>1, <2>1, <2>10 DEF Serial, LastMessageNewest, Info
    <3>4. c # Idle => Knows(c)'
      <4>1. req[q].op # "cleanup" /\ req[q].mem = info
        BY <1>1, <2>10 DEF Formed, Serial, Knows
      <4> QED BY <2>5, <2>6, <4>1 DEF Knows
    <3> QED BY <1>1, <2>2, <2>6, <2>9, <2>10, <3>2, <3>3, <3>4, SerialClose
  <2> QED BY <2>9, <2>10
<1> QED BY <1>3, <1>4

\* The instance in memory is written back.
LEMMA SaveWell ==
  ASSUME Typed, NEW q \in Request, Save(q)
  PROVE  Typed' /\ (Serial => Serial')
<1>1. /\ req[q] # Idle /\ req[q].stage = "save" /\ Formed(req[q]) /\ req[q] \in RequestState
      /\ info \in [Room -> Info]
  BY DEF Save, Typed, TypeOK
<1>2. PICK r \in Room : r = Head(req[q].todo)
  BY <1>1 DEF RequestState, Formed
<1> DEFINE rest == Tail(req[q].todo)
           next == [[req[q] EXCEPT !.stage = "post"] EXCEPT !.todo = rest]
<1>3. info' = [info EXCEPT ![r] = req[q].mem[r]] /\ UNCHANGED <<rows, newest, lock, clock, msgs, started>>
  BY <1>2 DEF Save
<1>4. req' = [req EXCEPT ![q] = IF rest = <<>> THEN Idle ELSE next]
  <2>1. req' = [req EXCEPT ![q] = IF rest = <<>> THEN Idle ELSE [@ EXCEPT !.stage = "post", !.todo = rest]]
    BY DEF Save
  <2> HIDE DEF rest
  <2> QED BY <2>1 DEF Typed, TypeOK
<1>5. rest \in Seq(Room)
  BY <1>1 DEF RequestState, Formed
<1> HIDE DEF rest
<1>6. /\ next \in RequestState /\ next.mem = req[q].mem /\ next.op = req[q].op /\ next.stage = "post"
      /\ next.add = req[q].add /\ next.gone = req[q].gone /\ next.chosen = req[q].chosen /\ next.todo = rest
      /\ next.rooms = req[q].rooms
  BY <1>1, <1>5 DEF RequestState
<1> HIDE DEF next
<1>12. PICK c \in RequestState \cup {Idle} : c = IF rest = <<>> THEN Idle ELSE next
  BY <1>6
<1>7. c # Idle => Formed(c)
  BY <1>1, <1>6, <1>12 DEF Formed
<1>8. req' = [req EXCEPT ![q] = c]
  BY <1>4, <1>12
<1>9. info' \in [Room -> Info]
  BY <1>1, <1>3 DEF RequestState
<1>10. Typed'
  <2> QED BY <1>3, <1>7, <1>8, <1>9, TypedClose DEF Typed, TypeOK
<1>11. ASSUME Serial PROVE Serial'
  <2>1. req[q].op # "cleanup" /\ req[q].mem = info
    BY <1>1, <1>11 DEF Formed, Serial, Knows
  <2>2. info' = info
    BY <1>1, <1>3, <2>1
  <2>3. NoDuplicates' /\ CountExact' /\ LastMessageNewest'
    <3>1. \A x \in Room : info'[x].count = info[x].count
      BY <2>2
    <3> QED BY <1>3, <1>11, <2>2, <3>1, SameRooms DEF Serial, LastMessageNewest
  <2>4. c # Idle => Knows(c)'
    BY <1>6, <1>12, <2>1, <2>2 DEF Knows
  <2> QED BY <1>1, <1>8, <1>10, <1>11, <2>3, <2>4, SerialClose
<1> QED BY <1>10, <1>11

-----------------------------------------------------------------------------
(* The writes of rows.                                                     *)

\* Rows that no two share a profile of are as many as their profiles.
LEMMA ProfilesCount ==
  ASSUME NEW S, IsFiniteSet(S), \A x, y \in S : x.profile = y.profile => x = y
  PROVE  IsFiniteSet({x.profile : x \in S}) /\ Cardinality({x.profile : x \in S}) = Cardinality(S)
<1> DEFINE P == {x.profile : x \in S}
           F == [x \in S |-> x.profile]
<1>1. F \in Bijection(S, P)
  BY DEF Bijection, Injection, Surjection, IsInjective
<1>2. ExistsBijection(S, P)
  BY <1>1 DEF ExistsBijection
<1> HIDE DEF P
<1>3. IsFiniteSet(P) /\ Cardinality(P) = Cardinality(S)
  BY <1>2, FS_Bijection
<1> QED BY <1>3 DEF P

\* New rows are finitely many.
LEMMA NewRowsFinite ==
  ASSUME clock \in Nat, NEW N, \A x \in N : \E r \in Room, p \in Profile : x = NewRow(r, p)
  PROVE  IsFiniteSet(N) /\ N \subseteq Row
<1> DEFINE D == Room \X Profile
           F == [t \in D |-> NewRow(t[1], t[2])]
           A == {NewRow(t[1], t[2]) : t \in D}
<1>1. IsFiniteSet(D)
  BY RoomAssumption, ProfileAssumption, FS_Product
<1>2. F \in Surjection(D, A)
  BY DEF Surjection
<1>3. IsFiniteSet(A)
  <2> HIDE DEF D, A, F
  <2> QED BY <1>1, <1>2, FS_Surjection
<1>4. N \subseteq A
  <2> SUFFICES ASSUME NEW x \in N PROVE x \in A
    OBVIOUS
  <2>1. PICK r \in Room, p \in Profile : x = NewRow(r, p)
    OBVIOUS
  <2>2. <<r, p>> \in D /\ NewRow(<<r, p>>[1], <<r, p>>[2]) = x
    BY <2>1
  <2> QED BY <2>2
<1>5. A \subseteq Row
  BY DEF NewRow, Row
<1> HIDE DEF A
<1> QED BY <1>3, <1>4, <1>5, FS_Subset

\* While no profile is twice in a room, a row stands for itself alone.
LEMMA WithoutRows ==
  ASSUME rows \subseteq Row, NoDuplicates, NEW T \in SUBSET rows
  PROVE  Without(rows, T) = rows \ T
<1>1. \A x, y \in rows : SameRow(x, y) => x = y
  BY DEF SameRow, NoDuplicates, HasDuplicate, RowsOf, Row
<1>2. \A x \in rows : SameRow(x, x)
  BY DEF SameRow
<1> QED BY <1>1, <1>2 DEF Without

\* Adding a participant.
LEMMA AddWriteWell ==
  ASSUME Typed, NEW q \in Request, AddWrite(q)
  PROVE  Typed' /\ (Serial => Serial')
<1>1. req[q] # Idle /\ req[q].op = "add" /\ req[q].stage = "write" /\ Formed(req[q]) /\ req[q] \in RequestState
      /\ info \in [Room -> Info] /\ rows \subseteq Row /\ IsFiniteSet(rows) /\ clock \in Nat
      /\ lock \in [Room -> Request \cup {Free}]
  BY DEF AddWrite, At, Typed, TypeOK
<1>2. PICK p \in Profile : req[q].add = {p}
  BY <1>1 DEF Formed
<1> DEFINE todo == req[q].todo
           into == {todo[i] : i \in DOMAIN todo}
           mem == [r \in Room |-> IF r \in into THEN [req[q].mem[r] EXCEPT !.count = @ + 1]
                                  ELSE req[q].mem[r]]
           saved == [r \in Room |-> IF r \in into THEN [info[r] EXCEPT !.count = mem[r].count]
                                    ELSE info[r]]
           N == UNION {{NewRow(r, n) : n \in req[q].add} : r \in into}
<1>3. /\ rows' = rows \cup N /\ Emit(q, saved, mem, todo)
      /\ clock' = clock + 1 /\ lock' = [r \in Room |-> IF lock[r] = q THEN Free ELSE lock[r]]
      /\ started' = started
  BY DEF AddWrite
<1>4. todo \in Seq(Room) /\ into \subseteq Room /\ req[q].mem \in [Room -> Info]
  BY <1>1 DEF RequestState
<1>5. N = {NewRow(r, p) : r \in into}
  <2> HIDE DEF into
  <2> QED BY <1>2
<1> HIDE DEF N
<1>6. rows' \subseteq Row /\ IsFiniteSet(rows')
  <2>1. \A x \in N : \E r \in Room, n \in Profile : x = NewRow(r, n)
    BY <1>4, <1>5
  <2>2. IsFiniteSet(N) /\ N \subseteq Row
    BY <1>1, <2>1, NewRowsFinite
  <2> QED BY <1>1, <1>3, <2>2, FS_Union
<1> HIDE DEF into
<1>7. \A i \in Info : /\ [i EXCEPT !.count = @ + 1] \in Info
                      /\ [i EXCEPT !.count = @ + 1].count = i.count + 1
                      /\ [i EXCEPT !.count = @ + 1].last = i.last
                      /\ [i EXCEPT !.count = @ + 1] = [i EXCEPT !.count = i.count + 1]
                      /\ \A n \in Int : [i EXCEPT !.count = n] \in Info
  BY DEF Info
<1>8. mem \in [Room -> Info]
  BY <1>4, <1>7
<1>9. saved \in [Room -> Info]
  <2> HIDE DEF mem
  <2>1. \A r \in Room : mem[r].count \in Int
    BY <1>8 DEF Info
  <2> QED BY <1>1, <1>7, <2>1
<1>10. ASSUME Serial
       PROVE  /\ NoDuplicates'
              /\ \A r \in Room : /\ saved[r] = mem[r] /\ mem[r].last = newest[r]
                                 /\ mem[r].count = Cardinality(RowsOf(r)')
  <2>1. req[q].mem = info /\ \A r \in into : p \notin MembersOf(r)
    BY <1>1, <1>2, <1>10 DEF Serial, Knows, into
  <2>2. \A r \in Room : /\ saved[r] = mem[r] /\ mem[r].last = newest[r]
                        /\ mem[r].count = IF r \in into THEN Cardinality(RowsOf(r)) + 1 ELSE Cardinality(RowsOf(r))
    <3> SUFFICES ASSUME NEW r \in Room
                 PROVE  /\ saved[r] = mem[r] /\ mem[r].last = newest[r]
                        /\ mem[r].count = IF r \in into THEN Cardinality(RowsOf(r)) + 1
                                          ELSE Cardinality(RowsOf(r))
      OBVIOUS
    <3>1. info[r] \in Info /\ info[r].count = Cardinality(RowsOf(r)) /\ info[r].last = newest[r]
      BY <1>1, <1>10 DEF Serial, CountExact, LastMessageNewest
    <3>2. mem[r] = IF r \in into THEN [info[r] EXCEPT !.count = @ + 1] ELSE info[r]
      BY <2>1
    <3>3. saved[r] = IF r \in into THEN [info[r] EXCEPT !.count = mem[r].count] ELSE info[r]
      OBVIOUS
    <3> HIDE DEF mem, saved
    <3>4. saved[r] = mem[r]
      BY <1>7, <3>1, <3>2, <3>3
    <3> QED BY <1>7, <3>1, <3>2, <3>4
  <2>3. \A r \in Room : /\ RowsOf(r)' = IF r \in into THEN RowsOf(r) \cup {NewRow(r, p)} ELSE RowsOf(r)
                        /\ r \in into => NewRow(r, p) \notin RowsOf(r) /\ NewRow(r, p).profile = p
                                         /\ \A x \in RowsOf(r) : x.profile # p
    <3>1. \A r : NewRow(r, p).room = r /\ NewRow(r, p).profile = p
      BY DEF NewRow
    <3> QED BY <1>3, <1>5, <2>1, <3>1 DEF RowsOf, MembersOf
  <2>4. \A r \in Room : mem[r].count = Cardinality(RowsOf(r)')
    <3> SUFFICES ASSUME NEW r \in Room, r \in into
                 PROVE  Cardinality(RowsOf(r) \cup {NewRow(r, p)}) = Cardinality(RowsOf(r)) + 1
      BY <2>2, <2>3
    <3>1. IsFiniteSet(RowsOf(r))
      BY <1>1, FS_Subset DEF RowsOf
    <3> QED BY <2>3, <3>1, FS_AddElement
  <2>5. NoDuplicates'
    <3> SUFFICES ASSUME NEW r \in Room, NEW x \in RowsOf(r)', NEW y \in RowsOf(r)', x.profile = y.profile
                 PROVE  x = y
      BY DEF NoDuplicates, HasDuplicate
    <3>1. x \in RowsOf(r) /\ y \in RowsOf(r) => x = y
      BY <1>10 DEF Serial, NoDuplicates, HasDuplicate
    <3> QED BY <2>3, <3>1
  <2> QED BY <2>2, <2>4, <2>5
<1>11. clock' \in Nat /\ lock' \in [Room -> Request \cup {Free}]
  BY <1>1, <1>3
<1> HIDE DEF mem, saved, todo
<1> QED BY <1>1, <1>3, <1>4, <1>6, <1>8, <1>9, <1>10, <1>11, EmitWell

\* Changing a role.
LEMMA ToggleWriteWell ==
  ASSUME Typed, NEW q \in Request, ToggleWrite(q)
  PROVE  Typed' /\ (Serial => Serial')
<1>1. req[q] # Idle /\ req[q].op = "toggle" /\ req[q].stage = "write" /\ Formed(req[q]) /\ req[q] \in RequestState
      /\ info \in [Room -> Info] /\ rows \subseteq Row /\ IsFiniteSet(rows) /\ clock \in Nat
      /\ lock \in [Room -> Request \cup {Free}]
  BY DEF ToggleWrite, At, Typed, TypeOK
<1>2. CASE GiveUp(q)
  BY <1>1, <1>2, GiveUpWell
<1>3. CASE ~GiveUp(q)
  <2>1. PICK x \in req[q].chosen :
          LET promote == x.role = "member" IN
            /\ rows' = SetRole(rows, x, IF promote THEN "admin" ELSE "member")
            /\ Emit(q, info, req[q].mem, IF promote THEN <<x.room>> ELSE <<>>)
            /\ UNCHANGED <<lock, clock, started>>
    BY <1>3 DEF ToggleWrite
  <2>2. x \in Row /\ req[q].chosen = {x}
    BY <1>1, <2>1 DEF Formed
  <2> DEFINE role == IF x.role = "member" THEN "admin" ELSE "member"
             todo == IF x.role = "member" THEN <<x.room>> ELSE <<>>
             y == [x EXCEPT !.role = role]
  <2>3. todo \in Seq(Room) /\ req[q].mem \in [Room -> Info]
    BY <1>1, <2>2 DEF Row, RequestState
  <2>4. y \in Row /\ y.room = x.room /\ y.profile = x.profile
    BY <2>2 DEF Row
  <2>5. rows' = Without(rows, {x}) \cup {y} /\ Emit(q, info, req[q].mem, todo) /\ UNCHANGED <<lock, clock, started>>
    BY <2>1 DEF SetRole
  <2> HIDE DEF y, todo
  <2>6. rows' \subseteq Row /\ IsFiniteSet(rows')
    <3>1. Without(rows, {x}) \subseteq rows
      BY DEF Without
    <3>2. IsFiniteSet(Without(rows, {x}))
      BY <1>1, <3>1, FS_Subset
    <3>3. IsFiniteSet(Without(rows, {x}) \cup {y})
      BY <3>2, FS_AddElement
    <3> QED BY <1>1, <2>4, <2>5, <3>1, <3>3
  <2>7. ASSUME Serial
        PROVE  /\ NoDuplicates'
               /\ \A r \in Room : /\ info[r] = req[q].mem[r] /\ req[q].mem[r].last = newest[r]
                                  /\ req[q].mem[r].count = Cardinality(RowsOf(r)')
    <3>1. req[q].mem = info /\ x \in rows
      BY <1>1, <2>2, <2>7 DEF Serial, Knows
    <3>2. rows' = (rows \ {x}) \cup {y}
      <4>1. {x} \in SUBSET rows
        BY <3>1
      <4> QED BY <1>1, <2>5, <2>7, <4>1, WithoutRows DEF Serial
    <3>3. \A r \in Room : RowsOf(r)' = IF r = x.room THEN (RowsOf(r) \ {x}) \cup {y} ELSE RowsOf(r)
      BY <2>4, <3>2 DEF RowsOf
    <3>4. \A r \in Room : \A z, w \in RowsOf(r) : z.profile = w.profile => z = w
      BY <2>7 DEF Serial, NoDuplicates, HasDuplicate
    <3>5. x \in RowsOf(x.room) /\ x.room \in Room
      BY <2>2, <3>1 DEF RowsOf, Row
    <3>6. NoDuplicates'
      <4> SUFFICES ASSUME NEW r \in Room, NEW z \in RowsOf(r)', NEW w \in RowsOf(r)', z.profile = w.profile
                   PROVE  z = w
        BY DEF NoDuplicates, HasDuplicate
      <4> QED BY <2>4, <3>3, <3>4, <3>5
    <3>7. \A r \in Room : Cardinality(RowsOf(r)') = Cardinality(RowsOf(r))
      <4> SUFFICES ASSUME NEW r \in Room, r = x.room
                   PROVE  Cardinality((RowsOf(r) \ {x}) \cup {y}) = Cardinality(RowsOf(r))
        BY <3>3
      <4>1. IsFiniteSet(RowsOf(r)) /\ x \in RowsOf(r)
        BY <1>1, <3>5, FS_Subset DEF RowsOf
      <4>2. IsFiniteSet(RowsOf(r) \ {x}) /\ Cardinality(RowsOf(r) \ {x}) = Cardinality(RowsOf(r)) - 1
        BY <4>1, FS_RemoveElement
      <4>3. y \notin RowsOf(r) \ {x}
        BY <2>4, <3>4, <4>1
      <4>4. Cardinality((RowsOf(r) \ {x}) \cup {y}) = Cardinality(RowsOf(r) \ {x}) + 1
        BY <4>2, <4>3, FS_AddElement
      <4>5. Cardinality(RowsOf(r)) \in Nat
        BY <4>1, FS_CardinalityType
      <4> QED BY <4>2, <4>4, <4>5
    <3> QED BY <2>7, <3>1, <3>6, <3>7 DEF Serial, CountExact, LastMessageNewest
  <2> QED BY <1>1, <2>3, <2>5, <2>6, <2>7, EmitWell
<1> QED BY <1>2, <1>3

\* Deleting a user.
LEMMA CleanupWriteWell ==
  ASSUME Typed, NEW q \in Request, CleanupWrite(q)
  PROVE  Typed' /\ (Serial => Serial')
<1>1. req[q] # Idle /\ req[q].op = "cleanup" /\ req[q].stage = "write" /\ Formed(req[q]) /\ req[q] \in RequestState
      /\ info \in [Room -> Info] /\ rows \subseteq Row /\ IsFiniteSet(rows) /\ newest \in [Room -> Nat]
  BY DEF CleanupWrite, At, Typed, TypeOK
<1>2. /\ rows' = Without(rows, req[q].gone)
      /\ info' = [r \in Room |-> IF r \in req[q].rooms
                                 THEN [info[r] EXCEPT !.count = req[q].mem[r].count] ELSE info[r]]
      /\ req' = [req EXCEPT ![q] = Idle]
      /\ UNCHANGED <<newest, lock, clock, msgs, started>>
  BY DEF CleanupWrite
<1>3. \A r \in Room : /\ info[r] \in Info /\ req[q].mem[r].count \in Int
                      /\ [info[r] EXCEPT !.count = req[q].mem[r].count] \in Info
                      /\ [info[r] EXCEPT !.count = req[q].mem[r].count].count = req[q].mem[r].count
                      /\ [info[r] EXCEPT !.count = req[q].mem[r].count].last = info[r].last
  BY <1>1 DEF RequestState, Info
<1>4. info' \in [Room -> Info]
  BY <1>2, <1>3
<1>5. rows' \subseteq rows
  BY <1>2 DEF Without
<1>6. rows' \subseteq Row /\ IsFiniteSet(rows')
  BY <1>1, <1>5, FS_Subset
<1>7. Typed'
  BY <1>2, <1>4, <1>6, TypedClose DEF Typed, TypeOK
<1>8. ASSUME Serial PROVE Serial'
  <2>1. /\ req[q].gone = {x \in rows : x.profile = req[q].who}
        /\ req[q].rooms = {x.room : x \in req[q].gone}
        /\ \A r \in Room : req[q].mem[r].count = Cardinality(RowsOf(r) \ req[q].gone)
    BY <1>1, <1>8 DEF Serial, Knows
  <2>2. rows' = rows \ req[q].gone
    <3>1. req[q].gone \in SUBSET rows
      BY <2>1
    <3> QED BY <1>1, <1>2, <1>8, <3>1, WithoutRows DEF Serial
  <2>3. \A r \in Room : RowsOf(r)' = RowsOf(r) \ req[q].gone
    BY <2>2 DEF RowsOf
  <2>4. \A r \in Room : r \notin req[q].rooms => RowsOf(r)' = RowsOf(r)
    BY <2>1, <2>3 DEF RowsOf
  <2>5. CountExact'
    <3> SUFFICES ASSUME NEW r \in Room PROVE info'[r].count = Cardinality(RowsOf(r)')
      BY DEF CountExact
    <3>1. CASE r \in req[q].rooms
      BY <1>2, <1>3, <2>1, <2>3, <3>1
    <3>2. CASE r \notin req[q].rooms
      BY <1>2, <1>8, <2>4, <3>2 DEF Serial, CountExact
    <3> QED BY <3>1, <3>2
  <2>6. NoDuplicates'
    BY <1>8, <2>3 DEF Serial, NoDuplicates, HasDuplicate
  <2>7. LastMessageNewest'
    <3>1. \A r \in Room : info'[r].last = info[r].last
      BY <1>2, <1>3
    <3> QED BY <1>2, <1>8, <3>1 DEF Serial, LastMessageNewest
  <2> QED BY <1>1, <1>2, <1>7, <1>8, <2>5, <2>6, <2>7, SerialClose
<1> QED BY <1>7, <1>8

\* What an update writes while no other request has written since its reads.
LEMMA UpdatedRows ==
  ASSUME Serial, NEW q \in Request, UpdateWrite(q), ~GiveUp(q), NEW r \in Room, req[q].rooms = {r}
  PROVE  /\ EditRead(req[q], r) /\ EditPlanned(req[q], r)
         /\ RowsOf(r)' = ((RowsOf(r) \ (req[q].gone \cup req[q].chosen))
                            \cup {[x EXCEPT !.role = "admin"] : x \in req[q].chosen})
                           \cup {NewRow(r, p) : p \in req[q].fresh}
         /\ \A k \in Room \ {r} : RowsOf(k)' = RowsOf(k)
<1>1. req[q] # Idle /\ req[q].op = "update" /\ req[q].stage = "write" /\ req[q] \in RequestState
      /\ rows \subseteq Row
  BY DEF UpdateWrite, At, Serial, Typed, TypeOK
<1>2. TheRoom(q) = r
  BY DEF TheRoom
<1>3. EditRead(req[q], r) /\ EditPlanned(req[q], r)
  <2>1. PICK k \in Room : req[q].rooms = {k} /\ EditRead(req[q], k) /\ EditPlanned(req[q], k)
    BY <1>1 DEF Serial, Knows
  <2>2. k = r
    BY <2>1
  <2> QED BY <2>1, <2>2
<1>4. rows' = (Without(rows, req[q].gone \cup req[q].chosen)
                 \cup {[x EXCEPT !.role = "admin"] : x \in req[q].chosen})
                \cup {NewRow(r, p) : p \in req[q].fresh}
  BY <1>2 DEF UpdateWrite
<1>5. req[q].gone \cup req[q].chosen \subseteq RowsOf(r)
  BY <1>3 DEF EditPlanned
<1>6. Without(rows, req[q].gone \cup req[q].chosen) = rows \ (req[q].gone \cup req[q].chosen)
  <2>1. req[q].gone \cup req[q].chosen \in SUBSET rows
    BY <1>5 DEF RowsOf
  <2> HIDE DEF Serial
  <2> QED BY <1>1, <2>1, WithoutRows DEF Serial
<1>7. \A x \in req[q].chosen : x \in Row /\ x.room = r /\ [x EXCEPT !.role = "admin"].room = r
  BY <1>1, <1>5 DEF RowsOf, Row
<1>8. \A p : NewRow(r, p).room = r
  BY DEF NewRow
<1>9. \A k \in Room : RowsOf(k)' =
        IF k = r THEN ((RowsOf(r) \ (req[q].gone \cup req[q].chosen))
                            \cup {[x EXCEPT !.role = "admin"] : x \in req[q].chosen})
                           \cup {NewRow(r, p) : p \in req[q].fresh}
        ELSE RowsOf(k)
  BY <1>4, <1>5, <1>6, <1>7, <1>8 DEF RowsOf
<1> QED BY <1>3, <1>9

\* Whatever becomes of the roles, an update leaves the rows that it does not delete and
\* one for each profile that was missing.
LEMMA UpdatedCount ==
  ASSUME Serial, NEW q \in Request, UpdateWrite(q), ~GiveUp(q), NEW r \in Room, req[q].rooms = {r}
  PROVE  /\ NoDuplicates'
         /\ Cardinality(RowsOf(r)') =
              Cardinality(RowsOf(r)) - Cardinality(req[q].gone) + Cardinality(req[q].fresh)
<1>1. req[q] # Idle /\ req[q] \in RequestState /\ rows \subseteq Row /\ IsFiniteSet(rows)
      /\ req[q].fresh \subseteq Profile
  BY DEF UpdateWrite, At, Serial, Typed, TypeOK, RequestState
<1> DEFINE gone == req[q].gone
           fresh == req[q].fresh
           chosen == req[q].chosen
           stay == RowsOf(r) \ gone
           promoted == {[x EXCEPT !.role = "admin"] : x \in chosen}
           new == {NewRow(r, p) : p \in fresh}
<1>2. /\ EditPlanned(req[q], r)
      /\ RowsOf(r)' = ((RowsOf(r) \ (gone \cup chosen)) \cup promoted) \cup new
      /\ \A k \in Room \ {r} : RowsOf(k)' = RowsOf(k)
  BY UpdatedRows
<1>3. chosen \subseteq stay /\ gone \subseteq RowsOf(r) /\ fresh \cap {x.profile : x \in stay} = {}
      /\ \A x, y \in chosen : x = y
  BY <1>2 DEF EditPlanned
<1>4. \A k \in Room : \A x, y \in RowsOf(k) : x.profile = y.profile => x = y
  BY DEF Serial, NoDuplicates, HasDuplicate
<1>5. \A x \in chosen : x \in RowsOf(r) /\ [x EXCEPT !.role = "admin"].profile = x.profile
  BY <1>1, <1>3 DEF RowsOf, Row
<1>6. \A p : NewRow(r, p).profile = p
  BY DEF NewRow
<1>7. \A x \in RowsOf(r)' : \/ x \in stay \ chosen
                            \/ \E y \in chosen : x = [y EXCEPT !.role = "admin"] /\ x.profile = y.profile
                            \/ \E p \in fresh : x = NewRow(r, p) /\ x.profile = p
  <2> SUFFICES ASSUME NEW x \in RowsOf(r)'
               PROVE  \/ x \in stay \ chosen
                      \/ \E y \in chosen : x = [y EXCEPT !.role = "admin"] /\ x.profile = y.profile
                      \/ \E p \in fresh : x = NewRow(r, p) /\ x.profile = p
    OBVIOUS
  <2>1. CASE x \in RowsOf(r) \ (gone \cup chosen)
    BY <2>1
  <2>2. CASE x \in promoted
    <3>1. PICK y \in chosen : x = [y EXCEPT !.role = "admin"]
      BY <2>2
    <3>2. x.profile = y.profile
      BY <1>5, <3>1
    <3> HIDE DEF chosen
    <3> QED BY <3>1, <3>2
  <2>3. CASE x \in new
    <3>1. PICK p \in fresh : x = NewRow(r, p)
      BY <2>3
    <3> QED BY <1>6, <3>1
  <2> HIDE DEF promoted, new, gone, chosen, fresh, stay
  <2> QED BY <1>2, <2>1, <2>2, <2>3
<1>8. \A x, y \in RowsOf(r)' : x.profile = y.profile => x = y
  <2> SUFFICES ASSUME NEW x \in RowsOf(r)', NEW y \in RowsOf(r)', x.profile = y.profile PROVE x = y
    OBVIOUS
  <2>1. \A z \in stay : z.profile \notin fresh
    BY <1>3
  <2>2. chosen \subseteq stay /\ stay \subseteq RowsOf(r)
    BY <1>3
  <2> HIDE DEF stay, chosen, fresh, gone
  <2> QED BY <1>3, <1>4, <1>7, <2>1, <2>2
<1>9. NoDuplicates'
  <2> SUFFICES ASSUME NEW k \in Room, NEW x \in RowsOf(k)', NEW y \in RowsOf(k)', x.profile = y.profile
               PROVE  x = y
    BY DEF NoDuplicates, HasDuplicate
  <2> QED BY <1>2, <1>4, <1>8
<1>10. IsFiniteSet(RowsOf(r)) /\ IsFiniteSet(gone) /\ IsFiniteSet(stay) /\ IsFiniteSet(fresh)
  <2>1. IsFiniteSet(RowsOf(r))
    BY <1>1, FS_Subset DEF RowsOf
  <2>2. stay \subseteq RowsOf(r)
    OBVIOUS
  <2> HIDE DEF stay, gone, fresh
  <2> QED BY <1>1, <1>3, <2>1, <2>2, FS_Subset, ProfileAssumption DEF fresh
<1>11. Cardinality(stay) = Cardinality(RowsOf(r)) - Cardinality(gone)
       /\ Cardinality(RowsOf(r)) \in Nat /\ Cardinality(gone) \in Nat /\ Cardinality(stay) \in Nat
  <2>1. Cardinality(RowsOf(r) \ gone) = Cardinality(RowsOf(r)) - Cardinality(RowsOf(r) \cap gone)
    <3> HIDE DEF gone
    <3> QED BY <1>10, FS_Difference
  <2>2. RowsOf(r) \cap gone = gone
    BY <1>3
  <2> QED BY <1>10, <2>1, <2>2, FS_CardinalityType
<1> DEFINE after == RowsOf(r)'
           kept == {x.profile : x \in stay}
<1>12. {x.profile : x \in after} = kept \cup fresh
  <2>1. ASSUME NEW x \in after PROVE x.profile \in kept \cup fresh
    BY <1>3, <1>7
  <2>2. ASSUME NEW p \in fresh PROVE \E x \in after : x.profile = p
    BY <1>2, <1>6
  <2>3. ASSUME NEW z \in stay PROVE \E x \in after : x.profile = z.profile
    BY <1>2, <1>5
  <2> HIDE DEF after, stay, fresh
  <2> QED BY <2>1, <2>2, <2>3
<1>13. IsFiniteSet(after)
  <2>1. IsFiniteSet(promoted)
    <3>1. chosen = {} \/ \E x \in stay : chosen = {x}
      BY <1>2 DEF EditPlanned
    <3>2. promoted = {} \/ \E z : promoted = {z}
      <4>1. CASE chosen = {}
        BY <4>1
      <4>2. ASSUME NEW x \in stay, chosen = {x} PROVE \E z : promoted = {z}
        <5>1. promoted = {[x EXCEPT !.role = "admin"]}
          BY <4>2
        <5> HIDE DEF promoted
        <5> QED BY <5>1
      <4> HIDE DEF promoted, chosen, stay
      <4> QED BY <3>1, <4>1, <4>2
    <3> HIDE DEF promoted
    <3>3. CASE promoted = {}
      BY <3>3, FS_EmptySet
    <3>4. ASSUME NEW z, promoted = {z} PROVE IsFiniteSet(promoted)
      BY <3>4, FS_Singleton
    <3> QED BY <3>2, <3>3, <3>4
  <2>2. IsFiniteSet(new)
    <3>1. \A x \in new : \E k \in Room, p \in Profile : x = NewRow(k, p)
      BY <1>1
    <3>2. clock \in Nat
      BY DEF Serial, Typed, TypeOK
    <3> HIDE DEF new
    <3> QED BY <3>1, <3>2, NewRowsFinite
  <2>3. IsFiniteSet(RowsOf(r) \ (gone \cup chosen))
    <3> HIDE DEF gone, chosen
    <3> QED BY <1>10, FS_Subset
  <2>4. after = ((RowsOf(r) \ (gone \cup chosen)) \cup promoted) \cup new
    BY <1>2
  <2> HIDE DEF after, promoted, new, gone, chosen
  <2> QED BY <2>1, <2>2, <2>3, <2>4, FS_Union
<1>14. /\ Cardinality(after) = Cardinality(kept \cup fresh)
       /\ IsFiniteSet(kept) /\ Cardinality(kept) = Cardinality(stay)
  <2>1. \A x, y \in stay : x.profile = y.profile => x = y
    BY <1>4
  <2> HIDE DEF after, stay, fresh
  <2> QED BY <1>8, <1>10, <1>12, <1>13, <2>1, ProfilesCount DEF after
<1>15. kept \cap fresh = {}
  BY <1>3
<1>16. Cardinality(kept \cup fresh) = Cardinality(kept) + Cardinality(fresh)
  <2> HIDE DEF kept, fresh
  <2>1. Cardinality(kept \cup fresh) = Cardinality(kept) + Cardinality(fresh) - Cardinality(kept \cap fresh)
    BY <1>10, <1>14, FS_Union
  <2>2. Cardinality(kept) \in Nat /\ Cardinality(fresh) \in Nat
    BY <1>10, <1>14, FS_CardinalityType
  <2>3. Cardinality(kept \cap fresh) = 0
    BY <1>15, FS_EmptySet
  <2> QED BY <2>1, <2>2, <2>3
<1> QED BY <1>9, <1>11, <1>14, <1>16

\* An edit of the participants.
LEMMA UpdateWriteWell ==
  ASSUME Typed, NEW q \in Request, UpdateWrite(q)
  PROVE  Typed' /\ (Serial => Serial')
<1>1. req[q] # Idle /\ req[q].op = "update" /\ req[q].stage = "write" /\ Formed(req[q]) /\ req[q] \in RequestState
      /\ info \in [Room -> Info] /\ rows \subseteq Row /\ IsFiniteSet(rows) /\ clock \in Nat
      /\ lock \in [Room -> Request \cup {Free}]
  BY DEF UpdateWrite, At, Typed, TypeOK
<1>2. CASE GiveUp(q)
  BY <1>1, <1>2, GiveUpWell
<1>3. CASE ~GiveUp(q)
  <2>1. PICK r \in Room : req[q].rooms = {r}
    BY <1>1 DEF Formed
  <2>2. TheRoom(q) = r
    BY <2>1 DEF TheRoom
  <2> DEFINE gone == req[q].gone
             fresh == req[q].fresh
             chosen == req[q].chosen
             mem == [req[q].mem EXCEPT ![r].count = AdjustedCount(@, gone, fresh)]
             notices == Cardinality(fresh) + IF req[q].left THEN 1 ELSE Cardinality(gone)
             saved == [info EXCEPT ![r] = mem[r]]
             todo == [i \in 1..notices |-> r]
             promoted == {[x EXCEPT !.role = "admin"] : x \in chosen}
             new == {NewRow(r, p) : p \in fresh}
  <2>3. /\ rows' = (Without(rows, gone \cup chosen) \cup promoted) \cup new
        /\ clock' = clock + 1 /\ Emit(q, saved, mem, todo) /\ UNCHANGED <<lock, started>>
    BY <1>3, <2>2, Zenon DEF UpdateWrite
  <2>4. Cardinality(gone) \in Nat /\ Cardinality(fresh) \in Nat /\ fresh \subseteq Profile
    <3>1. fresh \subseteq Profile
      BY <1>1 DEF RequestState
    <3>2. IsFiniteSet(fresh)
      <4> HIDE DEF fresh
      <4> QED BY <3>1, FS_Subset, ProfileAssumption
    <3> QED BY <1>1, <3>1, <3>2, FS_CardinalityType DEF Formed
  <2>5. todo \in Seq(Room)
    <3>1. notices \in Nat
      BY <2>4
    <3> HIDE DEF notices
    <3> QED BY <3>1
  <2> DEFINE n == req[q].mem[r].count - Cardinality(gone) + Cardinality(fresh)
  <2>6. mem = [req[q].mem EXCEPT ![r] = [req[q].mem[r] EXCEPT !.count = n]] /\ req[q].mem \in [Room -> Info]
    BY <1>1 DEF AdjustedCount, RequestState
  <2>7. /\ [req[q].mem[r] EXCEPT !.count = n] \in Info
        /\ [req[q].mem[r] EXCEPT !.count = n].count = n
        /\ [req[q].mem[r] EXCEPT !.count = n].last = req[q].mem[r].last
    BY <2>4, <2>6 DEF Info
  <2> HIDE DEF gone, fresh, n, mem, todo
  <2>8. mem \in [Room -> Info]
    BY <2>6, <2>7
  <2>9. saved \in [Room -> Info]
    BY <1>1, <2>8
  <2>10. rows' \subseteq Row /\ IsFiniteSet(rows')
    <3>1. Without(rows, gone \cup chosen) \subseteq rows
      BY DEF Without
    <3>2. IsFiniteSet(Without(rows, gone \cup chosen))
      BY <1>1, <3>1, FS_Subset
    <3>3. promoted \subseteq Row /\ IsFiniteSet(promoted)
      <4>1. chosen = {} \/ \E x \in Row : chosen = {x}
        BY <1>1 DEF Formed
      <4>2. \A x \in Row : [x EXCEPT !.role = "admin"] \in Row
        BY DEF Row
      <4>3. promoted = {} \/ \E z \in Row : promoted = {z}
        <5>1. CASE chosen = {}
          BY <5>1
        <5>2. ASSUME NEW x \in Row, chosen = {x} PROVE promoted = {[x EXCEPT !.role = "admin"]}
          BY <5>2
        <5> HIDE DEF promoted, chosen
        <5> QED BY <4>1, <4>2, <5>1, <5>2
      <4> QED BY <4>3, FS_EmptySet, FS_Singleton
    <3>4. new \subseteq Row /\ IsFiniteSet(new)
      <4>1. \A x \in new : \E k \in Room, p \in Profile : x = NewRow(k, p)
        BY <2>4
      <4> HIDE DEF new
      <4> QED BY <1>1, <4>1, NewRowsFinite
    <3> HIDE DEF promoted, new
    <3>5. IsFiniteSet(Without(rows, gone \cup chosen) \cup promoted)
      BY <3>2, <3>3, FS_Union
    <3>6. IsFiniteSet((Without(rows, gone \cup chosen) \cup promoted) \cup new)
      BY <3>4, <3>5, FS_Union
    <3> QED BY <1>1, <2>3, <3>1, <3>3, <3>4, <3>6
  <2>11. ASSUME Serial
         PROVE  /\ NoDuplicates'
                /\ \A k \in Room : /\ saved[k] = mem[k] /\ mem[k].last = newest[k]
                                   /\ mem[k].count = Cardinality(RowsOf(k)')
    <3>1. req[q].mem = info
      BY <1>1, <2>11 DEF Serial, Knows
    <3>2. /\ NoDuplicates'
          /\ Cardinality(RowsOf(r)') = Cardinality(RowsOf(r)) - Cardinality(gone) + Cardinality(fresh)
      BY <1>3, <2>1, <2>11, UpdatedCount DEF gone, fresh
    <3>3. \A k \in Room \ {r} : RowsOf(k)' = RowsOf(k)
      BY <1>3, <2>1, <2>11, UpdatedRows
    <3>4. \A k \in Room : info[k].count = Cardinality(RowsOf(k)) /\ info[k].last = newest[k]
      BY <2>11 DEF Serial, CountExact, LastMessageNewest
    <3>5. \A k \in Room : k # r => mem[k] = info[k]
      BY <2>6, <3>1
    <3>6. mem[r].count = n /\ mem[r].last = info[r].last
      BY <2>6, <2>7, <3>1
    <3>7. \A k \in Room : saved[k] = mem[k]
      BY <1>1, <2>8, <3>5
    <3>8. \A k \in Room : mem[k].last = newest[k]
      BY <3>4, <3>5, <3>6
    <3>9. mem[r].count = Cardinality(RowsOf(r)')
      BY <3>1, <3>2, <3>4, <3>6 DEF n
    <3>10. \A k \in Room : mem[k].count = Cardinality(RowsOf(k)')
      BY <3>3, <3>4, <3>5, <3>9
    <3> QED BY <3>2, <3>7, <3>8, <3>10
  <2>12. clock' \in Nat /\ lock' \in [Room -> Request \cup {Free}] /\ started' = started
    BY <1>1, <2>3
  <2> HIDE DEF saved
  <2> QED BY <1>1, <2>3, <2>5, <2>8, <2>9, <2>10, <2>11, <2>12, EmitWell
<1> QED BY <1>2, <1>3
\* A new room has finitely many rows, their number as its count, and no message yet.
LEMMA BeginsSerial == Init => Serial
<1> SUFFICES ASSUME Init PROVE Serial
  OBVIOUS
<1>1. TypeOK /\ NoDuplicates /\ CountExact /\ \A r \in Room : IsFiniteSet(RowsOf(r))
  BY InvInit DEF Inv
<1>2. IsFiniteSet(rows)
  <2> DEFINE f == [r \in Room |-> RowsOf(r)]
             T == {RowsOf(r) : r \in Room}
  <2>1. f \in Surjection(Room, T)
    BY DEF Surjection
  <2>2. IsFiniteSet(T)
    <3> HIDE DEF f, T
    <3> QED BY <2>1, FS_Surjection, RoomAssumption
  <2>3. \A S \in T : IsFiniteSet(S)
    BY <1>1
  <2>4. rows = UNION T
    BY <1>1 DEF RowsOf, TypeOK, Row
  <2>5. IsFiniteSet(UNION T)
    <3> HIDE DEF T
    <3> QED BY <2>2, <2>3, FS_UNION
  <2> QED BY <2>4, <2>5
<1>3. \A q \in Request : req[q] = Idle
  BY DEF Init
<1>4. LastMessageNewest
  <2>1. \A r \in Room : info[r].last = 0 /\ newest[r] = 0
    BY DEF Init
  <2> QED BY <2>1 DEF LastMessageNewest
<1> QED BY <1>1, <1>2, <1>3, <1>4 DEF Serial, Typed

\* What a request has read stays true while no row and no room is written.
LEMMA KnowsStill ==
  ASSUME NEW s, Knows(s), UNCHANGED <<rows, info>>
  PROVE  Knows(s)'
<1>1. \A r : RowsOf(r)' = RowsOf(r) /\ AdminsOf(r)' = AdminsOf(r) /\ MembersOf(r)' = MembersOf(r)
  BY DEF RowsOf, AdminsOf, MembersOf
<1>2. \A r, p : IsAdmin(r, p)' = IsAdmin(r, p)
  BY <1>1 DEF IsAdmin
<1> QED BY <1>1, <1>2, Zenon DEF Knows, EditRead, EditPlanned

\* Every step keeps requests well formed; alone, a request also keeps the rooms right.
LEMMA RoomStep ==
  ASSUME Typed, Next
  PROVE  Typed' /\ (Serial /\ Concurrency <= 1 => Serial')
<1>1. PICK q \in Request : Begin(q) \/ Continue(q)
  BY DEF Next
<1>2. CASE Begin(q)
  <2>1. PICK s \in RequestState : Start(q, s) /\ Formed(s) /\ Knows(s)
    BY <1>2, BeginsWell
  <2>2. /\ req[q] = Idle /\ started' = started + 1 /\ started < MaxRequests
        /\ Cardinality({k \in Request : req[k] # Idle}) < Concurrency
        /\ req' = [req EXCEPT ![q] = s] /\ UNCHANGED <<rows, info, newest, lock, clock, msgs>>
    BY <2>1 DEF Start
  <2>3. started' \in 0..MaxRequests
    BY <2>2, BoundAssumption DEF Typed, TypeOK
  <2>4. Typed'
    BY <2>1, <2>2, <2>3, TypedClose DEF Typed, TypeOK
  <2>5. ASSUME Serial, Concurrency <= 1 PROVE Serial'
    <3> DEFINE S == {k \in Request : req[k] # Idle}
    <3>1. S = {} \/ \E k : S = {k}
      <4>1. \A k, o \in S : k = o
        BY <2>5 DEF Serial
      <4> HIDE DEF S
      <4>2. ASSUME NEW k \in S PROVE S = {k}
        BY <4>1
      <4> QED BY <4>2
    <3>2. S = {}
      <4>1. Cardinality(S) < 1
        <5>1. Cardinality(S) < Concurrency
          BY <2>2
        <5>2. Cardinality(S) \in Nat
          <6> HIDE DEF S
          <6>1. CASE S = {}
            BY <6>1, FS_EmptySet
          <6>2. ASSUME NEW k, S = {k} PROVE Cardinality(S) \in Nat
            <7>1. Cardinality(S) = 1
              BY <6>2, FS_Singleton
            <7> QED BY <7>1
          <6> QED BY <3>1, <6>1, <6>2
        <5> HIDE DEF S
        <5> QED BY <2>5, <5>1, <5>2, BoundAssumption
      <4> HIDE DEF S
      <4>2. ASSUME NEW k, S = {k} PROVE FALSE
        BY <4>1, <4>2, FS_Singleton
      <4> QED BY <3>1, <4>2
    <3>3. \A k \in Request : req[k] = Idle
      BY <3>2
    <3>4. \A k \in Request \ {q} : req'[k] = Idle
      BY <2>2, <3>3 DEF Typed, TypeOK
    <3>5. req'[q] = s
      BY <2>2 DEF Typed, TypeOK
    <3>6. (\A k, o \in Request : req[k] # Idle /\ req[o] # Idle => k = o)'
      BY <3>4
    <3>7. NoDuplicates' /\ CountExact' /\ LastMessageNewest'
      BY <2>2, <2>5, SameRooms DEF Serial, LastMessageNewest
    <3>8. Knows(s)'
      BY <2>1, <2>2, KnowsStill
    <3>9. ASSUME NEW k \in Request, req'[k] # Idle PROVE Knows(req[k])'
      <4>1. k = q /\ req'[k] = s
        BY <3>4, <3>5, <3>9
      <4> QED BY <3>8, <4>1 DEF Knows, EditRead, EditPlanned
    <3> QED BY <2>4, <3>6, <3>7, <3>9 DEF Serial
  <2> QED BY <2>4, <2>5
<1>3. CASE Continue(q)
  BY <1>3, SendWriteWell, UpdateTransactionWell, UpdateWriteWell, AddLockWell, AddCheckWell, AddWriteWell,
     AddNoticeFailsWell, ToggleWriteWell, CleanupWriteWell, PostWell, SaveWell DEF Continue
<1> QED BY <1>1, <1>2, <1>3

\* The two invariants are inductive.
LEMMA TypedStep == Typed /\ [Next]_vars => Typed'
<1> SUFFICES ASSUME Typed, [Next]_vars PROVE Typed'
  OBVIOUS
<1>1. CASE Next
  BY <1>1, RoomStep
<1>2. CASE UNCHANGED vars
  BY <1>2 DEF vars, Typed, TypeOK, Formed
<1> QED BY <1>1, <1>2

\* The setting of the theorems about requests that do not overlap.
OneAtATime == Concurrency <= 1

LEMMA SerialStep == OneAtATime /\ Serial /\ [Next]_vars => Serial'
<1> SUFFICES ASSUME OneAtATime, Serial, [Next]_vars PROVE Serial'
  OBVIOUS
<1>1. CASE Next
  BY <1>1, RoomStep DEF OneAtATime, Serial
<1>2. CASE UNCHANGED vars
  <2>1. Typed'
    BY <1>2, TypedStep DEF Serial
  <2>2. NoDuplicates' /\ CountExact' /\ LastMessageNewest'
    BY <1>2, SameRooms DEF Serial, LastMessageNewest, vars
  <2>3. ASSUME NEW q \in Request, req'[q] # Idle PROVE Knows(req[q])'
    <3>1. PICK s \in RequestState : s = req[q]
      BY <1>2, <2>3 DEF vars, Serial, Typed, TypeOK
    <3>2. req'[q] = s /\ Knows(s) /\ rows' = rows /\ info' = info
      BY <1>2, <2>3, <3>1 DEF vars, Serial
    <3>3. Knows(s)'
      BY <3>2, KnowsStill
    <3> QED BY <3>2, <3>3 DEF Knows, EditRead, EditPlanned
  <2>4. (\A q, k \in Request : req[q] # Idle /\ req[k] # Idle => q = k)'
    BY <1>2 DEF vars, Serial
  <2> QED BY <2>1, <2>2, <2>3, <2>4 DEF Serial
<1> QED BY <1>1, <1>2

\* However requests overlap, and whether or not a request is one transaction, the rows,
\* the columns of the rooms, the locks and the requests in flight keep their types.
THEOREM RoomsTypeCorrect == Spec => []TypeOK
<1>1. Init => Typed
  BY BeginsSerial DEF Serial
<1>2. Typed => TypeOK
  BY DEF Typed
<1> QED BY <1>1, <1>2, TypedStep, PTL DEF Spec

\* One request at a time, whatever mutations clients mix and wherever one that is not a
\* transaction stops, no profile is in a room twice...
THEOREM SerialNeverDuplicates ==
  ASSUME OneAtATime PROVE Spec => []TypedAndUnique
<1>1. Typed /\ Serial => TypedAndUnique
  BY DEF Serial, Typed, TypedAndUnique
<1>2. Serial /\ [Next]_vars => Serial'
  BY SerialStep
<1>3. Init => Typed
  BY BeginsSerial DEF Serial
<1> QED BY <1>1, <1>2, <1>3, TypedStep, BeginsSerial, PTL DEF Spec

\* ... participants_count is the number of participants, although three mutations adjust
\* it from an instance in memory and send_message saves every column of one...
THEOREM SerialCountsExact ==
  ASSUME OneAtATime PROVE Spec => []CountExact
<1>1. Serial => CountExact
  BY DEF Serial
<1>2. Serial /\ [Next]_vars => Serial'
  BY SerialStep
<1> QED BY <1>1, <1>2, BeginsSerial, PTL DEF Spec

\* ... and last_message is the newest message: what the trigger sets, no save takes back.
THEOREM SerialLastMessageNewest ==
  ASSUME OneAtATime PROVE Spec => []LastMessageNewest
<1>1. Serial => LastMessageNewest
  BY DEF Serial
<1>2. Serial /\ [Next]_vars => Serial'
  BY SerialStep
<1> QED BY <1>1, <1>2, BeginsSerial, PTL DEF Spec
-----------------------------------------------------------------------------
(* The admins of a room. *)

\* Clients edit the participants one way at a time: they add profiles, or remove one,
\* or leave.  An admin who leaves and removes somebody else in the same call leaves
\* the room without admin, and so does one who leaves an empty room while adding.
PlainEdits == \A e \in Edits : e[2] = {} \/ (e[1] = {} /\ \E p \in Profile : e[2] = {p})

\* What AdminKept asks of a step in room r, cleanups apart.
KeepsAdmin(r) == AdminsOf(r) # {} /\ RowsOf(r)' # {} => AdminsOf(r)' # {}

\* A step that leaves the admin rows keeps the admins.
LEMMA AdminRowsStay ==
  ASSUME \A x \in rows : x.role = "admin" => x \in rows'
  PROVE  \A r \in Room : KeepsAdmin(r)
BY DEF KeepsAdmin, AdminsOf, RowsOf

\* The planned edit of a room that has an admin keeps one: the acting admin stays, or
\* another one does, or the oldest participant left takes over, or nobody is left.
LEMMA PlannedEditKeepsAdmin ==
  ASSUME Serial, PlainEdits, NEW s \in RequestState, NEW r \in Room,
         EditRead(s, r), EditPlanned(s, r), s.chosen = {},
         AdminsOf(r) # {}, (RowsOf(r) \ s.gone) \cup s.fresh # {}
  PROVE  \E x \in AdminsOf(r) : x \notin s.gone
<1> SUFFICES ASSUME AdminsOf(r) \subseteq s.gone PROVE FALSE
  OBVIOUS
<1>1. /\ s.left = (s.out = {s.who})
      /\ s.handoff = (s.left /\ IsAdmin(r, s.who) /\ Cardinality(AdminsOf(r)) = 1)
      /\ (s.left /\ s.add = {}) \/ IsAdmin(r, s.who)
      /\ s.out = {} \/ (s.add = {} /\ \E p \in Profile : s.out = {p})
  BY DEF EditRead, PlainEdits
<1>2. /\ s.gone = {x \in RowsOf(r) : x.profile \in s.out}
      /\ s.fresh \subseteq s.add
      /\ ~(s.handoff /\ RowsOf(r) \ s.gone # {})
  BY DEF EditPlanned
<1>3. PICK y \in AdminsOf(r) : y \in s.gone
  OBVIOUS
<1>4. y.profile \in s.out
  BY <1>2, <1>3
<1>5. PICK p \in Profile : s.out = {p} /\ s.add = {}
  BY <1>1, <1>4
<1>6. \A x \in AdminsOf(r) : x.profile = p /\ x \in RowsOf(r)
  BY <1>2, <1>5 DEF AdminsOf
<1>7. AdminsOf(r) = {y}
  BY <1>3, <1>6 DEF Serial, NoDuplicates, HasDuplicate
<1>8. Cardinality(AdminsOf(r)) = 1
  BY <1>7, FS_Singleton
<1>9. s.who = p
  <2>1. CASE IsAdmin(r, s.who)
    BY <1>6, <2>1 DEF IsAdmin
  <2>2. CASE s.left
    BY <1>1, <1>5, <2>2
  <2> QED BY <1>1, <2>1, <2>2
<1>10. IsAdmin(r, s.who)
  BY <1>6, <1>7, <1>9 DEF IsAdmin
<1>11. s.handoff
  BY <1>1, <1>5, <1>8, <1>9, <1>10
<1>12. RowsOf(r) \ s.gone # {}
  BY <1>2, <1>5
<1> QED BY <1>2, <1>11, <1>12

\* An update keeps an admin, the heir if nobody else.
LEMMA UpdateKeepsAdmin ==
  ASSUME Serial, PlainEdits, NEW q \in Request, UpdateWrite(q), NEW r \in Room
  PROVE  KeepsAdmin(r)
<1>1. req[q] # Idle /\ req[q].op = "update" /\ Formed(req[q]) /\ req[q] \in RequestState
  BY DEF UpdateWrite, At, Serial, Typed, TypeOK
<1>2. CASE GiveUp(q)
  BY <1>2 DEF GiveUp, KeepsAdmin, AdminsOf, RowsOf
<1>3. CASE ~GiveUp(q)
  <2>1. PICK k \in Room : req[q].rooms = {k}
    BY <1>1 DEF Formed
  <2> DEFINE gone == req[q].gone
             chosen == req[q].chosen
             promoted == {[x EXCEPT !.role = "admin"] : x \in chosen}
             new == {NewRow(k, p) : p \in req[q].fresh}
  <2>2. /\ EditRead(req[q], k) /\ EditPlanned(req[q], k)
        /\ RowsOf(k)' = ((RowsOf(k) \ (gone \cup chosen)) \cup promoted) \cup new
        /\ \A o \in Room \ {k} : RowsOf(o)' = RowsOf(o)
    BY <1>3, <2>1, UpdatedRows
  <2>3. CASE r # k
    BY <2>2, <2>3 DEF KeepsAdmin, AdminsOf
  <2>4. CASE r = k /\ chosen # {}
    <3>1. PICK x \in RowsOf(k) : x \in chosen
      BY <2>2, <2>4 DEF EditPlanned
    <3>2. [x EXCEPT !.role = "admin"] \in RowsOf(k)' /\ [x EXCEPT !.role = "admin"].role = "admin"
      <4>1. x \in Row
        BY <3>1 DEF RowsOf, Serial, Typed, TypeOK
      <4>2. [x EXCEPT !.role = "admin"] \in promoted
        BY <3>1
      <4> QED BY <2>2, <4>1, <4>2 DEF Row
    <3> QED BY <2>4, <3>2 DEF KeepsAdmin, AdminsOf
  <2>5. CASE r = k /\ chosen = {}
    <3> SUFFICES ASSUME AdminsOf(k) # {}, RowsOf(k)' # {} PROVE AdminsOf(k)' # {}
      BY <2>5 DEF KeepsAdmin
    <3>1. (RowsOf(k) \ gone) \cup req[q].fresh # {}
      BY <2>2, <2>5
    <3>2. PICK x \in AdminsOf(k) : x \notin gone
      BY <1>1, <2>2, <2>5, <3>1, PlannedEditKeepsAdmin
    <3>3. x \in RowsOf(k)' /\ x.role = "admin"
      BY <2>2, <2>5, <3>2 DEF AdminsOf
    <3> QED BY <3>3 DEF AdminsOf
  <2> QED BY <2>3, <2>4, <2>5
<1> QED BY <1>2, <1>3

\* A demotion is of one admin of several.
LEMMA ToggleKeepsAdmin ==
  ASSUME Serial, NEW q \in Request, ToggleWrite(q), NEW r \in Room
  PROVE  KeepsAdmin(r)
<1>1. req[q] # Idle /\ req[q].op = "toggle" /\ req[q].stage = "write" /\ rows \subseteq Row /\ IsFiniteSet(rows)
  BY DEF ToggleWrite, At, Serial, Typed, TypeOK
<1>2. CASE GiveUp(q)
  BY <1>2 DEF GiveUp, KeepsAdmin, AdminsOf, RowsOf
<1>3. CASE ~GiveUp(q)
  <2>1. PICK x \in rows : /\ req[q].chosen = {x}
                          /\ x.role = "admin" => Cardinality(AdminsOf(x.room)) > 1
    BY <1>1 DEF Serial, Knows
  <2>2. rows' = SetRole(rows, x, IF x.role = "member" THEN "admin" ELSE "member")
    BY <1>3, <2>1 DEF ToggleWrite
  <2> DEFINE y == [x EXCEPT !.role = IF x.role = "member" THEN "admin" ELSE "member"]
  <2>3. rows' = (rows \ {x}) \cup {y}
    <3>1. {x} \in SUBSET rows
      BY <2>1
    <3>2. Without(rows, {x}) = rows \ {x}
      BY <1>1, <3>1, WithoutRows DEF Serial
    <3> QED BY <2>2, <3>2 DEF SetRole
  <2>4. CASE x.role = "member"
    <3>1. \A z \in rows : z.role = "admin" => z \in rows'
      BY <2>3, <2>4
    <3> QED BY <3>1, AdminRowsStay
  <2>5. CASE x.role = "admin"
    <3> SUFFICES ASSUME AdminsOf(r) # {} PROVE AdminsOf(r)' # {}
      BY DEF KeepsAdmin
    <3>1. PICK z \in AdminsOf(r) : z # x
      <4>1. CASE r = x.room
        <5>1. x \in AdminsOf(r)
          BY <2>1, <2>5, <4>1 DEF AdminsOf, RowsOf
        <5>2. AdminsOf(r) # {x}
          <6>1. Cardinality({x}) = 1
            BY FS_Singleton
          <6> QED BY <2>1, <2>5, <4>1, <6>1
        <5> QED BY <5>1, <5>2
      <4>2. CASE r # x.room
        BY <4>2 DEF AdminsOf, RowsOf
      <4> QED BY <4>1, <4>2
    <3>2. z \in rows' /\ z.room = r /\ z.role = "admin"
      BY <2>3, <3>1 DEF AdminsOf, RowsOf
    <3> QED BY <3>2 DEF AdminsOf, RowsOf
  <2>6. x.role \in {"member", "admin"}
    BY <1>1, <2>1 DEF Row
  <2> QED BY <2>4, <2>5, <2>6
<1> QED BY <1>2, <1>3

\* A room that keeps participants keeps an admin in every step but a cleanup.
LEMMA AdminStep ==
  ASSUME Serial, PlainEdits, [Next]_vars
  PROVE  \A r \in Room : AdminsOf(r) # {} /\ RowsOf(r)' # {}
           => \/ AdminsOf(r)' # {}
              \/ \E q \in Request : At(q, "cleanup", "write") /\ req'[q] = Idle
<1> SUFFICES (\A r \in Room : KeepsAdmin(r))
             \/ \E q \in Request : At(q, "cleanup", "write") /\ req'[q] = Idle
  BY DEF KeepsAdmin
<1>1. CASE UNCHANGED vars
  <2>1. \A x \in rows : x.role = "admin" => x \in rows'
    BY <1>1 DEF vars
  <2> QED BY <2>1, AdminRowsStay
<1>2. CASE Next
  <2>1. PICK q \in Request : Begin(q) \/ Continue(q)
    BY <1>2 DEF Next
  <2>2. CASE Begin(q)
    <3>1. rows' = rows
      BY <2>2, BeginsWell DEF Serial, Start
    <3> QED BY <3>1, AdminRowsStay
  <2>3. CASE SendWrite(q) \/ UpdateTransaction(q) \/ AddLock(q) \/ AddCheck(q) \/ AddNoticeFails(q)
             \/ Post(q) \/ Save(q)
    <3>1. rows' = rows
      BY <2>3 DEF SendWrite, UpdateTransaction, AddLock, AddCheck, AddNoticeFails, Post, Save, GiveUp
    <3> QED BY <3>1, AdminRowsStay
  <2>4. CASE AddWrite(q)
    <3>1. rows \subseteq rows'
      BY <2>4 DEF AddWrite
    <3> QED BY <3>1, AdminRowsStay
  <2>5. CASE CleanupWrite(q)
    BY <2>5 DEF CleanupWrite, At, Serial, Typed, TypeOK
  <2>6. CASE UpdateWrite(q)
    BY <2>6, UpdateKeepsAdmin
  <2>7. CASE ToggleWrite(q)
    BY <2>7, ToggleKeepsAdmin
  <2> QED BY <2>1, <2>2, <2>3, <2>4, <2>5, <2>6, <2>7 DEF Continue
<1> QED BY <1>1, <1>2

\* One request at a time and one kind of edit at a time, no mutation takes the last admin
\* from a room that keeps participants: a leaving admin hands over, and the last cannot
\* be demoted.
THEOREM SerialAdminKept ==
  ASSUME OneAtATime, PlainEdits PROVE Spec => AdminKept
<1>1. Serial /\ [Next]_vars =>
        \A r \in Room : AdminsOf(r) # {} /\ RowsOf(r)' # {}
          => \/ AdminsOf(r)' # {}
             \/ \E q \in Request : At(q, "cleanup", "write") /\ req'[q] = Idle
  BY AdminStep
<1>2. Serial /\ [Next]_vars => Serial'
  BY SerialStep
<1> QED BY <1>1, <1>2, BeginsSerial, PTL DEF Spec, AdminKept
=============================================================================
