---------------------------- MODULE FollowsProofs ----------------------------
(***************************************************************************)
(* Proofs about Follows: for any documents, requests and bounds, toggles   *)
(* that overlap never overcount, and toggles that do not overlap keep      *)
(* counters and flags exact.                                               *)
(***************************************************************************)
EXTENDS Follows, FiniteSetTheorems, TLAPS

FieldNames == {"followers_count", "following_count"}

\* The rows that a counter of d counts.
RowsOf(d, f) == IF f = "followers_count" THEN Followers(d) ELSE Following(d)
Number(counts, f) == IF counts = Absent THEN 0 ELSE counts[f]

Active(q) == tx[q] # Idle
PastTarget(q) == tx[q].next \notin {"delete", "target", "seed_target"}
PastActor(q) == PastTarget(q) /\ tx[q].next \notin {"actor", "seed_actor"}
HasAdjusted(q, d, f) ==
  \/ f = "followers_count" /\ d = Target(tx[q].edge) /\ PastTarget(q)
  \/ f = "following_count" /\ d = Actor(tx[q].edge) /\ PastActor(q)

\* The rows that q's own count of d is about: what is committed, and q's row once counted.
RowsAfter(q, d, f) ==
  IF ~HasAdjusted(q, d, f) THEN RowsOf(d, f)
  ELSE IF tx[q].delta > 0 THEN RowsOf(d, f) \cup {tx[q].edge} ELSE RowsOf(d, f) \ {tx[q].edge}

\* Committed rows have metadata on both sides: inserting one seeds it, and nothing deletes it.
RowsHaveMeta == \A e \in Edge : Exists(e) => meta[Target(e)] # Absent /\ meta[Actor(e)] # Absent

\* What a toggle in flight holds: an inserted row is its own, a metadata row it has written
\* is locked, and what it has written there is no more than the rows it will leave.
Holds(q) ==
  LET t == tx[q] IN
  /\ t.pk \in 1..MaxToggles
  /\ t.delta > 0 => rowLock[t.edge] = q /\ follow[t.edge] = 0 /\ t.next # "delete"
  /\ t.delta < 0 => /\ meta[Target(t.edge)] # Absent /\ meta[Actor(t.edge)] # Absent
                    /\ t.next \notin {"seed_target", "seed_actor", "flag_reverse"}
  /\ t.next \in {"flag", "flag_reverse"} => ProfileToProfile(t.edge)
  /\ \A d \in Doc : t.draft[d] # Absent => metaLock[d] = q
  /\ PastTarget(q) => t.draft[Target(t.edge)] # Absent
  /\ PastActor(q) => t.draft[Actor(t.edge)] # Absent
  /\ \A d \in Doc, f \in FieldNames : Number(Own(q, d), f) <= Cardinality(RowsAfter(q, d, f))

\* The flags that q has to leave in its own row and in the reverse one.
FlagOf(q, e) ==
  LET t == tx[q] IN
  IF t.next = "flag_reverse" /\ e = t.edge THEN "set"
  ELSE IF /\ t.next = "commit" /\ ProfileToProfile(t.edge) /\ ReverseExists(q)
          /\ e = Reverse(t.edge) \/ (e = t.edge /\ t.delta > 0)
       THEN IF t.delta > 0 THEN "set" ELSE "cleared"
  ELSE "kept"

\* What a toggle that has never met another knows besides: the row it deletes is there, a
\* side without metadata has no rows, and its counts and flags are exact.
Alone(q) ==
  LET t == tx[q] IN
  /\ \A o \in Request : Active(o) => o = q
  /\ t.delta < 0 => follow[t.edge] = t.pk
  /\ t.next = "seed_target" => Followers(Target(t.edge)) = {}
  /\ t.next = "seed_actor" => Following(Actor(t.edge)) = {}
  /\ t.next = "flag_reverse" => ReverseExists(q)
  /\ \A d \in Doc, f \in FieldNames : Number(Own(q, d), f) = Cardinality(RowsAfter(q, d, f))
  /\ \A e \in Edge : t.flags[e] = FlagOf(q, e)

\* The inductive invariant.
Inv ==
  /\ TypeOK /\ tx \in [Request -> Tx \cup {Idle}]
  /\ RowsHaveMeta
  /\ NeverOvercounts
  /\ \A q \in Request : Active(q) => Holds(q)
  /\ SerialExact
  /\ ~overlapped => \A q \in Request : Active(q) => Alone(q)

-----------------------------------------------------------------------------
(* Rows and their number.                                                  *)

\* Sets of edges are finite, and adding or removing one edge changes their number by one.
LEMMA EdgeSets ==
  ASSUME NEW S \in SUBSET Edge, NEW e \in Edge
  PROVE  /\ IsFiniteSet(S) /\ Cardinality(S) \in Nat
         /\ Cardinality(S \cup {e}) = IF e \in S THEN Cardinality(S) ELSE Cardinality(S) + 1
         /\ Cardinality(S \ {e}) = IF e \in S THEN Cardinality(S) - 1 ELSE Cardinality(S)
<1>1. IsFiniteSet(Edge)
  <2>1. IsFiniteSet(Profile)
    BY DocAssumption, ProfileAssumption, FS_Subset
  <2> QED BY <2>1, DocAssumption, FS_Product DEF Edge
<1>2. IsFiniteSet(S) /\ Cardinality(S) \in Nat
  BY <1>1, FS_Subset, FS_CardinalityType
<1> QED BY <1>2, FS_AddElement, FS_RemoveElement

LEMMA RowsType ==
  ASSUME NEW d, NEW f
  PROVE  RowsOf(d, f) \in SUBSET Edge
BY DEF RowsOf, Followers, Following

\* Sums and records of counters.
LEMMA NumberType ==
  ASSUME NEW c \in Counts \cup {Absent}, NEW f \in FieldNames
  PROVE  Number(c, f) \in Nat
BY DEF Number, Counts, FieldNames

\* No more in a counter than there are rows, in the words of RowsOf.
LEMMA Overcounts ==
  NeverOvercounts <=> \A x \in Doc, f \in FieldNames : Number(meta[x], f) <= Cardinality(RowsOf(x, f))
BY DEF NeverOvercounts, CountOf, Number, RowsOf, FieldNames

LEMMA OvercountsNext ==
  NeverOvercounts' <=> \A x \in Doc, f \in FieldNames : (Number(meta[x], f) <= Cardinality(RowsOf(x, f)))'
BY DEF NeverOvercounts, CountOf, Number, RowsOf, FieldNames

LEMMA Exact ==
  CountsExact <=> \A x \in Doc, f \in FieldNames : Number(meta[x], f) = Cardinality(RowsOf(x, f))
BY DEF CountsExact, CountOf, Number, RowsOf, FieldNames

LEMMA ExactNext ==
  CountsExact' <=> \A x \in Doc, f \in FieldNames : (Number(meta[x], f) = Cardinality(RowsOf(x, f)))'
BY DEF CountsExact, CountOf, Number, RowsOf, FieldNames

-----------------------------------------------------------------------------
LEMMA InvInit == Init => Inv
<1> SUFFICES ASSUME Init PROVE Inv
  OBVIOUS
<1>1. TypeOK /\ tx \in [Request -> Tx \cup {Idle}]
  <2>1. \A q \in Request : q \notin {rowLock[e] : e \in Edge} \cup {metaLock[d] : d \in Doc}
    BY LockAssumption DEF Init
  <2>2. follow \in [Edge -> 0..MaxToggles] /\ toggles \in 0..MaxToggles /\ recounts \in 0..MaxRecounts
    BY BoundAssumption DEF Init
  <2> QED BY <2>1, <2>2 DEF Init, TypeOK
<1>2. \A d, f : RowsOf(d, f) = {} /\ Cardinality(RowsOf(d, f)) = 0
  <2>1. \A d, f : RowsOf(d, f) = {}
    BY DEF Init, RowsOf, Followers, Following, Exists
  <2> QED BY <2>1, FS_EmptySet
<1>3. NeverOvercounts /\ CountsExact
  BY <1>2, Overcounts, Exact DEF Init, Number
<1>4. FlagsExact
  BY DEF Init, FlagsExact, Exists
<1> QED BY <1>1, <1>3, <1>4 DEF Init, Inv, RowsHaveMeta, SerialExact, Exists, Active

\* What the invariant says of the transaction of one toggle in flight.
InOrder(q) ==
  /\ tx[q] \in Tx /\ tx[q].edge \in Edge /\ tx[q].next \in Statements
  /\ Target(tx[q].edge) \in Doc /\ Actor(tx[q].edge) \in Doc
  /\ tx[q].draft \in [Doc -> Counts \cup {Absent}]
  /\ tx[q].flags \in [Edge -> {"set", "cleared", "kept"}]
  /\ tx[q].delta \in {1, -1}
  /\ tx[q].delta = 1 => /\ rowLock[tx[q].edge] = q /\ follow[tx[q].edge] = 0
                        /\ tx[q].next # "delete"
  /\ tx[q].delta # 1 => /\ meta[Target(tx[q].edge)] # Absent /\ meta[Actor(tx[q].edge)] # Absent
                        /\ tx[q].next \notin {"seed_target", "seed_actor", "flag_reverse"}
  /\ tx[q].next \in {"flag", "flag_reverse"} => ProfileToProfile(tx[q].edge)

LEMMA Facts ==
  ASSUME Inv, NEW q \in Request, Active(q)
  PROVE  InOrder(q)
<1>1. tx[q] \in Tx /\ Holds(q)
  BY DEF Inv, Active
<1>2. tx[q].edge \in Edge /\ tx[q].next \in Statements /\ tx[q].delta \in {1, -1}
  BY <1>1 DEF Tx
<1>3. Target(tx[q].edge) \in Doc /\ Actor(tx[q].edge) \in Doc
  BY <1>2, ProfileAssumption DEF Edge, Target, Actor
<1>4. /\ tx[q].draft \in [Doc -> Counts \cup {Absent}]
      /\ tx[q].flags \in [Edge -> {"set", "cleared", "kept"}]
  BY <1>1 DEF Tx
<1>5. tx[q].delta > 0 => /\ rowLock[tx[q].edge] = q /\ follow[tx[q].edge] = 0
                         /\ tx[q].next # "delete"
  BY <1>1 DEF Holds
<1>6. tx[q].delta < 0 => /\ meta[Target(tx[q].edge)] # Absent /\ meta[Actor(tx[q].edge)] # Absent
                         /\ tx[q].next \notin {"seed_target", "seed_actor", "flag_reverse"}
  BY <1>1 DEF Holds
<1>7. tx[q].next \in {"flag", "flag_reverse"} => ProfileToProfile(tx[q].edge)
  BY <1>1 DEF Holds
<1> QED BY <1>1, <1>2, <1>3, <1>4, <1>5, <1>6, <1>7 DEF InOrder

\* A step of somebody else that leaves a request's own rows, and the rows counted in the
\* metadata it has locked, alone keeps what that request holds.
LEMMA OthersHold ==
  ASSUME Inv, NEW o \in Request, Active(o), tx'[o] = tx[o],
         tx[o].delta > 0 => rowLock'[tx[o].edge] = o /\ follow'[tx[o].edge] = follow[tx[o].edge],
         \A d \in Doc : metaLock[d] = o => metaLock'[d] = o,
         \A d \in Doc : meta[d] # Absent => meta'[d] # Absent,
         \A d \in Doc, f \in FieldNames : metaLock[d] = o => RowsOf(d, f)' = RowsOf(d, f),
         NeverOvercounts'
  PROVE  Holds(o)'
<1>1. Holds(o) /\ tx[o] \in Tx
  BY DEF Inv, Active
<1> DEFINE t == tx[o]
<1>2. /\ PastTarget(o)' = PastTarget(o) /\ PastActor(o)' = PastActor(o)
      /\ \A d, f : HasAdjusted(o, d, f)' = HasAdjusted(o, d, f)
  BY DEF PastTarget, PastActor, HasAdjusted
<1>3. t.edge \in Edge /\ Target(t.edge) \in Doc /\ Actor(t.edge) \in Doc
  BY <1>1, ProfileAssumption DEF Tx, Edge, Target, Actor
<1>4. \A x \in Doc, f \in FieldNames : (Number(meta[x], f) <= Cardinality(RowsOf(x, f)))'
  BY OvercountsNext
<1>5. ASSUME NEW d \in Doc, NEW f \in FieldNames
      PROVE  (Number(Own(o, d), f) <= Cardinality(RowsAfter(o, d, f)))'
  <2>1. CASE t.draft[d] # Absent
    <3>1. metaLock[d] = o
      BY <1>1, <2>1 DEF Holds
    <3>2. RowsOf(d, f)' = RowsOf(d, f) /\ Own(o, d)' = Own(o, d)
      BY <2>1, <3>1 DEF Own
    <3>3. RowsAfter(o, d, f)' = RowsAfter(o, d, f)
      BY <1>2, <3>2 DEF RowsAfter
    <3>4. Number(Own(o, d), f) <= Cardinality(RowsAfter(o, d, f))
      BY <1>1 DEF Holds
    <3> QED BY <3>2, <3>3, <3>4 DEF Number
  <2>2. CASE t.draft[d] = Absent
    <3>1. ~HasAdjusted(o, d, f)
      BY <1>1, <2>2 DEF Holds, HasAdjusted
    <3>2. RowsAfter(o, d, f)' = RowsOf(d, f)' /\ Own(o, d)' = meta'[d]
      BY <1>2, <2>2, <3>1 DEF RowsAfter, Own
    <3> QED BY <1>4, <3>2 DEF Number
  <2> QED BY <2>1, <2>2
<1> QED BY <1>1, <1>2, <1>3, <1>5 DEF Holds

-----------------------------------------------------------------------------
(* Statements: they change one transaction and take free locks for it.      *)

\* A statement of q that leaves its transaction as c keeps the invariant when what c holds
\* is right.
LEMMA StatementKeeps ==
  ASSUME Inv, NEW q \in Request, Active(q), NEW c \in Tx, tx' = [tx EXCEPT ![q] = c],
         \/ rowLock' = rowLock
         \/ \E e \in Edge : CanLock(rowLock[e], q) /\ rowLock' = [rowLock EXCEPT ![e] = q],
         \/ metaLock' = metaLock
         \/ \E d \in Doc : CanLock(metaLock[d], q) /\ metaLock' = [metaLock EXCEPT ![d] = q],
         Rest, Holds(q)', ~overlapped => Alone(q)'
  PROVE  Inv'
<1>1. tx' \in [Request -> Tx \cup {Idle}] /\ tx'[q] = c /\ c # Idle
  BY NameAssumption DEF Inv
<1>2. \A o \in Request \ {q} : tx'[o] = tx[o]
  BY DEF Inv
<1>3. /\ rowLock' \in [Edge -> Request \cup {Free}]
      /\ \A e \in Edge : rowLock'[e] \in {q, rowLock[e]} /\ (rowLock[e] \notin {q, Free} => rowLock'[e] = rowLock[e])
  BY DEF Inv, TypeOK, CanLock
<1>4. /\ metaLock' \in [Doc -> Request \cup {Free}]
      /\ \A d \in Doc : metaLock'[d] \in {q, metaLock[d]} /\ (metaLock[d] \notin {q, Free} => metaLock'[d] = metaLock[d])
  BY DEF Inv, TypeOK, CanLock
<1>5. TypeOK'
  <2>1. \A o \in Request : tx'[o] # Idle => tx'[o] \in Tx
    BY <1>1, <1>2 DEF Inv
  <2>2. \A o \in Request : tx'[o] = Idle => o # q /\ tx[o] = Idle
    BY <1>1, <1>2
  <2>3. ASSUME NEW o \in Request, tx'[o] = Idle
        PROVE  o \notin {rowLock'[e] : e \in Edge} \cup {metaLock'[d] : d \in Doc}
    <3>1. o # q /\ o \notin {rowLock[e] : e \in Edge} \cup {metaLock[d] : d \in Doc}
      BY <2>2, <2>3 DEF Inv, TypeOK
    <3> QED BY <1>3, <1>4, <3>1
  <2> QED BY <1>3, <1>4, <2>1, <2>3 DEF Inv, TypeOK, Rest
<1>6. \A d, f : RowsOf(d, f)' = RowsOf(d, f)
  BY DEF RowsOf, Followers, Following, Exists, Rest
<1>7. RowsHaveMeta' /\ NeverOvercounts' /\ SerialExact'
  BY DEF Rest, Inv, RowsHaveMeta, NeverOvercounts, SerialExact, CountsExact, FlagsExact, Exists, Followers, Following, CountOf
<1>8. ASSUME NEW o \in Request, Active(o)' PROVE Holds(o)'
  <2>1. CASE o = q
    BY <2>1
  <2>2. CASE o # q
    <3>1. Active(o) /\ tx'[o] = tx[o]
      BY <1>2, <1>8, <2>2 DEF Active
    <3>2. Holds(o) /\ tx[o].edge \in Edge
      BY <3>1 DEF Inv, Active, Tx
    <3>3. tx[o].delta > 0 => rowLock[tx[o].edge] = o
      BY <3>2 DEF Holds
    <3>4. tx[o].delta > 0 => rowLock'[tx[o].edge] = o /\ follow' = follow
      BY <1>3, <2>2, <3>2, <3>3, LockAssumption DEF Rest
    <3>5. \A d \in Doc : metaLock[d] = o => metaLock'[d] = o
      BY <1>4, <2>2, LockAssumption
    <3>6. meta' = meta
      BY DEF Rest
    <3> QED BY <1>6, <1>7, <3>1, <3>4, <3>5, <3>6, OthersHold
  <2> QED BY <2>1, <2>2
<1>9. ASSUME ~overlapped', NEW o \in Request, Active(o)' PROVE Alone(o)'
  <2>1. ~overlapped /\ Alone(q)
    BY <1>9 DEF Rest, Inv
  <2>2. o = q
    BY <1>2, <1>9, <2>1 DEF Active, Alone
  <2> QED BY <2>1, <2>2
<1> QED BY <1>1, <1>5, <1>7, <1>8, <1>9 DEF Inv

\* A transaction that is rolled back leaves nothing.
LEMMA RollbackKeeps ==
  ASSUME Inv, NEW q \in Request, Active(q), Release(q), UNCHANGED <<follow, back, meta>>
  PROVE  Inv'
<1>1. tx' \in [Request -> Tx \cup {Idle}] /\ tx'[q] = Idle /\ \A o \in Request \ {q} : tx'[o] = tx[o]
  BY DEF Release, Inv
<1>2. /\ rowLock' \in [Edge -> Request \cup {Free}]
      /\ \A e \in Edge : rowLock'[e] = IF rowLock[e] = q THEN Free ELSE rowLock[e]
      /\ metaLock' \in [Doc -> Request \cup {Free}]
      /\ \A d \in Doc : metaLock'[d] = IF metaLock[d] = q THEN Free ELSE metaLock[d]
  BY DEF Release, Inv, TypeOK
<1>3. TypeOK'
  <2>1. \A o \in Request : tx'[o] # Idle => tx'[o] \in Tx
    BY <1>1 DEF Inv
  <2>2. ASSUME NEW o \in Request, tx'[o] = Idle
        PROVE  o \notin {rowLock'[e] : e \in Edge} \cup {metaLock'[d] : d \in Doc}
    <3>1. o = q \/ o \notin {rowLock[e] : e \in Edge} \cup {metaLock[d] : d \in Doc}
      BY <1>1, <2>2 DEF Inv, TypeOK
    <3> QED BY <1>2, <3>1, LockAssumption
  <2> QED BY <1>2, <2>1, <2>2 DEF Inv, TypeOK, Release
<1>4. \A d, f : RowsOf(d, f)' = RowsOf(d, f)
  BY DEF RowsOf, Followers, Following, Exists
<1>5. RowsHaveMeta' /\ NeverOvercounts' /\ SerialExact'
  BY DEF Release, Inv, RowsHaveMeta, NeverOvercounts, SerialExact, CountsExact, FlagsExact, Exists, Followers, Following, CountOf
<1>6. ASSUME NEW o \in Request, Active(o)' PROVE Holds(o)' /\ o # q /\ Active(o)
  <2>1. o # q /\ Active(o) /\ tx'[o] = tx[o]
    BY <1>1, <1>6 DEF Active
  <2>2. Holds(o) /\ tx[o].edge \in Edge
    BY <2>1 DEF Inv, Active, Tx
  <2>3. tx[o].delta > 0 => rowLock[tx[o].edge] = o
    BY <2>2 DEF Holds
  <2>4. tx[o].delta > 0 => rowLock'[tx[o].edge] = o /\ follow' = follow
    BY <1>2, <2>1, <2>2, <2>3
  <2>5. \A d \in Doc : metaLock[d] = o => metaLock'[d] = o
    BY <1>2, <2>1
  <2> QED BY <1>4, <1>5, <2>1, <2>4, <2>5, OthersHold
<1>7. ASSUME ~overlapped' PROVE \A o \in Request : ~Active(o)'
  BY <1>6, <1>7 DEF Release, Inv, Alone
<1> QED BY <1>1, <1>3, <1>5, <1>6, <1>7 DEF Inv

\* A statement that counts nothing only has to be in order itself.
LEMMA GotoKeeps ==
  ASSUME Inv, NEW q \in Request, Active(q), NEW c \in Tx, tx' = [tx EXCEPT ![q] = c],
         c.edge = tx[q].edge, c.pk = tx[q].pk, c.delta = tx[q].delta, c.draft = tx[q].draft,
         \/ rowLock' = rowLock
         \/ \E e \in Edge : CanLock(rowLock[e], q) /\ rowLock' = [rowLock EXCEPT ![e] = q],
         metaLock' = metaLock, Rest,
         PastTarget(q)' <=> PastTarget(q), PastActor(q)' <=> PastActor(q),
         c.delta > 0 => c.next # "delete",
         c.delta < 0 => c.next \notin {"seed_target", "seed_actor", "flag_reverse"},
         c.next \in {"flag", "flag_reverse"} => ProfileToProfile(c.edge),
         ~overlapped =>
           /\ c.next = "seed_target" => Followers(Target(c.edge)) = {}
           /\ c.next = "seed_actor" => Following(Actor(c.edge)) = {}
           /\ c.next = "flag_reverse" => ReverseExists(q)
           /\ \A e \in Edge : c.flags[e] = FlagOf(q, e)'
  PROVE  Inv'
<1>1. tx'[q] = c /\ Holds(q) /\ tx[q] \in Tx /\ c.edge \in Edge /\ follow' = follow /\ meta' = meta
  BY DEF Inv, Active, Rest, Tx
<1>2. \A d, f : /\ RowsOf(d, f)' = RowsOf(d, f)
               /\ Own(q, d)' = Own(q, d)
               /\ HasAdjusted(q, d, f)' = HasAdjusted(q, d, f)
  BY <1>1 DEF RowsOf, Followers, Following, Exists, Own, HasAdjusted
<1>3. \A d, f : RowsAfter(q, d, f)' = RowsAfter(q, d, f) /\ Number(Own(q, d), f)' = Number(Own(q, d), f)
  BY <1>1, <1>2 DEF RowsAfter, Number
<1>4. Holds(q)'
  <2>1. rowLock[c.edge] = q => rowLock'[c.edge] = q
    BY <1>1 DEF Inv, TypeOK
  <2>2. \A d \in Doc, f \in FieldNames : (Number(Own(q, d), f) <= Cardinality(RowsAfter(q, d, f)))'
    BY <1>1, <1>3 DEF Holds
  <2>3. c.delta > 0 => rowLock[c.edge] = q /\ follow[c.edge] = 0
    BY <1>1 DEF Holds
  <2>4. c.delta < 0 => meta[Target(c.edge)] # Absent /\ meta[Actor(c.edge)] # Absent
    BY <1>1 DEF Holds
  <2>5. c.pk \in 1..MaxToggles /\ \A d \in Doc : c.draft[d] # Absent => metaLock[d] = q
    BY <1>1 DEF Holds
  <2>6. /\ PastTarget(q)' => c.draft[Target(c.edge)] # Absent
        /\ PastActor(q)' => c.draft[Actor(c.edge)] # Absent
    BY <1>1 DEF Holds
  <2> QED BY <1>1, <2>1, <2>2, <2>3, <2>4, <2>5, <2>6 DEF Holds
<1>5. ASSUME ~overlapped PROVE Alone(q)'
  <2>1. Alone(q)
    BY <1>5 DEF Inv
  <2>2. \A o \in Request : tx'[o] # Idle => o = q
    BY <2>1 DEF Alone, Active, Inv
  <2>3. ReverseExists(q)' = ReverseExists(q)
    BY <1>1 DEF ReverseExists, Exists
  <2>4. \A d \in Doc, f \in FieldNames : (Number(Own(q, d), f) = Cardinality(RowsAfter(q, d, f)))'
    BY <1>3, <2>1 DEF Alone
  <2>5. c.delta < 0 => follow'[c.edge] = c.pk
    BY <1>1, <2>1 DEF Alone
  <2>6. \A d : Followers(d)' = Followers(d) /\ Following(d)' = Following(d)
    BY <1>1 DEF Followers, Following, Exists
  <2> QED BY <1>1, <1>5, <2>2, <2>3, <2>4, <2>5, <2>6 DEF Alone, Active
<1> QED BY <1>4, <1>5, StatementKeeps

LEMMA DeleteRowKeeps ==
  ASSUME Inv, NEW q \in Request, DeleteRow(q)
  PROVE  Inv'
<1> DEFINE c == [tx[q] EXCEPT !.next = "target"]
<1>1. Active(q) /\ tx[q] \in Tx /\ tx[q].edge \in Edge /\ tx[q].next = "delete"
  BY DEF DeleteRow, Inv, Active, Tx
<1>2. tx' = [tx EXCEPT ![q] = c]
  BY <1>1 DEF DeleteRow, Goto, Inv
<1>3. /\ c \in Tx /\ c.edge = tx[q].edge /\ c.pk = tx[q].pk /\ c.delta = tx[q].delta
      /\ c.draft = tx[q].draft /\ c.flags = tx[q].flags /\ c.next = "target"
  BY <1>1 DEF Tx, Statements
<1>4. tx'[q] = c
  BY <1>2 DEF Inv
<1> HIDE DEF c
<1>5. (PastTarget(q)' <=> PastTarget(q)) /\ (PastActor(q)' <=> PastActor(q))
  BY <1>1, <1>3, <1>4 DEF PastTarget, PastActor
<1>6. ~overlapped => \A e \in Edge : c.flags[e] = FlagOf(q, e)'
  BY <1>1, <1>3, <1>4 DEF Inv, Alone, FlagOf
<1>7. \/ rowLock' = rowLock
      \/ \E e \in Edge : CanLock(rowLock[e], q) /\ rowLock' = [rowLock EXCEPT ![e] = q]
  BY <1>1 DEF DeleteRow
<1> QED BY <1>1, <1>2, <1>3, <1>5, <1>6, <1>7, GotoKeeps DEF DeleteRow

LEMMA NoRowToAdjustKeeps ==
  ASSUME Inv, NEW q \in Request, NEW stmt \in {"target", "actor"}, NoRowToAdjust(q, stmt)
  PROVE  Inv'
<1>1. Active(q) /\ InOrder(q) /\ tx[q].next = stmt
  <2>1. Active(q) /\ tx[q].next = stmt
    BY DEF NoRowToAdjust, Active
  <2> QED BY <2>1, Facts
<1>2. tx[q].delta = 1 /\ meta[Side(q, stmt)] = Absent
  <2>1. meta[Side(q, stmt)] = Absent
    BY DEF NoRowToAdjust, Own
  <2> QED BY <1>1, <2>1 DEF InOrder, Side
<1> DEFINE c == [tx[q] EXCEPT !.next = Seeding(stmt)]
<1>3. tx' = [tx EXCEPT ![q] = c]
  BY <1>1, <1>2 DEF NoRowToAdjust, Goto, Inv
<1>4. /\ c \in Tx /\ c.edge = tx[q].edge /\ c.pk = tx[q].pk /\ c.delta = tx[q].delta
      /\ c.draft = tx[q].draft /\ c.flags = tx[q].flags /\ c.next = Seeding(stmt)
  BY <1>1 DEF InOrder, Tx, Statements, Seeding
<1>5. tx'[q] = c
  BY <1>3 DEF Inv
<1> HIDE DEF c
<1>6. /\ c.next \in {"seed_target", "seed_actor"} /\ (c.next = "seed_target" <=> stmt = "target")
      /\ (PastTarget(q)' <=> PastTarget(q)) /\ (PastActor(q)' <=> PastActor(q))
  BY <1>1, <1>4, <1>5 DEF PastTarget, PastActor, Seeding
<1>7. ASSUME ~overlapped, NEW e \in Edge PROVE c.flags[e] = FlagOf(q, e)'
  <2>1. tx[q].flags[e] = FlagOf(q, e)
    <3>1. Alone(q)
      BY <1>1, <1>7 DEF Inv
    <3> QED BY <3>1 DEF Alone
  <2>2. FlagOf(q, e) = "kept"
    BY <1>1 DEF FlagOf
  <2>3. FlagOf(q, e)' = "kept"
    BY <1>5, <1>6 DEF FlagOf
  <2> QED BY <1>4, <2>1, <2>2, <2>3
<1>8. /\ stmt = "target" => Followers(Target(c.edge)) = {}
      /\ stmt = "actor" => Following(Actor(c.edge)) = {}
  BY <1>1, <1>2, <1>4 DEF InOrder, Inv, RowsHaveMeta, Followers, Following, Side
<1>9. UNCHANGED <<rowLock, metaLock>> /\ Rest
  BY DEF NoRowToAdjust
<1>10. /\ c.delta > 0 => c.next # "delete"
       /\ c.delta < 0 => c.next \notin {"seed_target", "seed_actor", "flag_reverse"}
       /\ c.next \in {"flag", "flag_reverse"} => ProfileToProfile(c.edge)
  BY <1>2, <1>4, <1>6
<1>11. ~overlapped =>
         /\ c.next = "seed_target" => Followers(Target(c.edge)) = {}
         /\ c.next = "seed_actor" => Following(Actor(c.edge)) = {}
         /\ c.next = "flag_reverse" => ReverseExists(q)
         /\ \A e \in Edge : c.flags[e] = FlagOf(q, e)'
  BY <1>6, <1>7, <1>8
<1>12. c \in Tx
  BY <1>4
<1> QED BY <1>1, <1>3, <1>4, <1>6, <1>9, <1>10, <1>11, <1>12, GotoKeeps

LEMMA FlagOwnKeeps ==
  ASSUME Inv, NEW q \in Request, FlagOwn(q)
  PROVE  Inv'
<1> DEFINE t == tx[q]
           c == IF ReverseExists(q) THEN [t EXCEPT !.flags[t.edge] = "set", !.next = "flag_reverse"]
                ELSE [t EXCEPT !.next = "commit"]
<1>1. Active(q) /\ t \in Tx /\ t.edge \in Edge /\ t.next = "flag" /\ t.delta = 1 /\ ProfileToProfile(t.edge)
  <2>1. Active(q) /\ t.next = "flag" /\ t.delta > 0
    BY DEF FlagOwn, Active
  <2>2. InOrder(q)
    BY <2>1, Facts
  <2> QED BY <2>1, <2>2 DEF InOrder
<1>2. tx' = [tx EXCEPT ![q] = c]
  BY <1>1 DEF FlagOwn, Inv
<1>3. /\ c \in Tx /\ c.edge = t.edge /\ c.pk = t.pk /\ c.delta = t.delta /\ c.draft = t.draft
      /\ c.flags = IF ReverseExists(q) THEN [t.flags EXCEPT ![t.edge] = "set"] ELSE t.flags
      /\ c.next = IF ReverseExists(q) THEN "flag_reverse" ELSE "commit"
  BY <1>1 DEF Tx, Statements
<1>4. tx'[q] = c /\ UNCHANGED <<rowLock, metaLock>> /\ Rest
  BY <1>2 DEF Inv, FlagOwn
<1> HIDE DEF c
<1>5. (PastTarget(q)' <=> PastTarget(q)) /\ (PastActor(q)' <=> PastActor(q))
  BY <1>1, <1>3, <1>4 DEF PastTarget, PastActor
<1>6. ReverseExists(q)' = ReverseExists(q)
  BY <1>3, <1>4 DEF ReverseExists, Exists, Rest
<1>7. ASSUME ~overlapped PROVE \A e \in Edge : c.flags[e] = FlagOf(q, e)'
  <2>1. Alone(q)
    BY <1>1, <1>7 DEF Inv
  <2>2. \A e \in Edge : t.flags[e] = "kept"
    BY <1>1, <2>1 DEF Alone, FlagOf
  <2>3. t.flags \in [Edge -> {"set", "cleared", "kept"}]
    BY <1>1 DEF Tx
  <2>4. \A e \in Edge : FlagOf(q, e)' = IF ReverseExists(q) /\ e = t.edge THEN "set" ELSE "kept"
    BY <1>3, <1>4, <1>6 DEF FlagOf
  <2>5. \A e \in Edge : c.flags[e] = IF ReverseExists(q) /\ e = t.edge THEN "set" ELSE "kept"
    BY <1>1, <1>3, <2>2, <2>3
  <2> QED BY <2>4, <2>5
<1>8. c.next = "flag_reverse" => ReverseExists(q)
  BY <1>3
<1>9. /\ c.delta > 0 => c.next # "delete"
      /\ c.delta < 0 => c.next \notin {"seed_target", "seed_actor", "flag_reverse"}
      /\ c.next \in {"flag", "flag_reverse"} => ProfileToProfile(c.edge)
  BY <1>1, <1>3
<1>10. ~overlapped =>
         /\ c.next = "seed_target" => Followers(Target(c.edge)) = {}
         /\ c.next = "seed_actor" => Following(Actor(c.edge)) = {}
         /\ c.next = "flag_reverse" => ReverseExists(q)
         /\ \A e \in Edge : c.flags[e] = FlagOf(q, e)'
  BY <1>3, <1>7, <1>8
<1> QED BY <1>1, <1>2, <1>3, <1>4, <1>5, <1>9, <1>10, GotoKeeps

LEMMA FlagReverseKeeps ==
  ASSUME Inv, NEW q \in Request, FlagReverse(q)
  PROVE  Inv'
<1> DEFINE t == tx[q]
           r == Reverse(t.edge)
           flag == IF t.delta > 0 THEN "set" ELSE "cleared"
           c == IF ReverseExists(q) THEN [t EXCEPT !.flags[r] = flag, !.next = "commit"]
                ELSE [t EXCEPT !.next = "commit"]
<1>1. /\ Active(q) /\ t \in Tx /\ t.edge \in Edge /\ t.delta \in {1, -1} /\ ProfileToProfile(t.edge)
      /\ t.next \in {"flag", "flag_reverse"} /\ (t.next = "flag_reverse" <=> t.delta = 1)
  <2>1. Active(q) /\ (t.next = "flag_reverse" \/ (t.next = "flag" /\ t.delta < 0))
    BY DEF FlagReverse, Active
  <2>2. InOrder(q)
    BY <2>1, Facts
  <2> QED BY <2>1, <2>2 DEF InOrder
<1>2. tx' = [tx EXCEPT ![q] = c]
  BY <1>1 DEF FlagReverse, Goto, Inv
<1>3. /\ c \in Tx /\ c.edge = t.edge /\ c.pk = t.pk /\ c.delta = t.delta /\ c.draft = t.draft
      /\ c.flags = IF ReverseExists(q) THEN [t.flags EXCEPT ![r] = flag] ELSE t.flags
      /\ c.next = "commit"
  BY <1>1 DEF Tx, Statements
<1>4. tx'[q] = c /\ UNCHANGED metaLock /\ Rest
  BY <1>2 DEF Inv, FlagReverse
<1>5. r \in Edge
  BY <1>1, ProfileAssumption DEF ProfileToProfile, Reverse, Edge, Target, Actor
<1> HIDE DEF c
<1>6. (PastTarget(q)' <=> PastTarget(q)) /\ (PastActor(q)' <=> PastActor(q))
  BY <1>1, <1>3, <1>4 DEF PastTarget, PastActor
<1>7. ReverseExists(q)' = ReverseExists(q)
  BY <1>3, <1>4 DEF ReverseExists, Exists, Rest
<1>8. ASSUME ~overlapped PROVE \A e \in Edge : c.flags[e] = FlagOf(q, e)'
  <2>1. Alone(q)
    BY <1>1, <1>8 DEF Inv
  <2>2. t.flags \in [Edge -> {"set", "cleared", "kept"}]
    BY <1>1 DEF Tx
  <2>3. \A e \in Edge : FlagOf(q, e)' = IF ReverseExists(q) /\ (e = r \/ (e = t.edge /\ t.delta > 0)) THEN flag ELSE "kept"
    BY <1>1, <1>3, <1>4, <1>5, <1>7 DEF FlagOf
  <2>4. \A e \in Edge : t.flags[e] = IF t.next = "flag_reverse" /\ e = t.edge THEN "set" ELSE "kept"
    BY <1>1, <2>1 DEF Alone, FlagOf
  <2>5. t.next = "flag_reverse" => ReverseExists(q)
    BY <2>1 DEF Alone
  <2>6. CASE t.delta = 1
    <3>1. t.next = "flag_reverse" /\ flag = "set" /\ c.flags = [t.flags EXCEPT ![r] = "set"]
      BY <1>1, <1>3, <2>5, <2>6
    <3>2. \A e \in Edge : c.flags[e] = IF e = r \/ e = t.edge THEN "set" ELSE "kept"
      BY <1>1, <1>5, <2>2, <2>4, <3>1
    <3> HIDE DEF r, t
    <3> QED BY <2>3, <2>5, <2>6, <3>1, <3>2 DEF t
  <2>7. CASE t.delta # 1
    <3>1. t.next = "flag" /\ flag = "cleared" /\ \A e \in Edge : t.flags[e] = "kept"
      BY <1>1, <2>4, <2>7
    <3>2. \A e \in Edge : c.flags[e] = IF ReverseExists(q) /\ e = r THEN "cleared" ELSE "kept"
      BY <1>3, <1>5, <2>2, <3>1
    <3> QED BY <2>3, <2>7, <3>1, <3>2
  <2> QED BY <1>1, <2>6, <2>7
<1>9. \/ rowLock' = rowLock
      \/ \E e \in Edge : CanLock(rowLock[e], q) /\ rowLock' = [rowLock EXCEPT ![e] = q]
  BY <1>5 DEF FlagReverse
<1>10. ProfileToProfile(c.edge)
  BY <1>1, <1>3
<1> HIDE DEF t
<1> QED BY <1>1, <1>2, <1>3, <1>4, <1>6, <1>8, <1>9, <1>10, GotoKeeps DEF t

-----------------------------------------------------------------------------
(* Statements that write a metadata row.                                   *)

\* The rows that q's side of stmt counts, once q has ended.
Left(q, d, f) == IF tx[q].delta > 0 THEN RowsOf(d, f) \cup {tx[q].edge} ELSE RowsOf(d, f) \ {tx[q].edge}

\* A write keeps the invariant when the counter it changes is right for the rows q leaves,
\* and the other one is as q saw it.
LEMMA WriteKeeps ==
  ASSUME Inv, NEW q \in Request, Active(q), NEW stmt \in {"target", "actor"},
         tx[q].next \in {stmt, Seeding(stmt)},
         NEW d \in Doc, d = Side(q, stmt), NEW f \in FieldNames, f = Field(stmt),
         NEW counts \in Counts, Write(q, d, counts, After(q, stmt)),
         counts[f] <= Cardinality(Left(q, d, f)),
         ~overlapped => counts[f] = Cardinality(Left(q, d, f)),
         \A g \in FieldNames \ {f} : counts[g] = Number(Own(q, d), g)
  PROVE  Inv'
<1> DEFINE t == tx[q]
           to == After(q, stmt)
           c == [t EXCEPT !.draft[d] = counts, !.next = to]
<1>1. InOrder(q)
  BY Facts
<1>2. /\ stmt = "target" => t.next \in {"target", "seed_target"} /\ to = "actor"
                             /\ d = Target(t.edge) /\ f = "followers_count"
      /\ stmt = "actor" => t.next \in {"actor", "seed_actor"} /\ d = Actor(t.edge) /\ f = "following_count"
                           /\ to = IF ProfileToProfile(t.edge) THEN "flag" ELSE "commit"
  <2>1. /\ stmt = "target" => t.next \in {"target", "seed_target"} /\ d = Target(t.edge) /\ f = "followers_count"
        /\ stmt = "actor" => t.next \in {"actor", "seed_actor"} /\ d = Actor(t.edge) /\ f = "following_count"
    BY DEF Seeding, Side, Field
  <2>2. to = IF stmt = "target" THEN "actor" ELSE IF ProfileToProfile(t.edge) THEN "flag" ELSE "commit"
    BY DEF After
  <2> HIDE DEF to
  <2> QED BY <2>1, <2>2
<1>3. to \in {"actor", "flag", "commit"}
  BY <1>2
<1> HIDE DEF to
<1>4. tx' = [tx EXCEPT ![q] = c]
  BY DEF Write, Inv, to
<1>5. /\ c \in Tx /\ c.edge = t.edge /\ c.pk = t.pk /\ c.delta = t.delta /\ c.flags = t.flags
      /\ c.draft = [t.draft EXCEPT ![d] = counts] /\ c.next = to
  BY <1>1, <1>3 DEF InOrder, Tx, Statements
<1>6. tx'[q] = c /\ Rest /\ UNCHANGED rowLock /\ CanLock(metaLock[d], q) /\ metaLock' = [metaLock EXCEPT ![d] = q]
  BY <1>4 DEF Inv, Write
<1> HIDE DEF c
<1>7. \A e, g : RowsOf(e, g)' = RowsOf(e, g)
  BY <1>6 DEF RowsOf, Followers, Following, Exists, Rest
<1>8. \A e \in Doc : Own(q, e)' = IF e = d THEN counts ELSE Own(q, e)
  BY <1>1, <1>5, <1>6, NameAssumption DEF Own, InOrder, Rest
<1>9. ~HasAdjusted(q, d, f)
  BY <1>2 DEF HasAdjusted, PastTarget, PastActor
<1>10. \A e \in Doc, g \in FieldNames : HasAdjusted(q, e, g)' = (HasAdjusted(q, e, g) \/ (e = d /\ g = f))
  BY <1>2, <1>5, <1>6 DEF HasAdjusted, PastTarget, PastActor
<1>11. RowsAfter(q, d, f)' = Left(q, d, f) /\ Number(Own(q, d), f)' = counts[f]
  BY <1>5, <1>6, <1>7, <1>8, <1>10, NameAssumption DEF RowsAfter, Left, Number
<1>12. \A e \in Doc, g \in FieldNames : e # d \/ g # f =>
         RowsAfter(q, e, g)' = RowsAfter(q, e, g) /\ Number(Own(q, e), g)' = Number(Own(q, e), g)
  BY <1>5, <1>6, <1>7, <1>8, <1>10, NameAssumption DEF RowsAfter, Number
<1>13. Holds(q)'
  <2>1. Holds(q)
    BY DEF Inv
  <2>2. ASSUME NEW e \in Doc, NEW g \in FieldNames
        PROVE  (Number(Own(q, e), g) <= Cardinality(RowsAfter(q, e, g)))'
    <3>1. Number(Own(q, e), g) <= Cardinality(RowsAfter(q, e, g))
      BY <2>1 DEF Holds
    <3> QED BY <1>11, <1>12, <3>1
  <2>3. c.pk \in 1..MaxToggles /\ meta' = meta /\ follow' = follow
    BY <1>5, <1>6, <2>1 DEF Holds, Rest
  <2>4. \A e \in Doc : c.draft[e] # Absent => metaLock'[e] = q
    <3>1. \A e \in Doc : t.draft[e] # Absent => metaLock[e] = q
      BY <2>1 DEF Holds
    <3>2. metaLock \in [Doc -> Request \cup {Free}]
      BY DEF Inv, TypeOK
    <3> QED BY <1>1, <1>5, <1>6, <3>1, <3>2 DEF InOrder
  <2>5. PastTarget(q) => t.draft[Target(t.edge)] # Absent
    BY <2>1 DEF Holds
  <2>6. /\ PastTarget(q)' => c.draft[Target(c.edge)] # Absent
        /\ PastActor(q)' => c.draft[Actor(c.edge)] # Absent
    BY <1>1, <1>2, <1>5, <1>6, <2>5, NameAssumption DEF InOrder, PastTarget, PastActor
  <2>7. /\ c.delta > 0 => rowLock'[c.edge] = q /\ follow'[c.edge] = 0 /\ c.next # "delete"
        /\ c.delta < 0 => /\ meta'[Target(c.edge)] # Absent /\ meta'[Actor(c.edge)] # Absent
                          /\ c.next \notin {"seed_target", "seed_actor", "flag_reverse"}
        /\ c.next \in {"flag", "flag_reverse"} => ProfileToProfile(c.edge)
    BY <1>1, <1>2, <1>3, <1>5, <1>6, <2>3 DEF InOrder
  <2> QED BY <1>6, <2>2, <2>3, <2>4, <2>6, <2>7 DEF Holds
<1>14. ASSUME ~overlapped PROVE Alone(q)'
  <2>1. Alone(q)
    BY <1>14 DEF Inv
  <2>2. \A o \in Request : tx'[o] # Idle => o = q
    BY <1>4, <2>1 DEF Alone, Active, Inv
  <2>3. ASSUME NEW e \in Doc, NEW g \in FieldNames
        PROVE  (Number(Own(q, e), g) = Cardinality(RowsAfter(q, e, g)))'
    <3>1. Number(Own(q, e), g) = Cardinality(RowsAfter(q, e, g))
      BY <2>1 DEF Alone
    <3> QED BY <1>11, <1>12, <1>14, <3>1
  <2>4. c.delta < 0 => follow'[c.edge] = c.pk
    BY <1>5, <1>6, <2>1 DEF Alone, Rest
  <2>5. ASSUME NEW e \in Edge PROVE c.flags[e] = FlagOf(q, e)'
    <3>1. t.flags[e] = FlagOf(q, e)
      BY <2>1 DEF Alone
    <3>2. FlagOf(q, e) = "kept"
      BY <1>2 DEF FlagOf
    <3>3. FlagOf(q, e)' = "kept"
      BY <1>2, <1>5, <1>6 DEF FlagOf
    <3> QED BY <1>5, <3>1, <3>2, <3>3
  <2>6. c.next \notin {"seed_target", "seed_actor", "flag_reverse"}
    BY <1>3, <1>5
  <2> QED BY <1>6, <2>2, <2>3, <2>4, <2>5, <2>6 DEF Alone, Active
<1>15. \E e \in Doc : CanLock(metaLock[e], q) /\ metaLock' = [metaLock EXCEPT ![e] = q]
  BY <1>6
<1> QED BY <1>4, <1>5, <1>6, <1>13, <1>14, <1>15, StatementKeeps

\* A row that is not there yet adds one to what either side counts, one that is there takes
\* one away.
LEMMA LeftCounts ==
  ASSUME Inv, NEW q \in Request, Active(q), NEW stmt \in {"target", "actor"}
  PROVE  LET R == RowsOf(Side(q, stmt), Field(stmt))
             L == Left(q, Side(q, stmt), Field(stmt))
         IN /\ Cardinality(R) \in Nat /\ Cardinality(L) \in Nat
            /\ tx[q].delta = 1 => Cardinality(L) = Cardinality(R) + 1
            /\ tx[q].delta # 1 => Cardinality(L) >= Cardinality(R) - 1
            /\ tx[q].delta # 1 /\ ~overlapped => Cardinality(L) = Cardinality(R) - 1
<1> DEFINE R == RowsOf(Side(q, stmt), Field(stmt))
           L == Left(q, Side(q, stmt), Field(stmt))
           e == tx[q].edge
<1>1. InOrder(q)
  BY Facts
<1>2. R \in SUBSET Edge /\ e \in Edge
  BY <1>1, RowsType DEF InOrder
<1>3. e \in R <=> follow[e] # 0
  BY <1>1 DEF InOrder, RowsOf, Followers, Following, Exists, Side, Field
<1>4. L = IF tx[q].delta = 1 THEN R \cup {e} ELSE R \ {e}
  BY <1>1 DEF InOrder, Left
<1>5. ~overlapped /\ tx[q].delta # 1 => follow[e] # 0
  <2>1. ASSUME ~overlapped, tx[q].delta # 1 PROVE follow[e] # 0
    <3>1. Alone(q) /\ Holds(q) /\ MaxToggles \in Nat
      BY <2>1, BoundAssumption DEF Inv
    <3>2. tx[q].delta < 0
      BY <1>1, <2>1 DEF InOrder
    <3>3. follow[e] = tx[q].pk
      BY <3>1, <3>2 DEF Alone
    <3>4. tx[q].pk \in 1..MaxToggles
      BY <3>1 DEF Holds
    <3> QED BY <3>1, <3>3, <3>4
  <2> QED BY <2>1
<1>6. tx[q].delta = 1 => follow[e] = 0
  BY <1>1 DEF InOrder
<1> HIDE DEF R, L, e
<1>7. /\ Cardinality(R) \in Nat
      /\ Cardinality(R \cup {e}) = IF e \in R THEN Cardinality(R) ELSE Cardinality(R) + 1
      /\ Cardinality(R \ {e}) = IF e \in R THEN Cardinality(R) - 1 ELSE Cardinality(R)
  BY <1>2, EdgeSets
<1>8. Cardinality(L) \in Nat
  <2>1. L \in SUBSET Edge
    BY <1>2, <1>4
  <2> QED BY <1>2, <2>1, EdgeSets
<1>9. /\ tx[q].delta = 1 => Cardinality(L) = Cardinality(R) + 1
      /\ tx[q].delta # 1 => Cardinality(L) >= Cardinality(R) - 1
      /\ tx[q].delta # 1 /\ ~overlapped => Cardinality(L) = Cardinality(R) - 1
  BY <1>3, <1>4, <1>5, <1>6, <1>7
<1> QED BY <1>7, <1>8, <1>9 DEF R, L

\* Before its statement, q has counted nothing there.
LEMMA NotYetCounted ==
  ASSUME Inv, NEW q \in Request, Active(q), NEW stmt \in {"target", "actor"},
         tx[q].next \in {stmt, Seeding(stmt)}
  PROVE  LET d == Side(q, stmt) f == Field(stmt) IN
         /\ d \in Doc /\ f \in FieldNames /\ Own(q, d) \in Counts \cup {Absent}
         /\ Number(Own(q, d), f) <= Cardinality(RowsOf(d, f))
         /\ ~overlapped => Number(Own(q, d), f) = Cardinality(RowsOf(d, f))
<1> DEFINE d == Side(q, stmt)
           f == Field(stmt)
<1>1. InOrder(q) /\ Holds(q)
  BY Facts DEF Inv
<1>2. d \in Doc /\ f \in FieldNames
  BY <1>1 DEF InOrder, Side, Field, FieldNames
<1>3. Own(q, d) \in Counts \cup {Absent}
  BY <1>1, <1>2 DEF InOrder, Own, Inv, TypeOK
<1>4. ~HasAdjusted(q, d, f)
  BY DEF HasAdjusted, PastTarget, PastActor, Seeding, Field
<1>5. RowsAfter(q, d, f) = RowsOf(d, f)
  BY <1>4 DEF RowsAfter
<1>6. Number(Own(q, d), f) <= Cardinality(RowsAfter(q, d, f))
  BY <1>1, <1>2 DEF Holds
<1>7. ASSUME ~overlapped PROVE Number(Own(q, d), f) = Cardinality(RowsAfter(q, d, f))
  <2>1. Alone(q)
    BY <1>7 DEF Inv
  <2> QED BY <1>2, <2>1 DEF Alone
<1> QED BY <1>2, <1>3, <1>5, <1>6, <1>7

LEMMA AdjustKeeps ==
  ASSUME Inv, NEW q \in Request, NEW stmt \in {"target", "actor"}, Adjust(q, stmt)
  PROVE  Inv'
<1> DEFINE d == Side(q, stmt)
           f == Field(stmt)
           own == Own(q, d)
           new == Adjusted(own, f, tx[q].delta)
<1>1. Active(q) /\ tx[q].next = stmt /\ own # Absent /\ new[f] >= 0 /\ Write(q, d, new, After(q, stmt))
  BY DEF Adjust, Active
<1>2. InOrder(q)
  BY <1>1, Facts
<1>3. /\ d \in Doc /\ f \in FieldNames /\ own \in Counts
      /\ Number(own, f) <= Cardinality(RowsOf(d, f))
      /\ ~overlapped => Number(own, f) = Cardinality(RowsOf(d, f))
  BY <1>1, NotYetCounted
<1>4. /\ Cardinality(RowsOf(d, f)) \in Nat /\ Cardinality(Left(q, d, f)) \in Nat
      /\ tx[q].delta = 1 => Cardinality(Left(q, d, f)) = Cardinality(RowsOf(d, f)) + 1
      /\ tx[q].delta # 1 => Cardinality(Left(q, d, f)) >= Cardinality(RowsOf(d, f)) - 1
      /\ tx[q].delta # 1 /\ ~overlapped => Cardinality(Left(q, d, f)) = Cardinality(RowsOf(d, f)) - 1
  BY <1>1, LeftCounts
<1>5. tx[q].delta \in {1, -1}
  BY <1>2 DEF InOrder
<1> HIDE DEF d, f, own
<1>6. own[f] \in Nat /\ Number(own, f) = own[f]
  BY <1>1, <1>3 DEF Counts, FieldNames, Number
<1>7. new = [own EXCEPT ![f] = own[f] + tx[q].delta]
  BY DEF Adjusted
<1>8. new[f] = own[f] + tx[q].delta /\ new \in Counts /\ \A g \in FieldNames \ {f} : new[g] = own[g]
  <2>1. new[f] = own[f] + tx[q].delta
    BY <1>3, <1>7 DEF Counts, FieldNames
  <2>2. new[f] \in Nat
    BY <1>1, <1>5, <1>6, <2>1
  <2> QED BY <1>3, <1>7, <2>1, <2>2 DEF Counts, FieldNames
<1>9. \A g \in FieldNames \ {f} : new[g] = Number(own, g)
  BY <1>1, <1>8 DEF Number
<1> HIDE DEF new
<1>10. new[f] <= Cardinality(Left(q, d, f)) /\ (~overlapped => new[f] = Cardinality(Left(q, d, f)))
  BY <1>3, <1>4, <1>5, <1>6, <1>8
<1>11. d = Side(q, stmt) /\ f = Field(stmt) /\ own = Own(q, d) /\ tx[q].next \in {stmt, Seeding(stmt)}
  BY <1>1 DEF d, f, own
<1> QED BY <1>1, <1>3, <1>8, <1>9, <1>10, <1>11, WriteKeeps

LEMMA SeedKeeps ==
  ASSUME Inv, NEW q \in Request, NEW stmt \in {"target", "actor"}, Seed(q, stmt)
  PROVE  Inv'
<1> DEFINE d == Side(q, stmt)
           f == Field(stmt)
           own == Own(q, d)
           new == Seeded(own, f, tx[q].delta)
<1>1. Active(q) /\ tx[q].next = Seeding(stmt) /\ Write(q, d, new, After(q, stmt))
  BY DEF Seed, Active
<1>2. InOrder(q)
  BY <1>1, Facts
<1>3. tx[q].delta = 1
  BY <1>1, <1>2 DEF InOrder, Seeding
<1>4. d \in Doc /\ f \in FieldNames /\ own \in Counts \cup {Absent}
  BY <1>1, NotYetCounted
<1>5. /\ Cardinality(RowsOf(d, f)) \in Nat
      /\ Cardinality(Left(q, d, f)) = Cardinality(RowsOf(d, f)) + 1
  BY <1>1, <1>3, LeftCounts
<1>6. ~overlapped => Cardinality(RowsOf(d, f)) = 0
  <2>1. ASSUME ~overlapped PROVE RowsOf(d, f) = {}
    <3>1. Alone(q)
      BY <1>1, <2>1 DEF Inv
    <3>2. /\ stmt = "target" => Followers(Target(tx[q].edge)) = {}
          /\ stmt = "actor" => Following(Actor(tx[q].edge)) = {}
      BY <1>1, <3>1 DEF Alone, Seeding
    <3> QED BY <3>2 DEF RowsOf, Side, Field
  <2> QED BY <2>1, FS_EmptySet
<1> HIDE DEF d, f, own
<1>7. new \in Counts /\ new[f] = 1 /\ \A g \in FieldNames \ {f} : new[g] = Number(own, g)
  BY <1>3, <1>4 DEF Seeded, Counts, Zero, FieldNames, Number
<1> HIDE DEF new
<1>8. new[f] <= Cardinality(Left(q, d, f)) /\ (~overlapped => new[f] = Cardinality(Left(q, d, f)))
  BY <1>5, <1>6, <1>7
<1>9. d = Side(q, stmt) /\ f = Field(stmt) /\ own = Own(q, d) /\ tx[q].next \in {stmt, Seeding(stmt)}
  BY <1>1 DEF d, f, own
<1> QED BY <1>1, <1>4, <1>7, <1>8, <1>9, WriteKeeps

-----------------------------------------------------------------------------
(* Beginnings and ends of toggles, and the reconciliation.                 *)

LEMMA ToggleKeeps ==
  ASSUME Inv, NEW q \in Request, NEW e \in Edge, Toggle(q, e)
  PROVE  Inv'
<1> DEFINE c == [edge |-> e, pk |-> IF Exists(e) THEN follow[e] ELSE toggles + 1,
                 delta |-> IF Exists(e) THEN -1 ELSE 1,
                 next |-> IF Exists(e) THEN "delete" ELSE "target",
                 draft |-> [d \in Doc |-> Absent], flags |-> [f \in Edge |-> "kept"]]
<1>1. /\ tx[q] = Idle /\ toggles < MaxToggles /\ toggles \in Nat /\ MaxToggles \in Nat
      /\ (Exists(e) \/ rowLock[e] = Free) /\ tx' = [tx EXCEPT ![q] = c]
      /\ rowLock' = (IF Exists(e) THEN rowLock ELSE [rowLock EXCEPT ![e] = q])
      /\ UNCHANGED <<follow, back, meta, metaLock, recounts>>
      /\ toggles' = toggles + 1 /\ overlapped' = (overlapped \/ \E o \in Request : tx[o] # Idle)
  BY BoundAssumption DEF Toggle, Inv, TypeOK
<1>2. follow[e] \in 0..MaxToggles
  BY DEF Inv, TypeOK
<1>3. /\ c \in Tx /\ c # Idle /\ c.edge = e /\ c.pk \in 1..MaxToggles
      /\ c.delta = (IF Exists(e) THEN -1 ELSE 1) /\ c.next = (IF Exists(e) THEN "delete" ELSE "target")
      /\ (Exists(e) => c.pk = follow[e])
      /\ \A d \in Doc : c.draft[d] = Absent
      /\ \A f \in Edge : c.flags[f] = "kept"
  <2>1. (IF Exists(e) THEN follow[e] ELSE toggles + 1) \in 1..MaxToggles
    BY <1>1, <1>2 DEF Exists
  <2>2. c \in Tx
    BY <2>1 DEF Tx, Statements
  <2> QED BY <2>1, <2>2, NameAssumption
<1> HIDE DEF c
<1>4. tx' \in [Request -> Tx \cup {Idle}] /\ tx'[q] = c /\ \A o \in Request \ {q} : tx'[o] = tx[o]
  BY <1>1, <1>3 DEF Inv
<1>5. /\ rowLock' \in [Edge -> Request \cup {Free}]
      /\ \A x \in Edge : rowLock'[x] = IF x = e /\ ~Exists(e) THEN q ELSE rowLock[x]
  BY <1>1 DEF Inv, TypeOK
<1>6. TypeOK'
  <2>1. \A o \in Request : tx'[o] # Idle => tx'[o] \in Tx
    BY <1>4
  <2>2. ASSUME NEW o \in Request, tx'[o] = Idle
        PROVE  o \notin {rowLock'[x] : x \in Edge} \cup {metaLock'[d] : d \in Doc}
    <3>1. o # q /\ o \notin {rowLock[x] : x \in Edge} \cup {metaLock[d] : d \in Doc}
      BY <1>3, <1>4, <2>2 DEF Inv, TypeOK
    <3> QED BY <1>1, <1>5, <3>1
  <2>3. overlapped' \in BOOLEAN /\ toggles' \in 0..MaxToggles
    BY <1>1 DEF Inv, TypeOK
  <2> QED BY <1>1, <1>5, <2>1, <2>2, <2>3 DEF Inv, TypeOK
<1>7. \A d, f : RowsOf(d, f)' = RowsOf(d, f)
  BY <1>1 DEF RowsOf, Followers, Following, Exists
<1>8. RowsHaveMeta' /\ NeverOvercounts' /\ SerialExact'
  BY <1>1 DEF Inv, RowsHaveMeta, NeverOvercounts, SerialExact, CountsExact, FlagsExact, Exists, Followers, Following, CountOf
<1>9. \A d \in Doc, f \in FieldNames : Own(q, d)' = meta[d] /\ RowsAfter(q, d, f)' = RowsOf(d, f)
  BY <1>1, <1>3, <1>4, <1>7 DEF Own, RowsAfter, HasAdjusted, PastTarget, PastActor
<1>10. Holds(q)'
  <2>1. \A d \in Doc, f \in FieldNames : (Number(Own(q, d), f) <= Cardinality(RowsAfter(q, d, f)))'
    BY <1>9, Overcounts DEF Inv, Number
  <2>2. ~PastTarget(q)' /\ ~PastActor(q)'
    BY <1>3, <1>4 DEF PastTarget, PastActor
  <2>3. c.delta > 0 => rowLock'[c.edge] = q /\ follow'[c.edge] = 0 /\ c.next # "delete"
    BY <1>1, <1>3, <1>5 DEF Exists
  <2>4. c.delta < 0 => /\ meta'[Target(c.edge)] # Absent /\ meta'[Actor(c.edge)] # Absent
                      /\ c.next \notin {"seed_target", "seed_actor", "flag_reverse"}
    BY <1>1, <1>3 DEF Inv, RowsHaveMeta
  <2>5. c.next \notin {"flag", "flag_reverse"}
    BY <1>3
  <2> QED BY <1>3, <1>4, <2>1, <2>2, <2>3, <2>4, <2>5 DEF Holds
<1>11. ASSUME NEW o \in Request \ {q}, Active(o) PROVE Holds(o)'
  <2>1. Holds(o) /\ tx'[o] = tx[o] /\ tx[o].edge \in Edge
    BY <1>4, <1>11 DEF Inv, Active, Tx
  <2>2. tx[o].delta > 0 => rowLock[tx[o].edge] = o
    BY <2>1 DEF Holds
  <2>3. tx[o].delta > 0 => rowLock'[tx[o].edge] = o /\ follow' = follow
    BY <1>1, <1>5, <2>1, <2>2, LockAssumption
  <2> QED BY <1>1, <1>7, <1>8, <1>11, <2>1, <2>3, OthersHold
<1>12. ASSUME ~overlapped', NEW o \in Request, Active(o)' PROVE Alone(o)'
  <2>1. \A p \in Request : tx'[p] # Idle => p = q
    BY <1>1, <1>4, <1>12
  <2>2. o = q
    BY <1>12, <2>1 DEF Active
  <2>3. CountsExact
    BY <1>1, <1>12 DEF Inv, SerialExact
  <2>4. \A d \in Doc, f \in FieldNames : (Number(Own(q, d), f) = Cardinality(RowsAfter(q, d, f)))'
    BY <1>9, <2>3, Exact DEF Number
  <2>5. c.delta < 0 => follow'[c.edge] = c.pk
    BY <1>1, <1>3
  <2>6. \A f \in Edge : FlagOf(q, f)' = "kept"
    BY <1>3, <1>4 DEF FlagOf
  <2>7. c.next \notin {"seed_target", "seed_actor", "flag_reverse"}
    BY <1>3
  <2> QED BY <1>3, <1>4, <2>1, <2>2, <2>4, <2>5, <2>6, <2>7 DEF Alone, Active
<1>13. \A o \in Request : Active(o)' => Holds(o)'
  BY <1>4, <1>10, <1>11 DEF Active
<1> QED BY <1>4, <1>6, <1>8, <1>12, <1>13 DEF Inv

\* The reconciliation waits for whoever has written the metadata, and counts what is there.
LEMMA RecountKeeps ==
  ASSUME Inv, NEW d \in Doc, NEW field \in FieldNames, Recount(d, field)
  PROVE  Inv'
<1> DEFINE old == IF meta[d] = Absent THEN Zero ELSE meta[d]
           n == Cardinality(RowsOf(d, field))
           new == [old EXCEPT ![field] = n]
<1>1. /\ metaLock[d] = Free /\ meta' = [meta EXCEPT ![d] = new] /\ recounts' \in 0..MaxRecounts
      /\ UNCHANGED <<follow, back, rowLock, metaLock, tx, toggles, overlapped>>
  BY BoundAssumption DEF Recount, RowsOf, Inv, TypeOK
<1>2. n \in Nat
  <2>1. \A x \in Edge : Cardinality(RowsOf(d, field)) \in Nat
    BY RowsType, EdgeSets
  <2>2. CASE Edge = {}
    BY <2>2, RowsType, FS_EmptySet
  <2> QED BY <2>1, <2>2
<1>3. old \in Counts /\ \A f \in FieldNames : old[f] = Number(meta[d], f)
  BY DEF Inv, TypeOK, Number, Zero, Counts, FieldNames
<1> HIDE DEF old, n
<1>4. /\ new \in Counts /\ new # Absent /\ new[field] = n
      /\ \A f \in FieldNames \ {field} : new[f] = Number(meta[d], f)
  BY <1>2, <1>3, NameAssumption DEF Counts, FieldNames
<1> HIDE DEF new
<1>5. meta' \in [Doc -> Counts \cup {Absent}] /\ \A x \in Doc : meta'[x] = IF x = d THEN new ELSE meta[x]
  BY <1>1, <1>4 DEF Inv, TypeOK
<1>6. \A x, f : RowsOf(x, f)' = RowsOf(x, f)
  BY <1>1 DEF RowsOf, Followers, Following, Exists
<1>7. \A x \in Doc, f \in FieldNames :
        (Number(meta[x], f))' = IF x = d /\ f = field THEN Cardinality(RowsOf(d, field)) ELSE Number(meta[x], f)
  BY <1>4, <1>5 DEF Number, n
<1>8. NeverOvercounts'
  <2>1. \A x \in Doc, f \in FieldNames : (Number(meta[x], f) <= Cardinality(RowsOf(x, f)))'
    BY <1>2, <1>6, <1>7, Overcounts DEF Inv, n
  <2> QED BY <2>1, OvercountsNext
<1>9. ASSUME ~overlapped' PROVE CountsExact'
  <2>1. CountsExact
    BY <1>1, <1>9 DEF Inv, SerialExact
  <2>2. \A x \in Doc, f \in FieldNames : (Number(meta[x], f) = Cardinality(RowsOf(x, f)))'
    BY <1>6, <1>7, <2>1, Exact
  <2> QED BY <2>2, ExactNext
<1>10. SerialExact'
  BY <1>1, <1>9 DEF Inv, SerialExact, FlagsExact, Exists
<1>11. RowsHaveMeta'
  <2>1. \A e \in Edge : Target(e) \in Doc /\ Actor(e) \in Doc
    BY ProfileAssumption DEF Edge, Target, Actor
  <2> QED BY <1>1, <1>4, <1>5, <2>1 DEF Inv, RowsHaveMeta, Exists
<1>12. ASSUME NEW o \in Request, Active(o) PROVE Holds(o)'
  <2>1. Holds(o)
    BY <1>12 DEF Inv
  <2>2. tx[o].delta > 0 => rowLock[tx[o].edge] = o
    BY <2>1 DEF Holds
  <2> QED BY <1>1, <1>4, <1>5, <1>6, <1>8, <1>12, <2>2, OthersHold
<1>13. ASSUME ~overlapped', NEW o \in Request, Active(o) PROVE Alone(o)'
  <2>1. Alone(o) /\ Holds(o)
    BY <1>1, <1>13 DEF Inv
  <2>2. \A x, f : HasAdjusted(o, x, f)' = HasAdjusted(o, x, f)
    BY <1>1 DEF HasAdjusted, PastTarget, PastActor
  <2>3. \A x, f : RowsAfter(o, x, f)' = RowsAfter(o, x, f)
    BY <1>1, <1>6, <2>2 DEF RowsAfter
  <2>4. ASSUME NEW x \in Doc, NEW f \in FieldNames
        PROVE  (Number(Own(o, x), f) = Cardinality(RowsAfter(o, x, f)))'
    <3>1. Number(Own(o, x), f) = Cardinality(RowsAfter(o, x, f))
      BY <2>1 DEF Alone
    <3>2. CASE x # d
      BY <1>1, <1>5, <2>3, <3>1, <3>2 DEF Own, Number
    <3>3. CASE x = d
      <4>1. tx[o].draft[d] = Absent
        BY <1>1, <2>1, LockAssumption DEF Holds
      <4>2. Own(o, d) = meta[d] /\ Own(o, d)' = meta'[d]
        BY <1>1, <4>1 DEF Own
      <4>3. ~HasAdjusted(o, d, f)
        BY <2>1, <4>1 DEF Holds, HasAdjusted
      <4>4. RowsAfter(o, d, f) = RowsOf(d, f)
        BY <4>3 DEF RowsAfter
      <4>5. Number(Own(o, d), f)' = Number(meta[d], f)'
        BY <4>2 DEF Number
      <4> QED BY <1>7, <2>3, <3>1, <3>3, <4>2, <4>4, <4>5
    <3> QED BY <3>2, <3>3
  <2>5. ReverseExists(o)' = ReverseExists(o)
    BY <1>1 DEF ReverseExists, Exists
  <2>6. \A e : FlagOf(o, e)' = FlagOf(o, e)
    BY <1>1, <2>5 DEF FlagOf
  <2>7. \A x : Followers(x)' = Followers(x) /\ Following(x)' = Following(x)
    BY <1>1 DEF Followers, Following, Exists
  <2> QED BY <1>1, <2>1, <2>4, <2>5, <2>6, <2>7 DEF Alone, Active
<1>14. TypeOK'
  BY <1>1, <1>5 DEF Inv, TypeOK
<1> QED BY <1>1, <1>8, <1>10, <1>11, <1>12, <1>13, <1>14 DEF Inv, Active

\* A commit writes the row, the flags and both counters at once.
LEMMA CommitKeeps ==
  ASSUME Inv, NEW q \in Request, Commit(q)
  PROVE  Inv'
<1> DEFINE t == tx[q]
           e == t.edge
           gone == t.delta # 1 /\ follow[e] = t.pk
           set == {x \in Edge : t.flags[x] = "set"}
           cleared == {x \in Edge : t.flags[x] = "cleared"}
<1>1. Active(q) /\ t.next = "commit" /\ Release(q)
  BY DEF Commit, Active
<1>2. InOrder(q) /\ Holds(q)
  BY <1>1, Facts DEF Inv
<1>3. e \in Edge /\ t.pk \in 1..MaxToggles /\ t.pk # 0 /\ t.delta \in {1, -1} /\ Target(e) \in Doc /\ Actor(e) \in Doc
  BY <1>2, BoundAssumption DEF InOrder, Holds
<1>4. follow' = IF t.delta = 1 THEN [follow EXCEPT ![e] = t.pk]
                ELSE IF gone THEN [follow EXCEPT ![e] = 0] ELSE follow
  <2>1. t.delta > 0 <=> t.delta = 1
    BY <1>3
  <2>2. t.delta < 0 <=> t.delta # 1
    BY <1>3
  <2> QED BY <2>1, <2>2 DEF Commit
<1>5. /\ back' = (back \ (cleared \cup IF gone THEN {e} ELSE {})) \cup set
      /\ meta' = [d \in Doc |-> Own(q, d)]
  <2>1. t.delta < 0 <=> t.delta # 1
    BY <1>3
  <2> QED BY <2>1 DEF Commit
<1>6. /\ tx' \in [Request -> Tx \cup {Idle}] /\ tx'[q] = Idle /\ \A o \in Request \ {q} : tx'[o] = tx[o]
      /\ UNCHANGED <<toggles, recounts, overlapped>>
  BY <1>1 DEF Release, Inv
<1>7. /\ rowLock' \in [Edge -> Request \cup {Free}]
      /\ \A x \in Edge : rowLock'[x] = IF rowLock[x] = q THEN Free ELSE rowLock[x]
      /\ metaLock' \in [Doc -> Request \cup {Free}]
      /\ \A d \in Doc : metaLock'[d] = IF metaLock[d] = q THEN Free ELSE metaLock[d]
  BY <1>1 DEF Release, Inv, TypeOK
<1>8. /\ follow' \in [Edge -> 0..MaxToggles]
      /\ \A x \in Edge : follow'[x] # 0 <=> IF x = e THEN t.delta = 1 \/ (Exists(e) /\ ~gone) ELSE Exists(x)
      /\ \A x \in Edge \ {e} : follow'[x] = follow[x]
  BY <1>3, <1>4, BoundAssumption DEF Inv, TypeOK, Exists
<1>9. meta' \in [Doc -> Counts \cup {Absent}] /\ \A d \in Doc : meta'[d] = Own(q, d)
  BY <1>2, <1>5 DEF InOrder, Inv, TypeOK, Own
<1>10. TypeOK'
  <2>1. \A o \in Request : tx'[o] # Idle => tx'[o] \in Tx
    BY <1>6 DEF Inv
  <2>2. ASSUME NEW o \in Request, tx'[o] = Idle
        PROVE  o \notin {rowLock'[x] : x \in Edge} \cup {metaLock'[d] : d \in Doc}
    <3>1. o = q \/ o \notin {rowLock[x] : x \in Edge} \cup {metaLock[d] : d \in Doc}
      BY <1>6, <2>2 DEF Inv, TypeOK
    <3> QED BY <1>7, <3>1, LockAssumption
  <2>3. back' \in SUBSET Edge
    BY <1>3, <1>5 DEF Inv, TypeOK
  <2> QED BY <1>6, <1>7, <1>8, <1>9, <2>1, <2>2, <2>3 DEF Inv, TypeOK
<1> DEFINE Mine(d, f) == (f = "followers_count" /\ d = Target(e)) \/ (f = "following_count" /\ d = Actor(e))
<1>11. \A d, f : HasAdjusted(q, d, f) <=> Mine(d, f)
  BY <1>1 DEF HasAdjusted, PastTarget, PastActor
<1>12. /\ t.draft[Target(e)] # Absent /\ t.draft[Actor(e)] # Absent
       /\ \A d \in Doc : t.draft[d] # Absent => metaLock[d] = q
  BY <1>1, <1>2 DEF Holds, PastTarget, PastActor
<1>13. ASSUME NEW d \in Doc, NEW f \in FieldNames
       PROVE  /\ ~Mine(d, f) => RowsOf(d, f)' = RowsOf(d, f)
              /\ RowsAfter(q, d, f) \subseteq RowsOf(d, f)'
              /\ t.delta = 1 \/ gone => RowsAfter(q, d, f) = RowsOf(d, f)'
  <2>1. \A x \in Edge : x \in RowsOf(d, f) <=> Exists(x) /\ IF f = "followers_count" THEN Target(x) = d ELSE Actor(x) = d
    BY DEF RowsOf, Followers, Following
  <2>2. \A x \in Edge : x \in RowsOf(d, f)' <=> follow'[x] # 0 /\ IF f = "followers_count" THEN Target(x) = d ELSE Actor(x) = d
    BY DEF RowsOf, Followers, Following, Exists
  <2>3. RowsOf(d, f) \subseteq Edge /\ RowsOf(d, f)' \subseteq Edge
    BY DEF RowsOf, Followers, Following
  <2>4. RowsAfter(q, d, f) = IF ~Mine(d, f) THEN RowsOf(d, f)
                             ELSE IF t.delta = 1 THEN RowsOf(d, f) \cup {e} ELSE RowsOf(d, f) \ {e}
    BY <1>3, <1>11 DEF RowsAfter
  <2>5. Mine(d, f) <=> IF f = "followers_count" THEN Target(e) = d ELSE Actor(e) = d
    BY DEF FieldNames
  <2> HIDE DEF Mine, gone
  <2>6. ~Mine(d, f) => RowsOf(d, f)' = RowsOf(d, f)
    BY <1>3, <1>8, <2>1, <2>2, <2>3, <2>5
  <2>7. Mine(d, f) => RowsAfter(q, d, f) \subseteq RowsOf(d, f)'
    BY <1>3, <1>8, <2>1, <2>2, <2>3, <2>4, <2>5
  <2>8. Mine(d, f) /\ (t.delta = 1 \/ gone) => RowsOf(d, f)' \subseteq RowsAfter(q, d, f)
    BY <1>3, <1>8, <2>1, <2>2, <2>3, <2>4, <2>5 DEF gone
  <2> QED BY <2>4, <2>6, <2>7, <2>8
<1>14. NeverOvercounts'
  <2>1. ASSUME NEW d \in Doc, NEW f \in FieldNames PROVE (Number(meta[d], f) <= Cardinality(RowsOf(d, f)))'
    <3>1. Number(Own(q, d), f) <= Cardinality(RowsAfter(q, d, f))
      BY <1>2 DEF Holds
    <3>2. (Number(meta[d], f))' = Number(Own(q, d), f)
      BY <1>9 DEF Number
    <3>3. RowsOf(d, f)' \in SUBSET Edge
      BY DEF RowsOf, Followers, Following
    <3>4. IsFiniteSet(RowsOf(d, f)') /\ Cardinality(RowsOf(d, f)') \in Nat
      BY <1>3, <3>3, EdgeSets
    <3>5. Cardinality(RowsAfter(q, d, f)) <= Cardinality(RowsOf(d, f)') /\ Cardinality(RowsAfter(q, d, f)) \in Nat
      BY <1>13, <3>4, FS_Subset, FS_CardinalityType
    <3>6. Number(Own(q, d), f) \in Nat
      BY <1>2, NumberType DEF Own, InOrder, Inv, TypeOK
    <3> QED BY <3>1, <3>2, <3>4, <3>5, <3>6
  <2> QED BY <2>1, OvercountsNext
<1>15. RowsHaveMeta'
  <2>1. \A x \in Edge : Target(x) \in Doc /\ Actor(x) \in Doc
    BY ProfileAssumption DEF Edge, Target, Actor
  <2>2. \A d \in Doc : meta[d] # Absent => meta'[d] # Absent
    BY <1>9 DEF Own
  <2>3. meta'[Target(e)] # Absent /\ meta'[Actor(e)] # Absent
    BY <1>3, <1>9, <1>12 DEF Own
  <2>4. \A x \in Edge : follow'[x] # 0 => x = e \/ Exists(x)
    BY <1>8
  <2> QED BY <2>1, <2>2, <2>3, <2>4 DEF Inv, RowsHaveMeta, Exists
<1>16. ASSUME NEW o \in Request, Active(o)' PROVE o # q /\ Active(o) /\ Holds(o)'
  <2>1. o # q /\ Active(o) /\ tx'[o] = tx[o]
    BY <1>6, <1>16 DEF Active
  <2>2. InOrder(o)
    BY <2>1, Facts
  <2>3. tx[o].edge \in Edge /\ (tx[o].delta > 0 => rowLock[tx[o].edge] = o /\ follow[tx[o].edge] = 0)
    BY <2>2 DEF InOrder
  <2>4. ASSUME tx[o].delta > 0 PROVE rowLock'[tx[o].edge] = o /\ follow'[tx[o].edge] = follow[tx[o].edge]
    <3>1. tx[o].edge = e => t.delta # 1
      BY <1>2, <2>1, <2>3, <2>4 DEF InOrder
    <3>2. tx[o].edge = e => ~gone
      BY <1>3, <2>3, <2>4
    <3> HIDE DEF gone
    <3> QED BY <1>4, <1>7, <1>8, <2>1, <2>3, <2>4, <3>1, <3>2
  <2>5. \A d \in Doc : metaLock[d] = o => metaLock'[d] = o
    BY <1>7, <2>1
  <2>6. \A d \in Doc : meta[d] # Absent => meta'[d] # Absent
    BY <1>9 DEF Own
  <2>7. \A d \in Doc, f \in FieldNames : metaLock[d] = o => RowsOf(d, f)' = RowsOf(d, f)
    BY <1>3, <1>12, <1>13, <2>1
  <2> QED BY <1>14, <2>1, <2>4, <2>5, <2>6, <2>7, OthersHold
<1>17. ASSUME ~overlapped' PROVE CountsExact' /\ FlagsExact' /\ \A o \in Request : ~Active(o)'
  <2>1. Alone(q) /\ FlagsExact
    BY <1>1, <1>6, <1>17 DEF Inv, SerialExact
  <2>2. t.delta = 1 \/ gone
    <3>1. t.delta # 1 => t.delta < 0
      BY <1>3
    <3> QED BY <2>1, <3>1 DEF Alone
  <2>3. CountsExact'
    <3>1. ASSUME NEW d \in Doc, NEW f \in FieldNames PROVE (Number(meta[d], f) = Cardinality(RowsOf(d, f)))'
      <4>1. Number(Own(q, d), f) = Cardinality(RowsAfter(q, d, f))
        BY <2>1 DEF Alone
      <4>2. (Number(meta[d], f))' = Number(Own(q, d), f)
        BY <1>9 DEF Number
      <4> QED BY <1>13, <2>2, <4>1, <4>2
    <3> QED BY <3>1, ExactNext
  <2>4. \A x \in Edge : t.flags[x] = FlagOf(q, x)
    BY <2>1 DEF Alone
  <2> DEFINE r == Reverse(e)
             Reciprocal == ProfileToProfile(e) /\ ReverseExists(q)
  <2>5. \A x \in Edge : t.flags[x] = IF Reciprocal /\ (x = r \/ (x = e /\ t.delta = 1))
                                   THEN IF t.delta = 1 THEN "set" ELSE "cleared" ELSE "kept"
    <3>1. t.delta > 0 <=> t.delta = 1
      BY <1>3
    <3> QED BY <1>1, <2>4, <3>1 DEF FlagOf
  <2>6. ReverseExists(q) <=> IF r = e THEN t.delta = 1 ELSE Exists(r)
    BY <1>3 DEF ReverseExists
  <2>7. \A x \in Edge : ProfileToProfile(x) => Reverse(x) \in Edge /\ Reverse(Reverse(x)) = x /\ ProfileToProfile(Reverse(x))
    BY ProfileAssumption DEF ProfileToProfile, Reverse, Edge, Target, Actor
  <2>8. \A x \in Edge : follow'[x] # 0 <=> IF x = e THEN t.delta = 1 ELSE Exists(x)
    BY <1>8, <2>2
  <2>9. t.delta = 1 => ~Exists(e)
    BY <1>2 DEF InOrder, Exists
  <2>10. ASSUME NEW x \in Edge
         PROVE  x \in back' <=> follow'[x] # 0 /\ ProfileToProfile(x) /\ follow'[Reverse(x)] # 0
    <3>1. x \in back <=> Exists(x) /\ ProfileToProfile(x) /\ Exists(Reverse(x))
      BY <2>1 DEF FlagsExact
    <3>2. x \in back' <=> t.flags[x] = "set" \/ (x \in back /\ t.flags[x] # "cleared" /\ ~(gone /\ x = e))
      BY <1>5
    <3>3. CASE t.delta = 1
      <4>1. ~gone
        BY <3>3
      <4>2. x \in back' <=> (Reciprocal /\ (x = r \/ x = e)) \/ x \in back
        BY <2>5, <3>2, <3>3, <4>1
      <4>3. CASE x = e
        BY <1>3, <2>6, <2>7, <2>8, <2>9, <3>1, <3>3, <4>2, <4>3
      <4>4. CASE x # e /\ x = r
        BY <1>3, <2>6, <2>7, <2>8, <3>1, <3>3, <4>2, <4>4 DEF Reverse, Target, Actor, Edge, ProfileToProfile
      <4>5. CASE x # e /\ x # r
        BY <1>3, <2>6, <2>7, <2>8, <3>1, <3>3, <4>2, <4>5
      <4> QED BY <4>3, <4>4, <4>5
    <3>4. CASE t.delta # 1
      <4>1. gone
        BY <2>2, <3>4
      <4>2. x \in back' <=> x \in back /\ ~(Reciprocal /\ x = r) /\ x # e
        BY <2>5, <3>2, <3>4, <4>1
      <4>3. CASE x = e
        BY <1>3, <2>8, <3>4, <4>2, <4>3
      <4>4. CASE x # e /\ x = r
        BY <1>3, <2>6, <2>7, <2>8, <3>1, <3>4, <4>2, <4>4 DEF Reverse, Target, Actor, Edge, ProfileToProfile
      <4>5. CASE x # e /\ x # r
        BY <1>3, <2>6, <2>7, <2>8, <3>1, <3>4, <4>2, <4>5
      <4> QED BY <4>3, <4>4, <4>5
    <3> QED BY <3>3, <3>4
  <2>11. FlagsExact'
    BY <2>10 DEF FlagsExact, Exists
  <2>12. \A o \in Request : ~Active(o)'
    BY <1>16, <2>1 DEF Alone
  <2> QED BY <2>3, <2>11, <2>12
<1>18. SerialExact'
  BY <1>17 DEF SerialExact
<1> QED BY <1>6, <1>10, <1>14, <1>15, <1>16, <1>17, <1>18 DEF Inv

-----------------------------------------------------------------------------
LEMMA InvNext == Inv /\ [Next]_vars => Inv'
<1> SUFFICES ASSUME Inv, [Next]_vars PROVE Inv'
  OBVIOUS
<1>1. ASSUME NEW q \in Request, NEW e \in Edge, Toggle(q, e) PROVE Inv'
  BY <1>1, ToggleKeeps
<1>2. ASSUME NEW q \in Request, Statement(q) PROVE Inv'
  <2>1. CASE DeleteRow(q)
    BY <2>1, DeleteRowKeeps
  <2>2. ASSUME NEW stmt \in {"target", "actor"},
               Adjust(q, stmt) \/ NoRowToAdjust(q, stmt) \/ Seed(q, stmt)
        PROVE  Inv'
    BY <2>2, AdjustKeeps, NoRowToAdjustKeeps, SeedKeeps
  <2>3. ASSUME NEW stmt \in {"target", "actor"}, Refused(q, stmt) PROVE Inv'
    BY <2>3, RollbackKeeps DEF Refused, Active
  <2>4. CASE FlagOwn(q) \/ FlagReverse(q)
    BY <2>4, FlagOwnKeeps, FlagReverseKeeps
  <2>5. CASE Commit(q)
    BY <2>5, CommitKeeps
  <2>6. CASE BreakDeadlock(q)
    BY <2>6, RollbackKeeps DEF BreakDeadlock, Active
  <2> QED BY <1>2, <2>1, <2>2, <2>3, <2>4, <2>5, <2>6 DEF Statement
<1>3. ASSUME NEW d \in Doc, NEW field \in FieldNames, Recount(d, field) PROVE Inv'
  BY <1>3, RecountKeeps
<1>4. CASE UNCHANGED vars
  <2>1. UNCHANGED <<follow, back, meta, rowLock, metaLock, tx, toggles, recounts, overlapped>>
    BY <1>4 DEF vars
  <2>2. TypeOK' /\ RowsHaveMeta' /\ NeverOvercounts' /\ SerialExact'
    BY <2>1 DEF Inv, TypeOK, RowsHaveMeta, NeverOvercounts, SerialExact, CountsExact, FlagsExact, Exists, Followers, Following, CountOf
  <2>3. \A d, f : RowsOf(d, f)' = RowsOf(d, f)
    BY <2>1 DEF RowsOf, Followers, Following, Exists
  <2>4. \A q \in Request : Active(q) => Holds(q)'
    <3>1. ASSUME NEW q \in Request, Active(q) PROVE Holds(q)'
      <4>1. InOrder(q)
        BY <3>1, Facts
      <4>2. tx[q].delta > 0 => rowLock[tx[q].edge] = q
        BY <4>1 DEF InOrder
      <4> QED BY <2>1, <2>2, <2>3, <3>1, <4>2, OthersHold
    <3> QED BY <3>1
  <2>5. \A q \in Request : Alone(q) => Alone(q)'
    BY <2>1, <2>3 DEF Alone, Active, Followers, Following, Exists, Own, Number, RowsAfter, HasAdjusted, PastTarget,
       PastActor, FlagOf, ReverseExists
  <2> QED BY <2>1, <2>2, <2>4, <2>5 DEF Inv, Active
<1> QED BY <1>1, <1>2, <1>3, <1>4 DEF Next, FieldNames

\* However FollowToggle transactions, rollbacks and reconciliations overlap, no followers_count
\* or following_count of baseapp_follows exceeds the Follow rows there are.
THEOREM FollowsNeverOvercount == Spec => []NeverOvercounts
<1>1. Inv => NeverOvercounts
  BY DEF Inv
<1> QED BY <1>1, InvInit, InvNext, PTL DEF Spec

\* Rows, locks and counters stay well formed, and toggles that never overlap leave both
\* counters and every target_is_following_back flag exact.
THEOREM SerialFollowsAreExact == Spec => []TypedAndExact
<1>1. Inv => TypedAndExact
  BY DEF Inv, TypedAndExact
<1> QED BY <1>1, InvInit, InvNext, PTL DEF Spec
==============================================================================
