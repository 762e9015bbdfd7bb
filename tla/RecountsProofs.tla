--------------------------- MODULE RecountsProofs ---------------------------
(***************************************************************************)
(* Why the recounts of baseapp_blocks, baseapp_reactions, baseapp_ratings  *)
(* and baseapp_reports settle, for any number of profiles, users, values   *)
(* and requests.                                                           *)
(*                                                                         *)
(* The argument follows one side of one transaction.  While nobody else    *)
(* has committed a row of that side (it is sure), what the transaction has *)
(* counted is what it sees, and what it sees is what is committed when it  *)
(* ends (Counting).  A side it has not written yet looks to it as it is    *)
(* committed.  A commit can take the certainty away from the others only   *)
(* by touching rows of the side, which is what Unsettled names.            *)
(***************************************************************************)
EXTENDS Recounts, FiniteSetTheorems, TLAPS

\* What a metadata table m shows of side s.
ShownIn(m, s) == [f \in FieldsOf(s) |-> IF m[s[1]] = None THEN 0 ELSE m[s[1]][f]]

\* The sides that a row with key k counts for.
SideOfKey(s, k) ==
  IF kind = "blocks" THEN s = <<k[2], "in">> \/ s = <<k[1], "out">> ELSE s = <<k[2], "in">>

\* A transaction that has sent its first write runs through its sides one by one.
Todo == {<<>>} \cup {<<s>> : s \in Side} \cup {<<s, t>> : s, t \in Side}
AtSide(q) == {Head(tx[q].todo) : i \in {x \in {1} : tx[q].step \in {"count", "save"}}}
Ahead(q) == {tx[q].todo[i] : i \in DOMAIN tx[q].todo}

\* Tables, and the part of one that a transaction has written.
Table == [Key -> Row \cup {None}]
MetaTable == [Profile -> Counts \cup {None}]
Partial(D, R) == UNION {[E -> R] : E \in SUBSET D}

Tx == [op : {"insert", "save", "delete"}, key : Key, old : Row, new : Row,
       step : {"write", "load", "count", "save"}, rows : Partial(Key, Row \cup {None}),
       meta : Partial(Profile, Counts), todo : Todo, done : SUBSET Side, sure : SUBSET Side,
       loaded : Counts, count : Partial(Fields, Int)]

Typed ==
  /\ kind \in Kind /\ row \in Table /\ meta \in MetaTable
  /\ tx \in [Request -> Tx \cup {Idle}]
  /\ starts \in 0..MaxStarts /\ suspect \in SUBSET Side /\ calm \in BOOLEAN

\* What two transactions have written is disjoint.
Disjoint ==
  \A q \in Active, p \in Active : p # q => /\ DOMAIN tx[q].rows \cap DOMAIN tx[p].rows = {}
                                          /\ DOMAIN tx[q].meta \cap DOMAIN tx[p].meta = {}

\* An active request is where its record says.
Shape(q) ==
  /\ \A i, j \in DOMAIN tx[q].todo : tx[q].todo[i] = tx[q].todo[j] => i = j
  /\ Ahead(q) \cap tx[q].done = {}
  /\ tx[q].sure \subseteq tx[q].done \cup AtSide(q)
  /\ tx[q].step \in {"count", "save"} => tx[q].todo # <<>> /\ SeenMeta(q)[Head(tx[q].todo)[1]] # None
  /\ tx[q].step = "write" => /\ DOMAIN tx[q].rows = {} /\ DOMAIN tx[q].meta = {}
                             /\ tx[q].done = {} /\ tx[q].todo = <<>>

\* What it knows of the counters.
Counting(q) ==
  /\ \A s \in tx[q].done \cap tx[q].sure : ShownIn(SeenMeta(q), s) = Counted(Seen(q), s)
  /\ \A s \in Side \ tx[q].done : ShownIn(SeenMeta(q), s) = Shown(s)
  /\ kind # "blocks" => \A s \in tx[q].done : s[1] \in DOMAIN tx[q].meta
  /\ tx[q].step = "save" => \E t \in Table : tx[q].count = Counted(t, Head(tx[q].todo))
  /\ tx[q].step = "save" /\ Head(tx[q].todo) \in tx[q].sure =>
       tx[q].count = Counted(Seen(q), Head(tx[q].todo))
  /\ kind = "blocks" /\ tx[q].step \in {"count", "save"} /\ Head(tx[q].todo) \in tx[q].sure =>
       \A f \in FieldsOf(Head(tx[q].todo)) : tx[q].loaded[f] = SeenMeta(q)[Head(tx[q].todo)[1]][f]

\* The command recounts one target at a time.
JobCounting ==
  \/ job = Resting
  \/ /\ kind \in {"reactions", "reports"}
     /\ job \in [step : {"count", "save"}, todo : SUBSET Profile, at : Profile \cup {None},
                 count : Partial(Fields, Int), sure : BOOLEAN]
     /\ job.step = "count" => ~ job.sure
     /\ job.step = "save" =>
          /\ job.at \in Profile
          /\ \E t \in Table : job.count = Counted(t, <<job.at, "in">>)
          /\ job.sure => job.count = Counted(row, <<job.at, "in">>)

\* No two rows of a table have one primary key, and no key is still to come.
Numbered(t, n) ==
  /\ \A k, l \in Key : t[k] # None /\ t[l] # None /\ t[k].id = t[l].id => k = l
  /\ \A k \in Key : t[k] # None => t[k].id[1] <= n

\* What a transaction that runs alone knows.
Alone(q) ==
  /\ job = Resting /\ Active = {q}
  /\ Numbered(Seen(q), starts)
  /\ IF tx[q].step = "write"
     THEN /\ tx[q].op = "insert" => Numbered(row, starts - 1) /\ tx[q].new.id[1] = starts
          /\ tx[q].op # "insert" =>
               \E k \in Key : row[k] # None /\ row[k].id = tx[q].old.id /\ (tx[q].op = "delete" => k = tx[q].key)
          /\ tx[q].op = "save" => tx[q].new.id = tx[q].old.id
     ELSE /\ tx[q].op # "save" => DOMAIN tx[q].rows \subseteq {tx[q].key}
          /\ tx[q].done \subseteq tx[q].sure
          /\ tx[q].step = "save" \/ kind = "blocks" => AtSide(q) \subseteq tx[q].sure
          /\ ~ (kind = "blocks" /\ tx[q].op = "save") =>
               \A s \in Side : SideOfKey(s, tx[q].key) <=> s \in tx[q].done \cup Ahead(q)

\* Without overlap nothing is ever suspect.
Calm == calm => /\ suspect = {} /\ Numbered(row, starts)
                /\ \A q \in Active : Alone(q)
                /\ job.step = "save" => job.sure

\* Whatever is written was asked for.
Asked ==
  /\ OwnChoice
  /\ \A q \in Active :
       /\ \A k \in DOMAIN tx[q].rows : tx[q].rows[k] # None => Wanted(tx[q].rows[k], k)
       /\ tx[q].op = "save" => Wanted(tx[q].new, tx[q].key)
       /\ tx[q].op = "insert" => <<tx[q].new.by, tx[q].key, tx[q].new.value>> \in asked

\* The inductive invariant.
Inv ==
  /\ Typed /\ Disjoint
  /\ \A q \in Active : Shape(q)
  /\ \A q \in Active : Counting(q)
  /\ JobCounting
  /\ RecountsSettle
  /\ Calm
  /\ Asked

-----------------------------------------------------------------------------
(* Sequences, partial functions, and what the package of the behaviour fixes. *)

LEMMA SeqFacts ==
  ASSUME NEW a, NEW b
  PROVE  /\ Tail(<<a>>) = <<>> /\ Head(<<a>>) = a /\ Tail(<<a, b>>) = <<b>> /\ Head(<<a, b>>) = a
         /\ <<a>> # <<>> /\ <<a, b>> # <<>> /\ <<a>>[1] = a /\ <<a, b>>[1] = a /\ <<a, b>>[2] = b
         /\ DOMAIN <<a>> = {1} /\ DOMAIN <<a, b>> = {1, 2} /\ DOMAIN <<>> = {}
OBVIOUS

LEMMA PartialIs ==
  ASSUME NEW D, NEW R, NEW f
  PROVE  f \in Partial(D, R) <=> /\ DOMAIN f \subseteq D /\ f = [x \in DOMAIN f |-> f[x]]
                                 /\ \A x \in DOMAIN f : f[x] \in R
BY DEF Partial

LEMMA OverIs ==
  ASSUME NEW f, NEW g
  PROVE  /\ DOMAIN Over(f, g) = DOMAIN f \cup DOMAIN g
         /\ \A x \in DOMAIN f : Over(f, g)[x] = f[x]
         /\ \A x \in DOMAIN g : x \notin DOMAIN f => Over(f, g)[x] = g[x]
         /\ Over(f, g) = [x \in DOMAIN Over(f, g) |-> Over(f, g)[x]]
BY DEF Over

\* A transaction is never mistaken for an idle slot.
LEMMA NotIdle == \A c \in Tx : c # Idle
BY DEF Tx, Idle

\* The package never changes, and with it the sides and counters.
LEMMA SameKind ==
  ASSUME kind' = kind
  PROVE  /\ Side' = Side /\ Fields' = Fields /\ Counts' = Counts /\ Todo' = Todo
         /\ MetaTable' = MetaTable /\ Tx' = Tx
         /\ \A s : FieldsOf(s)' = FieldsOf(s)
<1>1. Fields' = Fields /\ Side' = Side
  BY Zenon DEF Fields, Side
<1>2. Counts' = Counts /\ Todo' = Todo
  <2>1. Counts' = Counts
    BY <1>1 DEF Counts
  <2>2. Todo' = Todo
    BY <1>1 DEF Todo
  <2> QED BY <2>1, <2>2
<1>3. \A s : FieldsOf(s)' = FieldsOf(s)
  BY <1>1, Zenon DEF FieldsOf
<1>4. MetaTable' = MetaTable
  BY <1>2, Zenon DEF MetaTable
<1>5. Tx' = Tx
  BY <1>1, <1>2 DEF Tx
<1> QED BY <1>1, <1>2, <1>3, <1>4, <1>5

LEMMA SameCounted ==
  ASSUME kind' = kind, NEW t, NEW s
  PROVE  Counted(t, s)' = Counted(t, s)
BY DEF Counted, BlockersCount, BlockingCount, On, By, ReactionsCount, RatingsIndicators,
   ReportsCount, Stars, Minus

LEMMA SameShown ==
  ASSUME kind' = kind, NEW m, NEW s
  PROVE  ShownIn(m, s)' = ShownIn(m, s)
BY SameKind DEF ShownIn

LEMMA SameSides ==
  ASSUME kind' = kind, NEW k
  PROVE  /\ SidesOf(k)' = SidesOf(k)
         /\ \A s : SideOfKey(s, k)' <=> SideOfKey(s, k)
BY DEF SidesOf, SideOfKey

-----------------------------------------------------------------------------
(* What a recount computes. *)

LEMMA KeysFinite == IsFiniteSet(Key)
BY FS_Product, ProfileAssumption DEF Key

\* The sides of a key, one after the other.
LEMMA SidesOfIs ==
  ASSUME NEW k \in Key
  PROVE  /\ \A s : s \in {SidesOf(k)[i] : i \in DOMAIN SidesOf(k)} <=> SideOfKey(s, k)
         /\ SidesOf(k) \in Todo
         /\ \A i, j \in DOMAIN SidesOf(k) : SidesOf(k)[i] = SidesOf(k)[j] => i = j
<1> DEFINE a == <<k[2], "in">> b == <<k[1], "out">>
<1>1. a # b /\ k[1] \in Profile /\ k[2] \in Profile
  BY DEF Key
<1>2. CASE kind = "blocks"
  <2>1. SidesOf(k) = <<a, b>>
    BY <1>2 DEF SidesOf
  <2>2. a \in Side /\ b \in Side
    BY <1>1, <1>2 DEF Side
  <2>3. \A s : SideOfKey(s, k) <=> s = a \/ s = b
    BY <1>2 DEF SideOfKey
  <2> HIDE DEF a, b
  <2>4. <<a, b>>[1] = a /\ <<a, b>>[2] = b /\ DOMAIN <<a, b>> = {1, 2}
    BY SeqFacts
  <2>5. SidesOf(k) \in Todo
    BY <2>1, <2>2 DEF Todo
  <2> QED BY <1>1, <2>1, <2>3, <2>4, <2>5
<1>3. CASE kind # "blocks"
  <2>1. SidesOf(k) = <<a>>
    BY <1>3 DEF SidesOf
  <2>2. a \in Side
    BY <1>1, <1>3 DEF Side
  <2>3. \A s : SideOfKey(s, k) <=> s = a
    BY <1>3 DEF SideOfKey
  <2> HIDE DEF a, b
  <2>4. <<a>>[1] = a /\ DOMAIN <<a>> = {1}
    BY SeqFacts
  <2>5. SidesOf(k) \in Todo
    BY <2>1, <2>2 DEF Todo
  <2> QED BY <2>1, <2>3, <2>4, <2>5
<1> QED BY <1>2, <1>3

\* The sides of a set of keys.
LEMMA SidesMember ==
  ASSUME NEW K \in SUBSET Key, NEW s
  PROVE  s \in SidesOfKeys(K) <=> \E k \in K : SideOfKey(s, k)
<1>1. \A k \in K : s \in {SidesOf(k)[i] : i \in DOMAIN SidesOf(k)} <=> SideOfKey(s, k)
  BY SidesOfIs
<1> QED BY <1>1 DEF SidesOfKeys

\* Two tables that agree on the rows of a side give it the same counters.
LEMMA Locality ==
  ASSUME kind \in Kind, NEW t, NEW u, NEW s \in Side,
         \A k \in Key : SideOfKey(s, k) => t[k] = u[k]
  PROVE  Counted(t, s) = Counted(u, s)
<1>1. CASE kind = "blocks"
  <2>0. s \in Profile \X {"in", "out"}
    BY <1>1 DEF Side
  <2>1. CASE s[2] = "in"
    <3>1. \A k \in Key : k[2] = s[1] => t[k] = u[k]
      BY <1>1, <2>0, <2>1 DEF SideOfKey
    <3>2. On(t, s[1]) = On(u, s[1])
      BY <3>1 DEF On
    <3> QED BY <1>1, <2>1, <3>2 DEF Counted, BlockersCount
  <2>2. CASE s[2] = "out"
    <3>1. \A k \in Key : k[1] = s[1] => t[k] = u[k]
      BY <1>1, <2>0, <2>2 DEF SideOfKey
    <3>2. By(t, s[1]) = By(u, s[1])
      BY <3>1 DEF By
    <3> QED BY <1>1, <2>2, <3>2 DEF Counted, BlockingCount
  <2> QED BY <2>0, <2>1, <2>2
<1>2. CASE kind # "blocks"
  <2>0. s \in Profile \X {"in"}
    BY <1>2 DEF Side
  <2> DEFINE o == s[1]
  <2>1. \A k \in Key : k[2] = o => t[k] = u[k]
    BY <1>2, <2>0 DEF SideOfKey
  <2>2. On(t, o) = On(u, o) /\ \A k \in On(t, o) : t[k] = u[k]
    BY <2>1 DEF On
  <2>3. CASE kind = "reactions"
    <3>1. ReactionsCount(t, o) = ReactionsCount(u, o)
      BY <2>2 DEF ReactionsCount
    <3> QED BY <2>3, <3>1 DEF Counted
  <2>4. CASE kind = "ratings"
    <3>1. Stars(t, o) = Stars(u, o) /\ Minus(t, o) = Minus(u, o)
      BY <2>2 DEF Stars, Minus
    <3>2. RatingsIndicators(t, o) = RatingsIndicators(u, o)
      BY <2>2, <3>1 DEF RatingsIndicators
    <3> QED BY <2>4, <3>2 DEF Counted
  <2>5. CASE kind = "reports"
    <3>1. ReportsCount(t, o) = ReportsCount(u, o)
      <4>1. ASSUME NEW f PROVE {k \in On(t, o) : f = "total" \/ t[k].value = f} =
                               {k \in On(u, o) : f = "total" \/ u[k].value = f}
        BY <2>2
      <4> QED BY <4>1 DEF ReportsCount
    <3> QED BY <2>5, <3>1 DEF Counted
  <2> QED BY <1>2, <2>3, <2>4, <2>5 DEF Kind
<1> QED BY <1>1, <1>2

LEMMA FieldsAre ==
  ASSUME kind \in Kind
  PROVE  /\ kind = "blocks" => Fields = {"blockers", "blocking"}
         /\ kind = "ratings" => Fields = {"count", "sum"}
         /\ kind \in {"reactions", "reports"} => Fields = Value \cup {"total"}
<1>1. "blocks" # "ratings" /\ "reactions" # "blocks" /\ "reactions" # "ratings"
      /\ "reports" # "blocks" /\ "reports" # "ratings"
  OBVIOUS
<1> QED BY <1>1, Zenon DEF Fields, FieldsOfKind

LEMMA FieldsOfAre ==
  ASSUME kind \in Kind, NEW s \in Side
  PROVE  /\ FieldsOf(s) \subseteq Fields
         /\ kind = "blocks" => s[2] \in {"in", "out"}
         /\ kind = "blocks" /\ s[2] = "in" => FieldsOf(s) = {"blockers"}
         /\ kind = "blocks" /\ s[2] = "out" => FieldsOf(s) = {"blocking"}
         /\ kind # "blocks" => s[2] = "in" /\ FieldsOf(s) = Fields
<1>1. kind = "blocks" => s[2] \in {"in", "out"}
  BY DEF Side
<1>2. kind # "blocks" => s[2] = "in"
  BY DEF Side
<1> QED BY <1>1, <1>2, FieldsAre DEF FieldsOf

\* Two sides of one object share no counter.
LEMMA FieldsApart ==
  ASSUME kind \in Kind, NEW s \in Side, NEW t \in Side, s # t, s[1] = t[1]
  PROVE  FieldsOf(s) \cap FieldsOf(t) = {}
<1>1. s[2] # t[2]
  BY DEF Side
<1>2. kind = "blocks"
  BY <1>1, FieldsOfAre
<1> QED BY <1>1, <1>2, FieldsOfAre

\* The stars of finitely many rows are finitely many.
LEMMA StarsFinite ==
  ASSUME NEW S, IsFiniteSet(S), NEW w, \A k \in S : w[k] \in Int
  PROVE  IsFiniteSet(UNION {{<<k, n>> : n \in 1..w[k]} : k \in S})
<1> DEFINE star(k) == {<<k, n>> : n \in 1..w[k]}
           F == [k \in S |-> star(k)]
           T == {star(k) : k \in S}
<1>1. F \in Surjection(S, T)
  BY DEF Surjection
<1>2. IsFiniteSet(T)
  <2> HIDE DEF T, F
  <2> QED BY <1>1, FS_Surjection
<1>3. ASSUME NEW k \in S PROVE IsFiniteSet(star(k))
  <2> DEFINE G == [n \in 1..w[k] |-> <<k, n>>]
             U == star(k)
  <2>1. G \in Surjection(1..w[k], U)
    BY DEF Surjection
  <2>2. IsFiniteSet(1..w[k])
    BY FS_Interval
  <2> HIDE DEF G, U
  <2>3. IsFiniteSet(U)
    BY <2>1, <2>2, FS_Surjection
  <2> QED BY <2>3 DEF U
<1>4. \A t \in T : IsFiniteSet(t)
  BY <1>3
<1> HIDE DEF T
<1>5. IsFiniteSet(UNION T)
  BY <1>2, <1>4, FS_UNION
<1> QED BY <1>5 DEF T

\* A recount yields an integer for each counter of its side, and none below zero unless it
\* adds up ratings.
LEMMA CountedType ==
  ASSUME kind \in Kind, NEW t \in Table, NEW s \in Side
  PROVE  /\ Counted(t, s) \in [FieldsOf(s) -> Int]
         /\ \A f \in FieldsOf(s) : (kind = "ratings" /\ f = "sum") \/ Counted(t, s)[f] >= 0
<1> DEFINE o == s[1]
<1>1. IsFiniteSet(On(t, o)) /\ IsFiniteSet(By(t, o))
  <2>1. On(t, o) \in SUBSET Key /\ By(t, o) \in SUBSET Key
    BY DEF On, By
  <2> QED BY <2>1, KeysFinite, FS_Subset
<1>2. Cardinality(On(t, o)) \in Nat /\ Cardinality(By(t, o)) \in Nat
  BY <1>1, FS_CardinalityType
<1>3. CASE kind = "blocks"
  <2>1. CASE s[2] = "in"
    <3>1. Counted(t, s) = [f \in {"blockers"} |-> Cardinality(On(t, o))]
      BY <1>3, <2>1 DEF Counted, BlockersCount
    <3>2. FieldsOf(s) = {"blockers"}
      BY <1>3, <2>1, FieldsOfAre
    <3> QED BY <1>2, <3>1, <3>2
  <2>2. CASE s[2] = "out"
    <3>1. Counted(t, s) = [f \in {"blocking"} |-> Cardinality(By(t, o))]
      BY <1>3, <2>2 DEF Counted, BlockingCount
    <3>2. FieldsOf(s) = {"blocking"}
      BY <1>3, <2>2, FieldsOfAre
    <3> QED BY <1>2, <3>1, <3>2
  <2> QED BY <1>3, <2>1, <2>2, FieldsOfAre
<1>4. CASE kind = "reactions"
  <2>1. FieldsOf(s) = Value \cup {"total"}
    BY <1>4, FieldsAre, FieldsOfAre
  <2>2. Counted(t, s) = ReactionsCount(t, o)
    BY <1>4 DEF Counted
  <2>3. ASSUME NEW f PROVE Cardinality({k \in On(t, o) : t[k].value = f}) \in Nat
    <3>1. {k \in On(t, o) : t[k].value = f} \in SUBSET On(t, o)
      OBVIOUS
    <3>2. IsFiniteSet({k \in On(t, o) : t[k].value = f})
      BY <1>1, <3>1, FS_Subset
    <3> QED BY <3>2, FS_CardinalityType
  <2>4. ASSUME NEW f \in Value \cup {"total"} PROVE ReactionsCount(t, o)[f] \in Nat
    BY <1>2, <2>3 DEF ReactionsCount
  <2>5. ReactionsCount(t, o) = [f \in Value \cup {"total"} |-> ReactionsCount(t, o)[f]]
    BY DEF ReactionsCount
  <2> QED BY <2>1, <2>2, <2>4, <2>5
<1>5. CASE kind = "reports"
  <2>1. FieldsOf(s) = Value \cup {"total"}
    BY <1>5, FieldsAre, FieldsOfAre
  <2>2. Counted(t, s) = ReportsCount(t, o)
    BY <1>5 DEF Counted
  <2>3. ASSUME NEW f PROVE Cardinality({k \in On(t, o) : f = "total" \/ t[k].value = f}) \in Nat
    <3>1. {k \in On(t, o) : f = "total" \/ t[k].value = f} \in SUBSET On(t, o)
      OBVIOUS
    <3>2. IsFiniteSet({k \in On(t, o) : f = "total" \/ t[k].value = f})
      BY <1>1, <3>1, FS_Subset
    <3> QED BY <3>2, FS_CardinalityType
  <2>4. ASSUME NEW f \in Value \cup {"total"} PROVE ReportsCount(t, o)[f] \in Nat
    BY <2>3 DEF ReportsCount
  <2>5. ReportsCount(t, o) = [f \in Value \cup {"total"} |-> ReportsCount(t, o)[f]]
    BY DEF ReportsCount
  <2> QED BY <2>1, <2>2, <2>4, <2>5
<1>6. CASE kind = "ratings"
  <2>1. FieldsOf(s) = {"count", "sum"}
    BY <1>6, FieldsAre, FieldsOfAre
  <2>2. Counted(t, s) = RatingsIndicators(t, o)
    BY <1>6 DEF Counted
  <2>3. Cardinality(Stars(t, o)) \in Nat /\ Cardinality(Minus(t, o)) \in Nat
    <3>1. \A k \in On(t, o) : Worth[t[k].value] \in Int
      BY ValueAssumption DEF Table, Row, On
    <3> DEFINE w == [k \in On(t, o) |-> Worth[t[k].value]]
               v == [k \in On(t, o) |-> -Worth[t[k].value]]
    <3>2. \A k \in On(t, o) : w[k] \in Int /\ v[k] \in Int
      BY <3>1
    <3>3. Stars(t, o) = UNION {{<<k, n>> : n \in 1..w[k]} : k \in On(t, o)}
      BY DEF Stars
    <3>4. Minus(t, o) = UNION {{<<k, n>> : n \in 1..v[k]} : k \in On(t, o)}
      BY DEF Minus
    <3> HIDE DEF w, v
    <3>5. IsFiniteSet(Stars(t, o)) /\ IsFiniteSet(Minus(t, o))
      BY <1>1, <3>2, <3>3, <3>4, StarsFinite
    <3> QED BY <3>5, FS_CardinalityType
  <2> QED BY <1>2, <1>6, <2>1, <2>2, <2>3 DEF RatingsIndicators
<1> QED BY <1>3, <1>4, <1>5, <1>6 DEF Kind

-----------------------------------------------------------------------------
(* What the invariant says of one transaction. *)

LEMMA TxFacts ==
  ASSUME Typed, NEW q \in Active
  PROVE  /\ q \in Request /\ tx[q] \in Tx
         /\ DOMAIN tx[q].rows \subseteq Key /\ DOMAIN tx[q].meta \subseteq Profile
         /\ \A k \in DOMAIN tx[q].rows : tx[q].rows[k] \in Row \cup {None}
         /\ \A o \in DOMAIN tx[q].meta : tx[q].meta[o] \in Counts
<1>1. q \in Request /\ tx[q] \in Tx
  BY DEF Typed, Active
<1>2. tx[q].rows \in Partial(Key, Row \cup {None}) /\ tx[q].meta \in Partial(Profile, Counts)
  BY <1>1 DEF Tx
<1> QED BY <1>1, <1>2, PartialIs

LEMMA SeenFacts ==
  ASSUME Typed, NEW q \in Active
  PROVE  /\ Seen(q) \in Table /\ SeenMeta(q) \in MetaTable
         /\ \A k \in Key : Seen(q)[k] = IF k \in DOMAIN tx[q].rows THEN tx[q].rows[k] ELSE row[k]
         /\ \A o \in Profile : SeenMeta(q)[o] = IF o \in DOMAIN tx[q].meta THEN tx[q].meta[o] ELSE meta[o]
<1>1. DOMAIN row = Key /\ DOMAIN meta = Profile
  BY DEF Typed, Table, MetaTable
<1>2. DOMAIN Seen(q) = Key /\ DOMAIN SeenMeta(q) = Profile
  BY <1>1, TxFacts DEF Seen, SeenMeta, Over
<1>3. \A k \in Key : Seen(q)[k] = IF k \in DOMAIN tx[q].rows THEN tx[q].rows[k] ELSE row[k]
  BY <1>1, <1>2 DEF Seen, Over
<1>4. \A o \in Profile : SeenMeta(q)[o] = IF o \in DOMAIN tx[q].meta THEN tx[q].meta[o] ELSE meta[o]
  BY <1>1, <1>2 DEF SeenMeta, Over
<1>5. Seen(q) = [k \in Key |-> Seen(q)[k]]
  BY <1>2 DEF Seen, Over
<1>6. SeenMeta(q) = [o \in Profile |-> SeenMeta(q)[o]]
  BY <1>2 DEF SeenMeta, Over
<1>7. \A k \in Key : Seen(q)[k] \in Row \cup {None}
  BY <1>3, TxFacts DEF Typed, Table
<1>8. \A o \in Profile : SeenMeta(q)[o] \in Counts \cup {None}
  BY <1>4, TxFacts DEF Typed, MetaTable
<1> QED BY <1>3, <1>4, <1>5, <1>6, <1>7, <1>8 DEF Table, MetaTable

\* The side it is at is a side, and none that it has done.
LEMMA HeadIsSide ==
  ASSUME NEW t \in Todo, t # <<>>
  PROVE  /\ Head(t) \in Side /\ Tail(t) \in Todo /\ Head(t) = t[1] /\ 1 \in DOMAIN t
         /\ {Tail(t)[i] : i \in DOMAIN Tail(t)} \subseteq {t[i] : i \in DOMAIN t}
         /\ {t[i] : i \in DOMAIN t} = {Head(t)} \cup {Tail(t)[i] : i \in DOMAIN Tail(t)}
         /\ (\A i, j \in DOMAIN t : t[i] = t[j] => i = j) =>
              /\ Head(t) \notin {Tail(t)[i] : i \in DOMAIN Tail(t)}
              /\ \A i, j \in DOMAIN Tail(t) : Tail(t)[i] = Tail(t)[j] => i = j
<1>1. CASE \E a \in Side : t = <<a>>
  <2>1. PICK a \in Side : t = <<a>>
    BY <1>1
  <2> QED BY <2>1, SeqFacts DEF Todo
<1>2. CASE \E a, b \in Side : t = <<a, b>>
  <2>1. PICK a \in Side, b \in Side : t = <<a, b>>
    BY <1>2
  <2>2. Head(t) = a /\ Tail(t) = <<b>> /\ t[1] = a /\ t[2] = b /\ DOMAIN t = {1, 2}
    BY <2>1, SeqFacts
  <2>3. DOMAIN Tail(t) = {1} /\ Tail(t)[1] = b
    BY <2>2, SeqFacts
  <2>4. {Tail(t)[i] : i \in DOMAIN Tail(t)} = {b} /\ {t[i] : i \in DOMAIN t} = {a, b}
    BY <2>2, <2>3
  <2>5. Tail(t) \in Todo
    BY <2>2 DEF Todo
  <2> QED BY <2>2, <2>3, <2>4, <2>5
<1>3. (\E a \in Side : t = <<a>>) \/ \E a, b \in Side : t = <<a, b>>
  BY DEF Todo
<1> QED BY <1>1, <1>2, <1>3

\* A transaction that an action leaves alone keeps what it knows, while nothing is committed.
LEMMA OthersKeep ==
  ASSUME NEW p, tx'[p] = tx[p], UNCHANGED <<kind, row, meta>>
  PROVE  /\ Seen(p)' = Seen(p) /\ SeenMeta(p)' = SeenMeta(p)
         /\ Shape(p) => Shape(p)'
         /\ Counting(p) => Counting(p)'
<1>1. Seen(p)' = Seen(p) /\ SeenMeta(p)' = SeenMeta(p)
  BY DEF Seen, SeenMeta
<1>2. Shape(p) => Shape(p)'
  BY <1>1 DEF Shape, Ahead, AtSide
<1>3. \A s : Shown(s)' = Shown(s)
  BY SameKind DEF Shown
<1>4. Side' = Side /\ (\A s : FieldsOf(s)' = FieldsOf(s)) /\ Table' = Table
  BY SameKind DEF Table
<1>5. \A s : Counted(Seen(p), s)' = Counted(Seen(p), s)
  BY <1>1, SameCounted
<1>6. \A t, s : Counted(t, s)' = Counted(t, s)
  BY SameCounted
<1>7. \A s : ShownIn(SeenMeta(p), s)' = ShownIn(SeenMeta(p), s)
  BY <1>1, SameShown
<1>8. Counting(p) => Counting(p)'
  BY <1>1, <1>3, <1>4, <1>5, <1>6, <1>7 DEF Counting
<1> QED BY <1>1, <1>2, <1>8

-----------------------------------------------------------------------------
(* The initial state. *)

\* A side without rows counts nothing.
LEMMA CountedNone ==
  ASSUME kind \in Kind, NEW t, NEW s \in Side, \A k \in Key : SideOfKey(s, k) => t[k] = None
  PROVE  Counted(t, s) = [f \in FieldsOf(s) |-> 0]
<1> DEFINE o == s[1]
<1>0. Cardinality({}) = 0
  BY FS_EmptySet
<1>1. CASE kind = "blocks" /\ s[2] = "in"
  <2>1. On(t, o) = {}
    BY <1>1 DEF On, SideOfKey, Side
  <2>2. FieldsOf(s) = {"blockers"}
    BY <1>1, FieldsOfAre
  <2> QED BY <1>0, <1>1, <2>1, <2>2 DEF Counted, BlockersCount
<1>2. CASE kind = "blocks" /\ s[2] = "out"
  <2>1. By(t, o) = {}
    BY <1>2 DEF By, SideOfKey, Side
  <2>2. FieldsOf(s) = {"blocking"}
    BY <1>2, FieldsOfAre
  <2> QED BY <1>0, <1>2, <2>1, <2>2 DEF Counted, BlockingCount
<1>3. CASE kind # "blocks"
  <2>1. On(t, o) = {}
    BY <1>3 DEF On, SideOfKey, Side
  <2>2. FieldsOf(s) = Fields
    BY <1>3, FieldsOfAre
  <2>3. CASE kind = "reactions"
    <3>1. \A f : {x \in On(t, o) : t[x].value = f} = {}
      BY <2>1
    <3>2. ReactionsCount(t, o) = [f \in Value \cup {"total"} |-> 0]
      BY <1>0, <2>1, <3>1 DEF ReactionsCount
    <3> QED BY <2>2, <2>3, <3>2, FieldsAre DEF Counted
  <2>4. CASE kind = "reports"
    <3>1. ASSUME NEW f PROVE {x \in On(t, o) : f = "total" \/ t[x].value = f} = {}
      BY <2>1
    <3>2. ReportsCount(t, o) = [f \in Value \cup {"total"} |-> 0]
      BY <1>0, <3>1 DEF ReportsCount
    <3> QED BY <2>2, <2>4, <3>2, FieldsAre DEF Counted
  <2>5. CASE kind = "ratings"
    <3>1. Stars(t, o) = {} /\ Minus(t, o) = {}
      BY <2>1 DEF Stars, Minus
    <3>2. RatingsIndicators(t, o) = [f \in {"count", "sum"} |-> 0]
      BY <1>0, <2>1, <3>1 DEF RatingsIndicators
    <3> QED BY <2>2, <2>5, <3>2, FieldsAre DEF Counted
  <2> QED BY <1>3, <2>3, <2>4, <2>5 DEF Kind
<1> QED BY <1>1, <1>2, <1>3, FieldsOfAre

\* A metadata row that has recounted all its sides shows each of them.
LEMMA CountedAllIs ==
  ASSUME kind \in Kind, row \in Table, NEW o \in Profile
  PROVE  /\ CountedAll(o) \in Counts
         /\ \A s \in Side : s[1] = o => \A f \in FieldsOf(s) : CountedAll(o)[f] = Counted(row, s)[f]
<1>1. CASE kind = "blocks"
  <2> DEFINE a == <<o, "in">> b == <<o, "out">> ca == Counted(row, a) cb == Counted(row, b)
  <2>1. a \in Side /\ b \in Side
    BY <1>1 DEF Side
  <2>2. FieldsOf(a) = {"blockers"} /\ FieldsOf(b) = {"blocking"}
    BY <1>1 DEF FieldsOf
  <2>3. /\ ca \in [{"blockers"} -> Int] /\ ca["blockers"] >= 0
        /\ cb \in [{"blocking"} -> Int] /\ cb["blocking"] >= 0
    BY <1>1, <2>1, <2>2, CountedType
  <2>4. CountedAll(o) = Over(ca, cb)
    BY <1>1 DEF CountedAll
  <2>5. \A s \in Side : s[1] = o => s = a \/ s = b
    BY <1>1 DEF Side
  <2> HIDE DEF a, b, ca, cb
  <2>6. /\ DOMAIN CountedAll(o) = {"blockers", "blocking"}
        /\ CountedAll(o) = [f \in {"blockers", "blocking"} |-> CountedAll(o)[f]]
        /\ CountedAll(o)["blockers"] = ca["blockers"] /\ CountedAll(o)["blocking"] = cb["blocking"]
    BY <2>3, <2>4 DEF Over
  <2>7. CountedAll(o) \in Counts
    <3>1. Fields = {"blockers", "blocking"}
      BY <1>1, FieldsAre
    <3>2. CountedAll(o) \in [{"blockers", "blocking"} -> Int]
      BY <2>3, <2>6
    <3> QED BY <2>3, <2>6, <3>1, <3>2 DEF Counts
  <2>8. \A s \in Side : s[1] = o => \A f \in FieldsOf(s) : CountedAll(o)[f] = Counted(row, s)[f]
    BY <2>2, <2>5, <2>6 DEF ca, cb
  <2> QED BY <2>7, <2>8
<1>2. CASE kind # "blocks"
  <2> DEFINE a == <<o, "in">>
  <2>1. a \in Side
    BY <1>2 DEF Side
  <2>2. FieldsOf(a) = Fields
    BY <1>2 DEF FieldsOf
  <2>3. CountedAll(o) = Counted(row, a)
    BY <1>2 DEF CountedAll
  <2>4. CountedAll(o) \in Counts
    BY <2>1, <2>2, <2>3, CountedType DEF Counts
  <2>5. \A s \in Side : s[1] = o => s = a
    BY <1>2 DEF Side
  <2> QED BY <2>3, <2>4, <2>5
<1> QED BY <1>1, <1>2

LEMMA InvInit == Init => Inv
<1> SUFFICES ASSUME Init PROVE Inv
  OBVIOUS
<1>1. PICK K \in SUBSET Before : row = [k \in Key |-> IF k \in K THEN Earlier(k) ELSE None]
  BY DEF Init
<1>2. Active = {} /\ kind \in Kind
  BY DEF Init, Active
<1>3. ASSUME NEW k \in K
      PROVE  k \in Key /\ Earlier(k) \in Row /\ Earlier(k).id = <<0, k>>
  <2>1. k \in Key /\ \E u \in User : Current[u] = k[1]
    BY BeforeAssumption
  <2>2. (CHOOSE u \in User : Current[u] = k[1]) \in User
    BY <2>1
  <2>3. (CHOOSE v \in Value : TRUE) \in Value
    BY ValueAssumption
  <2> QED BY <2>1, <2>2, <2>3 DEF Earlier, Row
<1>4. row \in Table
  BY <1>1, <1>3 DEF Table
<1>5. meta = [o \in Profile |-> IF \E k \in Key : row[k] # None /\ o \in {k[1], k[2]}
                              THEN CountedAll(o) ELSE None]
  BY DEF Init
<1>6. Typed
  <2>1. meta \in MetaTable
    BY <1>2, <1>4, <1>5, CountedAllIs DEF MetaTable
  <2> QED BY <1>2, <1>4, <2>1, BoundAssumption DEF Init, Typed
<1>7. RecountsSettle
  <2> SUFFICES ASSUME NEW s \in Side PROVE Shown(s) = Counted(row, s)
    BY DEF RecountsSettle
  <2>0. s[1] \in Profile
    BY DEF Side
  <2>1. CASE \E k \in Key : row[k] # None /\ s[1] \in {k[1], k[2]}
    <3>1. meta[s[1]] = CountedAll(s[1]) /\ meta[s[1]] \in Counts
      BY <1>2, <1>4, <1>5, <2>0, <2>1, CountedAllIs
    <3>2. meta[s[1]] # None
      BY <1>2, <3>1, NoneAssumption DEF Counts, Fields
    <3>3. Counted(row, s) \in [FieldsOf(s) -> Int]
      BY <1>2, <1>4, CountedType
    <3>4. \A f \in FieldsOf(s) : meta[s[1]][f] = Counted(row, s)[f]
      BY <1>2, <1>4, <2>0, <3>1, CountedAllIs
    <3> QED BY <3>2, <3>3, <3>4 DEF Shown
  <2>2. CASE ~ \E k \in Key : row[k] # None /\ s[1] \in {k[1], k[2]}
    <3>1. \A k \in Key : SideOfKey(s, k) => row[k] = None
      BY <2>2 DEF SideOfKey
    <3>2. meta[s[1]] = None
      BY <1>5, <2>0, <2>2
    <3> QED BY <1>2, <3>1, <3>2, CountedNone DEF Shown
  <2> QED BY <2>1, <2>2
<1>8. Numbered(row, starts)
  <2>1. \A k \in Key : row[k] # None => row[k].id = <<0, k>>
    BY <1>1, <1>3
  <2>2. starts = 0
    BY DEF Init
  <2> QED BY <2>1, <2>2 DEF Numbered
<1>9. OwnChoice
  BY DEF Init, OwnChoice, Wanted
<1>10. job = Resting /\ job.step # "save" /\ suspect = {}
  BY DEF Init, Resting
<1> QED BY <1>2, <1>6, <1>7, <1>8, <1>9, <1>10 DEF Inv, Disjoint, JobCounting, Calm, Asked

-----------------------------------------------------------------------------
(* A step that changes one transaction and commits nothing. *)

\* Nothing that is not about q changes.
LEMMA StepKeeps ==
  ASSUME Inv, NEW q \in Active, NEW c \in Tx, tx' = [tx EXCEPT ![q] = c], UNCHANGED Rest,
         DOMAIN c.rows \cap RowsLocked(q) = {}, DOMAIN c.meta \cap MetaLocked(q) = {},
         Shape(q)', Counting(q)', calm => Alone(q)',
         \A k \in DOMAIN c.rows : c.rows[k] # None => Wanted(c.rows[k], k),
         c.op = "save" => Wanted(c.new, c.key),
         c.op = "insert" => <<c.new.by, c.key, c.new.value>> \in asked
  PROVE  Inv'
<1>0. UNCHANGED <<kind, row, meta, job, starts, asked, suspect, calm>>
  BY DEF Rest
<1>1. q \in Request /\ Typed
  BY DEF Inv, Active
<1>2. tx'[q] = c /\ \A p : p # q => tx'[p] = tx[p]
  BY <1>1 DEF Typed
<1>3. Active' = Active
  BY <1>1, <1>2, NotIdle DEF Active
<1>4. Typed'
  <2>1. tx' \in [Request -> Tx \cup {Idle}]
    BY <1>1 DEF Typed
  <2>2. Tx' = Tx /\ MetaTable' = MetaTable /\ Side' = Side /\ Table' = Table
    BY <1>0, SameKind DEF Table
  <2> QED BY <1>0, <1>1, <2>1, <2>2 DEF Typed
<1>5. Disjoint'
  <2> SUFFICES ASSUME NEW p \in Active, NEW o \in Active, o # p
               PROVE  /\ DOMAIN tx'[p].rows \cap DOMAIN tx'[o].rows = {}
                      /\ DOMAIN tx'[p].meta \cap DOMAIN tx'[o].meta = {}
    BY <1>3 DEF Disjoint
  <2>1. /\ \A x \in Active : x # q => DOMAIN c.rows \cap DOMAIN tx[x].rows = {}
        /\ \A x \in Active : x # q => DOMAIN c.meta \cap DOMAIN tx[x].meta = {}
    BY DEF RowsLocked, MetaLocked, Others
  <2> QED BY <1>2, <2>1 DEF Inv, Disjoint
<1>6. \A p \in Active' : Shape(p)' /\ Counting(p)'
  <2> SUFFICES ASSUME NEW p \in Active, p # q PROVE Shape(p)' /\ Counting(p)'
    BY <1>3
  <2>1. tx'[p] = tx[p]
    BY <1>2
  <2>2. Shape(p) /\ Counting(p)
    BY DEF Inv
  <2> QED BY <1>0, <2>1, <2>2, OthersKeep
<1>7. JobCounting'
  <2>1. \A t, s : Counted(t, s)' = Counted(t, s)
    BY <1>0, SameCounted
  <2>2. Table' = Table /\ Fields' = Fields
    BY <1>0, SameKind DEF Table
  <2> QED BY <1>0, <2>1, <2>2 DEF Inv, JobCounting
<1>8. RecountsSettle'
  <2>1. \A s : Counted(row, s)' = Counted(row, s)
    BY <1>0, SameCounted
  <2>2. Side' = Side /\ \A s : Shown(s)' = Shown(s)
    BY <1>0, SameKind DEF Shown
  <2> QED BY <1>0, <2>1, <2>2 DEF Inv, RecountsSettle
<1>9. Calm'
  <2> SUFFICES ASSUME calm
               PROVE  /\ suspect' = {} /\ Numbered(row, starts)' /\ \A p \in Active : Alone(p)'
                      /\ job.step = "save" => job.sure
    BY <1>0, <1>3 DEF Calm
  <2>1. suspect = {} /\ Numbered(row, starts) /\ Active = {q} /\ (job.step = "save" => job.sure)
    BY DEF Inv, Calm, Alone
  <2>2. Numbered(row, starts)'
    BY <1>0, <2>1 DEF Numbered
  <2> QED BY <1>0, <2>1, <2>2
<1>10. Asked'
  <2>1. \A r, k : Wanted(r, k)' <=> Wanted(r, k)
    BY <1>0 DEF Wanted
  <2>2. OwnChoice'
    BY <1>0, <2>1 DEF Inv, Asked, OwnChoice
  <2> SUFFICES ASSUME NEW p \in Active
               PROVE  /\ \A k \in DOMAIN tx'[p].rows : tx'[p].rows[k] # None => Wanted(tx'[p].rows[k], k)
                      /\ tx'[p].op = "save" => Wanted(tx'[p].new, tx'[p].key)
                      /\ tx'[p].op = "insert" => <<tx'[p].new.by, tx'[p].key, tx'[p].new.value>> \in asked
    BY <1>0, <1>3, <2>1, <2>2 DEF Asked
  <2>3. CASE p = q
    BY <1>2, <2>3
  <2>4. CASE p # q
    BY <1>2, <2>4 DEF Inv, Asked
  <2> QED BY <2>3, <2>4
<1> QED BY <1>4, <1>5, <1>6, <1>7, <1>8, <1>9, <1>10 DEF Inv

\* A rollback: the transaction is gone, and the counters are those of the others.
LEMMA AbortKeeps ==
  ASSUME Inv, NEW q \in Active, Abort(q), UNCHANGED Rest
  PROVE  Inv'
<1>0. UNCHANGED <<kind, row, meta, job, starts, asked, suspect, calm>>
  BY DEF Rest
<1>1. q \in Request /\ Typed
  BY DEF Inv, Active
<1>2. tx'[q] = Idle /\ \A p : p # q => tx'[p] = tx[p]
  BY <1>1 DEF Typed, Abort
<1>3. Active' = Active \ {q}
  BY <1>1, <1>2 DEF Active
<1>4. Typed'
  <2>1. tx' \in [Request -> Tx \cup {Idle}]
    BY <1>1 DEF Typed, Abort
  <2>2. Tx' = Tx /\ MetaTable' = MetaTable /\ Side' = Side /\ Table' = Table
    BY <1>0, SameKind DEF Table
  <2> QED BY <1>0, <1>1, <2>1, <2>2 DEF Typed
<1>5. Disjoint'
  BY <1>2, <1>3 DEF Inv, Disjoint
<1>6. \A p \in Active' : Shape(p)' /\ Counting(p)'
  <2> SUFFICES ASSUME NEW p \in Active, p # q PROVE Shape(p)' /\ Counting(p)'
    BY <1>3
  <2>1. tx'[p] = tx[p]
    BY <1>2
  <2>2. Shape(p) /\ Counting(p)
    BY DEF Inv
  <2> QED BY <1>0, <2>1, <2>2, OthersKeep
<1>7. JobCounting'
  <2>1. \A t, s : Counted(t, s)' = Counted(t, s)
    BY <1>0, SameCounted
  <2>2. Table' = Table /\ Fields' = Fields
    BY <1>0, SameKind DEF Table
  <2> QED BY <1>0, <2>1, <2>2 DEF Inv, JobCounting
<1>8. RecountsSettle'
  <2>1. \A s : Counted(row, s)' = Counted(row, s)
    BY <1>0, SameCounted
  <2>2. Side' = Side /\ \A s : Shown(s)' = Shown(s)
    BY <1>0, SameKind DEF Shown
  <2> QED BY <1>0, <2>1, <2>2 DEF Inv, RecountsSettle
<1>9. Calm'
  <2>1. calm => suspect = {} /\ Numbered(row, starts) /\ Active = {q} /\ (job.step = "save" => job.sure)
    BY DEF Inv, Calm, Alone
  <2>2. calm => Numbered(row, starts)'
    BY <1>0, <2>1 DEF Numbered
  <2> QED BY <1>0, <1>3, <2>1, <2>2 DEF Calm
<1>10. Asked'
  <2>1. \A r, k : Wanted(r, k)' <=> Wanted(r, k)
    BY <1>0 DEF Wanted
  <2>2. OwnChoice'
    BY <1>0, <2>1 DEF Inv, Asked, OwnChoice
  <2> QED BY <1>0, <1>2, <1>3, <2>1, <2>2 DEF Inv, Asked
<1> QED BY <1>4, <1>5, <1>6, <1>7, <1>8, <1>9, <1>10 DEF Inv

-----------------------------------------------------------------------------
(* The first write of a transaction. *)

\* Once the write is sent, the sides it concerns are ahead and nothing is counted yet.
LEMMA WroteKeeps ==
  ASSUME Inv, NEW q \in Active, tx[q].step = "write", NEW op, op = tx[q].op,
         NEW changes \in Partial(Key, Row \cup {None}),
         DOMAIN changes \cap RowsLocked(q) = {},
         Wrote(q, op, changes), UNCHANGED Rest,
         \A k \in DOMAIN changes : changes[k] # None => Wanted(changes[k], k),
         calm => /\ Numbered(Over(changes, row), starts)
                 /\ op # "save" => DOMAIN changes \subseteq {tx[q].key}
  PROVE  Inv'
<1> DEFINE todo == Recounted(op, tx[q].key)
           c == [tx[q] EXCEPT !.rows = changes, !.todo = todo, !.step = "load"]
<1>0. UNCHANGED <<kind, row, meta, job, starts, asked, suspect, calm>>
  BY DEF Rest
<1>1. Typed /\ q \in Request /\ tx[q] \in Tx
  BY TxFacts DEF Inv
<1>2. Shape(q) /\ Counting(q)
  BY DEF Inv
<1>3. /\ DOMAIN tx[q].rows = {} /\ DOMAIN tx[q].meta = {} /\ tx[q].done = {} /\ tx[q].sure = {}
  BY <1>2 DEF Shape, AtSide
<1>4. Over(changes, tx[q].rows) = changes
  BY <1>3, PartialIs DEF Over
<1>5. /\ todo \in Todo
      /\ \A i, j \in DOMAIN todo : todo[i] = todo[j] => i = j
      /\ ~ (kind = "blocks" /\ op = "save") =>
           \A s : s \in {todo[i] : i \in DOMAIN todo} <=> SideOfKey(s, tx[q].key)
  <2>1. tx[q].key \in Key
    BY <1>1 DEF Tx
  <2>2. CASE kind = "blocks" /\ op = "save"
    <3>1. todo = <<>>
      BY <2>2 DEF Recounted
    <3> QED BY <2>2, <3>1, SeqFacts DEF Todo
  <2>3. CASE ~ (kind = "blocks" /\ op = "save")
    <3>1. todo = SidesOf(tx[q].key)
      BY <2>3 DEF Recounted
    <3> QED BY <2>1, <2>3, <3>1, SidesOfIs
  <2> QED BY <2>2, <2>3
<1> HIDE DEF todo
<1>6. c \in Tx
  BY <1>1, <1>5 DEF Tx
<1>7. tx' = [tx EXCEPT ![q] = c]
  BY <1>1, <1>4 DEF Wrote, Typed, todo
<1>8. /\ c.rows = changes /\ c.meta = tx[q].meta /\ c.todo = todo /\ c.step = "load"
      /\ c.done = {} /\ c.sure = {} /\ c.op = op /\ c.key = tx[q].key /\ c.new = tx[q].new
  BY <1>1, <1>3 DEF Tx
<1> HIDE DEF c
<1>9. tx'[q] = c
  BY <1>1, <1>7 DEF Typed
<1>10. SeenMeta(q)' = SeenMeta(q) /\ Seen(q)' = Over(changes, row)
  BY <1>0, <1>8, <1>9 DEF SeenMeta, Seen
<1>11. Shape(q)'
  BY <1>5, <1>8, <1>9 DEF Shape, Ahead, AtSide
<1>12. Counting(q)'
  <2>1. \A s \in Side : ShownIn(SeenMeta(q), s) = Shown(s)
    BY <1>2, <1>3 DEF Counting
  <2>2. \A s : ShownIn(SeenMeta(q), s)' = ShownIn(SeenMeta(q), s)
    BY <1>0, <1>10, SameShown
  <2>3. Side' = Side /\ \A s : Shown(s)' = Shown(s)
    BY <1>0, SameKind DEF Shown
  <2> QED BY <1>8, <1>9, <2>1, <2>2, <2>3 DEF Counting
<1>13. calm => Alone(q)'
  <2> SUFFICES ASSUME calm PROVE Alone(q)'
    OBVIOUS
  <2>1. job = Resting /\ Active = {q}
    BY DEF Inv, Calm, Alone
  <2>2. Active' = {q}
    BY <1>6, <1>7, <2>1, NotIdle DEF Active
  <2>3. Numbered(Seen(q), starts)'
    BY <1>0, <1>10 DEF Numbered
  <2>4. Side' = Side /\ \A s : SideOfKey(s, tx[q].key)' <=> SideOfKey(s, tx'[q].key)
    BY <1>0, SameKind, SameSides
  <2>5. ~ (kind = "blocks" /\ op = "save") =>
          \A s \in Side : SideOfKey(s, tx[q].key) <=> s \in {todo[i] : i \in DOMAIN todo}
    BY <1>5
  <2> QED BY <1>0, <1>8, <1>9, <2>1, <2>2, <2>3, <2>4, <2>5 DEF Alone, Ahead, AtSide
<1>14. /\ c.op = "save" => Wanted(c.new, c.key)
       /\ c.op = "insert" => <<c.new.by, c.key, c.new.value>> \in asked
  BY <1>8 DEF Inv, Asked
<1>15. DOMAIN c.meta \cap MetaLocked(q) = {}
  BY <1>3, <1>8
<1> QED BY <1>6, <1>7, <1>8, <1>11, <1>12, <1>13, <1>14, <1>15, StepKeeps

\* Before its first write a transaction sees what is committed.
LEMMA WriteSees ==
  ASSUME Inv, NEW q \in Active, tx[q].step = "write"
  PROVE  /\ \A k \in Key : Seen(q)[k] = row[k]
         /\ \A id : At(Seen(q), id) = {k \in Key : row[k] # None /\ row[k].id = id}
<1>1. DOMAIN tx[q].rows = {}
  BY DEF Inv, Shape
<1>2. \A k \in Key : Seen(q)[k] = row[k]
  BY <1>1, SeenFacts DEF Inv
<1>3. DOMAIN Seen(q) = Key
  BY SeenFacts DEF Inv, Table
<1> QED BY <1>2, <1>3 DEF At

\* A transaction that has not written yet may still change what it is going to write.
LEMMA RelabelKeeps ==
  ASSUME Inv, NEW q \in Active, tx[q].step = "write", UNCHANGED Rest,
         NEW c \in Tx, tx' = [tx EXCEPT ![q] = c],
         c.rows = tx[q].rows, c.meta = tx[q].meta, c.todo = tx[q].todo, c.step = "write",
         c.done = tx[q].done, c.sure = tx[q].sure, c.key = tx[q].key,
         c.op \in {"save", "delete"}, c.new.id = c.old.id,
         row[c.key] # None, row[c.key].id = c.old.id,
         c.op = "save" => Wanted(c.new, c.key)
  PROVE  Inv'
<1>0. UNCHANGED <<kind, row, meta, job, starts, asked, suspect, calm>>
  BY DEF Rest
<1>1. Typed /\ q \in Request /\ tx[q] \in Tx
  BY TxFacts DEF Inv
<1>2. tx'[q] = c
  BY <1>1 DEF Typed
<1>3. Shape(q) /\ Counting(q) /\ DOMAIN tx[q].rows = {} /\ DOMAIN tx[q].meta = {}
      /\ tx[q].done = {} /\ tx[q].sure = {}
  BY DEF Inv, Shape, AtSide
<1>4. SeenMeta(q)' = SeenMeta(q) /\ Seen(q)' = Seen(q)
  BY <1>0, <1>2 DEF SeenMeta, Seen
<1>5. Shape(q)'
  BY <1>2, <1>3, <1>4 DEF Shape, Ahead, AtSide
<1>6. Counting(q)'
  <2>1. \A s : ShownIn(SeenMeta(q), s)' = ShownIn(SeenMeta(q), s)
    BY <1>0, <1>4, SameShown
  <2>2. Side' = Side /\ \A s : Shown(s)' = Shown(s)
    BY <1>0, SameKind DEF Shown
  <2>3. \A s \in Side : ShownIn(SeenMeta(q), s) = Shown(s)
    BY <1>3 DEF Counting
  <2>4. c.step # "save" /\ c.step # "count" /\ tx'[q].done = {} /\ tx'[q].sure = {} /\ tx'[q].step = c.step
    BY <1>2, <1>3
  <2> QED BY <2>1, <2>2, <2>3, <2>4 DEF Counting
<1>7. calm => Alone(q)'
  <2> SUFFICES ASSUME calm PROVE Alone(q)'
    OBVIOUS
  <2>1. job = Resting /\ Active = {q} /\ Numbered(Seen(q), starts)
    BY DEF Inv, Calm, Alone
  <2>2. Active' = {q}
    <3>1. \A p \in Request : p # q => tx'[p] = tx[p]
      BY <1>1 DEF Typed
    <3> QED BY <1>1, <1>2, <2>1, <3>1, NotIdle DEF Active
  <2>3. Numbered(Seen(q), starts)'
    BY <1>0, <1>4, <2>1 DEF Numbered
  <2>4. c.key \in Key
    BY DEF Tx
  <2> QED BY <1>0, <1>2, <2>1, <2>2, <2>3, <2>4 DEF Alone
<1> QED BY <1>3, <1>5, <1>6, <1>7, StepKeeps

\* The operation that get_or_create falls back to, on a row that it found after all.
LEMMA ToggledKeeps ==
  ASSUME Inv, NEW q \in Active, tx[q].step = "write", tx[q].op = "insert", UNCHANGED Rest,
         NEW r \in Row, r = Seen(q)[tx[q].key],
         r.by = tx[q].new.by \/ tx[q].new.by \in Staff,
         NEW next, next = Toggled(tx[q].new.by, tx[q].key, tx[q].new.value, r),
         tx' = [tx EXCEPT ![q].op = next.op, ![q].old = next.old, ![q].new = next.new]
  PROVE  Inv'
<1> DEFINE c == [tx[q] EXCEPT !.op = next.op, !.old = next.old, !.new = next.new]
<1>1. Typed /\ q \in Request /\ tx[q] \in Tx
  BY TxFacts DEF Inv
<1>2. /\ next.op \in {"save", "delete"} /\ next.old = r /\ next.new \in Row
      /\ next.new.id = r.id /\ next.new.by = r.by
      /\ next.op = "save" => next.new.value = tx[q].new.value
  <2>1. tx[q].new.value \in Value
    BY <1>1 DEF Tx, Row
  <2> QED BY <2>1 DEF Toggled, Row
<1>3. tx' = [tx EXCEPT ![q] = c]
  BY <1>1 DEF Typed
<1>4. c \in Tx
  BY <1>1, <1>2 DEF Tx
<1>5. /\ c.rows = tx[q].rows /\ c.meta = tx[q].meta /\ c.todo = tx[q].todo /\ c.step = "write"
      /\ c.done = tx[q].done /\ c.sure = tx[q].sure /\ c.op = next.op /\ c.key = tx[q].key
      /\ c.old = r /\ c.new = next.new
  BY <1>1, <1>2 DEF Tx
<1> HIDE DEF c
<1>6. row[c.key] # None /\ row[c.key].id = c.old.id
  <2>1. tx[q].key \in Key /\ row[tx[q].key] = r /\ r # None
    BY <1>1, WriteSees, NoneAssumption DEF Tx
  <2> QED BY <1>5, <2>1
<1>7. c.op = "save" => Wanted(c.new, c.key)
  <2>1. <<tx[q].new.by, tx[q].key, tx[q].new.value>> \in asked
    BY DEF Inv, Asked
  <2> QED BY <1>2, <1>5, <2>1 DEF Wanted
<1>8. c.op \in {"save", "delete"} /\ c.new.id = c.old.id
  BY <1>2, <1>5
<1> QED BY <1>3, <1>4, <1>5, <1>6, <1>7, <1>8, RelabelKeeps

LEMMA InsertRowKeeps ==
  ASSUME Inv, NEW q \in Active, InsertRow(q)
  PROVE  Inv'
<1> DEFINE k == tx[q].key
           r == Seen(q)[k]
<1>1. tx[q].step = "write" /\ tx[q].op = "insert" /\ k \notin RowsLocked(q) /\ UNCHANGED Rest
  BY DEF InsertRow
<1>2. Typed /\ tx[q] \in Tx /\ k \in Key /\ tx[q].new \in Row
  BY TxFacts DEF Inv, Tx
<1>3. r \in Row \cup {None} /\ r = row[k]
  BY <1>1, <1>2, SeenFacts, WriteSees DEF Table
<1>4. CASE r = None /\ Wrote(q, "insert", One(k, tx[q].new))
  <2> DEFINE changes == One(k, tx[q].new)
  <2>1. DOMAIN changes = {k} /\ changes[k] = tx[q].new /\ changes \in Partial(Key, Row \cup {None})
    <3>1. DOMAIN changes = {k} /\ changes[k] = tx[q].new /\ changes = [x \in DOMAIN changes |-> changes[x]]
      BY DEF One
    <3> HIDE DEF changes
    <3> QED BY <1>2, <3>1, PartialIs
  <2>2. Wanted(tx[q].new, k)
    BY <1>1 DEF Inv, Asked, Wanted
  <2>3. ASSUME calm PROVE Numbered(Over(changes, row), starts)
    <3>1. Alone(q)
      BY <2>3 DEF Inv, Calm
    <3>2. Numbered(row, starts - 1) /\ tx[q].new.id[1] = starts
      BY <1>1, <3>1 DEF Alone
    <3>3. DOMAIN row = Key /\ starts \in Nat /\ tx[q].new \in Row /\ tx[q].new # None
      BY <1>2, NoneAssumption, BoundAssumption DEF Typed, Table
    <3> HIDE DEF changes
    <3>4. \A x \in Key : Over(changes, row)[x] = IF x = k THEN tx[q].new ELSE row[x]
      BY <2>1, <3>3 DEF Over
    <3>5. \A x \in Key : row[x] # None => row[x].id[1] \in Nat
      BY <1>2 DEF Typed, Table, Row
    <3> QED BY <3>2, <3>3, <3>4, <3>5 DEF Numbered
  <2> HIDE DEF changes
  <2> QED BY <1>1, <1>4, <2>1, <2>2, <2>3, WroteKeeps DEF changes
<1>5. CASE /\ r # None
           /\ \/ kind = "blocks" /\ r.by = tx[q].new.by
              \/ kind = "reactions" /\ MayChangeReaction(tx[q].new.by, k, r)
           /\ LET next == Toggled(tx[q].new.by, k, tx[q].new.value, r)
              IN tx' = [tx EXCEPT ![q].op = next.op, ![q].old = next.old, ![q].new = next.new]
  <2>1. r.by = tx[q].new.by \/ tx[q].new.by \in Staff
    BY <1>5 DEF MayChangeReaction
  <2>2. r \in Row
    BY <1>3, <1>5
  <2> QED BY <1>1, <1>5, <2>1, <2>2, ToggledKeeps
<1>6. CASE Abort(q)
  BY <1>1, <1>6, AbortKeeps
<1> QED BY <1>4, <1>5, <1>6 DEF InsertRow

LEMMA SaveRowKeeps ==
  ASSUME Inv, NEW q \in Active, SaveRow(q)
  PROVE  Inv'
<1> DEFINE k == tx[q].key
           at == At(Seen(q), tx[q].old.id)
           changes == [x \in at \cup {k} |-> IF x = k THEN tx[q].new ELSE None]
<1>1. /\ tx[q].step = "write" /\ tx[q].op = "save" /\ UNCHANGED Rest
      /\ (at \cup {k}) \cap RowsLocked(q) = {}
  BY DEF SaveRow
<1>2. Typed /\ tx[q] \in Tx /\ k \in Key /\ tx[q].new \in Row
  BY TxFacts DEF Inv, Tx
<1>3. CASE Abort(q)
  BY <1>1, <1>3, AbortKeeps
<1>4. CASE Wrote(q, "save", changes)
  <2>1. at = {x \in Key : row[x] # None /\ row[x].id = tx[q].old.id}
    BY <1>1, WriteSees
  <2> HIDE DEF at
  <2>2. changes \in Partial(Key, Row \cup {None}) /\ DOMAIN changes = at \cup {k}
        /\ \A x \in DOMAIN changes : changes[x] = IF x = k THEN tx[q].new ELSE None
    BY <1>2, <2>1, PartialIs
  <2>3. Wanted(tx[q].new, k)
    BY <1>1 DEF Inv, Asked
  <2>4. ASSUME calm PROVE Numbered(Over(changes, row), starts)
    <3>1. Alone(q)
      BY <2>4 DEF Inv, Calm
    <3>2. tx[q].new.id = tx[q].old.id /\ \E x \in Key : row[x] # None /\ row[x].id = tx[q].old.id
      BY <1>1, <3>1 DEF Alone
    <3>3. Numbered(row, starts)
      BY <2>4 DEF Inv, Calm
    <3>4. DOMAIN row = Key
      BY <1>2 DEF Typed, Table
    <3> HIDE DEF changes
    <3>5. \A x \in Key : Over(changes, row)[x] =
            IF x = k THEN tx[q].new ELSE IF x \in at THEN None ELSE row[x]
      BY <1>2, <2>2, <3>4 DEF Over
    <3> QED BY <2>1, <3>2, <3>3, <3>5 DEF Numbered
  <2>5. DOMAIN changes \cap RowsLocked(q) = {}
    BY <1>1, <2>2
  <2>6. \A x \in DOMAIN changes : changes[x] # None => Wanted(changes[x], x)
    BY <2>2, <2>3
  <2> HIDE DEF changes
  <2> QED BY <1>1, <1>4, <2>2, <2>4, <2>5, <2>6, WroteKeeps
<1> QED BY <1>3, <1>4 DEF SaveRow

LEMMA DeleteRowKeeps ==
  ASSUME Inv, NEW q \in Active, DeleteRow(q)
  PROVE  Inv'
<1> DEFINE k == tx[q].key
           at == At(Seen(q), tx[q].old.id)
           changes == [x \in at |-> None]
<1>1. /\ tx[q].step = "write" /\ tx[q].op = "delete" /\ UNCHANGED Rest
      /\ at \cap RowsLocked(q) = {} /\ Wrote(q, "delete", changes)
  BY DEF DeleteRow
<1>2. Typed /\ tx[q] \in Tx /\ k \in Key
  BY TxFacts DEF Inv, Tx
<1>3. at = {x \in Key : row[x] # None /\ row[x].id = tx[q].old.id}
  BY <1>1, WriteSees
<1> HIDE DEF at
<1>4. changes \in Partial(Key, Row \cup {None}) /\ DOMAIN changes = at
      /\ \A x \in DOMAIN changes : changes[x] = None
  BY <1>3, PartialIs
<1>5. ASSUME calm PROVE Numbered(Over(changes, row), starts) /\ at \subseteq {k}
  <2>1. Alone(q) /\ Numbered(row, starts)
    BY <1>5 DEF Inv, Calm
  <2>2. row[k] # None /\ row[k].id = tx[q].old.id
    BY <1>1, <2>1 DEF Alone
  <2>3. DOMAIN row = Key
    BY <1>2 DEF Typed, Table
  <2>4. at \subseteq {k}
    BY <1>2, <1>3, <2>1, <2>2 DEF Numbered
  <2> HIDE DEF changes
  <2>5. \A x \in Key : Over(changes, row)[x] = IF x \in at THEN None ELSE row[x]
    BY <1>4, <2>3 DEF Over
  <2> QED BY <2>1, <2>4, <2>5 DEF Numbered
<1> HIDE DEF changes
<1> QED BY <1>1, <1>4, <1>5, WroteKeeps

-----------------------------------------------------------------------------
(* The recounts of a transaction. *)

\* A transaction that runs alone does so from one statement to the next.
LEMMA AloneKeeps ==
  ASSUME Inv, NEW q \in Active, NEW c \in Tx, tx' = [tx EXCEPT ![q] = c], UNCHANGED Rest,
         tx[q].step # "write", c.step # "write",
         c.rows = tx[q].rows, c.op = tx[q].op, c.key = tx[q].key,
         tx[q].done \cup Ahead(q) = c.done \cup {c.todo[i] : i \in DOMAIN c.todo},
         Alone(q) => /\ c.done \subseteq c.sure
                     /\ c.step = "save" \/ kind = "blocks" => AtSide(q)' \subseteq c.sure
  PROVE  calm => Alone(q)'
<1> SUFFICES ASSUME calm PROVE Alone(q)'
  OBVIOUS
<1>0. UNCHANGED <<kind, row, meta, job, starts, asked, suspect, calm>>
  BY DEF Rest
<1>1. Alone(q) /\ Typed /\ q \in Request
  BY DEF Inv, Calm, Active
<1>2. tx'[q] = c /\ \A p \in Request : p # q => tx'[p] = tx[p]
  BY <1>1 DEF Typed
<1>3. job = Resting /\ Active = {q} /\ Numbered(Seen(q), starts)
  BY <1>1 DEF Alone
<1>4. Active' = {q}
  BY <1>1, <1>2, <1>3, NotIdle DEF Active
<1>5. Seen(q)' = Seen(q)
  BY <1>0, <1>2 DEF Seen
<1>6. Numbered(Seen(q), starts)'
  BY <1>0, <1>3, <1>5 DEF Numbered
<1>7. Side' = Side /\ \A s : SideOfKey(s, tx[q].key)' <=> SideOfKey(s, tx'[q].key)
  BY <1>0, SameKind, SameSides
<1>8. /\ tx[q].op # "save" => DOMAIN tx[q].rows \subseteq {tx[q].key}
      /\ ~ (kind = "blocks" /\ tx[q].op = "save") =>
           \A s \in Side : SideOfKey(s, tx[q].key) <=> s \in tx[q].done \cup Ahead(q)
  BY <1>1 DEF Alone
<1>9. Ahead(q)' = {c.todo[i] : i \in DOMAIN c.todo}
  BY <1>2 DEF Ahead
<1> QED BY <1>0, <1>1, <1>2, <1>3, <1>4, <1>6, <1>7, <1>8, <1>9 DEF Alone

\* What of Asked a recount does not touch.
LEMMA AskedStill ==
  ASSUME Inv, NEW q \in Active, NEW c, c.rows = tx[q].rows, c.op = tx[q].op, c.key = tx[q].key,
         c.new = tx[q].new
  PROVE  /\ \A k \in DOMAIN c.rows : c.rows[k] # None => Wanted(c.rows[k], k)
         /\ c.op = "save" => Wanted(c.new, c.key)
         /\ c.op = "insert" => <<c.new.by, c.key, c.new.value>> \in asked
         /\ DOMAIN c.rows \cap RowsLocked(q) = {} /\ DOMAIN tx[q].meta \cap MetaLocked(q) = {}
<1>1. /\ \A k \in DOMAIN tx[q].rows : tx[q].rows[k] # None => Wanted(tx[q].rows[k], k)
      /\ tx[q].op = "save" => Wanted(tx[q].new, tx[q].key)
      /\ tx[q].op = "insert" => <<tx[q].new.by, tx[q].key, tx[q].new.value>> \in asked
  BY DEF Inv, Asked
<1>2. DOMAIN tx[q].rows \cap RowsLocked(q) = {} /\ DOMAIN tx[q].meta \cap MetaLocked(q) = {}
  BY DEF Inv, Disjoint, RowsLocked, MetaLocked, Others
<1> QED BY <1>1, <1>2

\* A new metadata row starts from zero, which is what a missing one shows.
LEMMA LoadMetadataKeeps ==
  ASSUME Inv, NEW q \in Active, LoadMetadata(q)
  PROVE  Inv'
<1> DEFINE s == Head(tx[q].todo)
           o == s[1]
           found == SeenMeta(q)[o]
           new == IF found = None THEN Over(One(o, NoCounts), tx[q].meta) ELSE tx[q].meta
           sure == IF kind = "blocks" THEN tx[q].sure \cup {s} ELSE tx[q].sure
           load == IF found = None THEN NoCounts ELSE found
           c == [tx[q] EXCEPT !.loaded = load, !.meta = new, !.sure = sure, !.step = "count"]
<1>0. UNCHANGED <<kind, row, meta, job, starts, asked, suspect, calm>> /\ UNCHANGED Rest
  BY DEF Rest, LoadMetadata
<1>1. Typed /\ q \in Request /\ tx[q] \in Tx /\ tx[q].todo \in Todo /\ kind \in Kind
  BY TxFacts DEF Inv, Tx, Typed
<1>2. tx[q].step = "load" /\ tx[q].todo # <<>> /\ (found = None => o \notin MetaLocked(q))
  BY DEF LoadMetadata
<1>3. Shape(q) /\ Counting(q)
  BY DEF Inv
<1>4. s \in Side /\ o \in Profile /\ s \in Ahead(q) /\ s \notin tx[q].done
  <2>1. s \in Side /\ s = tx[q].todo[1] /\ 1 \in DOMAIN tx[q].todo
    BY <1>1, <1>2, HeadIsSide
  <2>2. s \in Ahead(q)
    BY <2>1 DEF Ahead
  <2>3. o \in Profile
    BY <2>1 DEF Side
  <2> QED BY <1>3, <2>1, <2>2, <2>3 DEF Shape
<1>5. NoCounts \in Counts /\ NoCounts # None /\ \A f \in Fields : NoCounts[f] = 0
  <2>1. NoCounts \in Counts /\ NoCounts \in [Fields -> Int] /\ \A f \in Fields : NoCounts[f] = 0
    BY DEF NoCounts, Counts
  <2> QED BY <1>1, <2>1, NoneAssumption DEF Fields
<1>6. found \in Counts \cup {None}
  BY <1>1, <1>4, SeenFacts DEF MetaTable
<1>7. tx[q].meta \in Partial(Profile, Counts)
  BY <1>1 DEF Tx
<1>8. /\ new \in Partial(Profile, Counts)
      /\ DOMAIN new = IF found = None THEN DOMAIN tx[q].meta \cup {o} ELSE DOMAIN tx[q].meta
      /\ \A x \in DOMAIN new : new[x] = IF x = o /\ found = None THEN NoCounts ELSE tx[q].meta[x]
  <2>1. CASE found = None
    <3>1. DOMAIN new = DOMAIN tx[q].meta \cup {o} /\ new = [x \in DOMAIN new |-> new[x]]
          /\ \A x \in DOMAIN new : new[x] = IF x = o THEN NoCounts ELSE tx[q].meta[x]
      BY <2>1 DEF Over, One
    <3> HIDE DEF new
    <3>2. new \in Partial(Profile, Counts)
      BY <1>4, <1>5, <1>7, <3>1, PartialIs
    <3> QED BY <2>1, <3>1, <3>2
  <2>2. CASE found # None
    BY <1>7, <2>2
  <2> QED BY <2>1, <2>2
<1> HIDE DEF new
<1>9. c \in Tx
  <2>1. load \in Counts
    BY <1>5, <1>6
  <2>2. sure \in SUBSET Side
    BY <1>1, <1>4 DEF Tx
  <2> HIDE DEF load, sure
  <2> QED BY <1>1, <1>8, <2>1, <2>2 DEF Tx
<1>10. tx' = [tx EXCEPT ![q] = c]
  BY <1>1 DEF Typed, LoadMetadata, new
<1>11. /\ c.rows = tx[q].rows /\ c.op = tx[q].op /\ c.key = tx[q].key /\ c.new = tx[q].new
       /\ c.todo = tx[q].todo /\ c.done = tx[q].done /\ c.sure = sure /\ c.step = "count"
       /\ c.meta = new /\ c.loaded = load
  BY <1>1 DEF Tx
<1> HIDE DEF c
<1>12. tx'[q] = c
  BY <1>1, <1>10 DEF Typed
<1>13. Seen(q)' = Seen(q)
  BY <1>0, <1>11, <1>12 DEF Seen
<1>14. \A x \in Profile : SeenMeta(q)'[x] = IF x = o /\ found = None THEN NoCounts ELSE SeenMeta(q)[x]
  <2>1. SeenMeta(q)' = Over(new, meta)
    BY <1>0, <1>11, <1>12 DEF SeenMeta
  <2>2. DOMAIN meta = Profile
    BY <1>1 DEF Typed, MetaTable
  <2>3. \A x \in Profile : SeenMeta(q)[x] = IF x \in DOMAIN tx[q].meta THEN tx[q].meta[x] ELSE meta[x]
    BY <1>1, SeenFacts
  <2> QED BY <1>4, <1>8, <2>1, <2>2, <2>3 DEF Over
<1>15. \A x \in Side : ShownIn(SeenMeta(q), x)' = ShownIn(SeenMeta(q), x)
  <2> SUFFICES ASSUME NEW x \in Side PROVE ShownIn(SeenMeta(q)', x) = ShownIn(SeenMeta(q), x)
    BY <1>0, SameShown
  <2>1. x[1] \in Profile /\ FieldsOf(x) \subseteq Fields
    BY <1>1, FieldsOfAre DEF Side
  <2> QED BY <1>5, <1>14, <2>1 DEF ShownIn
<1>16. Shape(q)'
  <2>1. AtSide(q)' = {s} /\ AtSide(q) = {}
    BY <1>2, <1>11, <1>12 DEF AtSide
  <2>2. Ahead(q)' = Ahead(q)
    BY <1>11, <1>12 DEF Ahead
  <2>3. SeenMeta(q)'[o] # None
    BY <1>4, <1>5, <1>14
  <2> QED BY <1>2, <1>3, <1>11, <1>12, <2>1, <2>2, <2>3 DEF Shape
<1>17. Counting(q)'
  <2>1. \A x \in tx[q].done \cap sure : ShownIn(SeenMeta(q), x)' = Counted(Seen(q), x)'
    <3> SUFFICES ASSUME NEW x \in tx[q].done \cap sure PROVE ShownIn(SeenMeta(q), x)' = Counted(Seen(q), x)'
      OBVIOUS
    <3>1. x \in tx[q].done \cap tx[q].sure /\ x \in Side
      BY <1>1, <1>4 DEF Tx
    <3>2. Counted(Seen(q), x)' = Counted(Seen(q), x)
      BY <1>0, <1>13, SameCounted
    <3> QED BY <1>3, <1>15, <3>1, <3>2 DEF Counting
  <2>2. \A x \in Side \ tx[q].done : ShownIn(SeenMeta(q), x)' = Shown(x)'
    <3>1. \A x : Shown(x)' = Shown(x)
      BY <1>0, SameKind DEF Shown
    <3> QED BY <1>3, <1>15, <3>1 DEF Counting
  <2>3. kind # "blocks" => \A x \in tx[q].done : x[1] \in DOMAIN new
    BY <1>3, <1>8 DEF Counting
  <2>4. \A f \in FieldsOf(s) : load[f] = SeenMeta(q)'[o][f]
    BY <1>4, <1>14
  <2>5. Side' = Side /\ \A x : FieldsOf(x)' = FieldsOf(x)
    BY <1>0, SameKind
  <2> HIDE DEF load
  <2> QED BY <1>0, <1>11, <1>12, <2>1, <2>2, <2>3, <2>4, <2>5 DEF Counting
<1>18. calm => Alone(q)'
  <2>1. Alone(q) => c.done \subseteq c.sure /\ (c.step = "save" \/ kind = "blocks" => AtSide(q)' \subseteq c.sure)
    <3>1. AtSide(q)' = {s}
      BY <1>11, <1>12 DEF AtSide
    <3> QED BY <1>2, <1>11, <3>1 DEF Alone
  <2>2. tx[q].done \cup Ahead(q) = c.done \cup {c.todo[i] : i \in DOMAIN c.todo}
    BY <1>11 DEF Ahead
  <2> QED BY <1>0, <1>2, <1>9, <1>10, <1>11, <2>1, <2>2, AloneKeeps
<1>19. DOMAIN c.meta \cap MetaLocked(q) = {}
  BY <1>2, <1>8, <1>11, AskedStill
<1> QED BY <1>0, <1>9, <1>10, <1>11, <1>16, <1>17, <1>18, <1>19, AskedStill, StepKeeps

\* The count is of what the transaction sees, so that it is sure of it.
LEMMA CountRowsKeeps ==
  ASSUME Inv, NEW q \in Active, NEW s, s = Head(tx[q].todo), CountRows(q)
  PROVE  Inv'
<1> DEFINE count == Counted(Seen(q), s)
           sure == IF kind = "blocks" THEN tx[q].sure ELSE tx[q].sure \cup {s}
           c == [tx[q] EXCEPT !.count = count, !.sure = sure, !.step = "save"]
<1>0. UNCHANGED <<kind, row, meta, job, starts, asked, suspect, calm>> /\ UNCHANGED Rest
  BY DEF Rest, CountRows
<1>1. Typed /\ q \in Request /\ tx[q] \in Tx /\ tx[q].todo \in Todo /\ kind \in Kind
  BY TxFacts DEF Inv, Tx, Typed
<1>2. tx[q].step = "count" /\ Shape(q) /\ Counting(q)
  BY DEF CountRows, Inv
<1>3. tx[q].todo # <<>> /\ SeenMeta(q)[s[1]] # None
  BY <1>2 DEF Shape
<1>4. s \in Side /\ s \in Ahead(q) /\ s \notin tx[q].done
  <2>1. s \in Side /\ s = tx[q].todo[1] /\ 1 \in DOMAIN tx[q].todo
    BY <1>1, <1>3, HeadIsSide
  <2>2. s \in Ahead(q)
    BY <2>1 DEF Ahead
  <2> QED BY <1>2, <2>1, <2>2 DEF Shape
<1>5. Seen(q) \in Table
  BY <1>1, SeenFacts
<1>6. c \in Tx
  <2>1. count \in [FieldsOf(s) -> Int] /\ FieldsOf(s) \subseteq Fields
    BY <1>1, <1>4, <1>5, CountedType, FieldsOfAre
  <2>2. count \in Partial(Fields, Int)
    BY <2>1 DEF Partial
  <2>3. sure \in SUBSET Side
    BY <1>1, <1>4 DEF Tx
  <2> HIDE DEF count, sure
  <2> QED BY <1>1, <2>2, <2>3 DEF Tx
<1>7. tx' = [tx EXCEPT ![q] = c]
  BY <1>1 DEF Typed, CountRows
<1>8. /\ c.rows = tx[q].rows /\ c.op = tx[q].op /\ c.key = tx[q].key /\ c.new = tx[q].new
      /\ c.todo = tx[q].todo /\ c.done = tx[q].done /\ c.sure = sure /\ c.step = "save"
      /\ c.meta = tx[q].meta /\ c.loaded = tx[q].loaded /\ c.count = count
  BY <1>1 DEF Tx
<1> HIDE DEF c
<1>9. tx'[q] = c
  BY <1>1, <1>7 DEF Typed
<1>10. Seen(q)' = Seen(q) /\ SeenMeta(q)' = SeenMeta(q)
  BY <1>0, <1>8, <1>9 DEF Seen, SeenMeta
<1>11. AtSide(q)' = {s} /\ AtSide(q) = {s}
  BY <1>2, <1>8, <1>9 DEF AtSide
<1>12. Shape(q)'
  <2>1. Ahead(q)' = Ahead(q)
    BY <1>8, <1>9 DEF Ahead
  <2> QED BY <1>2, <1>8, <1>9, <1>10, <1>11, <2>1 DEF Shape
<1>13. Counting(q)'
  <2>1. \A x : ShownIn(SeenMeta(q), x)' = ShownIn(SeenMeta(q), x)
    BY <1>0, <1>10, SameShown
  <2>2. \A x : Counted(Seen(q), x)' = Counted(Seen(q), x)
    BY <1>0, <1>10, SameCounted
  <2>3. Side' = Side /\ (\A x : FieldsOf(x)' = FieldsOf(x)) /\ \A x : Shown(x)' = Shown(x)
    BY <1>0, SameKind DEF Shown
  <2>4. \A x \in c.done \cap c.sure : ShownIn(SeenMeta(q), x) = Counted(Seen(q), x)
    BY <1>2, <1>4, <1>8 DEF Counting
  <2>5. \A x \in Side \ c.done : ShownIn(SeenMeta(q), x) = Shown(x)
    BY <1>2, <1>8 DEF Counting
  <2>6. kind # "blocks" => \A x \in c.done : x[1] \in DOMAIN c.meta
    BY <1>2, <1>8 DEF Counting
  <2>7. \E t \in Table' : c.count = Counted(t, s)'
    <3>1. Table' = Table /\ \A t : Counted(t, s)' = Counted(t, s)
      BY <1>0, SameCounted DEF Table
    <3> QED BY <1>5, <1>8, <3>1
  <2>8. kind = "blocks" /\ s \in c.sure => \A f \in FieldsOf(s) : c.loaded[f] = SeenMeta(q)[s[1]][f]
    BY <1>2, <1>8 DEF Counting
  <2>9. c.count = Counted(Seen(q), s)'
    BY <1>8, <2>2
  <2>10. Head(c.todo) = s
    BY <1>8
  <2> HIDE DEF count, sure
  <2> QED BY <1>0, <1>8, <1>9, <1>10, <2>1, <2>2, <2>3, <2>4, <2>5, <2>6, <2>7, <2>8, <2>9, <2>10 DEF Counting
<1>14. calm => Alone(q)'
  <2>1. Alone(q) => c.done \subseteq c.sure /\ (c.step = "save" \/ kind = "blocks" => AtSide(q)' \subseteq c.sure)
    BY <1>2, <1>8, <1>11 DEF Alone
  <2>2. tx[q].done \cup Ahead(q) = c.done \cup {c.todo[i] : i \in DOMAIN c.todo}
    BY <1>8 DEF Ahead
  <2> QED BY <1>0, <1>2, <1>6, <1>7, <1>8, <2>1, <2>2, AloneKeeps
<1>15. DOMAIN c.meta \cap MetaLocked(q) = {}
  BY <1>8, AskedStill
<1> QED BY <1>0, <1>6, <1>7, <1>8, <1>12, <1>13, <1>14, <1>15, AskedStill, StepKeeps

\* The metadata row now shows the count; the other side of a block keeps its counter.
LEMMA SaveMetadataKeeps ==
  ASSUME Inv, NEW q \in Active, NEW s, s = Head(tx[q].todo), SaveMetadata(q)
  PROVE  Inv'
<1> DEFINE o == s[1]
           old == SeenMeta(q)[o]
           mix == Over(tx[q].count, old)
           new == IF Unchanged(q) THEN tx[q].meta ELSE Over(One(o, mix), tx[q].meta)
           c == [tx[q] EXCEPT !.meta = new, !.todo = Tail(tx[q].todo), !.done = tx[q].done \cup {s},
                              !.step = "load"]
<1>0. UNCHANGED <<kind, row, meta, job, starts, asked, suspect, calm>> /\ UNCHANGED Rest
  BY DEF Rest, SaveMetadata
<1>1. Typed /\ q \in Request /\ tx[q] \in Tx /\ tx[q].todo \in Todo /\ kind \in Kind
  BY TxFacts DEF Inv, Tx, Typed
<1>2. tx[q].step = "save" /\ Shape(q) /\ Counting(q) /\ (Unchanged(q) \/ o \notin MetaLocked(q))
  BY DEF SaveMetadata, Inv
<1>3. tx[q].todo # <<>> /\ old # None /\ tx[q].sure \subseteq tx[q].done \cup {s}
  BY <1>2 DEF Shape, AtSide
<1>4. /\ s \in Side /\ o \in Profile /\ s \in Ahead(q) /\ s \notin tx[q].done
      /\ Tail(tx[q].todo) \in Todo
  <2>1. s \in Side /\ s = tx[q].todo[1] /\ 1 \in DOMAIN tx[q].todo /\ Tail(tx[q].todo) \in Todo
    BY <1>1, <1>3, HeadIsSide
  <2>2. s \in Ahead(q)
    BY <2>1 DEF Ahead
  <2>3. o \in Profile
    BY <2>1 DEF Side
  <2> QED BY <1>2, <2>1, <2>2, <2>3 DEF Shape
<1>5. Seen(q) \in Table /\ old \in Counts
  BY <1>1, <1>3, <1>4, SeenFacts DEF MetaTable
<1>6. /\ tx[q].count \in [FieldsOf(s) -> Int] /\ FieldsOf(s) \subseteq Fields
      /\ \A f \in FieldsOf(s) : (kind = "ratings" /\ f = "sum") \/ tx[q].count[f] >= 0
  <2>1. PICK t \in Table : tx[q].count = Counted(t, s)
    BY <1>2 DEF Counting
  <2> QED BY <1>1, <1>4, <2>1, CountedType, FieldsOfAre
<1>7. /\ mix \in Counts
      /\ \A f \in Fields : mix[f] = IF f \in FieldsOf(s) THEN tx[q].count[f] ELSE old[f]
  <2>1. old \in [Fields -> Int] /\ \A f \in Fields : (kind = "ratings" /\ f = "sum") \/ old[f] >= 0
    BY <1>5 DEF Counts
  <2>2. mix \in [Fields -> Int] /\ \A f \in Fields : mix[f] = IF f \in FieldsOf(s) THEN tx[q].count[f] ELSE old[f]
    BY <1>6, <2>1 DEF Over
  <2> HIDE DEF mix
  <2> QED BY <1>6, <2>1, <2>2 DEF Counts
<1> HIDE DEF mix
<1>8. tx[q].meta \in Partial(Profile, Counts)
  BY <1>1 DEF Tx
<1>9. /\ new \in Partial(Profile, Counts)
      /\ DOMAIN new = IF Unchanged(q) THEN DOMAIN tx[q].meta ELSE DOMAIN tx[q].meta \cup {o}
      /\ \A x \in DOMAIN new : new[x] = IF x = o /\ ~ Unchanged(q) THEN mix ELSE tx[q].meta[x]
  <2>1. CASE ~ Unchanged(q)
    <3>1. DOMAIN new = DOMAIN tx[q].meta \cup {o} /\ new = [x \in DOMAIN new |-> new[x]]
          /\ \A x \in DOMAIN new : new[x] = IF x = o THEN mix ELSE tx[q].meta[x]
      BY <2>1 DEF Over, One
    <3> HIDE DEF new
    <3>2. new \in Partial(Profile, Counts)
      BY <1>4, <1>7, <1>8, <3>1, PartialIs
    <3> QED BY <2>1, <3>1, <3>2
  <2>2. CASE Unchanged(q)
    BY <1>8, <2>2
  <2> QED BY <2>1, <2>2
<1>10. tx' = [tx EXCEPT ![q] = c]
  BY <1>1 DEF Typed, SaveMetadata, mix
<1> HIDE DEF new
<1>11. c \in Tx
  BY <1>1, <1>4, <1>9 DEF Tx
<1>12. /\ c.rows = tx[q].rows /\ c.op = tx[q].op /\ c.key = tx[q].key /\ c.new = tx[q].new
       /\ c.todo = Tail(tx[q].todo) /\ c.done = tx[q].done \cup {s} /\ c.sure = tx[q].sure
       /\ c.step = "load" /\ c.meta = new
  BY <1>1 DEF Tx
<1> HIDE DEF c
<1>13. tx'[q] = c
  BY <1>1, <1>10 DEF Typed
<1>14. Seen(q)' = Seen(q)
  BY <1>0, <1>12, <1>13 DEF Seen
<1>15. \A x \in Profile : SeenMeta(q)'[x] = IF x = o /\ ~ Unchanged(q) THEN mix ELSE SeenMeta(q)[x]
  <2>1. SeenMeta(q)' = Over(new, meta)
    BY <1>0, <1>12, <1>13 DEF SeenMeta
  <2>2. DOMAIN meta = Profile
    BY <1>1 DEF Typed, MetaTable
  <2>3. \A x \in Profile : SeenMeta(q)[x] = IF x \in DOMAIN tx[q].meta THEN tx[q].meta[x] ELSE meta[x]
    BY <1>1, SeenFacts
  <2> QED BY <1>4, <1>9, <2>1, <2>2, <2>3 DEF Over
<1>16. mix # None
  BY <1>1, <1>7, NoneAssumption DEF Counts, Fields
<1>17. \A x \in Side : x # s => ShownIn(SeenMeta(q), x)' = ShownIn(SeenMeta(q), x)
  <2> SUFFICES ASSUME NEW x \in Side, x # s PROVE ShownIn(SeenMeta(q)', x) = ShownIn(SeenMeta(q), x)
    BY <1>0, SameShown
  <2>1. x[1] \in Profile /\ FieldsOf(x) \subseteq Fields
    BY <1>1, FieldsOfAre DEF Side
  <2>2. x[1] = o => FieldsOf(x) \cap FieldsOf(s) = {}
    BY <1>1, <1>4, FieldsApart
  <2>3. x[1] = o /\ ~ Unchanged(q) => \A f \in FieldsOf(x) : SeenMeta(q)'[x[1]][f] = SeenMeta(q)[x[1]][f]
    BY <1>4, <1>7, <1>15, <2>1, <2>2
  <2> QED BY <1>3, <1>15, <1>16, <2>1, <2>3 DEF ShownIn
<1>18. s \in tx[q].sure => ShownIn(SeenMeta(q), s)' = Counted(Seen(q), s)
  <2> SUFFICES ASSUME s \in tx[q].sure PROVE ShownIn(SeenMeta(q)', s) = Counted(Seen(q), s)
    BY <1>0, SameShown
  <2>1. tx[q].count = Counted(Seen(q), s)
    BY <1>2 DEF Counting
  <2>2. \A f \in FieldsOf(s) : SeenMeta(q)'[o][f] = tx[q].count[f]
    <3>1. CASE Unchanged(q)
      <4>1. \A f \in FieldsOf(s) : tx[q].loaded[f] = old[f]
        BY <1>2, <3>1 DEF Counting, Unchanged
      <4>2. \A f \in FieldsOf(s) : tx[q].loaded[f] = tx[q].count[f]
        BY <3>1 DEF Unchanged
      <4> QED BY <1>4, <1>15, <3>1, <4>1, <4>2
    <3>2. CASE ~ Unchanged(q)
      BY <1>4, <1>6, <1>7, <1>15, <3>2
    <3> QED BY <3>1, <3>2
  <2>3. SeenMeta(q)'[o] # None
    BY <1>3, <1>4, <1>15, <1>16
  <2> QED BY <1>6, <2>1, <2>2, <2>3 DEF ShownIn
<1>19. /\ Ahead(q)' \cap c.done = {} /\ \A i, j \in DOMAIN c.todo : c.todo[i] = c.todo[j] => i = j
       /\ Ahead(q) = Ahead(q)' \cup {s}
  <2>1. Ahead(q)' = {Tail(tx[q].todo)[i] : i \in DOMAIN Tail(tx[q].todo)}
    BY <1>12, <1>13 DEF Ahead
  <2>2. \A i, j \in DOMAIN tx[q].todo : tx[q].todo[i] = tx[q].todo[j] => i = j
    BY <1>2 DEF Shape
  <2>3. /\ s \notin Ahead(q)' /\ Ahead(q)' \subseteq Ahead(q) /\ Ahead(q) = Ahead(q)' \cup {s}
        /\ \A i, j \in DOMAIN c.todo : c.todo[i] = c.todo[j] => i = j
    <3>1. PICK t \in Todo : t = tx[q].todo
      BY <1>1
    <3>2. /\ {t[i] : i \in DOMAIN t} = {Head(t)} \cup {Tail(t)[i] : i \in DOMAIN Tail(t)}
          /\ Head(t) \notin {Tail(t)[i] : i \in DOMAIN Tail(t)}
          /\ \A i, j \in DOMAIN Tail(t) : Tail(t)[i] = Tail(t)[j] => i = j
      BY <1>3, <2>2, <3>1, HeadIsSide
    <3>3. Ahead(q) = {t[i] : i \in DOMAIN t} /\ Ahead(q)' = {Tail(t)[i] : i \in DOMAIN Tail(t)}
      BY <2>1, <3>1 DEF Ahead
    <3> QED BY <1>12, <3>1, <3>2, <3>3
  <2> QED BY <1>2, <1>12, <2>3 DEF Shape
<1>20. Shape(q)'
  BY <1>3, <1>12, <1>13, <1>19 DEF Shape, AtSide
<1>21. Counting(q)'
  <2>1. \A x : Counted(Seen(q), x)' = Counted(Seen(q), x)
    BY <1>0, <1>14, SameCounted
  <2>2. Side' = Side /\ \A x : Shown(x)' = Shown(x)
    BY <1>0, SameKind DEF Shown
  <2>3. \A x \in c.done \cap c.sure : ShownIn(SeenMeta(q), x)' = Counted(Seen(q), x)'
    <3> SUFFICES ASSUME NEW x \in c.done \cap c.sure, x # s
                 PROVE  ShownIn(SeenMeta(q), x)' = Counted(Seen(q), x)'
      BY <1>12, <1>18, <2>1
    <3>1. x \in tx[q].done \cap tx[q].sure /\ x \in Side
      BY <1>1, <1>12 DEF Tx
    <3> QED BY <1>2, <1>17, <2>1, <3>1 DEF Counting
  <2>4. \A x \in Side \ c.done : ShownIn(SeenMeta(q), x)' = Shown(x)'
    BY <1>2, <1>12, <1>17, <2>2 DEF Counting
  <2>5. kind # "blocks" => \A x \in c.done : x[1] \in DOMAIN new
    BY <1>2, <1>9, <1>12 DEF Counting, Unchanged
  <2> QED BY <1>0, <1>12, <1>13, <2>2, <2>3, <2>4, <2>5 DEF Counting
<1>22. calm => Alone(q)'
  <2>1. Alone(q) => c.done \subseteq c.sure /\ (c.step = "save" \/ kind = "blocks" => AtSide(q)' \subseteq c.sure)
    <3>1. AtSide(q)' = {} /\ AtSide(q) = {s}
      BY <1>2, <1>12, <1>13 DEF AtSide
    <3> QED BY <1>2, <1>12, <3>1 DEF Alone
  <2>2. tx[q].done \cup Ahead(q) = c.done \cup {c.todo[i] : i \in DOMAIN c.todo}
    <3>1. Ahead(q)' = {c.todo[i] : i \in DOMAIN c.todo}
      BY <1>13 DEF Ahead
    <3> QED BY <1>12, <1>19, <3>1
  <2> QED BY <1>0, <1>2, <1>10, <1>11, <1>12, <2>1, <2>2, AloneKeeps
<1>23. DOMAIN c.meta \cap MetaLocked(q) = {}
  BY <1>2, <1>9, <1>12, AskedStill
<1> QED BY <1>0, <1>10, <1>11, <1>12, <1>20, <1>21, <1>22, <1>23, AskedStill, StepKeeps

-----------------------------------------------------------------------------
(* A commit, and a bulk deletion. *)

LEMMA SideOfKeyIsSide ==
  ASSUME NEW k \in Key, NEW s, SideOfKey(s, k)
  PROVE  s \in Side
BY DEF Key, Side, SideOfKey

\* Rows T and metadata rows M change under a transaction that has written none of them: it
\* is still right about the sides that this does not take away from it.
LEMMA OthersSettle ==
  ASSUME Typed, NEW p \in Active, Shape(p), Counting(p), kind' = kind,
         NEW h, h = Head(tx[p].todo),
         NEW T \in SUBSET Key, NEW M \in SUBSET Profile, NEW U,
         row' \in Table, \A k \in Key \ T : row'[k] = row[k],
         meta' \in MetaTable, \A o \in Profile \ M : meta'[o] = meta[o],
         \A o \in Profile : meta[o] # None => meta'[o] # None,
         DOMAIN tx[p].rows \cap T = {}, DOMAIN tx[p].meta \cap M = {},
         SidesOfKeys(T) \subseteq U, kind = "blocks" => \A s \in Side : s[1] \in M => s \in U,
         tx'[p] = [tx[p] EXCEPT !.sure = @ \ U]
  PROVE  tx'[p] \in Tx /\ Shape(p)' /\ Counting(p)'
<1>1. tx[p] \in Tx /\ tx[p].todo \in Todo /\ kind \in Kind
  BY TxFacts DEF Typed, Tx
<1>2. /\ tx'[p] \in Tx /\ tx'[p].sure = tx[p].sure \ U
      /\ tx'[p].rows = tx[p].rows /\ tx'[p].meta = tx[p].meta /\ tx'[p].todo = tx[p].todo
      /\ tx'[p].done = tx[p].done /\ tx'[p].step = tx[p].step /\ tx'[p].count = tx[p].count
      /\ tx'[p].loaded = tx[p].loaded
  BY <1>1 DEF Tx
<1>3. /\ \A k \in Key : Seen(p)'[k] = IF k \in DOMAIN tx[p].rows THEN tx[p].rows[k] ELSE row'[k]
      /\ \A o \in Profile : SeenMeta(p)'[o] = IF o \in DOMAIN tx[p].meta THEN tx[p].meta[o] ELSE meta'[o]
  <2>1. DOMAIN row' = Key /\ DOMAIN meta' = Profile
    BY DEF Table, MetaTable
  <2>2. Seen(p)' = Over(tx[p].rows, row') /\ SeenMeta(p)' = Over(tx[p].meta, meta')
    BY <1>2 DEF Seen, SeenMeta
  <2> QED BY <2>1, <2>2 DEF Over
<1>4. /\ \A k \in Key : Seen(p)[k] = IF k \in DOMAIN tx[p].rows THEN tx[p].rows[k] ELSE row[k]
      /\ \A o \in Profile : SeenMeta(p)[o] = IF o \in DOMAIN tx[p].meta THEN tx[p].meta[o] ELSE meta[o]
  BY SeenFacts
<1>5. \A k \in Key \ T : Seen(p)'[k] = Seen(p)[k]
  BY <1>3, <1>4
<1>6. \A o \in Profile \ M : SeenMeta(p)'[o] = SeenMeta(p)[o]
  BY <1>3, <1>4
<1>7. ASSUME NEW s \in Side, s \notin U
      PROVE  Counted(Seen(p), s)' = Counted(Seen(p), s)
  <2>1. \A k \in Key : SideOfKey(s, k) => k \notin T
    BY <1>7, SidesMember
  <2>2. \A k \in Key : SideOfKey(s, k) => Seen(p)'[k] = Seen(p)[k]
    BY <1>5, <2>1
  <2>3. Counted(Seen(p)', s) = Counted(Seen(p), s)
    BY <1>1, <2>2, Locality
  <2> QED BY <2>3, SameCounted
<1>8. ASSUME NEW s \in Side, s[1] \notin M
      PROVE  ShownIn(SeenMeta(p), s)' = ShownIn(SeenMeta(p), s)
  <2>1. SeenMeta(p)'[s[1]] = SeenMeta(p)[s[1]]
    BY <1>6, <1>8 DEF Side
  <2>2. ShownIn(SeenMeta(p)', s) = ShownIn(SeenMeta(p), s)
    BY <2>1 DEF ShownIn
  <2> QED BY <2>2, SameShown
<1>9. Shape(p)'
  <2>1. AtSide(p)' = AtSide(p) /\ Ahead(p)' = Ahead(p)
    BY <1>2 DEF AtSide, Ahead
  <2>2. tx[p].step \in {"count", "save"} => SeenMeta(p)'[Head(tx[p].todo)[1]] # None
    <3> SUFFICES ASSUME tx[p].step \in {"count", "save"} PROVE SeenMeta(p)'[Head(tx[p].todo)[1]] # None
      OBVIOUS
    <3>1. tx[p].todo # <<>> /\ SeenMeta(p)[Head(tx[p].todo)[1]] # None
      BY DEF Shape
    <3>2. Head(tx[p].todo)[1] \in Profile
      BY <1>1, <3>1, HeadIsSide DEF Side
    <3> QED BY <1>3, <1>4, <3>1, <3>2
  <2> QED BY <1>2, <2>1, <2>2 DEF Shape
<1>10. Counting(p)'
  <2>0. Side' = Side /\ (\A s : FieldsOf(s)' = FieldsOf(s)) /\ Table' = Table
    BY SameKind DEF Table
  <2>1. \A s \in tx'[p].done \cap tx'[p].sure : ShownIn(SeenMeta(p), s)' = Counted(Seen(p), s)'
    <3> SUFFICES ASSUME NEW s \in tx[p].done \cap tx[p].sure, s \notin U
                 PROVE  ShownIn(SeenMeta(p), s)' = Counted(Seen(p), s)'
      BY <1>2
    <3>1. s \in Side
      BY <1>1 DEF Tx
    <3>2. s[1] \notin M
      BY <3>1 DEF Counting
    <3>3. ShownIn(SeenMeta(p), s) = Counted(Seen(p), s)
      BY DEF Counting
    <3> QED BY <1>7, <1>8, <3>1, <3>2, <3>3
  <2>2. \A s \in Side \ tx'[p].done : ShownIn(SeenMeta(p), s)' = Shown(s)'
    <3> SUFFICES ASSUME NEW s \in Side, s \notin tx[p].done
                 PROVE  ShownIn(SeenMeta(p), s)' = Shown(s)'
      BY <1>2
    <3>1. s[1] \in Profile
      BY DEF Side
    <3>2. CASE s[1] \in DOMAIN tx[p].meta
      <4>1. s[1] \notin M /\ meta'[s[1]] = meta[s[1]]
        BY <3>1, <3>2
      <4>2. Shown(s)' = Shown(s)
        BY <2>0, <4>1 DEF Shown
      <4>3. ShownIn(SeenMeta(p), s) = Shown(s)
        BY DEF Counting
      <4> QED BY <1>8, <4>1, <4>2, <4>3
    <3>3. CASE s[1] \notin DOMAIN tx[p].meta
      <4>1. SeenMeta(p)'[s[1]] = meta'[s[1]]
        BY <1>3, <3>1, <3>3
      <4>2. ShownIn(SeenMeta(p)', s) = Shown(s)'
        BY <2>0, <4>1 DEF ShownIn, Shown
      <4> QED BY <4>2, SameShown
    <3> QED BY <3>2, <3>3
  <2>3. kind # "blocks" => \A s \in tx'[p].done : s[1] \in DOMAIN tx'[p].meta
    BY <1>2 DEF Counting
  <2>4. tx[p].step = "save" => \E t \in Table' : tx[p].count = Counted(t, h)'
    <3>1. \A t : Counted(t, h)' = Counted(t, h)
      BY SameCounted
    <3>2. tx[p].step = "save" => \E t \in Table : tx[p].count = Counted(t, h)
      BY DEF Counting
    <3> QED BY <2>0, <3>1, <3>2
  <2>5. tx[p].step \in {"count", "save"} => h \in Side
    <3>1. tx[p].step \in {"count", "save"} => tx[p].todo # <<>>
      BY DEF Shape
    <3> QED BY <1>1, <3>1, HeadIsSide
  <2>6. tx[p].step = "save" /\ h \in tx'[p].sure => tx[p].count = Counted(Seen(p), h)'
    <3> SUFFICES ASSUME tx[p].step = "save", h \in tx[p].sure, h \notin U
                 PROVE  tx[p].count = Counted(Seen(p), h)'
      BY <1>2
    <3>1. tx[p].count = Counted(Seen(p), h)
      BY DEF Counting
    <3>2. h \in Side
      BY <2>5
    <3> QED BY <1>7, <3>1, <3>2
  <2>7. kind = "blocks" /\ tx[p].step \in {"count", "save"} /\ h \in tx'[p].sure =>
          \A f \in FieldsOf(h) : tx[p].loaded[f] = SeenMeta(p)'[h[1]][f]
    <3> SUFFICES ASSUME kind = "blocks", tx[p].step \in {"count", "save"}, h \in tx[p].sure, h \notin U
                 PROVE  \A f \in FieldsOf(h) : tx[p].loaded[f] = SeenMeta(p)'[h[1]][f]
      BY <1>2
    <3>1. \A f \in FieldsOf(h) : tx[p].loaded[f] = SeenMeta(p)[h[1]][f]
      BY DEF Counting
    <3>2. h \in Side /\ h[1] \in Profile
      BY <2>5 DEF Side
    <3>3. SeenMeta(p)'[h[1]] = SeenMeta(p)[h[1]]
      BY <1>6, <3>2
    <3> QED BY <3>1, <3>3
  <2>8. Head(tx'[p].todo) = h
    BY <1>2
  <2> QED BY <1>2, <2>0, <2>1, <2>2, <2>3, <2>4, <2>6, <2>7, <2>8 DEF Counting
<1> QED BY <1>2, <1>9, <1>10

\* The command, too, is still right unless rows of its target have changed.
LEMMA JobSettles ==
  ASSUME Typed, JobCounting, kind' = kind, NEW T \in SUBSET Key, NEW U,
         row' \in Table, \A k \in Key \ T : row'[k] = row[k], SidesOfKeys(T) \subseteq U,
         job' = IF job # Resting /\ job.sure /\ <<job.at, "in">> \in U
                THEN [job EXCEPT !.sure = FALSE] ELSE job
  PROVE  JobCounting'
<1>0. Table' = Table /\ Fields' = Fields /\ \A t, s : Counted(t, s)' = Counted(t, s)
  BY SameKind, SameCounted DEF Table
<1>1. CASE job = Resting
  BY <1>1 DEF JobCounting
<1>2. CASE job # Resting
  <2> DEFINE J == [step : {"count", "save"}, todo : SUBSET Profile, at : Profile \cup {None},
                   count : Partial(Fields, Int), sure : BOOLEAN]
  <2>1. /\ kind \in {"reactions", "reports"} /\ job \in J
        /\ job.step = "count" => ~ job.sure
        /\ job.step = "save" =>
             /\ job.at \in Profile
             /\ \E t \in Table : job.count = Counted(t, <<job.at, "in">>)
             /\ job.sure => job.count = Counted(row, <<job.at, "in">>)
    BY <1>2 DEF JobCounting
  <2>2. /\ job' \in J /\ job'.step = job.step /\ job'.at = job.at /\ job'.count = job.count
        /\ job'.sure => job.sure /\ <<job.at, "in">> \notin U
    BY <1>2, <2>1
  <2>3. PICK at, count, step : at = job.at /\ count = job.count /\ step = job.step
    OBVIOUS
  <2>4. job'.step = "save" => \E t \in Table' : job'.count = Counted(t, <<at, "in">>)'
    BY <1>0, <2>1, <2>2, <2>3
  <2>5. job'.step = "save" /\ job'.sure => job'.count = Counted(row, <<at, "in">>)'
    <3> SUFFICES ASSUME step = "save", job.sure, <<at, "in">> \notin U
                 PROVE  count = Counted(row', <<at, "in">>)
      BY <2>2, <2>3, SameCounted
    <3>1. at \in Profile /\ count = Counted(row, <<at, "in">>)
      BY <2>1, <2>3
    <3>2. <<at, "in">> \in Side
      BY <3>1 DEF Side
    <3>3. \A k \in Key : SideOfKey(<<at, "in">>, k) => k \notin T
      BY SidesMember
    <3>4. Counted(row', <<at, "in">>) = Counted(row, <<at, "in">>)
      BY <3>2, <3>3, Locality DEF Typed
    <3> QED BY <3>1, <3>4
  <2>6. job'.at = at /\ job'.step = step /\ job'.count = count
    BY <2>2, <2>3
  <2> QED BY <1>0, <2>1, <2>2, <2>3, <2>4, <2>5, <2>6 DEF JobCounting
<1> QED BY <1>1, <1>2

\* At a commit whoever is sure of a side has counted it as it is now, and whoever is not
\* leaves it suspect, or as it was.
LEMMA CommitKeeps ==
  ASSUME Inv, NEW q \in Active, Commit(q)
  PROVE  Inv'
<1>1. Typed /\ kind \in Kind /\ q \in Request /\ tx[q] \in Tx /\ Shape(q) /\ Counting(q)
  BY TxFacts DEF Inv, Typed
<1>2. /\ tx[q].step = "load" /\ tx[q].todo = <<>> /\ row' = Seen(q) /\ meta' = SeenMeta(q)
      /\ UNCHANGED <<kind, starts, asked>>
  BY DEF Commit
<1>3. PICK T, M, U : T = Touched(q) /\ M = DOMAIN tx[q].meta /\ U = Unsettled(q)
  OBVIOUS
<1>4. /\ T \in SUBSET Key /\ M \in SUBSET Profile /\ T \subseteq DOMAIN tx[q].rows
      /\ SidesOfKeys(T) \subseteq U /\ (kind = "blocks" => \A s \in Side : s[1] \in M => s \in U)
  BY <1>1, <1>3, TxFacts DEF Touched, Unsettled
<1>5. /\ row' \in Table /\ \A k \in Key \ T : row'[k] = row[k]
      /\ \A k \in Key : row'[k] = IF k \in DOMAIN tx[q].rows THEN tx[q].rows[k] ELSE row[k]
  BY <1>1, <1>2, <1>3, SeenFacts DEF Touched
<1>6. /\ meta' \in MetaTable /\ \A o \in Profile \ M : meta'[o] = meta[o]
      /\ \A o \in Profile : meta[o] # None => meta'[o] # None
  <2>1. \A o \in M : tx[q].meta[o] \in Counts /\ tx[q].meta[o] # None
    BY <1>1, <1>3, TxFacts, NoneAssumption DEF Counts, Fields
  <2> QED BY <1>1, <1>2, <1>3, <2>1, SeenFacts
<1>7. /\ tx' = [p \in Request |-> IF p = q THEN Idle ELSE IF tx[p] = Idle THEN Idle
                                  ELSE [tx[p] EXCEPT !.sure = @ \ U]]
      /\ suspect' = (suspect \cup SidesOfKeys(T) \cup tx[q].done) \ tx[q].sure
      /\ job' = IF job # Resting /\ job.sure /\ <<job.at, "in">> \in U
                THEN [job EXCEPT !.sure = FALSE] ELSE job
      /\ calm' = (calm /\ (tx[q].op = "save" => kind # "blocks" /\ T \subseteq {tx[q].key}))
  BY <1>3 DEF Commit
<1>8. ASSUME NEW p \in Active, p # q
      PROVE  /\ tx'[p] = [tx[p] EXCEPT !.sure = @ \ U]
             /\ tx'[p] \in Tx /\ Shape(p)' /\ Counting(p)'
  <2>1. p \in Request /\ tx[p] # Idle /\ Shape(p) /\ Counting(p)
    BY DEF Inv, Active
  <2>2. tx'[p] = [tx[p] EXCEPT !.sure = @ \ U]
    BY <1>7, <1>8, <2>1
  <2>3. DOMAIN tx[p].rows \cap T = {} /\ DOMAIN tx[p].meta \cap M = {}
    BY <1>3, <1>4, <1>8 DEF Inv, Disjoint
  <2>4. PICK h : h = Head(tx[p].todo)
    OBVIOUS
  <2>5. tx'[p] \in Tx /\ Shape(p)' /\ Counting(p)'
    BY <1>1, <1>2, <1>4, <1>5, <1>6, <2>1, <2>2, <2>3, <2>4, OthersSettle
  <2> QED BY <2>2, <2>5
<1>9. Active' = Active \ {q}
  BY <1>7, <1>8, NotIdle DEF Active
<1>10. Typed'
  <2>1. Tx' = Tx /\ MetaTable' = MetaTable /\ Side' = Side /\ Table' = Table
    BY <1>2, SameKind DEF Table
  <2>2. tx' \in [Request -> Tx \cup {Idle}]
    BY <1>7, <1>8 DEF Active
  <2>3. suspect' \in SUBSET Side
    <3>1. SidesOfKeys(T) \subseteq Side
      BY <1>4, SidesMember, SideOfKeyIsSide
    <3>2. tx[q].done \subseteq Side
      BY <1>1 DEF Tx
    <3> QED BY <1>1, <1>7, <3>1, <3>2 DEF Typed
  <2> QED BY <1>1, <1>2, <1>5, <1>6, <1>7, <2>1, <2>2, <2>3 DEF Typed
<1>11. \A p \in Active \ {q} : /\ tx'[p].rows = tx[p].rows /\ tx'[p].meta = tx[p].meta
                               /\ tx'[p].op = tx[p].op /\ tx'[p].new = tx[p].new /\ tx'[p].key = tx[p].key
  <2> SUFFICES ASSUME NEW p \in Active, p # q
               PROVE  /\ tx'[p].rows = tx[p].rows /\ tx'[p].meta = tx[p].meta
                      /\ tx'[p].op = tx[p].op /\ tx'[p].new = tx[p].new /\ tx'[p].key = tx[p].key
    OBVIOUS
  <2>1. tx[p] \in Tx
    BY <1>1, TxFacts
  <2> QED BY <1>8, <2>1 DEF Tx
<1>12. Disjoint'
  BY <1>9, <1>11 DEF Inv, Disjoint
<1>13. JobCounting'
  BY <1>1, <1>2, <1>4, <1>5, <1>7, JobSettles DEF Inv
<1>14. RecountsSettle'
  <2>0. Side' = Side /\ \A t, s : Counted(t, s)' = Counted(t, s)
    BY <1>2, SameKind, SameCounted
  <2> SUFFICES ASSUME NEW s \in Side, s \notin suspect' PROVE Shown(s)' = Counted(row', s)
    BY <2>0, <1>2, SameCounted DEF RecountsSettle
  <2>1. Shown(s)' = ShownIn(SeenMeta(q), s)
    <3>1. Shown(s)' = ShownIn(meta', s)
      BY <1>2, SameKind DEF Shown, ShownIn
    <3> QED BY <1>2, <3>1
  <2>2. CASE s \in tx[q].sure
    <3>1. s \in tx[q].done
      BY <1>1, <1>2, <2>2 DEF Shape, AtSide
    <3>2. ShownIn(SeenMeta(q), s) = Counted(Seen(q), s)
      BY <1>1, <2>2, <3>1 DEF Counting
    <3> QED BY <1>2, <2>1, <3>2
  <2>3. CASE s \notin tx[q].sure
    <3>1. s \notin suspect /\ s \notin SidesOfKeys(T) /\ s \notin tx[q].done
      BY <1>7, <2>3
    <3>2. ShownIn(SeenMeta(q), s) = Shown(s)
      BY <1>1, <3>1 DEF Counting
    <3>3. Shown(s) = Counted(row, s)
      BY <3>1 DEF Inv, RecountsSettle
    <3>4. \A k \in Key : SideOfKey(s, k) => row'[k] = row[k]
      BY <1>4, <1>5, <3>1, SidesMember
    <3>5. Counted(row', s) = Counted(row, s)
      BY <1>1, <3>4, Locality
    <3> QED BY <2>1, <3>2, <3>3, <3>5
  <2> QED BY <2>2, <2>3
<1>15. Calm'
  <2> SUFFICES ASSUME calm'
               PROVE  /\ suspect' = {} /\ Numbered(row, starts)' /\ Active' = {}
                      /\ job'.step = "save" => job'.sure
    BY DEF Calm
  <2>1. calm /\ (tx[q].op = "save" => kind # "blocks" /\ T \subseteq {tx[q].key})
    BY <1>7
  <2>2. suspect = {} /\ Alone(q)
    BY <2>1 DEF Inv, Calm
  <2>3. /\ Active = {q} /\ Numbered(Seen(q), starts) /\ tx[q].done \subseteq tx[q].sure
        /\ job = Resting
        /\ tx[q].op # "save" => DOMAIN tx[q].rows \subseteq {tx[q].key}
        /\ ~ (kind = "blocks" /\ tx[q].op = "save") =>
             \A s \in Side : SideOfKey(s, tx[q].key) <=> s \in tx[q].done \cup Ahead(q)
    BY <1>2, <2>2 DEF Alone
  <2>4. T \subseteq {tx[q].key} /\ Ahead(q) = {}
    BY <1>2, <1>4, <2>1, <2>3 DEF Ahead
  <2>5. SidesOfKeys(T) \subseteq tx[q].done
    <3> SUFFICES ASSUME NEW s \in SidesOfKeys(T) PROVE s \in tx[q].done
      OBVIOUS
    <3>1. PICK k \in T : SideOfKey(s, k)
      BY <1>4, SidesMember
    <3>2. k = tx[q].key /\ s \in Side
      BY <1>4, <2>4, <3>1, SideOfKeyIsSide
    <3> QED BY <2>1, <2>3, <2>4, <3>1, <3>2
  <2>6. suspect' = {}
    BY <1>7, <2>2, <2>3, <2>5
  <2>7. Numbered(row, starts)'
    BY <1>2, <2>3 DEF Numbered
  <2>8. job'.step = "rest"
    BY <1>7, <2>3 DEF Resting
  <2> QED BY <1>9, <2>3, <2>6, <2>7, <2>8
<1>16. Asked'
  <2>1. \A r, k : Wanted(r, k)' <=> Wanted(r, k)
    BY <1>2 DEF Wanted
  <2>2. \A k \in Key : row'[k] # None => Wanted(row'[k], k)
    BY <1>5 DEF Inv, Asked, OwnChoice
  <2>3. OwnChoice'
    BY <2>1, <2>2 DEF OwnChoice
  <2> QED BY <1>2, <1>9, <1>11, <2>1, <2>3 DEF Inv, Asked
<1>17. \A p \in Active' : Shape(p)' /\ Counting(p)'
  BY <1>8, <1>9
<1> QED BY <1>10, <1>12, <1>13, <1>14, <1>15, <1>16, <1>17 DEF Inv

\* Rows deleted with no recount leave the sides they counted for suspect, and no others.
LEMMA BulkDeleteKeeps ==
  ASSUME Inv, NEW K \in SUBSET Key, BulkDelete(K)
  PROVE  Inv'
<1>1. Typed /\ kind \in Kind
  BY DEF Inv, Typed
<1>2. /\ starts < MaxStarts /\ starts' = starts + 1 /\ calm' = FALSE
      /\ row' = [k \in Key |-> IF k \in K THEN None ELSE row[k]]
      /\ suspect' = suspect \cup SidesOfKeys(K)
      /\ UNCHANGED <<kind, meta, asked>>
  BY DEF BulkDelete
<1>3. PICK U : U = SidesOfKeys(K)
  OBVIOUS
<1>4. /\ tx' = [p \in Request |-> IF tx[p] = Idle THEN Idle ELSE [tx[p] EXCEPT !.sure = @ \ U]]
      /\ job' = IF job # Resting /\ job.sure /\ <<job.at, "in">> \in U
                THEN [job EXCEPT !.sure = FALSE] ELSE job
  BY <1>3 DEF BulkDelete
<1>5. row' \in Table /\ (\A k \in Key \ K : row'[k] = row[k]) /\ \A k \in K : row'[k] = None
  BY <1>1, <1>2 DEF Typed, Table
<1>6. meta' \in MetaTable /\ meta' = meta
  BY <1>1, <1>2 DEF Typed
<1>7. ASSUME NEW p \in Active
      PROVE  /\ tx'[p] = [tx[p] EXCEPT !.sure = @ \ U]
             /\ tx'[p] \in Tx /\ Shape(p)' /\ Counting(p)'
  <2>1. p \in Request /\ tx[p] # Idle /\ Shape(p) /\ Counting(p)
    BY DEF Inv, Active
  <2>2. tx'[p] = [tx[p] EXCEPT !.sure = @ \ U]
    BY <1>4, <2>1
  <2>3. DOMAIN tx[p].rows \cap K = {} /\ DOMAIN tx[p].meta \cap {} = {}
    BY DEF BulkDelete
  <2>4. PICK h : h = Head(tx[p].todo)
    OBVIOUS
  <2>5. SidesOfKeys(K) \subseteq U /\ {} \in SUBSET Profile /\ \A o \in Profile \ {} : meta'[o] = meta[o]
    BY <1>3, <1>6
  <2>6. kind = "blocks" => \A s \in Side : s[1] \in {} => s \in U
    OBVIOUS
  <2>7. \A o \in Profile : meta[o] # None => meta'[o] # None
    BY <1>6
  <2>8. tx'[p] \in Tx /\ Shape(p)' /\ Counting(p)'
    BY <1>1, <1>2, <1>5, <1>6, <2>1, <2>2, <2>3, <2>4, <2>5, <2>6, <2>7, OthersSettle
  <2> QED BY <2>2, <2>8
<1>8. Active' = Active
  BY <1>4, <1>7, NotIdle DEF Active
<1>9. Typed'
  <2>1. Tx' = Tx /\ MetaTable' = MetaTable /\ Side' = Side /\ Table' = Table
    BY <1>2, SameKind DEF Table
  <2>2. tx' \in [Request -> Tx \cup {Idle}]
    BY <1>4, <1>7 DEF Active
  <2>3. suspect' \in SUBSET Side
    BY <1>1, <1>2, SidesMember, SideOfKeyIsSide DEF Typed
  <2>4. starts' \in 0..MaxStarts
    BY <1>1, <1>2, BoundAssumption DEF Typed
  <2> QED BY <1>1, <1>2, <1>5, <1>6, <2>1, <2>2, <2>3, <2>4 DEF Typed
<1>10. \A p \in Active : /\ tx'[p].rows = tx[p].rows /\ tx'[p].meta = tx[p].meta
                         /\ tx'[p].op = tx[p].op /\ tx'[p].new = tx[p].new /\ tx'[p].key = tx[p].key
  <2> SUFFICES ASSUME NEW p \in Active
               PROVE  /\ tx'[p].rows = tx[p].rows /\ tx'[p].meta = tx[p].meta
                      /\ tx'[p].op = tx[p].op /\ tx'[p].new = tx[p].new /\ tx'[p].key = tx[p].key
    OBVIOUS
  <2>1. tx[p] \in Tx
    BY <1>1, TxFacts
  <2> QED BY <1>7, <2>1 DEF Tx
<1>11. Disjoint'
  BY <1>8, <1>10 DEF Inv, Disjoint
<1>12. JobCounting'
  BY <1>1, <1>2, <1>3, <1>4, <1>5, JobSettles DEF Inv
<1>13. RecountsSettle'
  <2>0. Side' = Side
    BY <1>2, SameKind
  <2> SUFFICES ASSUME NEW s \in Side, s \notin suspect' PROVE Shown(s)' = Counted(row', s)
    BY <2>0, <1>2, SameCounted DEF RecountsSettle
  <2>1. Shown(s)' = Shown(s)
    BY <1>2, SameKind DEF Shown
  <2>2. Shown(s) = Counted(row, s)
    BY <1>2 DEF Inv, RecountsSettle
  <2>3. \A k \in Key : SideOfKey(s, k) => row'[k] = row[k]
    BY <1>2, <1>5, SidesMember
  <2>4. Counted(row', s) = Counted(row, s)
    BY <1>1, <2>3, Locality
  <2> QED BY <2>1, <2>2, <2>4
<1>14. Calm'
  BY <1>2 DEF Calm
<1>15. Asked'
  <2>1. \A r, k : Wanted(r, k)' <=> Wanted(r, k)
    BY <1>2 DEF Wanted
  <2>2. \A k \in Key : row'[k] # None => Wanted(row'[k], k)
    BY <1>5 DEF Inv, Asked, OwnChoice
  <2>3. OwnChoice'
    BY <2>1, <2>2 DEF OwnChoice
  <2> QED BY <1>2, <1>8, <1>10, <2>1, <2>3 DEF Inv, Asked
<1>16. \A p \in Active' : Shape(p)' /\ Counting(p)'
  BY <1>7, <1>8
<1> QED BY <1>9, <1>11, <1>12, <1>13, <1>14, <1>15, <1>16 DEF Inv

-----------------------------------------------------------------------------
(* The command that recounts. *)

\* What an action on the metadata rows and the command alone leaves as it was.
LEMMA QuietKeeps ==
  ASSUME Typed, Disjoint, Asked, UNCHANGED <<kind, row, tx, asked>>
  PROVE  /\ Active' = Active /\ Disjoint' /\ Asked'
         /\ Tx' = Tx /\ MetaTable' = MetaTable /\ Side' = Side /\ Table' = Table
<1>1. Active' = Active
  BY DEF Active
<1>2. \A r, k : Wanted(r, k)' <=> Wanted(r, k)
  BY DEF Wanted
<1>3. OwnChoice'
  BY <1>2 DEF Asked, OwnChoice
<1>4. Disjoint' /\ Asked'
  BY <1>1, <1>2, <1>3 DEF Disjoint, Asked
<1> QED BY <1>1, <1>4, SameKind DEF Table

LEMMA RecomputeStartKeeps ==
  ASSUME Inv, RecomputeStart
  PROVE  Inv'
<1>1. /\ kind \in {"reactions", "reports"} /\ job = Resting /\ starts < MaxStarts /\ starts' = starts + 1
      /\ job' = [step |-> "count", todo |-> {k[2] : k \in {x \in Key : row[x] # None}},
                 at |-> None, count |-> NoCounts, sure |-> FALSE]
      /\ calm' = (calm /\ Active = {})
      /\ UNCHANGED <<kind, row, meta, tx, asked, suspect>>
  BY DEF RecomputeStart
<1>2. Typed /\ Disjoint /\ Asked
  BY DEF Inv
<1>3. /\ Active' = Active /\ Disjoint' /\ Asked'
      /\ Tx' = Tx /\ MetaTable' = MetaTable /\ Side' = Side /\ Table' = Table
  BY <1>1, <1>2, QuietKeeps
<1>4. starts \in Nat /\ starts' \in 0..MaxStarts
  BY <1>1, <1>2, BoundAssumption DEF Typed
<1>5. Typed'
  BY <1>1, <1>2, <1>3, <1>4 DEF Typed
<1>6. \A p \in Active' : Shape(p)' /\ Counting(p)'
  <2> SUFFICES ASSUME NEW p \in Active PROVE Shape(p)' /\ Counting(p)'
    BY <1>3
  <2>1. Shape(p) /\ Counting(p) /\ tx'[p] = tx[p]
    BY <1>1 DEF Inv
  <2> QED BY <1>1, <2>1, OthersKeep
<1>7. JobCounting'
  <2>1. Fields' = Fields
    BY <1>1, SameKind
  <2>2. NoCounts \in Partial(Fields, Int)
    BY DEF NoCounts, Partial
  <2>3. {k[2] : k \in {x \in Key : row[x] # None}} \subseteq Profile
    BY DEF Key
  <2> QED BY <1>1, <2>1, <2>2, <2>3 DEF JobCounting
<1>8. RecountsSettle'
  <2>1. \A s : Shown(s)' = Shown(s) /\ Counted(row, s)' = Counted(row, s)
    BY <1>1, SameKind, SameCounted DEF Shown
  <2> QED BY <1>1, <1>3, <2>1 DEF Inv, RecountsSettle
<1>9. Calm'
  <2>1. calm => suspect = {} /\ Numbered(row, starts)
    BY DEF Inv, Calm
  <2>2. \A k \in Key : row[k] # None => row[k].id[1] \in Nat
    BY <1>2 DEF Typed, Table, Row
  <2>3. Numbered(row, starts) => Numbered(row, starts)'
    BY <1>1, <1>4, <2>2 DEF Numbered
  <2> QED BY <1>1, <1>3, <2>1, <2>3 DEF Calm
<1> QED BY <1>3, <1>5, <1>6, <1>7, <1>8, <1>9 DEF Inv

LEMMA RecomputeCountKeeps ==
  ASSUME Inv, NEW o \in Profile, RecomputeCount(o)
  PROVE  Inv'
<1>1. /\ job.step = "count" /\ o \in job.todo
      /\ job' = [job EXCEPT !.step = "save", !.at = o, !.count = Counted(row, <<o, "in">>), !.sure = TRUE]
      /\ UNCHANGED <<kind, row, meta, tx, starts, asked, suspect, calm>>
  BY DEF RecomputeCount
<1>2. Typed /\ Disjoint /\ Asked /\ kind \in Kind
  BY DEF Inv, Typed
<1>3. /\ Active' = Active /\ Disjoint' /\ Asked'
      /\ Tx' = Tx /\ MetaTable' = MetaTable /\ Side' = Side /\ Table' = Table
  BY <1>1, <1>2, QuietKeeps
<1>4. job # Resting /\ kind \in {"reactions", "reports"}
      /\ job \in [step : {"count", "save"}, todo : SUBSET Profile, at : Profile \cup {None},
                  count : Partial(Fields, Int), sure : BOOLEAN]
  BY <1>1 DEF Inv, JobCounting, Resting
<1>5. Typed'
  BY <1>1, <1>2, <1>3 DEF Typed
<1>6. \A p \in Active' : Shape(p)' /\ Counting(p)'
  <2> SUFFICES ASSUME NEW p \in Active PROVE Shape(p)' /\ Counting(p)'
    BY <1>3
  <2>1. Shape(p) /\ Counting(p) /\ tx'[p] = tx[p]
    BY <1>1 DEF Inv
  <2> QED BY <1>1, <2>1, OthersKeep
<1>7. JobCounting'
  <2> DEFINE s == <<o, "in">>
  <2>1. s \in Side /\ row \in Table
    BY <1>2 DEF Side, Typed
  <2>2. Counted(row, s) \in [FieldsOf(s) -> Int] /\ FieldsOf(s) \subseteq Fields
    BY <1>2, <2>1, CountedType, FieldsOfAre
  <2>3. Counted(row, s) \in Partial(Fields, Int)
    BY <2>2 DEF Partial
  <2>4. /\ job' \in [step : {"count", "save"}, todo : SUBSET Profile, at : Profile \cup {None},
                     count : Partial(Fields, Int), sure : BOOLEAN]
        /\ job'.step = "save" /\ job'.at = o /\ job'.count = Counted(row, s)
    BY <1>1, <1>4, <2>3
  <2>5. Fields' = Fields /\ \A t : Counted(t, s)' = Counted(t, s)
    BY <1>1, SameKind, SameCounted
  <2>6. Counted(row, s)' = Counted(row, s)
    BY <1>1, SameCounted
  <2>7. \E t \in Table' : job'.count = Counted(t, <<o, "in">>)'
    BY <1>3, <2>1, <2>4, <2>5
  <2> QED BY <1>1, <1>3, <1>4, <2>4, <2>5, <2>6, <2>7 DEF JobCounting
<1>8. RecountsSettle'
  <2>1. \A s : Shown(s)' = Shown(s) /\ Counted(row, s)' = Counted(row, s)
    BY <1>1, SameKind, SameCounted DEF Shown
  <2> QED BY <1>1, <1>3, <2>1 DEF Inv, RecountsSettle
<1>9. Calm'
  <2>1. calm => suspect = {} /\ Numbered(row, starts) /\ \A p \in Active : Alone(p)
    BY DEF Inv, Calm
  <2>2. calm => Active = {}
    BY <1>4, <2>1 DEF Alone
  <2>3. Numbered(row, starts) => Numbered(row, starts)'
    BY <1>1 DEF Numbered
  <2>4. job'.sure
    BY <1>1, <1>4
  <2> QED BY <1>1, <1>3, <2>1, <2>2, <2>3, <2>4 DEF Calm
<1> QED BY <1>3, <1>5, <1>6, <1>7, <1>8, <1>9 DEF Inv

\* The command writes every counter of its target.  Whoever has recounted the target too
\* has locked its metadata row, and the command waits.
LEMMA RecomputeSaveKeeps ==
  ASSUME Inv, NEW o, o = job.at, RecomputeSave
  PROVE  Inv'
<1> DEFINE s == <<o, "in">>
<1>1. /\ job.step = "save" /\ o \notin UNION {DOMAIN tx[p].meta : p \in Active}
      /\ meta' = [meta EXCEPT ![o] = job.count]
      /\ suspect' = IF job.sure THEN suspect \ {s} ELSE suspect \cup {s}
      /\ job' = IF job.todo = {o} THEN Resting
                ELSE [job EXCEPT !.step = "count", !.todo = @ \ {o}, !.at = None,
                                 !.count = NoCounts, !.sure = FALSE]
      /\ UNCHANGED <<kind, row, tx, starts, asked, calm>>
  BY DEF RecomputeSave
<1>2. Typed /\ Disjoint /\ Asked /\ kind \in Kind
  BY DEF Inv, Typed
<1>3. /\ Active' = Active /\ Disjoint' /\ Asked'
      /\ Tx' = Tx /\ MetaTable' = MetaTable /\ Side' = Side /\ Table' = Table
  BY <1>1, <1>2, QuietKeeps
<1>4. /\ job # Resting /\ kind \in {"reactions", "reports"} /\ o \in Profile
      /\ job \in [step : {"count", "save"}, todo : SUBSET Profile, at : Profile \cup {None},
                  count : Partial(Fields, Int), sure : BOOLEAN]
      /\ \E t \in Table : job.count = Counted(t, s)
      /\ job.sure => job.count = Counted(row, s)
  BY <1>1 DEF Inv, JobCounting, Resting
<1>5. s \in Side /\ FieldsOf(s) = Fields
  BY <1>2, <1>4, FieldsOfAre DEF Side
<1>6. job.count \in Counts /\ job.count \in [FieldsOf(s) -> Int] /\ job.count # None
  <2>1. PICK t \in Table : job.count = Counted(t, s)
    BY <1>4
  <2>2. /\ job.count \in [FieldsOf(s) -> Int]
        /\ \A f \in FieldsOf(s) : (kind = "ratings" /\ f = "sum") \/ job.count[f] >= 0
    BY <1>2, <1>5, <2>1, CountedType
  <2>3. job.count \in Counts
    BY <1>5, <2>2 DEF Counts
  <2> QED BY <1>2, <1>5, <2>2, <2>3, NoneAssumption DEF Fields
<1>7. meta' \in MetaTable /\ meta'[o] = job.count /\ \A x \in Profile : x # o => meta'[x] = meta[x]
  BY <1>1, <1>2, <1>4, <1>6 DEF Typed, MetaTable
<1>8. Typed'
  <2>1. suspect' \in SUBSET Side
    BY <1>1, <1>2, <1>5 DEF Typed
  <2> QED BY <1>1, <1>2, <1>3, <1>7, <2>1 DEF Typed
<1>9. ASSUME NEW p \in Active PROVE Shape(p)' /\ Counting(p)'
  <2>1. Shape(p) /\ Counting(p) /\ tx[p] \in Tx
    BY <1>2, TxFacts DEF Inv
  <2>2. o \notin DOMAIN tx[p].meta /\ DOMAIN tx[p].meta \subseteq Profile
    BY <1>1, <1>2, TxFacts
  <2>3. Seen(p)' = Seen(p) /\ tx'[p] = tx[p]
    BY <1>1 DEF Seen
  <2>4. \A x \in Profile : SeenMeta(p)'[x] = IF x = o THEN meta'[o] ELSE SeenMeta(p)[x]
    <3>1. SeenMeta(p)' = Over(tx[p].meta, meta') /\ DOMAIN meta' = Profile
      BY <1>1, <1>7 DEF SeenMeta, MetaTable
    <3>2. \A x \in Profile : SeenMeta(p)[x] = IF x \in DOMAIN tx[p].meta THEN tx[p].meta[x] ELSE meta[x]
      BY <1>2, SeenFacts
    <3> QED BY <1>7, <2>2, <3>1, <3>2 DEF Over
  <2>5. Shape(p)'
    <3>1. AtSide(p)' = AtSide(p) /\ Ahead(p)' = Ahead(p)
      BY <2>3 DEF AtSide, Ahead
    <3>2. tx[p].step \in {"count", "save"} => SeenMeta(p)'[Head(tx[p].todo)[1]] # None
      <4> SUFFICES ASSUME tx[p].step \in {"count", "save"} PROVE SeenMeta(p)'[Head(tx[p].todo)[1]] # None
        OBVIOUS
      <4>1. tx[p].todo # <<>> /\ SeenMeta(p)[Head(tx[p].todo)[1]] # None
        BY <2>1 DEF Shape
      <4>2. Head(tx[p].todo)[1] \in Profile
        BY <2>1, <4>1, HeadIsSide DEF Side, Tx
      <4> QED BY <1>6, <1>7, <2>4, <4>1, <4>2
    <3> QED BY <2>1, <2>3, <3>1, <3>2 DEF Shape
  <2>6. Counting(p)'
    <3> DEFINE c == tx[p]
    <3>0. \A x : FieldsOf(x)' = FieldsOf(x)
      BY <1>1, SameKind
    <3>1. \A x : Counted(Seen(p), x)' = Counted(Seen(p), x)
      BY <1>1, <2>3, SameCounted
    <3>2. \A t, x : Counted(t, x)' = Counted(t, x)
      BY <1>1, SameCounted
    <3>3. kind # "blocks"
      BY <1>4
    <3>4. \A x \in tx[p].done : x \in Side /\ x[1] \in DOMAIN tx[p].meta
      BY <2>1, <3>3 DEF Counting, Tx
    <3>5. \A x \in tx[p].done : ShownIn(SeenMeta(p), x)' = ShownIn(SeenMeta(p), x)
      <4> SUFFICES ASSUME NEW x \in tx[p].done PROVE ShownIn(SeenMeta(p)', x) = ShownIn(SeenMeta(p), x)
        BY <1>1, SameShown
      <4>1. SeenMeta(p)'[x[1]] = SeenMeta(p)[x[1]]
        BY <2>2, <2>4, <3>4
      <4> QED BY <4>1 DEF ShownIn
    <3>6. \A x \in Side \ tx[p].done : ShownIn(SeenMeta(p), x)' = Shown(x)'
      <4> SUFFICES ASSUME NEW x \in Side, x \notin tx[p].done PROVE ShownIn(SeenMeta(p)', x) = Shown(x)'
        BY <1>1, SameShown
      <4>1. x[1] \in Profile
        BY DEF Side
      <4>2. Shown(x)' = [f \in FieldsOf(x) |-> IF meta'[x[1]] = None THEN 0 ELSE meta'[x[1]][f]]
        BY <3>0 DEF Shown
      <4>3. CASE x[1] = o
        BY <2>4, <4>1, <4>2, <4>3 DEF ShownIn
      <4>4. CASE x[1] # o
        <5>1. ShownIn(SeenMeta(p), x) = Shown(x)
          BY <2>1 DEF Counting
        <5>2. SeenMeta(p)'[x[1]] = SeenMeta(p)[x[1]] /\ meta'[x[1]] = meta[x[1]]
          BY <1>7, <2>4, <4>1, <4>4
        <5> QED BY <4>2, <5>1, <5>2 DEF ShownIn, Shown
      <4> QED BY <4>3, <4>4
    <3> QED BY <1>1, <1>3, <2>1, <2>3, <3>0, <3>1, <3>2, <3>3, <3>4, <3>5, <3>6 DEF Counting
  <2> QED BY <2>5, <2>6
<1>10. JobCounting'
  <2>1. Fields' = Fields
    BY <1>1, SameKind
  <2>2. NoCounts \in Partial(Fields, Int)
    BY DEF NoCounts, Partial
  <2>3. job' = Resting \/ /\ job' \in [step : {"count", "save"}, todo : SUBSET Profile,
                                       at : Profile \cup {None}, count : Partial(Fields, Int), sure : BOOLEAN]
                          /\ job'.step = "count" /\ ~ job'.sure
    BY <1>1, <1>4, <2>2
  <2> QED BY <1>1, <1>4, <2>1, <2>3 DEF JobCounting
<1>11. RecountsSettle'
  <2> SUFFICES ASSUME NEW x \in Side, x \notin suspect' PROVE Shown(x)' = Counted(row, x)
    BY <1>1, <1>3, SameCounted DEF RecountsSettle
  <2>1. x[1] \in Profile /\ (x[1] = o => x = s)
    BY <1>4 DEF Side
  <2>2. Shown(x)' = [f \in FieldsOf(x) |-> IF meta'[x[1]] = None THEN 0 ELSE meta'[x[1]][f]]
    BY <1>1, SameKind DEF Shown
  <2>3. CASE x = s
    <3>1. job.sure /\ job.count = Counted(row, s)
      BY <1>1, <1>4, <2>3
    <3>2. meta'[x[1]] = job.count
      BY <1>7, <2>3
    <3> QED BY <1>6, <2>2, <2>3, <3>1, <3>2
  <2>4. CASE x # s
    <3>1. x \notin suspect /\ meta'[x[1]] = meta[x[1]]
      BY <1>1, <1>7, <2>1, <2>4
    <3>2. Shown(x) = Counted(row, x)
      BY <3>1 DEF Inv, RecountsSettle
    <3> QED BY <2>2, <3>1, <3>2 DEF Shown
  <2> QED BY <2>3, <2>4
<1>12. Calm'
  <2>1. calm => suspect = {} /\ Numbered(row, starts) /\ (\A p \in Active : Alone(p)) /\ job.sure
    BY <1>1 DEF Inv, Calm
  <2>2. calm => Active = {}
    BY <1>4, <2>1 DEF Alone
  <2>3. Numbered(row, starts) => Numbered(row, starts)'
    BY <1>1 DEF Numbered
  <2>4. job'.step # "save"
    BY <1>1, <1>4 DEF Resting
  <2> QED BY <1>1, <1>3, <2>1, <2>2, <2>3, <2>4 DEF Calm
<1> QED BY <1>3, <1>8, <1>9, <1>10, <1>11, <1>12 DEF Inv

-----------------------------------------------------------------------------
(* The start of a request. *)

\* A request that has begun knows what is committed, and has told what it wants.
LEMMA BeginKeeps ==
  ASSUME Inv, NEW q \in Request, NEW d, Begin(q, d),
         d.op \in {"insert", "save", "delete"}, d.key \in Key, d.old \in Row, d.new \in Row,
         asked \subseteq asked',
         d.op = "save" => /\ \E u \in {d.new.by} \cup Staff : <<u, d.key, d.new.value>> \in asked'
                          /\ d.new.id = d.old.id,
         d.op = "insert" => <<d.new.by, d.key, d.new.value>> \in asked' /\ d.new.id[1] = starts + 1,
         d.op # "insert" => \E k \in Key : /\ row[k] # None /\ row[k].id = d.old.id
                                           /\ d.op = "delete" => k = d.key
  PROVE  Inv'
<1> DEFINE c == [op |-> d.op, key |-> d.key, old |-> d.old, new |-> d.new, step |-> "write",
                 rows |-> <<>>, meta |-> <<>>, todo |-> <<>>, done |-> {}, sure |-> {},
                 loaded |-> NoCounts, count |-> NoCounts]
<1>1. /\ starts < MaxStarts /\ tx[q] = Idle /\ starts' = starts + 1
      /\ tx' = [tx EXCEPT ![q] = c]
      /\ calm' = (calm /\ Active = {} /\ job = Resting)
      /\ UNCHANGED <<kind, row, meta, job, suspect>>
  BY DEF Begin
<1>2. Typed /\ Disjoint /\ kind \in Kind /\ q \notin Active
  BY <1>1 DEF Inv, Typed, Active
<1>3. c \in Tx
  <2>1. \A D, R : <<>> \in Partial(D, R)
    <3> SUFFICES ASSUME NEW D, NEW R PROVE <<>> \in Partial(D, R)
      OBVIOUS
    <3>1. <<>> \in [{} -> R]
      OBVIOUS
    <3> QED BY <3>1 DEF Partial
  <2>2. NoCounts \in Counts /\ NoCounts \in Partial(Fields, Int)
    BY DEF NoCounts, Counts, Partial
  <2>3. <<>> \in Todo
    BY DEF Todo
  <2> QED BY <2>1, <2>2, <2>3 DEF Tx
<1>4. /\ c.op = d.op /\ c.key = d.key /\ c.old = d.old /\ c.new = d.new /\ c.step = "write"
      /\ DOMAIN c.rows = {} /\ DOMAIN c.meta = {} /\ c.todo = <<>> /\ c.done = {} /\ c.sure = {}
  BY SeqFacts
<1> HIDE DEF c
<1>5. tx'[q] = c /\ \A p \in Request : p # q => tx'[p] = tx[p]
  BY <1>1, <1>2 DEF Typed
<1>6. Active' = Active \cup {q}
  BY <1>3, <1>5, NotIdle DEF Active
<1>7. starts \in Nat /\ starts' \in 0..MaxStarts
  BY <1>1, <1>2, BoundAssumption DEF Typed
<1>8. Typed'
  <2>1. Tx' = Tx /\ MetaTable' = MetaTable /\ Side' = Side /\ Table' = Table
    BY <1>1, SameKind DEF Table
  <2>2. tx' \in [Request -> Tx \cup {Idle}]
    BY <1>1, <1>2, <1>3 DEF Typed
  <2> QED BY <1>1, <1>2, <1>7, <2>1, <2>2 DEF Typed
<1>9. Disjoint'
  <2> SUFFICES ASSUME NEW p \in Active', NEW o \in Active', o # p
               PROVE  /\ DOMAIN tx'[p].rows \cap DOMAIN tx'[o].rows = {}
                      /\ DOMAIN tx'[p].meta \cap DOMAIN tx'[o].meta = {}
    BY DEF Disjoint
  <2>1. CASE p = q \/ o = q
    BY <1>4, <1>5, <2>1
  <2>2. CASE p # q /\ o # q
    <3>1. p \in Active /\ o \in Active /\ tx'[p] = tx[p] /\ tx'[o] = tx[o]
      BY <1>5, <1>6, <2>2 DEF Active
    <3> QED BY <1>2, <3>1 DEF Disjoint
  <2> QED BY <2>1, <2>2
<1>10. Seen(q)' = row /\ SeenMeta(q)' = meta
  <2>1. Seen(q)' = Over(c.rows, row) /\ SeenMeta(q)' = Over(c.meta, meta)
    BY <1>1, <1>5 DEF Seen, SeenMeta
  <2>2. row = [k \in Key |-> row[k]] /\ meta = [o \in Profile |-> meta[o]]
    BY <1>2 DEF Typed, Table, MetaTable
  <2> QED BY <1>4, <2>1, <2>2 DEF Over
<1>11. Shape(q)'
  BY <1>4, <1>5, SeqFacts DEF Shape, Ahead, AtSide
<1>12. Counting(q)'
  <2>1. \A s : ShownIn(SeenMeta(q), s)' = Shown(s)'
    <3> SUFFICES ASSUME NEW s PROVE ShownIn(SeenMeta(q)', s) = Shown(s)
      BY <1>1, SameShown, SameKind DEF Shown
    <3> QED BY <1>10 DEF ShownIn, Shown
  <2> QED BY <1>4, <1>5, <2>1 DEF Counting
<1>13. \A p \in Active' : Shape(p)' /\ Counting(p)'
  <2> SUFFICES ASSUME NEW p \in Active, p # q PROVE Shape(p)' /\ Counting(p)'
    BY <1>6, <1>11, <1>12
  <2>1. tx'[p] = tx[p] /\ Shape(p) /\ Counting(p)
    BY <1>5 DEF Inv, Active
  <2> QED BY <1>1, <2>1, OthersKeep
<1>14. JobCounting'
  <2>1. \A t, s : Counted(t, s)' = Counted(t, s)
    BY <1>1, SameCounted
  <2>2. Table' = Table /\ Fields' = Fields
    BY <1>1, SameKind DEF Table
  <2> QED BY <1>1, <2>1, <2>2 DEF Inv, JobCounting
<1>15. RecountsSettle'
  <2>1. \A s : Shown(s)' = Shown(s) /\ Counted(row, s)' = Counted(row, s)
    BY <1>1, SameKind, SameCounted DEF Shown
  <2>2. Side' = Side
    BY <1>1, SameKind
  <2> QED BY <1>1, <2>1, <2>2 DEF Inv, RecountsSettle
<1>16. Calm'
  <2> SUFFICES ASSUME calm'
               PROVE  suspect' = {} /\ Numbered(row, starts)' /\ Alone(q)' /\ Active' = {q} /\ job' = Resting
    BY DEF Calm, Resting
  <2>1. calm /\ Active' = {q} /\ job' = Resting /\ job = Resting
    BY <1>1, <1>6
  <2>2. suspect' = {} /\ Numbered(row, starts)
    BY <1>1, <2>1 DEF Inv, Calm
  <2>3. \A k \in Key : row[k] # None => row[k].id[1] \in Nat
    BY <1>2 DEF Typed, Table, Row
  <2>4. Numbered(row, starts + 1)
    BY <1>7, <2>2, <2>3 DEF Numbered
  <2>5. Numbered(row, starts)' /\ Numbered(row, starts - 1)' /\ Numbered(Seen(q), starts)'
    <3>1. starts' - 1 = starts
      BY <1>1, <1>7
    <3> QED BY <1>1, <1>10, <2>2, <2>4, <3>1 DEF Numbered
  <2>6. Alone(q)'
    BY <1>1, <1>4, <1>5, <2>1, <2>5 DEF Alone
  <2> QED BY <2>1, <2>2, <2>5, <2>6
<1>17. Asked'
  <2> DEFINE Wants(r, k) == \E u \in {r.by} \cup Staff : <<u, k, r.value>> \in asked'
  <2>1. \A r, k : Wanted(r, k) => Wants(r, k)
    BY DEF Wanted
  <2>2. \A k \in Key : row[k] # None => Wants(row[k], k)
    BY <2>1 DEF Inv, Asked, OwnChoice
  <2>3. ASSUME NEW p \in Active'
        PROVE  /\ \A k \in DOMAIN tx'[p].rows : tx'[p].rows[k] # None => Wants(tx'[p].rows[k], k)
               /\ tx'[p].op = "save" => Wants(tx'[p].new, tx'[p].key)
               /\ tx'[p].op = "insert" => <<tx'[p].new.by, tx'[p].key, tx'[p].new.value>> \in asked'
    <3>1. CASE p = q
      BY <1>4, <1>5, <3>1
    <3>2. CASE p # q
      <4>1. p \in Active /\ tx'[p] = tx[p]
        BY <1>5, <1>6, <3>2 DEF Active
      <4>2. /\ \A k \in DOMAIN tx[p].rows : tx[p].rows[k] # None => Wanted(tx[p].rows[k], k)
            /\ tx[p].op = "save" => Wanted(tx[p].new, tx[p].key)
            /\ tx[p].op = "insert" => <<tx[p].new.by, tx[p].key, tx[p].new.value>> \in asked
        BY <4>1 DEF Inv, Asked
      <4> HIDE DEF Wants
      <4> QED BY <2>1, <4>1, <4>2
    <3> QED BY <3>1, <3>2
  <2>4. OwnChoice'
    BY <1>1, <2>2 DEF OwnChoice, Wanted
  <2> QED BY <2>3, <2>4 DEF Asked, Wanted
<1> QED BY <1>8, <1>9, <1>13, <1>14, <1>15, <1>16, <1>17 DEF Inv

LEMMA ToggleStarts ==
  ASSUME Inv, NEW q \in Request, NEW u \in User, NEW k \in Key, NEW v \in Value,
         row[k] # None, row[k].by = u \/ u \in Staff,
         Begin(q, Toggled(u, k, v, row[k])), Asks(u, k, v)
  PROVE  Inv'
<1>1. PICK r \in Row : r = row[k]
  BY DEF Inv, Typed, Table
<1>2. PICK d : d = Toggled(u, k, v, r)
  OBVIOUS
<1>3. /\ d.op \in {"save", "delete"} /\ d.key = k /\ d.old = r /\ d.new \in Row
      /\ d.new.id = r.id /\ d.new.by = r.by /\ (d.op = "save" => d.new.value = v)
  BY <1>1, <1>2 DEF Toggled, Row
<1>4. asked \subseteq asked' /\ <<u, k, v>> \in asked'
  BY DEF Asks
<1>5. d.op = "save" => \E x \in {d.new.by} \cup Staff : <<x, d.key, d.new.value>> \in asked'
  BY <1>1, <1>3, <1>4
<1>6. Begin(q, d)
  BY <1>1, <1>2
<1> QED BY <1>1, <1>3, <1>4, <1>5, <1>6, BeginKeeps

LEMMA InsertStarts ==
  ASSUME Inv, NEW q \in Request, NEW u \in User, NEW k \in Key, NEW v \in Value,
         Begin(q, Insert(u, k, v)), Asks(u, k, v)
  PROVE  Inv'
<1>1. PICK d : d = Insert(u, k, v)
  OBVIOUS
<1>2. starts \in Nat
  BY BoundAssumption DEF Inv, Typed
<1>3. /\ d.op = "insert" /\ d.key = k /\ d.old \in Row /\ d.new \in Row
      /\ d.new.id[1] = starts + 1 /\ d.new.by = u /\ d.new.value = v
  BY <1>1, <1>2 DEF Insert, Row
<1>4. asked \subseteq asked' /\ <<u, k, v>> \in asked'
  BY DEF Asks
<1>5. Begin(q, d)
  BY <1>1
<1> QED BY <1>3, <1>4, <1>5, BeginKeeps

LEMMA BlockToggleKeeps ==
  ASSUME Inv, NEW q \in Request, NEW u \in User, NEW k \in Key, BlockToggle(q, u, k)
  PROVE  Inv'
<1>1. PICK v \in Value : v = CHOOSE x \in Value : TRUE
  BY ValueAssumption
<1>2. CASE row[k] # None /\ row[k].by = u
  <2>1. Begin(q, Toggled(u, k, v, row[k])) /\ Asks(u, k, v)
    BY <1>1, <1>2 DEF BlockToggle
  <2> QED BY <1>2, <2>1, ToggleStarts
<1>3. CASE ~ (row[k] # None /\ row[k].by = u)
  <2>1. Begin(q, Insert(u, k, v)) /\ Asks(u, k, v)
    BY <1>1, <1>3 DEF BlockToggle
  <2> QED BY <2>1, InsertStarts
<1> QED BY <1>2, <1>3

LEMMA ReactionToggleKeeps ==
  ASSUME Inv, NEW q \in Request, NEW u \in User, NEW k \in Key, NEW v \in Value,
         ReactionToggle(q, u, k, v)
  PROVE  Inv'
<1>1. CASE row[k] # None
  <2>1. Begin(q, Toggled(u, k, v, row[k])) /\ Asks(u, k, v) /\ MayChangeReaction(u, k, row[k])
    BY <1>1 DEF ReactionToggle
  <2>2. row[k].by = u \/ u \in Staff
    BY <2>1 DEF MayChangeReaction
  <2> QED BY <1>1, <2>1, <2>2, ToggleStarts
<1>2. CASE row[k] = None
  <2>1. Begin(q, Insert(u, k, v)) /\ Asks(u, k, v)
    BY <1>2 DEF ReactionToggle
  <2> QED BY <2>1, InsertStarts
<1> QED BY <1>1, <1>2

LEMMA CreateKeeps ==
  ASSUME Inv, NEW q \in Request, NEW u \in User, NEW o \in Profile, NEW v \in Value,
         RateCreate(q, u, o, v) \/ ReportCreate(q, u, o, v)
  PROVE  Inv'
<1>1. PICK k \in Key : k = <<Current[u], o>>
  BY UserAssumption DEF Key
<1>2. Begin(q, Insert(u, k, v)) /\ Asks(u, k, v)
  BY <1>1 DEF RateCreate, ReportCreate
<1> QED BY <1>2, InsertStarts

LEMMA AdminSaveKeeps ==
  ASSUME Inv, NEW q \in Request, NEW k \in Key, NEW o \in Profile, NEW v \in Value,
         AdminSave(q, k, o, v)
  PROVE  Inv'
<1>1. PICK r \in Row : r = row[k] /\ r # None
  BY DEF Inv, Typed, Table, AdminSave
<1>2. PICK l \in Key : l = <<k[1], o>>
  BY DEF Key
<1>3. PICK d : d = [op |-> "save", key |-> l, old |-> r, new |-> [r EXCEPT !.value = v]]
  OBVIOUS
<1>4. /\ d.op = "save" /\ d.key = l /\ d.old = r /\ d.new \in Row
      /\ d.new.id = r.id /\ d.new.by = r.by /\ d.new.value = v
  BY <1>3 DEF Row
<1>5. asked \subseteq asked' /\ <<r.by, l, v>> \in asked' /\ Begin(q, d)
  BY <1>1, <1>2, <1>3 DEF AdminSave, Asks
<1>6. \E x \in {d.new.by} \cup Staff : <<x, d.key, d.new.value>> \in asked'
  BY <1>4, <1>5
<1> QED BY <1>1, <1>4, <1>5, <1>6, BeginKeeps

LEMMA AdminDeleteKeeps ==
  ASSUME Inv, NEW q \in Request, NEW k \in Key, AdminDelete(q, k)
  PROVE  Inv'
<1>1. PICK r \in Row : r = row[k] /\ r # None
  BY DEF Inv, Typed, Table, AdminDelete
<1>2. PICK d : d = [op |-> "delete", key |-> k, old |-> r, new |-> r]
  OBVIOUS
<1>3. d.op = "delete" /\ d.key = k /\ d.old = r /\ d.new = r
  BY <1>2
<1>4. asked \subseteq asked' /\ Begin(q, d)
  BY <1>1, <1>2 DEF AdminDelete
<1> QED BY <1>1, <1>3, <1>4, BeginKeeps

-----------------------------------------------------------------------------
(* Every step, and the theorems. *)

LEMMA StatementKeeps ==
  ASSUME Inv, NEW q \in Request, Statement(q)
  PROVE  Inv'
<1>1. CASE q \in Active
  <2>1. PICK s : s = Head(tx[q].todo)
    OBVIOUS
  <2>2. CASE InsertRow(q)
    BY <1>1, <2>2, InsertRowKeeps
  <2>3. CASE SaveRow(q)
    BY <1>1, <2>3, SaveRowKeeps
  <2>4. CASE DeleteRow(q)
    BY <1>1, <2>4, DeleteRowKeeps
  <2>5. CASE LoadMetadata(q)
    BY <1>1, <2>5, LoadMetadataKeeps
  <2>6. CASE CountRows(q)
    BY <1>1, <2>1, <2>6, CountRowsKeeps
  <2>7. CASE SaveMetadata(q)
    BY <1>1, <2>1, <2>7, SaveMetadataKeeps
  <2>8. CASE Commit(q)
    BY <1>1, <2>8, CommitKeeps
  <2>9. CASE BreakDeadlock(q)
    BY <1>1, <2>9, AbortKeeps DEF BreakDeadlock
  <2> QED BY <2>2, <2>3, <2>4, <2>5, <2>6, <2>7, <2>8, <2>9 DEF Statement
<1>2. CASE q \notin Active
  <2>1. tx[q].step = "idle"
    BY <1>2 DEF Active, Idle
  <2>2. ~ BreakDeadlock(q)
    BY <1>2 DEF BreakDeadlock
  <2> QED BY <2>1, <2>2 DEF Statement, InsertRow, SaveRow, DeleteRow, LoadMetadata, CountRows, SaveMetadata, Commit
<1> QED BY <1>1, <1>2

LEMMA StutterKeeps == Inv /\ UNCHANGED vars => Inv'
<1> SUFFICES ASSUME Inv, UNCHANGED vars PROVE Inv'
  OBVIOUS
<1>1. UNCHANGED <<kind, row, meta, tx, job, starts, asked, suspect, calm>>
  BY DEF vars
<1>2. Typed /\ Disjoint /\ Asked
  BY DEF Inv
<1>3. /\ Active' = Active /\ Disjoint' /\ Asked'
      /\ Tx' = Tx /\ MetaTable' = MetaTable /\ Side' = Side /\ Table' = Table
  BY <1>1, <1>2, QuietKeeps
<1>4. Typed'
  BY <1>1, <1>2, <1>3 DEF Typed
<1>5. \A p \in Active' : Shape(p)' /\ Counting(p)'
  <2> SUFFICES ASSUME NEW p \in Active PROVE Shape(p)' /\ Counting(p)'
    BY <1>3
  <2>1. Shape(p) /\ Counting(p) /\ tx'[p] = tx[p]
    BY <1>1 DEF Inv
  <2> QED BY <1>1, <2>1, OthersKeep
<1>6. JobCounting'
  <2>1. Fields' = Fields /\ \A t, s : Counted(t, s)' = Counted(t, s)
    BY <1>1, SameKind, SameCounted
  <2> QED BY <1>1, <1>3, <2>1 DEF Inv, JobCounting
<1>7. RecountsSettle'
  <2>1. \A s : Shown(s)' = Shown(s) /\ Counted(row, s)' = Counted(row, s)
    BY <1>1, SameKind, SameCounted DEF Shown
  <2> QED BY <1>1, <1>3, <2>1 DEF Inv, RecountsSettle
<1>8. Calm'
  <2>1. Numbered(row, starts)' <=> Numbered(row, starts)
    BY <1>1 DEF Numbered
  <2>2. \A p : SeenMeta(p)' = SeenMeta(p) /\ Seen(p)' = Seen(p)
    BY <1>1 DEF Seen, SeenMeta
  <2>3. \A p : Alone(p) => Alone(p)'
    <3> SUFFICES ASSUME NEW p, Alone(p) PROVE Alone(p)'
      OBVIOUS
    <3>1. Numbered(Seen(p), starts)'
      BY <1>1, <2>2 DEF Alone, Numbered
    <3>2. Numbered(row, starts - 1)' <=> Numbered(row, starts - 1)
      BY <1>1 DEF Numbered
    <3>3. \A s, k : SideOfKey(s, k)' <=> SideOfKey(s, k)
      BY <1>1, SameSides
    <3>4. AtSide(p)' = AtSide(p) /\ Ahead(p)' = Ahead(p)
      BY <1>1 DEF AtSide, Ahead
    <3> QED BY <1>1, <1>3, <3>1, <3>2, <3>3, <3>4 DEF Alone
  <2> QED BY <1>1, <1>3, <2>1, <2>3 DEF Inv, Calm
<1> QED BY <1>3, <1>4, <1>5, <1>6, <1>7, <1>8 DEF Inv

LEMMA InvNext == Inv /\ [Next]_vars => Inv'
<1> SUFFICES ASSUME Inv, [Next]_vars PROVE Inv'
  OBVIOUS
<1>1. ASSUME NEW q \in Request, NEW u \in User, NEW k \in Key, BlockToggle(q, u, k) PROVE Inv'
  BY <1>1, BlockToggleKeeps
<1>2. ASSUME NEW q \in Request, NEW u \in User, NEW k \in Key, NEW v \in Value, ReactionToggle(q, u, k, v)
      PROVE  Inv'
  BY <1>2, ReactionToggleKeeps
<1>3. ASSUME NEW q \in Request, NEW u \in User, NEW o \in Profile, NEW v \in Value,
             RateCreate(q, u, o, v) \/ ReportCreate(q, u, o, v)
      PROVE  Inv'
  BY <1>3, CreateKeeps
<1>4. ASSUME NEW q \in Request, NEW k \in Key, NEW o \in Profile, NEW v \in Value, AdminSave(q, k, o, v)
      PROVE  Inv'
  BY <1>4, AdminSaveKeeps
<1>5. ASSUME NEW q \in Request, NEW k \in Key, AdminDelete(q, k) PROVE Inv'
  BY <1>5, AdminDeleteKeeps
<1>6. ASSUME NEW q \in Request, Statement(q) PROVE Inv'
  BY <1>6, StatementKeeps
<1>7. ASSUME NEW K \in SUBSET Key, BulkDelete(K) PROVE Inv'
  BY <1>7, BulkDeleteKeeps
<1>8. CASE RecomputeStart
  BY <1>8, RecomputeStartKeeps
<1>9. CASE RecomputeSave
  <2>1. PICK o : o = job.at
    OBVIOUS
  <2> QED BY <1>9, <2>1, RecomputeSaveKeeps
<1>10. ASSUME NEW o \in Profile, RecomputeCount(o) PROVE Inv'
  BY <1>10, RecomputeCountKeeps
<1>11. CASE UNCHANGED vars
  BY <1>11, StutterKeeps
<1> QED BY <1>1, <1>2, <1>3, <1>4, <1>5, <1>6, <1>7, <1>8, <1>9, <1>10, <1>11 DEF Next

LEMMA InvHolds == Spec => []Inv
BY InvInit, InvNext, PTL DEF Spec

\* Every reachable state is well formed.
LEMMA InvTyped == Inv => TypeOK
<1> SUFFICES ASSUME Inv PROVE TypeOK
  OBVIOUS
<1>1. Typed
  BY DEF Inv
<1>2. row \in [Key -> Row \cup {None}] /\ meta \in [Profile -> Counts \cup {None}]
  BY <1>1 DEF Typed, Table, MetaTable
<1>3. \A q \in Active : /\ \A k \in DOMAIN tx[q].rows : k \in Key /\ tx[q].rows[k] \in Row \cup {None}
                        /\ \A o \in DOMAIN tx[q].meta : o \in Profile /\ tx[q].meta[o] \in Counts
                        /\ tx[q].sure \in SUBSET Side /\ tx[q].done \in SUBSET Side
                        /\ tx[q].loaded \in Counts
  BY <1>1, TxFacts DEF Tx
<1>4. \A q \in Active : /\ DOMAIN tx[q].rows \cap RowsLocked(q) = {}
                        /\ DOMAIN tx[q].meta \cap MetaLocked(q) = {}
  BY DEF Inv, Disjoint, RowsLocked, MetaLocked, Others
<1> QED BY <1>1, <1>2, <1>3, <1>4 DEF Typed, TypeOK

\* Whoever counts last, and undisturbed, leaves the counter exact: a counter of a block,
\* reaction, rating or report target differs from its rows only where a recount was
\* overtaken by a commit, or where rows were deleted without one.
THEOREM RecountsAlwaysSettle == Spec => []RecountsSettle
<1>1. Inv => RecountsSettle
  BY DEF Inv
<1> QED BY <1>1, InvHolds, PTL

\* Without overlap, bulk deletions and change forms that move a row, every counter of a
\* metadata row is exact in every state, those between two statements included.
THEOREM CalmRecountsAreExact == Spec => []CalmIsExact
<1>1. Inv => CalmIsExact
  BY DEF Inv, Calm, CalmIsExact, RecountsSettle
<1> QED BY <1>1, InvHolds, PTL

\* No row ever holds a value that neither its own user nor a member of the staff asked
\* for, however the requests, the retries of get_or_create and the stale saves interleave.
THEOREM ChoicesAreKept == Spec => []ChoicesKept
<1>1. Inv => ChoicesKept
  BY InvTyped DEF Inv, Asked, ChoicesKept
<1> QED BY <1>1, InvHolds, PTL
=============================================================================
