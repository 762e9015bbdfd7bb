---------------------------- MODULE CommentsProofs ---------------------------
(***************************************************************************)
(* Proofs about Comments: for any targets, requests and bounds, committed  *)
(* comments_counts are exact, only the admin site and deletions leave one  *)
(* behind, and while requests do not overlap deleted threads stay deleted  *)
(* and pins within their limit.                                            *)
(***************************************************************************)
EXTENDS Comments, FiniteSetTheorems, TLAPS

\* What a request in flight holds: the metadata rows it has recounted are locked, and a
\* recount nobody has overtaken is that of the rows as the request sees them.
Holds(q) ==
  /\ tx[q].left \subseteq Loaded(q)
  /\ tx[q].op = "delete" => \A c \in Loaded(q) : rows[c] # NoRow
  /\ tx[q].op # "enable" =>
       /\ tx[q].sure \subseteq Drafted(q)
       /\ \A k \in Drafted(q) : metaLock[k] = q
       /\ \A k \in tx[q].sure : tx[q].draft[k] = Recomputed(View(q), k)
       /\ ~tx[q].sent => Drafted(q) = {} /\ tx[q].left = {}

RecountsHold == \A q \in Request : Active(q) => Holds(q)

\* The inductive invariant.
Inv == TypeOK /\ RecountsHold /\ CountsExact

-----------------------------------------------------------------------------
(* Rows and counts.                                                        *)

\* A recount is a record of natural numbers.
LEMMA RecomputedType ==
  ASSUME NEW rs \in [Comment -> Row \cup {NoRow}], NEW k \in Key
  PROVE  Recomputed(rs, k) \in Counts
<1>1. \A S \in SUBSET Comment : IsFiniteSet(S) /\ Cardinality(S) \in Nat
  <2>1. IsFiniteSet(Comment)
    BY FS_Interval, BoundAssumption DEF Comment
  <2> QED BY <2>1, FS_Subset, FS_CardinalityType
<1>2. CASE k \in Target
  <2> DEFINE on == On(rs, k)
             replies == {c \in on : rs[c].parent # Root}
             pinned == {c \in on : rs[c].parent = Root /\ rs[c].pinned}
  <2>1. on \in SUBSET Comment /\ replies \in SUBSET Comment /\ pinned \in SUBSET Comment /\ replies \subseteq on
    BY DEF On, Visible
  <2>2. Cardinality(replies) <= Cardinality(on)
    BY <1>1, <2>1, FS_Subset
  <2>3. Recomputed(rs, k) = [total |-> Cardinality(on), main |-> Cardinality(on) - Cardinality(replies),
                             replies |-> Cardinality(replies), pinned |-> Cardinality(pinned)]
    BY <1>2 DEF Recomputed, CountOn
  <2>4. Cardinality(on) \in Nat /\ Cardinality(replies) \in Nat /\ Cardinality(pinned) \in Nat
    BY <1>1, <2>1
  <2> HIDE DEF on, replies, pinned
  <2>5. Cardinality(on) - Cardinality(replies) \in Nat
    BY <2>2, <2>4
  <2> QED BY <2>3, <2>4, <2>5 DEF Counts
<1>3. CASE k \notin Target
  <2>1. RepliesTo(rs, k) \in SUBSET Comment /\ {c \in RepliesTo(rs, k) : rs[c].pinned} \in SUBSET Comment
    BY DEF RepliesTo, Visible
  <2>2. /\ Cardinality(RepliesTo(rs, k)) \in Nat
        /\ Cardinality({c \in RepliesTo(rs, k) : rs[c].pinned}) \in Nat
    BY <1>1, <2>1
  <2> QED BY <1>3, <2>2 DEF Recomputed, CountReplies, Counts
<1> QED BY <1>2, <1>3

\* Rows of other threads do not change the recount of k.
LEMMA RecomputedLocal ==
  ASSUME NEW rs \in [Comment -> Row \cup {NoRow}], NEW ts \in [Comment -> Row \cup {NoRow}], NEW k \in Key,
         \A c \in Comment : rs[c] = ts[c] \/ k \notin KeySet(rs[c]) \cup KeySet(ts[c])
  PROVE  Recomputed(rs, k) = Recomputed(ts, k)
<1>1. k # Root
  BY NameAssumption DEF Key
<1>2. \A c \in Comment : c \in On(rs, k) <=> c \in On(ts, k)
  BY <1>1 DEF On, Visible, KeySet
<1>3. \A c \in Comment : c \in RepliesTo(rs, k) <=> c \in RepliesTo(ts, k)
  BY <1>1 DEF RepliesTo, Visible, KeySet
<1>4. On(rs, k) = On(ts, k) /\ RepliesTo(rs, k) = RepliesTo(ts, k)
  BY <1>2, <1>3 DEF On, RepliesTo, Visible
<1>5. \A c \in On(rs, k) \cup RepliesTo(rs, k) : rs[c] = ts[c]
  BY <1>1 DEF On, RepliesTo, Visible, KeySet
<1>6. /\ {c \in On(rs, k) : rs[c].parent # Root} = {c \in On(ts, k) : ts[c].parent # Root}
      /\ {c \in On(rs, k) : rs[c].parent = Root /\ rs[c].pinned} = {c \in On(ts, k) : ts[c].parent = Root /\ ts[c].pinned}
      /\ {c \in RepliesTo(rs, k) : rs[c].pinned} = {c \in RepliesTo(ts, k) : ts[c].pinned}
  BY <1>4, <1>5
<1> QED BY <1>4, <1>6 DEF Recomputed, CountOn, CountReplies

\* What a request sees is a table of rows.
LEMMA ViewType ==
  ASSUME TypeOK, NEW q \in Request, Active(q)
  PROVE  View(q) \in [Comment -> Row \cup {NoRow}]
BY DEF TypeOK, Active, View, Tx

-----------------------------------------------------------------------------
\* No comments, and zeros everywhere.
LEMMA InvInit == Init => Inv
<1> SUFFICES ASSUME Init PROVE Inv
  OBVIOUS
<1>1. TypeOK
  <2>1. Zero \in Counts
    BY DEF Zero, Counts
  <2>2. rows \in [Comment -> Row \cup {NoRow}] /\ count \in [Key -> Counts] /\ enabled \in SUBSET Key
    BY <2>1 DEF Init, NoRows
  <2>3. rowLock \in [Comment -> Request \cup {Free}] /\ metaLock \in [Key -> Request \cup {Free}]
    BY DEF Init
  <2>4. tx \in [Request -> Tx \cup {Idle}]
    BY DEF Init
  <2>5. made \in 0..MaxComments /\ requests \in Nat /\ adminRequests \in Nat
    BY BoundAssumption DEF Init
  <2>6. overlapped \in BOOLEAN /\ gone \in SUBSET Comment /\ stale \in SUBSET Key
    BY DEF Init
  <2> QED BY <2>2, <2>3, <2>4, <2>5, <2>6 DEF TypeOK
<1>2. RecountsHold
  BY DEF Init, RecountsHold, Active
<1>3. CountsExact
  <2> SUFFICES ASSUME NEW k \in Key PROVE count[k] = Recomputed(rows, k)
    BY DEF CountsExact
  <2>1. On(rows, k) = {} /\ RepliesTo(rows, k) = {}
    BY DEF Init, On, RepliesTo, Visible, NoRows
  <2>2. Cardinality({}) = 0
    BY FS_EmptySet
  <2>3. \A P \in SUBSET Comment : {c \in {} : c \in P} = {}
    OBVIOUS
  <2>4. /\ {c \in On(rows, k) : rows[c].parent # Root} = {}
        /\ {c \in On(rows, k) : rows[c].parent = Root /\ rows[c].pinned} = {}
        /\ {c \in RepliesTo(rows, k) : rows[c].pinned} = {}
    BY <2>1
  <2>5. Recomputed(rows, k) = Zero
    BY <2>1, <2>2, <2>4 DEF Recomputed, CountOn, CountReplies, Zero
  <2> QED BY <2>5 DEF Init
<1> QED BY <1>1, <1>2, <1>3 DEF Inv

\* A step of q that leaves rows, counts and the other requests alone, and gives no lock
\* of another request away, keeps what the others hold.
LEMMA OthersHold ==
  ASSUME Inv, NEW q \in Request, NEW o \in Request \ {q},
         rows' = rows, tx'[o] = tx[o],
         \A k \in Key : metaLock[k] = o => metaLock'[k] = o
  PROVE  Active(o)' => Holds(o)'
<1>1. /\ Active(o)' = Active(o) /\ Drafted(o)' = Drafted(o) /\ View(o)' = View(o)
      /\ Loaded(o)' = Loaded(o)
  BY DEF Active, Drafted, View, Loaded
<1>2. Drafted(o) \subseteq Key
  BY DEF Drafted
<1> SUFFICES ASSUME Active(o)' PROVE Holds(o)'
  OBVIOUS
<1>3. Holds(o)
  BY <1>1 DEF Inv, RecountsHold
<1> QED BY <1>1, <1>2, <1>3 DEF Holds

\* A request that begins has recounted nothing yet.
LEMMA BeginStep ==
  ASSUME Inv, NEW q \in Request, NEW op \in OpNames,
         NEW loaded \in [Comment -> Row \cup {NoRow}], NEW draft \in [Key -> Counts \cup {NoRow}],
         op # "enable" => draft = NoCounts,
         op = "delete" => \A c \in Comment : loaded[c] # NoRow => rows[c] # NoRow,
         Begin(q, op, loaded, draft), made' \in 0..MaxComments, adminRequests' \in Nat
  PROVE  Inv'
<1> DEFINE new == [op |-> op, sent |-> FALSE, loaded |-> loaded, written |-> NoRows,
                   left |-> {}, half |-> FALSE, draft |-> draft, sure |-> {}]
<1>1. new \in Tx /\ new.op = op /\ new.sure = {} /\ new.draft = draft /\ new.sent = FALSE /\ new.left = {}
      /\ new.loaded = loaded
  BY DEF Tx, NoRows
<1>2. /\ tx' = [tx EXCEPT ![q] = new] /\ requests' = requests + 1
      /\ overlapped' = (overlapped \/ \E o \in Request : Active(o))
      /\ UNCHANGED <<rows, count, enabled, rowLock, metaLock, gone, stale>>
  BY DEF Begin
<1> HIDE DEF new
<1>3. TypeOK'
  <2>1. tx' \in [Request -> Tx \cup {Idle}]
    BY <1>1, <1>2 DEF Inv, TypeOK
  <2>2. requests' \in Nat /\ overlapped' \in BOOLEAN
    BY <1>2 DEF Inv, TypeOK
  <2> QED BY <1>2, <2>1, <2>2 DEF Inv, TypeOK
<1>4. tx'[q] = new /\ \A o \in Request \ {q} : tx'[o] = tx[o]
  BY <1>2 DEF Inv, TypeOK
<1>5. RecountsHold'
  <2> SUFFICES ASSUME NEW o \in Request, Active(o)' PROVE Holds(o)'
    BY DEF RecountsHold
  <2>1. CASE o = q
    <3>1. tx'[q].op # "enable" => Drafted(q)' = {}
      BY <1>1, <1>4, <2>1 DEF Drafted, NoCounts
    <3>2. tx'[q].op = "delete" => \A c \in Loaded(q)' : rows'[c] # NoRow
      BY <1>1, <1>2, <1>4 DEF Loaded
    <3> QED BY <1>1, <1>4, <2>1, <3>1, <3>2 DEF Holds
  <2>2. CASE o # q
    BY <1>2, <1>4, <2>2, OthersHold
  <2> QED BY <2>1, <2>2
<1>6. CountsExact'
  BY <1>2 DEF Inv, CountsExact
<1> QED BY <1>3, <1>5, <1>6 DEF Inv

-----------------------------------------------------------------------------
\* Whatever a request loads, it begins with rows that are or could be in the table.
LEMMA StartStep ==
  ASSUME Inv, NEW q \in Request, Start(q)
  PROVE  Inv'
<1>1. NoCounts \in [Key -> Counts \cup {NoRow}]
  BY DEF NoCounts
<1>2. \A c \in Comment, row \in Row : Only(c, row) \in [Comment -> Row \cup {NoRow}]
  BY DEF Only, NoRows
<1>3. {"create", "save", "delete", "enable"} = OpNames
  BY DEF OpNames
<1>4. rows \in [Comment -> Row \cup {NoRow}] /\ made \in 0..MaxComments /\ adminRequests \in Nat
      /\ count \in [Key -> Counts]
  BY DEF Inv, TypeOK
<1>5. ASSUME NEW t \in Target, NEW p \in Comment \cup {Root}, CommentCreate(q, t, p) PROVE Inv'
  <2> DEFINE row == [target |-> t, parent |-> p, visible |-> TRUE, pinned |-> FALSE]
  <2>1. row \in Row
    BY DEF Row
  <2>2. made + 1 \in Comment /\ made' \in 0..MaxComments
    BY <1>4, <1>5, BoundAssumption DEF CommentCreate, Comment
  <2>3. Begin(q, "create", Only(made + 1, row), NoCounts) /\ adminRequests' = adminRequests
    BY <1>5 DEF CommentCreate
  <2>4. Only(made + 1, row) \in [Comment -> Row \cup {NoRow}]
    BY <1>2, <2>1, <2>2
  <2> HIDE DEF row
  <2> QED BY <1>1, <1>3, <1>4, <2>2, <2>3, <2>4, BeginStep
<1>6. ASSUME NEW c \in Comment, CommentUpdate(q, c) PROVE Inv'
  <2>1. Only(c, rows[c]) \in [Comment -> Row \cup {NoRow}]
    BY <1>2, <1>4, <1>6 DEF CommentUpdate
  <2> QED BY <1>1, <1>3, <1>4, <1>6, <2>1, BeginStep DEF CommentUpdate
<1>7. ASSUME NEW c \in Comment, CommentPin(q, c) PROVE Inv'
  <2>1. [rows[c] EXCEPT !.pinned = ~@] \in Row
    BY <1>4, <1>7 DEF CommentPin, Row
  <2>2. Only(c, [rows[c] EXCEPT !.pinned = ~@]) \in [Comment -> Row \cup {NoRow}]
    BY <1>2, <2>1
  <2> QED BY <1>1, <1>3, <1>4, <1>7, <2>2, BeginStep DEF CommentPin
<1>8. ASSUME NEW c \in Comment, CommentDelete(q, c) PROVE Inv'
  <2> DEFINE loaded == [d \in Comment |-> IF d \in Thread(rows, c) THEN rows[d] ELSE NoRow]
  <2>1. loaded \in [Comment -> Row \cup {NoRow}]
    BY <1>4
  <2>2. Begin(q, "delete", loaded, NoCounts) /\ UNCHANGED <<made, adminRequests>>
    BY <1>8 DEF CommentDelete
  <2>3. \A d \in Comment : loaded[d] # NoRow => rows[d] # NoRow
    OBVIOUS
  <2> HIDE DEF loaded
  <2> QED BY <1>1, <1>3, <1>4, <2>1, <2>2, <2>3, BeginStep
<1>9. ASSUME NEW c \in Comment, NEW row \in Row, AdminChange(q, c, row) PROVE Inv'
  <2>2. Only(c, row) \in [Comment -> Row \cup {NoRow}]
    BY <1>2
  <2>3. Begin(q, "save", Only(c, row), NoCounts) /\ adminRequests' = adminRequests + 1 /\ made' = made
    BY <1>9 DEF AdminChange
  <2>4. adminRequests' \in Nat /\ made' \in 0..MaxComments
    BY <1>4, <2>3
  <2> QED BY <1>1, <1>3, <2>2, <2>3, <2>4, BeginStep
<1>10. ASSUME NEW k \in Key, AdminEnable(q, k) PROVE Inv'
  <2>1. [NoCounts EXCEPT ![k] = count[k]] \in [Key -> Counts \cup {NoRow}]
    BY <1>1, <1>4
  <2>2. NoRows \in [Comment -> Row \cup {NoRow}]
    BY DEF NoRows
  <2>3. /\ Begin(q, "enable", NoRows, [NoCounts EXCEPT ![k] = count[k]])
        /\ adminRequests' \in Nat /\ made' \in 0..MaxComments
    BY <1>4, <1>10 DEF AdminEnable
  <2> QED BY <1>3, <2>1, <2>2, <2>3, BeginStep
<1> QED BY <1>5, <1>6, <1>7, <1>8, <1>9, <1>10 DEF Start

-----------------------------------------------------------------------------
\* A step of q that commits nothing keeps the invariant if it keeps q's part of it.
LEMMA UncommittedStep ==
  ASSUME Inv, TypeOK', NEW q \in Request,
         UNCHANGED <<rows, count, stale>>,
         \A o \in Request \ {q} : tx'[o] = tx[o],
         \A k \in Key : metaLock[k] \notin {q, Free} => metaLock'[k] = metaLock[k],
         Active(q)' => Holds(q)'
  PROVE  Inv'
<1>1. RecountsHold'
  <2> SUFFICES ASSUME NEW o \in Request, Active(o)' PROVE Holds(o)'
    BY DEF RecountsHold
  <2>1. CASE o = q
    BY <2>1
  <2>2. CASE o # q
    <3>1. o # Free
      BY NameAssumption
    <3>2. \A k \in Key : metaLock[k] = o => metaLock'[k] = o
      BY <2>2, <3>1
    <3>3. rows' = rows /\ tx'[o] = tx[o] /\ o \in Request \ {q}
      BY <2>2
    <3> QED BY <3>2, <3>3, OthersHold
  <2> QED BY <2>1, <2>2
<1>2. CountsExact'
  BY DEF Inv, CountsExact
<1> QED BY <1>1, <1>2 DEF Inv

\* The write of the comment rows comes before any recount.
LEMMA SendStep ==
  ASSUME Inv, NEW q \in Request, Active(q), tx[q].op # "enable", ~tx[q].sent,
         NEW written \in [Comment -> Row \cup {NoRow}], Send(q, written)
  PROVE  Inv'
<1>1. tx[q] \in Tx
  BY DEF Inv, TypeOK, Active
<1> DEFINE new == [tx[q] EXCEPT !.sent = TRUE, !.written = written, !.left = Loaded(q)]
<1>2. /\ new \in Tx /\ new.sent = TRUE /\ new.draft = tx[q].draft /\ new.sure = tx[q].sure
      /\ new.op = tx[q].op /\ new.left = Loaded(q) /\ new.loaded = tx[q].loaded
  BY <1>1 DEF Tx, Loaded
<1>3. /\ tx' = [tx EXCEPT ![q] = new]
      /\ rowLock' = [c \in Comment |-> IF c \in Loaded(q) THEN q ELSE rowLock[c]]
      /\ UNCHANGED <<rows, count, enabled, metaLock, made, requests, adminRequests, overlapped, gone, stale>>
  BY DEF Send, LockRows, Counters, Committed
<1> HIDE DEF new
<1>4. TypeOK'
  <2>1. tx' \in [Request -> Tx \cup {Idle}]
    BY <1>2, <1>3 DEF Inv, TypeOK
  <2>2. rowLock' \in [Comment -> Request \cup {Free}]
    BY <1>3 DEF Inv, TypeOK
  <2> QED BY <1>3, <2>1, <2>2 DEF Inv, TypeOK
<1>5. tx'[q] = new /\ \A o \in Request \ {q} : tx'[o] = tx[o]
  BY <1>3 DEF Inv, TypeOK
<1>6. tx[q].sure = {} /\ Drafted(q) = {}
  BY DEF Inv, RecountsHold, Holds
<1>7. Drafted(q)' = {} /\ tx'[q].sure = {} /\ tx'[q].sent
  BY <1>2, <1>5, <1>6 DEF Drafted
<1>8. tx'[q].left \subseteq Loaded(q)'
  BY <1>1, <1>2, <1>5 DEF Loaded
<1>9. tx'[q].op = "delete" => \A c \in Loaded(q)' : rows'[c] # NoRow
  <2>1. Holds(q)
    BY DEF Inv, RecountsHold
  <2>2. Loaded(q)' = Loaded(q)
    BY <1>2, <1>5 DEF Loaded
  <2> QED BY <1>2, <1>3, <1>5, <2>1, <2>2 DEF Holds
<1>10. Holds(q)'
  BY <1>7, <1>8, <1>9 DEF Holds
<1> QED BY <1>3, <1>4, <1>5, <1>10, UncommittedStep

\* A recount is of the rows as the request sees them, under a lock that it now holds.
LEMMA RecountStep ==
  ASSUME Inv, NEW q \in Request, NEW c \in Comment, Recount(q, c)
  PROVE  Inv'
<1> DEFINE k == NextKey(q, c)
           new == Recounted(q, c)
<1>1. tx[q] \in Tx /\ Active(q) /\ c \in tx[q].left /\ Holds(q)
  BY DEF Recount, NextInstance, Inv, TypeOK, Active, RecountsHold
<1>2. k \in Key
  BY <1>1 DEF Holds, Loaded, Tx, NextKey, AtParent, Key, Row
<1>3. View(q) \in [Comment -> Row \cup {NoRow}]
  BY <1>1, ViewType DEF Inv
<1>4. Recomputed(View(q), k) \in Counts
  BY <1>2, <1>3, RecomputedType
<1> DEFINE n == Recomputed(View(q), k)
<1>5. /\ new.op = tx[q].op /\ new.sent = tx[q].sent /\ new.loaded = tx[q].loaded
      /\ new.written = tx[q].written /\ new.left \subseteq tx[q].left
      /\ new.draft = [tx[q].draft EXCEPT ![k] = n] /\ new.sure = tx[q].sure \cup {k}
      /\ new \in Tx
  BY <1>1, <1>2, <1>4 DEF Recounted, Tx, AtParent
<1>6. /\ tx' = [tx EXCEPT ![q] = new] /\ metaLock' = [metaLock EXCEPT ![k] = q]
      /\ metaLock[k] \in {Free, q}
      /\ UNCHANGED <<rows, count, enabled, rowLock, made, requests, adminRequests, overlapped, gone, stale>>
  BY DEF Recount, CanLock, Counters, Committed
<1> HIDE DEF k, new, n
<1>7. TypeOK'
  <2>1. tx' \in [Request -> Tx \cup {Idle}]
    BY <1>5, <1>6 DEF Inv, TypeOK
  <2>2. metaLock' \in [Key -> Request \cup {Free}]
    BY <1>6 DEF Inv, TypeOK
  <2> QED BY <1>6, <2>1, <2>2 DEF Inv, TypeOK
<1>8. tx'[q] = new /\ \A o \in Request \ {q} : tx'[o] = tx[o]
  BY <1>6 DEF Inv, TypeOK
<1>9. /\ metaLock'[k] = q
      /\ \A j \in Key : j # k => metaLock'[j] = metaLock[j]
  BY <1>2, <1>6 DEF Inv, TypeOK
<1>10. View(q)' = View(q) /\ Loaded(q)' = Loaded(q)
  BY <1>5, <1>6, <1>8 DEF View, Loaded
<1>11. /\ tx'[q].draft[k] = n
       /\ \A j \in Key : j # k => tx'[q].draft[j] = tx[q].draft[j]
  BY <1>1, <1>2, <1>5, <1>8 DEF Tx
<1>12. Drafted(q)' = Drafted(q) \cup {k}
  <2>1. n # NoRow
    BY <1>4, NoRowAssumption DEF n
  <2> QED BY <1>2, <1>11, <2>1 DEF Drafted
<1>13. Holds(q)'
  <2>1. tx'[q].left \subseteq Loaded(q)'
    BY <1>1, <1>5, <1>8, <1>10 DEF Holds
  <2>2. ASSUME tx'[q].op # "enable"
        PROVE  /\ tx[q].sure \subseteq Drafted(q) /\ \A j \in Drafted(q) : metaLock[j] = q
               /\ \A j \in tx[q].sure : tx[q].draft[j] = Recomputed(View(q), j)
               /\ tx'[q].sent /\ tx[q].sure \subseteq Key /\ Drafted(q) \subseteq Key
    BY <1>1, <1>5, <1>8, <2>2 DEF Holds, Tx, Drafted
  <2>3. ASSUME tx'[q].op # "enable" PROVE \A j \in tx'[q].sure : tx'[q].draft[j] = Recomputed(View(q)', j)
    BY <1>5, <1>8, <1>10, <1>11, <2>2, <2>3 DEF n
  <2>4. tx'[q].op = "delete" => \A d \in Loaded(q)' : rows'[d] # NoRow
    BY <1>1, <1>5, <1>6, <1>8, <1>10 DEF Holds
  <2> QED BY <1>5, <1>8, <1>9, <1>12, <2>1, <2>2, <2>3, <2>4 DEF Holds
<1> QED BY <1>6, <1>7, <1>8, <1>9, <1>13, UncommittedStep

\* The admin site's save of a metadata row is not a recount.
LEMMA SaveMetadataStep ==
  ASSUME Inv, NEW q \in Request, SaveMetadata(q)
  PROVE  Inv'
<1> DEFINE new == [tx[q] EXCEPT !.sent = TRUE]
<1>1. tx[q] \in Tx /\ Active(q) /\ tx[q].op = "enable" /\ Holds(q)
  BY DEF SaveMetadata, Inv, TypeOK, Active, RecountsHold
<1>2. new \in Tx /\ new.op = "enable" /\ new.left = tx[q].left /\ new.loaded = tx[q].loaded
  BY <1>1 DEF Tx
<1>3. /\ tx' = [tx EXCEPT ![q] = new]
      /\ metaLock' = [k \in Key |-> IF k \in Drafted(q) THEN q ELSE metaLock[k]]
      /\ \A k \in Drafted(q) : metaLock[k] \in {Free, q}
      /\ UNCHANGED <<rows, count, enabled, rowLock, made, requests, adminRequests, overlapped, gone, stale>>
  BY DEF SaveMetadata, CanLock, Counters, Committed
<1> HIDE DEF new
<1>4. TypeOK'
  <2>1. tx' \in [Request -> Tx \cup {Idle}]
    BY <1>2, <1>3 DEF Inv, TypeOK
  <2>2. metaLock' \in [Key -> Request \cup {Free}]
    BY <1>3 DEF Inv, TypeOK
  <2> QED BY <1>3, <2>1, <2>2 DEF Inv, TypeOK
<1>5. tx'[q] = new /\ \A o \in Request \ {q} : tx'[o] = tx[o]
  BY <1>3 DEF Inv, TypeOK
<1>6. Holds(q)'
  BY <1>1, <1>2, <1>5 DEF Holds, Loaded
<1> QED BY <1>3, <1>4, <1>5, <1>6, UncommittedStep

\* What the end of a transaction does to the locks.
LEMMA ReleaseLocks ==
  ASSUME TypeOK, NEW q \in Request, Release(q)
  PROVE  /\ rowLock' \in [Comment -> Request \cup {Free}] /\ metaLock' \in [Key -> Request \cup {Free}]
         /\ \A k \in Key : metaLock[k] # q => metaLock'[k] = metaLock[k]
         /\ UNCHANGED <<made, requests, adminRequests, overlapped>>
BY DEF Release, TypeOK, Counters

\* A transaction that is rolled back leaves nothing behind.
LEMMA RollBackStep ==
  ASSUME Inv, NEW q \in Request, RollBack(q)
  PROVE  Inv'
<1>1. /\ tx' = [tx EXCEPT ![q] = Idle] /\ Release(q)
      /\ UNCHANGED <<rows, count, enabled, gone, stale>>
  BY DEF RollBack, Committed
<1>2. TypeOK /\ tx' \in [Request -> Tx \cup {Idle}]
  BY <1>1 DEF Inv, TypeOK
<1>3. TypeOK'
  BY <1>1, <1>2, ReleaseLocks DEF TypeOK
<1>4. tx'[q] = Idle /\ \A o \in Request \ {q} : tx'[o] = tx[o]
  BY <1>1, <1>2 DEF TypeOK
<1>5. ~Active(q)'
  BY <1>4 DEF Active
<1>6. \A k \in Key : metaLock[k] \notin {q, Free} => metaLock'[k] = metaLock[k]
  BY <1>1, <1>2, ReleaseLocks
<1> QED BY <1>1, <1>3, <1>4, <1>5, <1>6, UncommittedStep

\* The admin site writes a count that is still there, or leaves a stale one behind.
LEMMA CommitMetadataStep ==
  ASSUME Inv, NEW q \in Request, CommitMetadata(q)
  PROVE  Inv'
<1>1. /\ tx' = [tx EXCEPT ![q] = Idle] /\ Release(q) /\ UNCHANGED <<rows, gone>>
      /\ count' = [k \in Key |-> IF k \in Drafted(q) THEN tx[q].draft[k] ELSE count[k]]
      /\ enabled' \in {enabled \cup Drafted(q), enabled \ Drafted(q)}
      /\ stale' = stale \cup {k \in Drafted(q) : tx[q].draft[k] # count[k]}
  BY DEF CommitMetadata
<1>2. /\ TypeOK /\ tx' \in [Request -> Tx \cup {Idle}] /\ tx[q] \in Tx
      /\ Drafted(q) \subseteq Key
  BY <1>1 DEF Inv, TypeOK, CommitMetadata, Active, Drafted
<1>3. \A k \in Drafted(q) : tx[q].draft[k] \in Counts
  BY <1>2 DEF Drafted, Tx
<1>4. TypeOK'
  <2>1. count' \in [Key -> Counts] /\ enabled' \in SUBSET Key /\ stale' \in SUBSET Key
    BY <1>1, <1>2, <1>3 DEF TypeOK
  <2>2. rows' \in [Comment -> Row \cup {NoRow}] /\ gone' \in SUBSET Comment
    BY <1>1, <1>2 DEF TypeOK
  <2>3. made' \in 0..MaxComments /\ requests' \in Nat /\ adminRequests' \in Nat /\ overlapped' \in BOOLEAN
        /\ rowLock' \in [Comment -> Request \cup {Free}] /\ metaLock' \in [Key -> Request \cup {Free}]
    BY <1>1, <1>2, ReleaseLocks DEF TypeOK
  <2> QED BY <1>2, <2>1, <2>2, <2>3 DEF TypeOK
<1>5. tx'[q] = Idle /\ \A o \in Request \ {q} : tx'[o] = tx[o]
  BY <1>1, <1>2 DEF TypeOK
<1>6. RecountsHold'
  <2> SUFFICES ASSUME NEW o \in Request, Active(o)' PROVE Holds(o)'
    BY DEF RecountsHold
  <2>1. o \in Request \ {q} /\ tx'[o] = tx[o] /\ rows' = rows
    BY <1>1, <1>5 DEF Active
  <2>2. \A k \in Key : metaLock[k] = o => metaLock'[k] = o
    BY <1>1, <1>2, <2>1, ReleaseLocks
  <2> QED BY <2>1, <2>2, OthersHold
<1>7. CountsExact'
  <2> SUFFICES ASSUME NEW k \in Key \ stale' PROVE count'[k] = Recomputed(rows', k)
    BY DEF CountsExact
  <2>1. k \in Key \ stale /\ count'[k] = count[k]
    BY <1>1
  <2> QED BY <1>1, <2>1 DEF Inv, CountsExact
<1> QED BY <1>4, <1>6, <1>7 DEF Inv

-----------------------------------------------------------------------------
\* The commit of q leaves the recounts of another request o right, but for the keys that
\* q has changed without recounting them.
LEMMA OvertakenRecounts ==
  ASSUME Inv, NEW q \in Request, Commit(q), NEW o \in Request \ {q}, Active(o)'
  PROVE  Holds(o)'
<1>1. /\ Active(q) /\ Active(o) /\ tx[q].op # "enable" /\ rows' = View(q) /\ Release(q)
      /\ tx'[o] = [tx[o] EXCEPT !.sure = @ \ Skipped(q)]
  BY DEF Commit, Active
<1>2. TypeOK /\ tx[o] \in Tx /\ tx[q] \in Tx /\ Holds(o) /\ Holds(q)
  BY <1>1 DEF Inv, TypeOK, Active, RecountsHold
<1>3. /\ tx'[o].op = tx[o].op /\ tx'[o].sent = tx[o].sent /\ tx'[o].loaded = tx[o].loaded
      /\ tx'[o].written = tx[o].written /\ tx'[o].left = tx[o].left /\ tx'[o].draft = tx[o].draft
      /\ tx'[o].sure = tx[o].sure \ Skipped(q)
  BY <1>1, <1>2 DEF Tx
<1>4. Drafted(o)' = Drafted(o) /\ Loaded(o)' = Loaded(o) /\ Drafted(o) \subseteq Key /\ Drafted(q) \subseteq Key
  BY <1>3 DEF Drafted, Loaded
<1> SUFFICES ASSUME tx'[o].op # "enable"
             PROVE  /\ \A k \in Drafted(o) : metaLock'[k] = o
                    /\ \A k \in tx[o].sure \ Skipped(q) : tx[o].draft[k] = Recomputed(View(o)', k)
  <2>1. tx'[o].op = "delete" => \A c \in Loaded(o)' : rows'[c] # NoRow
    BY <1>1, <1>2, <1>3, <1>4 DEF Holds, View, Loaded
  <2> QED BY <1>2, <1>3, <1>4, <2>1 DEF Holds
<1>5. \A k \in Drafted(o) : metaLock'[k] = o /\ k \notin Drafted(q)
  BY <1>1, <1>2, <1>3, <1>4, ReleaseLocks DEF Holds
<1>6. ASSUME NEW k \in tx[o].sure \ Skipped(q) PROVE tx[o].draft[k] = Recomputed(View(o)', k)
  <2>1. k \in Key /\ k \in Drafted(o) /\ tx[o].draft[k] = Recomputed(View(o), k)
    BY <1>2, <1>3, <1>4, <1>6 DEF Holds
  <2>2. \A c \in Written(q) : k \notin KeySet(rows[c]) \cup KeySet(tx[q].written[c])
    <3> DEFINE changed == UNION {KeySet(rows[c]) \cup KeySet(tx[q].written[c]) : c \in Written(q)}
    <3>1. Skipped(q) = changed \ Drafted(q)
      BY DEF Skipped
    <3>2. \A c \in Written(q) : KeySet(rows[c]) \cup KeySet(tx[q].written[c]) \subseteq changed
      OBVIOUS
    <3> HIDE DEF changed
    <3> QED BY <1>5, <1>6, <2>1, <3>1, <3>2
  <2>3. /\ View(o) \in [Comment -> Row \cup {NoRow}] /\ rows' \in [Comment -> Row \cup {NoRow}]
        /\ rows \in [Comment -> Row \cup {NoRow}]
    BY <1>1, <1>2, ViewType DEF TypeOK
  <2>4. View(o)' = [c \in Comment |-> IF tx[o].written[c] # NoRow THEN tx[o].written[c] ELSE rows'[c]]
    BY <1>3 DEF View
  <2>5. View(o)' \in [Comment -> Row \cup {NoRow}]
    BY <1>2, <2>3, <2>4 DEF Tx
  <2>6. ASSUME NEW c \in Comment
        PROVE  View(o)[c] = View(o)'[c] \/ k \notin KeySet(View(o)[c]) \cup KeySet(View(o)'[c])
    <3>1. CASE tx[o].written[c] # NoRow
      BY <2>4, <3>1 DEF View
    <3>2. CASE tx[o].written[c] = NoRow
      <4>1. View(o)[c] = rows[c] /\ View(o)'[c] = rows'[c]
        BY <2>4, <3>2 DEF View
      <4>2. CASE c \in Written(q)
        <5>1. rows'[c] = tx[q].written[c]
          BY <1>1, <4>2 DEF View, Written
        <5> QED BY <2>2, <4>1, <4>2, <5>1
      <4>3. CASE c \notin Written(q)
        BY <1>1, <4>1, <4>3 DEF View, Written
      <4> QED BY <4>2, <4>3
    <3> QED BY <3>1, <3>2
  <2>7. Recomputed(View(o), k) = Recomputed(View(o)', k)
    BY <2>1, <2>3, <2>5, <2>6, RecomputedLocal
  <2> QED BY <2>1, <2>7
<1> QED BY <1>5, <1>6

\* What the commit of q writes: the rows as q sees them, and for every key that it does
\* not leave behind the count of these rows.
LEMMA CommitStep ==
  ASSUME Inv, NEW q \in Request, Commit(q)
  PROVE  Inv'
<1> DEFINE doomed == IF tx[q].op = "delete" THEN Loaded(q) ELSE {}
<1>1. /\ Active(q) /\ tx[q].op # "enable" /\ rows' = View(q) /\ Release(q)
      /\ count' = [k \in Key |-> IF k \in doomed THEN Zero
                                 ELSE IF k \in Drafted(q) THEN tx[q].draft[k] ELSE count[k]]
      /\ enabled' = enabled \cup doomed
      /\ gone' = gone \cup doomed \cup UNION {Thread(rows, d) : d \in doomed}
      /\ stale' = (stale \ tx[q].sure) \cup (Drafted(q) \ tx[q].sure) \cup Skipped(q) \cup doomed
      /\ tx' = [o \in Request |-> IF o = q \/ ~Active(o) THEN Idle
                                  ELSE [tx[o] EXCEPT !.sure = @ \ Skipped(q)]]
  BY DEF Commit
<1>2. TypeOK /\ tx[q] \in Tx /\ Holds(q)
  BY <1>1 DEF Inv, TypeOK, Active, RecountsHold
<1>3. doomed \subseteq Comment /\ Drafted(q) \subseteq Key /\ doomed \subseteq Key
  BY DEF Loaded, Drafted, Key
<1>4. /\ rows \in [Comment -> Row \cup {NoRow}] /\ rows' \in [Comment -> Row \cup {NoRow}]
  BY <1>1, <1>2, ViewType DEF TypeOK
<1> HIDE DEF doomed
<1>5. Skipped(q) \subseteq Key
  <2> SUFFICES ASSUME NEW c \in Written(q), NEW k \in KeySet(rows[c]) \cup KeySet(tx[q].written[c])
               PROVE  k \in Key
    BY DEF Skipped
  <2>1. rows[c] \in Row \cup {NoRow} /\ tx[q].written[c] \in Row \cup {NoRow}
    BY <1>2, <1>4 DEF Written, Tx
  <2> QED BY <2>1 DEF KeySet, Row, Key
<1>6. TypeOK'
  <2>1. \A k \in Drafted(q) : tx[q].draft[k] \in Counts
    BY <1>2 DEF Drafted, Tx
  <2>2. Zero \in Counts
    BY DEF Zero, Counts
  <2>3. count' \in [Key -> Counts]
    BY <1>1, <1>2, <2>1, <2>2 DEF TypeOK
  <2>4. \A d \in doomed : Thread(rows, d) \subseteq Comment
    BY DEF Thread
  <2>5. enabled' \in SUBSET Key /\ gone' \in SUBSET Comment /\ stale' \in SUBSET Key
    BY <1>1, <1>2, <1>3, <1>5, <2>4 DEF TypeOK
  <2>6. \A o \in Request : Active(o) => [tx[o] EXCEPT !.sure = @ \ Skipped(q)] \in Tx
    BY <1>2 DEF TypeOK, Active, Tx
  <2>7. tx' \in [Request -> Tx \cup {Idle}]
    BY <1>1, <2>6
  <2>8. made' \in 0..MaxComments /\ requests' \in Nat /\ adminRequests' \in Nat /\ overlapped' \in BOOLEAN
        /\ rowLock' \in [Comment -> Request \cup {Free}] /\ metaLock' \in [Key -> Request \cup {Free}]
    BY <1>1, <1>2, ReleaseLocks DEF TypeOK
  <2> QED BY <1>4, <2>3, <2>5, <2>7, <2>8 DEF TypeOK
<1>7. RecountsHold'
  <2> SUFFICES ASSUME NEW o \in Request, Active(o)' PROVE Holds(o)'
    BY DEF RecountsHold
  <2>1. o # q
    BY <1>1 DEF Active
  <2> QED BY <2>1, OvertakenRecounts
<1>8. CountsExact'
  <2> SUFFICES ASSUME NEW k \in Key \ stale' PROVE count'[k] = Recomputed(rows', k)
    BY DEF CountsExact
  <2>1. k \notin doomed /\ k \notin Skipped(q)
    BY <1>1
  <2>2. CASE k \in tx[q].sure
    BY <1>1, <1>2, <2>1, <2>2 DEF Holds
  <2>3. CASE k \notin tx[q].sure
    <3>1. k \in Key \ stale /\ k \notin Drafted(q)
      BY <1>1, <2>3
    <3>2. count'[k] = count[k] /\ count[k] = Recomputed(rows, k)
      BY <1>1, <2>1, <3>1 DEF Inv, CountsExact
    <3>3. \A c \in Written(q) : k \notin KeySet(rows[c]) \cup KeySet(tx[q].written[c])
      <4> DEFINE changed == UNION {KeySet(rows[c]) \cup KeySet(tx[q].written[c]) : c \in Written(q)}
      <4>1. Skipped(q) = changed \ Drafted(q)
        BY DEF Skipped
      <4>2. \A c \in Written(q) : KeySet(rows[c]) \cup KeySet(tx[q].written[c]) \subseteq changed
        OBVIOUS
      <4> HIDE DEF changed
      <4> QED BY <2>1, <3>1, <4>1, <4>2
    <3>4. \A c \in Comment : \/ rows[c] = rows'[c]
                             \/ k \notin KeySet(rows[c]) \cup KeySet(rows'[c])
      BY <1>1, <3>3 DEF View, Written
    <3>5. Recomputed(rows, k) = Recomputed(rows', k)
      BY <1>4, <3>1, <3>4, RecomputedLocal
    <3> QED BY <3>2, <3>5
  <2> QED BY <2>2, <2>3
<1> QED BY <1>6, <1>7, <1>8 DEF Inv

-----------------------------------------------------------------------------
\* Every step keeps the invariant.
LEMMA InvStep == Inv /\ [Next]_vars => Inv'
<1> SUFFICES ASSUME Inv, [Next]_vars PROVE Inv'
  OBVIOUS
<1>1. CASE UNCHANGED vars
  BY <1>1 DEF Inv, TypeOK, RecountsHold, Holds, CountsExact, vars, Active, Loaded, Drafted, View
<1>2. ASSUME NEW q \in Request, SaveComment(q) PROVE Inv'
  <2>1. Active(q) /\ tx[q].op # "enable" /\ ~tx[q].sent /\ Send(q, tx[q].loaded)
    BY <1>2 DEF SaveComment
  <2>2. tx[q].loaded \in [Comment -> Row \cup {NoRow}]
    BY <2>1 DEF Inv, TypeOK, Active, Tx
  <2> QED BY <2>1, <2>2, SendStep
<1>3. ASSUME NEW q \in Request, SoftDelete(q) PROVE Inv'
  <2> DEFINE written == [c \in Comment |-> IF c \in Loaded(q) THEN [rows[c] EXCEPT !.visible = FALSE]
                                                             ELSE NoRow]
  <2>1. Active(q) /\ tx[q].op = "delete" /\ ~tx[q].sent /\ Send(q, written)
    BY <1>3 DEF SoftDelete
  <2>2. \A c \in Loaded(q) : rows[c] \in Row
    BY <2>1 DEF Inv, TypeOK, RecountsHold, Holds, Loaded
  <2>3. \A c \in Loaded(q) : [rows[c] EXCEPT !.visible = FALSE] \in Row
    BY <2>2 DEF Row
  <2>4. written \in [Comment -> Row \cup {NoRow}]
    BY <2>3
  <2> HIDE DEF written
  <2> QED BY <2>1, <2>4, SendStep
<1>4. CASE Next
  <2>1. PICK q \in Request : Start(q) \/ Statement(q)
    BY <1>4 DEF Next
  <2> QED BY <1>2, <1>3, <2>1, StartStep, RecountStep, SaveMetadataStep, CommitStep, CommitMetadataStep,
             RollBackStep DEF Statement
<1> QED BY <1>1, <1>4

\* Every state of the comments is well typed.
THEOREM CommentsTypeCorrect == Spec => []TypeOK
<1>1. Inv => TypeOK
  BY DEF Inv
<1> QED BY <1>1, InvInit, InvStep, PTL DEF Spec

\* The committed comments_count of a target or comment is that of its visible comments,
\* however many requests overlap, wait, fail and write stale rows; only a key that a
\* commit has left behind is excepted, until it is recounted.
THEOREM CommentCountsExact == Spec => []CountsExact
<1>1. Inv => CountsExact
  BY DEF Inv
<1> QED BY <1>1, InvInit, InvStep, PTL DEF Spec

-----------------------------------------------------------------------------
(* Without the admin site, a request recounts all that it changes.         *)

\* What a request in flight loads, writes and recounts, when no row changes its thread.
Tidy(q) ==
  /\ tx[q].op # "enable"
  /\ Drafted(q) \subseteq tx[q].sure
  /\ \A c \in Written(q) : c \in Loaded(q) /\ KeySet(tx[q].written[c]) = KeySet(tx[q].loaded[c])
  /\ \A c \in Loaded(q) : c <= made /\ (IF tx[q].op = "create" THEN rows[c] = NoRow
                            ELSE rows[c] # NoRow /\ KeySet(rows[c]) = KeySet(tx[q].loaded[c]))
  /\ tx[q].sent => \A c \in Loaded(q) : c \in tx[q].left \/ KeySet(tx[q].loaded[c]) \subseteq Drafted(q)
  /\ ~tx[q].sent => ~tx[q].half
  /\ tx[q].half => \A c \in Comment : NextInstance(q, c) => tx[q].loaded[c].parent \in Drafted(q)

\* A primary key is given to one new comment.
OwnKeys == \A q, o \in Request : q # o /\ Active(q) /\ Active(o) /\ tx[q].op = "create" =>
  Loaded(q) \cap Loaded(o) = {}

Settled == adminRequests = 0 =>
  /\ \A c \in Comment : rows[c] # NoRow => c <= made
  /\ \A q \in Request : Active(q) => Tidy(q)
  /\ OwnKeys
  /\ stale \subseteq gone

\* The two invariants together.
Inv2 == Inv /\ Settled

\* At the start nothing is in flight.
LEMMA SettledInit == Init => Settled
BY DEF Init, Settled, OwnKeys, Active, NoRows

\* A step that commits nothing and changes no other request keeps Settled if it keeps
\* q's part of it.
LEMMA SettledStep ==
  ASSUME Inv2, NEW q \in Request, adminRequests = 0,
         UNCHANGED <<rows, gone, stale>>, made \in Nat, made' \in Nat, made' >= made,
         \A o \in Request \ {q} : tx'[o] = tx[o],
         Active(q)' => Tidy(q)',
         \A o \in Request \ {q} : Active(q)' /\ Active(o) /\ "create" \in {tx'[q].op, tx[o].op} =>
            Loaded(q)' \cap Loaded(o) = {}
  PROVE  Settled'
<1>1. \A o \in Request \ {q} : /\ Active(o)' = Active(o) /\ Drafted(o)' = Drafted(o)
                               /\ Loaded(o)' = Loaded(o) /\ Written(o)' = Written(o)
                               /\ \A c \in Comment : NextInstance(o, c)' = NextInstance(o, c)
  BY DEF Active, Drafted, Loaded, Written, NextInstance
<1>2. ASSUME NEW o \in Request, Active(o)' PROVE Tidy(o)'
  <2>1. CASE o = q
    BY <1>2, <2>1
  <2>2. CASE o # q
    <3>1. Tidy(o) /\ tx'[o] = tx[o] /\ rows' = rows
      BY <1>1, <1>2, <2>2 DEF Inv2, Settled
    <3>2. \A c \in Loaded(o) : c <= made'
      BY <3>1 DEF Tidy, Loaded, Comment
    <3> QED BY <1>1, <2>2, <3>1, <3>2 DEF Tidy
  <2> QED BY <2>1, <2>2
<1>3. OwnKeys'
  <2> SUFFICES ASSUME NEW a \in Request, NEW b \in Request, a # b, Active(a)', Active(b)', tx'[a].op = "create"
               PROVE  Loaded(a)' \cap Loaded(b)' = {}
    BY DEF OwnKeys
  <2>1. CASE a = q
    BY <1>1, <2>1
  <2>2. CASE b = q
    BY <1>1, <2>2
  <2>3. CASE a # q /\ b # q
    BY <1>1, <2>3 DEF Inv2, Settled, OwnKeys
  <2> QED BY <2>1, <2>2, <2>3
<1>4. \A c \in Comment : rows'[c] # NoRow => c <= made'
  BY DEF Inv2, Settled, Comment
<1> QED BY <1>2, <1>3, <1>4 DEF Inv2, Settled

\* A mutation begins with rows of the table, or with a new primary key.
LEMMA SettledBegin ==
  ASSUME Inv2, NEW q \in Request, NEW op \in {"create", "save", "delete"},
         NEW loaded \in [Comment -> Row \cup {NoRow}],
         adminRequests = 0, made' \in Nat, made' >= made, Begin(q, op, loaded, NoCounts),
         \A c \in Comment : loaded[c] # NoRow =>
           c <= made' /\ (IF op = "create" THEN c > made
                          ELSE rows[c] # NoRow /\ KeySet(rows[c]) = KeySet(loaded[c]))
  PROVE  Settled'
<1> DEFINE new == [op |-> op, sent |-> FALSE, loaded |-> loaded, written |-> NoRows,
                   left |-> {}, half |-> FALSE, draft |-> NoCounts, sure |-> {}]
<1>1. /\ tx' = [tx EXCEPT ![q] = new] /\ UNCHANGED <<rows, gone, stale>>
  BY DEF Begin
<1>2. tx'[q] = new /\ \A o \in Request \ {q} : tx'[o] = tx[o]
  BY <1>1 DEF Inv2, Inv, TypeOK
<1>3. Drafted(q)' = {} /\ Written(q)' = {} /\ Loaded(q)' = {c \in Comment : loaded[c] # NoRow}
  BY <1>2 DEF Drafted, Written, Loaded, NoCounts, NoRows
<1>4. made \in Nat
  BY BoundAssumption DEF Inv2, Inv, TypeOK
<1>5. \A c \in Comment : rows[c] # NoRow => c <= made
  BY DEF Inv2, Settled
<1>6. Tidy(q)'
  <2>1. \A c \in Loaded(q)' : /\ c <= made'
                              /\ IF op = "create" THEN rows'[c] = NoRow
                                 ELSE rows'[c] # NoRow /\ KeySet(rows'[c]) = KeySet(loaded[c])
    BY <1>1, <1>3, <1>4, <1>5 DEF Comment
  <2> QED BY <1>2, <1>3, <2>1 DEF Tidy
<1>7. ASSUME NEW o \in Request \ {q}, Active(o), "create" \in {op, tx[o].op}
      PROVE  Loaded(q)' \cap Loaded(o) = {}
  <2> SUFFICES ASSUME NEW c \in Loaded(q)', c \in Loaded(o) PROVE FALSE
    OBVIOUS
  <2>1. Tidy(o) /\ c \in Comment
    BY <1>7 DEF Inv2, Settled, Loaded
  <2>2. c <= made
    BY <2>1 DEF Tidy
  <2>3. op # "create"
    BY <1>3, <1>4, <2>1, <2>2 DEF Comment
  <2> QED BY <1>3, <1>7, <2>1, <2>3 DEF Tidy
<1> QED BY <1>1, <1>2, <1>4, <1>6, <1>7, SettledStep

\* Every request that begins keeps Settled; one of the admin site ends its premise.
LEMMA SettledStart ==
  ASSUME Inv2, NEW q \in Request, Start(q), adminRequests' = 0
  PROVE  Settled'
<1>1. /\ rows \in [Comment -> Row \cup {NoRow}] /\ made \in Nat /\ adminRequests \in Nat
      /\ \A c \in Comment : rows[c] # NoRow => c <= made
  <2>1. rows \in [Comment -> Row \cup {NoRow}] /\ made \in Nat /\ adminRequests \in Nat
    BY BoundAssumption DEF Inv2, Inv, TypeOK
  <2>2. CASE adminRequests' = adminRequests
    BY <2>1, <2>2 DEF Inv2, Settled
  <2>3. CASE adminRequests' = adminRequests + 1
    BY <2>1, <2>3
  <2>4. adminRequests' \in {adminRequests, adminRequests + 1}
    <3>1. ASSUME NEW t \in Target, NEW p \in Comment \cup {Root}, CommentCreate(q, t, p)
          PROVE  adminRequests' = adminRequests
      BY <3>1 DEF CommentCreate
    <3>2. ASSUME NEW c \in Comment, CommentUpdate(q, c) \/ CommentPin(q, c) \/ CommentDelete(q, c)
          PROVE  adminRequests' = adminRequests
      BY <3>2 DEF CommentUpdate, CommentPin, CommentDelete
    <3>3. ASSUME NEW c \in Comment, NEW row \in Row, AdminChange(q, c, row)
          PROVE  adminRequests' = adminRequests + 1
      BY <3>3 DEF AdminChange
    <3>4. ASSUME NEW k \in Key, AdminEnable(q, k) PROVE adminRequests' = adminRequests + 1
      BY <3>4 DEF AdminEnable
    <3> QED BY <3>1, <3>2, <3>3, <3>4 DEF Start
  <2> QED BY <2>1, <2>2, <2>3, <2>4
<1>2. \A c \in Comment, row \in Row :
        /\ Only(c, row) \in [Comment -> Row \cup {NoRow}] /\ Only(c, row)[c] = row
        /\ \A d \in Comment : Only(c, row)[d] # NoRow => d = c
  BY DEF Only, NoRows
<1>3. ASSUME NEW t \in Target, NEW p \in Comment \cup {Root}, CommentCreate(q, t, p) PROVE Settled'
  <2> DEFINE row == [target |-> t, parent |-> p, visible |-> TRUE, pinned |-> FALSE]
  <2>1. row \in Row
    BY DEF Row
  <2>2. made + 1 \in Comment /\ made' = made + 1
    BY <1>1, <1>3, BoundAssumption DEF CommentCreate, Comment
  <2>3. Begin(q, "create", Only(made + 1, row), NoCounts) /\ adminRequests = 0
    BY <1>3 DEF CommentCreate
  <2> HIDE DEF row
  <2>4. Only(made + 1, row) \in [Comment -> Row \cup {NoRow}]
    BY <1>2, <2>1, <2>2
  <2>5. \A c \in Comment : Only(made + 1, row)[c] # NoRow => c <= made' /\ c > made
    BY <1>1, <1>2, <2>1, <2>2
  <2>6. made' \in Nat /\ made' >= made
    BY <1>1, <2>2
  <2> QED BY <2>3, <2>4, <2>5, <2>6, SettledBegin
<1>4. ASSUME NEW c \in Comment, rows[c] # NoRow, NEW row \in Row, KeySet(rows[c]) = KeySet(row),
             Begin(q, "save", Only(c, row), NoCounts), UNCHANGED <<made, adminRequests>>
      PROVE  Settled'
  <2>1. Only(c, row) \in [Comment -> Row \cup {NoRow}]
    BY <1>2
  <2>2. \A d \in Comment : Only(c, row)[d] # NoRow =>
          d <= made' /\ rows[d] # NoRow /\ KeySet(rows[d]) = KeySet(Only(c, row)[d])
    BY <1>1, <1>2, <1>4
  <2>3. made' \in Nat /\ made' >= made /\ adminRequests = 0
    BY <1>1, <1>4
  <2> QED BY <1>4, <2>1, <2>2, <2>3, SettledBegin
<1>5. ASSUME NEW c \in Comment, CommentUpdate(q, c) PROVE Settled'
  <2>1. rows[c] \in Row
    BY <1>1, <1>5 DEF CommentUpdate
  <2> QED BY <1>4, <1>5, <2>1 DEF CommentUpdate
<1>6. ASSUME NEW c \in Comment, CommentPin(q, c) PROVE Settled'
  <2> DEFINE row == [rows[c] EXCEPT !.pinned = ~@]
  <2>1. rows[c] \in Row /\ row \in Row /\ row.parent = rows[c].parent /\ row.target = rows[c].target
    BY <1>1, <1>6 DEF CommentPin, Row
  <2>2. KeySet(rows[c]) = KeySet(row)
    BY <2>1, NoRowAssumption DEF KeySet
  <2>3. rows[c] # NoRow /\ Begin(q, "save", Only(c, row), NoCounts) /\ UNCHANGED <<made, adminRequests>>
    BY <1>6 DEF CommentPin
  <2> HIDE DEF row
  <2> QED BY <1>4, <2>1, <2>2, <2>3
<1>7. ASSUME NEW c \in Comment, CommentDelete(q, c) PROVE Settled'
  <2> DEFINE loaded == [d \in Comment |-> IF d \in Thread(rows, c) THEN rows[d] ELSE NoRow]
  <2>1. loaded \in [Comment -> Row \cup {NoRow}]
    BY <1>1
  <2>2. Begin(q, "delete", loaded, NoCounts) /\ UNCHANGED <<made, adminRequests>>
    BY <1>7 DEF CommentDelete
  <2>3. \A d \in Comment : loaded[d] # NoRow =>
          d <= made' /\ rows[d] # NoRow /\ KeySet(rows[d]) = KeySet(loaded[d])
    BY <1>1, <2>2
  <2>4. made' \in Nat /\ made' >= made /\ adminRequests = 0
    BY <1>1, <2>2
  <2> HIDE DEF loaded
  <2> QED BY <2>1, <2>2, <2>3, <2>4, SettledBegin
<1>8. ASSUME adminRequests' = adminRequests + 1 PROVE FALSE
  BY <1>1, <1>8
<1> QED BY <1>3, <1>5, <1>6, <1>7, <1>8 DEF Start, AdminChange, AdminEnable

\* What is written has the keys of what was loaded.
LEMMA SettledSend ==
  ASSUME Inv2, NEW q \in Request, Active(q), tx[q].op # "enable", ~tx[q].sent, adminRequests = 0,
         NEW written \in [Comment -> Row \cup {NoRow}], Send(q, written),
         \A c \in Comment : written[c] # NoRow => c \in Loaded(q) /\ KeySet(written[c]) = KeySet(tx[q].loaded[c])
  PROVE  Settled'
<1>1. tx[q] \in Tx /\ made \in Nat
  BY BoundAssumption DEF Inv2, Inv, TypeOK, Active
<1> DEFINE new == [tx[q] EXCEPT !.sent = TRUE, !.written = written, !.left = Loaded(q)]
<1>2. /\ new.sent = TRUE /\ new.draft = tx[q].draft /\ new.sure = tx[q].sure /\ new.written = written
      /\ new.op = tx[q].op /\ new.left = Loaded(q) /\ new.loaded = tx[q].loaded /\ new.half = tx[q].half
  BY <1>1 DEF Tx
<1>3. /\ tx' = [tx EXCEPT ![q] = new]
      /\ UNCHANGED <<rows, made, adminRequests, gone, stale>>
  BY DEF Send, Counters, Committed
<1> HIDE DEF new
<1>4. tx'[q] = new /\ \A o \in Request \ {q} : tx'[o] = tx[o]
  BY <1>3 DEF Inv2, Inv, TypeOK
<1>5. Loaded(q)' = Loaded(q) /\ Drafted(q)' = Drafted(q) /\ Written(q)' = {c \in Comment : written[c] # NoRow}
  BY <1>2, <1>4 DEF Loaded, Drafted, Written
<1>6. Tidy(q)
  BY DEF Inv2, Settled
<1>7. Tidy(q)'
  BY <1>2, <1>3, <1>4, <1>5, <1>6 DEF Tidy
<1>8. \A o \in Request \ {q} : Active(q)' /\ Active(o) /\ "create" \in {tx'[q].op, tx[o].op} =>
         Loaded(q)' \cap Loaded(o) = {}
  BY <1>2, <1>4, <1>5 DEF Inv2, Settled, OwnKeys
<1> QED BY <1>1, <1>3, <1>4, <1>7, <1>8, SettledStep

\* An instance is done once its parent, if it has one, and its target are recounted.
LEMMA SettledRecount ==
  ASSUME Inv2, NEW q \in Request, NEW c \in Comment, Recount(q, c), adminRequests = 0
  PROVE  Settled'
<1> DEFINE k == NextKey(q, c)
           n == Recomputed(View(q), k)
           new == Recounted(q, c)
<1>1. tx[q] \in Tx /\ made \in Nat /\ Active(q) /\ c \in tx[q].left /\ Holds(q) /\ Tidy(q)
  BY BoundAssumption DEF Inv2, Inv, TypeOK, Active, Recount, NextInstance, RecountsHold, Settled
<1>2. k \in Key
  BY <1>1 DEF Holds, Loaded, Tx, NextKey, AtParent, Key, Row
<1>3. n \in Counts /\ n # NoRow
  BY <1>1, <1>2, ViewType, RecomputedType, NoRowAssumption DEF Inv2, Inv
<1>4. /\ new.op = tx[q].op /\ new.sent = tx[q].sent /\ new.loaded = tx[q].loaded
      /\ new.written = tx[q].written /\ new.half = AtParent(q, c)
      /\ new.left = IF AtParent(q, c) THEN tx[q].left ELSE tx[q].left \ {c}
      /\ new.draft = [tx[q].draft EXCEPT ![k] = n] /\ new.sure = tx[q].sure \cup {k}
  BY <1>1 DEF Recounted, Tx
<1>5. /\ tx' = [tx EXCEPT ![q] = new] /\ NextInstance(q, c)
      /\ UNCHANGED <<rows, made, adminRequests, gone, stale>>
  BY DEF Recount, Counters, Committed
<1>6. k = IF AtParent(q, c) THEN tx[q].loaded[c].parent ELSE tx[q].loaded[c].target
  BY DEF NextKey
<1> HIDE DEF k, n, new
<1>7. tx'[q] = new /\ \A o \in Request \ {q} : tx'[o] = tx[o]
  BY <1>5 DEF Inv2, Inv, TypeOK
<1>8. Loaded(q)' = Loaded(q) /\ Written(q)' = Written(q) /\ Drafted(q)' = Drafted(q) \cup {k}
  <2>1. \A j \in Key : tx'[q].draft[j] = IF j = k THEN n ELSE tx[q].draft[j]
    BY <1>1, <1>2, <1>4, <1>7 DEF Tx
  <2> QED BY <1>2, <1>3, <1>4, <1>7, <2>1 DEF Loaded, Written, Drafted
<1>9. Tidy(q)'
  <2>1. ASSUME NEW d \in Loaded(q) PROVE d \in tx'[q].left \/ KeySet(tx[q].loaded[d]) \subseteq Drafted(q)'
    <3>1. CASE d # c \/ AtParent(q, c)
      BY <1>1, <1>4, <1>7, <1>8, <2>1, <3>1 DEF Tidy, Holds
    <3>2. CASE d = c /\ ~AtParent(q, c)
      <4>1. tx[q].loaded[c].target \in Drafted(q)'
        BY <1>6, <1>8, <3>2
      <4>2. tx[q].loaded[c].parent = Root \/ tx[q].loaded[c].parent \in Drafted(q)'
        BY <1>1, <1>5, <1>8, <3>2 DEF AtParent, Tidy
      <4> QED BY <3>2, <4>1, <4>2 DEF KeySet
    <3> QED BY <3>1, <3>2
  <2>2. ASSUME tx'[q].half, NEW d \in Comment, NextInstance(q, d)'
        PROVE  tx'[q].loaded[d].parent \in Drafted(q)'
    <3>1. AtParent(q, c) /\ tx'[q].left = tx[q].left
      BY <1>4, <1>7, <2>2
    <3>2. d = c
      <4>1. d <= c /\ c <= d
        BY <1>1, <1>5, <2>2, <3>1 DEF NextInstance
      <4> QED BY <4>1 DEF Comment
    <3> QED BY <1>4, <1>6, <1>7, <1>8, <3>1, <3>2
  <2>3. tx'[q].sent
    BY <1>1, <1>4, <1>7 DEF Holds, Tidy
  <2>4. rows' = rows /\ made' = made
    BY <1>5
  <2> QED BY <1>1, <1>4, <1>7, <1>8, <2>1, <2>2, <2>3, <2>4 DEF Tidy
<1>10. \A o \in Request \ {q} : Active(q)' /\ Active(o) /\ "create" \in {tx'[q].op, tx[o].op} =>
         Loaded(q)' \cap Loaded(o) = {}
  BY <1>1, <1>4, <1>7, <1>8 DEF Inv2, Settled, OwnKeys
<1> QED BY <1>1, <1>5, <1>7, <1>9, <1>10, SettledStep

\* A soft deletion writes rows that keep their keys.
LEMMA SettledStatement ==
  ASSUME Inv2, NEW q \in Request, SaveComment(q) \/ SoftDelete(q), adminRequests = 0
  PROVE  Settled'
<1>1. TypeOK /\ tx[q] \in Tx /\ tx[q].op # "enable" /\ ~tx[q].sent /\ Active(q) /\ Tidy(q)
  BY DEF SaveComment, SoftDelete, Inv2, Inv, TypeOK, Active, Settled
<1>2. CASE SaveComment(q)
  <2>1. tx[q].loaded \in [Comment -> Row \cup {NoRow}]
    BY <1>1 DEF Tx
  <2> QED BY <1>1, <1>2, <2>1, SettledSend DEF SaveComment, Loaded
<1>3. CASE SoftDelete(q)
  <2> DEFINE written == [c \in Comment |-> IF c \in Loaded(q) THEN [rows[c] EXCEPT !.visible = FALSE]
                                                             ELSE NoRow]
  <2>1. Send(q, written) /\ tx[q].op = "delete"
    BY <1>3 DEF SoftDelete
  <2>2. ASSUME NEW c \in Loaded(q)
        PROVE  /\ [rows[c] EXCEPT !.visible = FALSE] \in Row
               /\ KeySet([rows[c] EXCEPT !.visible = FALSE]) = KeySet(tx[q].loaded[c])
    <3>1. rows[c] \in Row /\ rows[c] # NoRow /\ KeySet(rows[c]) = KeySet(tx[q].loaded[c])
      BY <1>1, <2>1 DEF Tidy, TypeOK, Loaded
    <3> DEFINE row == [rows[c] EXCEPT !.visible = FALSE]
    <3>2. row \in Row /\ row.parent = rows[c].parent /\ row.target = rows[c].target
      BY <3>1 DEF Row
    <3>3. row # NoRow
      BY <3>2, NoRowAssumption
    <3> HIDE DEF row
    <3>4. KeySet(row) = KeySet(rows[c])
      BY <3>1, <3>2, <3>3 DEF KeySet
    <3> QED BY <3>1, <3>2, <3>4 DEF row
  <2>3. written \in [Comment -> Row \cup {NoRow}]
    BY <2>2
  <2>4. \A c \in Comment : written[c] # NoRow => c \in Loaded(q) /\ KeySet(written[c]) = KeySet(tx[q].loaded[c])
    BY <2>2
  <2> HIDE DEF written
  <2> QED BY <1>1, <2>1, <2>3, <2>4, SettledSend
<1> QED BY <1>2, <1>3

\* A request that is rolled back leaves nothing.
LEMMA SettledRollBack ==
  ASSUME Inv2, NEW q \in Request, RollBack(q), adminRequests = 0
  PROVE  Settled'
<1>1. /\ tx' = [tx EXCEPT ![q] = Idle] /\ UNCHANGED <<rows, gone, stale, made>>
  BY DEF RollBack, Release, Counters, Committed
<1>2. made \in Nat /\ ~Active(q)' /\ \A o \in Request \ {q} : tx'[o] = tx[o]
  BY <1>1, BoundAssumption DEF Inv2, Inv, TypeOK, Active
<1> QED BY <1>1, <1>2, SettledStep

\* The commit of q changes no key that q has not recounted.
LEMMA NothingSkipped ==
  ASSUME Inv2, NEW q \in Request, Commit(q), adminRequests = 0
  PROVE  /\ Skipped(q) = {}
         /\ \A c \in Written(q) : c \in Loaded(q) /\ KeySet(tx[q].written[c]) = KeySet(tx[q].loaded[c])
<1>1. Tidy(q) /\ tx[q].sent /\ tx[q].left = {} /\ tx[q].op # "enable"
  BY DEF Inv2, Settled, Commit
<1>2. ASSUME NEW c \in Written(q) PROVE KeySet(rows[c]) \cup KeySet(tx[q].written[c]) \subseteq Drafted(q)
  <2>1. /\ c \in Loaded(q) /\ KeySet(tx[q].written[c]) = KeySet(tx[q].loaded[c])
        /\ KeySet(tx[q].loaded[c]) \subseteq Drafted(q)
    BY <1>1, <1>2 DEF Tidy
  <2>2. KeySet(rows[c]) \subseteq KeySet(tx[q].loaded[c])
    BY <1>1, <2>1 DEF Tidy, KeySet
  <2> QED BY <2>1, <2>2
<1>3. Skipped(q) = {}
  BY <1>2 DEF Skipped
<1> QED BY <1>1, <1>3 DEF Tidy

\* The commit of q leaves behind the counts of the comments it has deleted, and what is
\* in flight as it was.
LEMMA SettledCommit ==
  ASSUME Inv2, NEW q \in Request, Commit(q), adminRequests = 0
  PROVE  Settled'
<1> DEFINE doomed == IF tx[q].op = "delete" THEN Loaded(q) ELSE {}
<1>1. /\ Active(q) /\ tx[q].sent /\ tx[q].left = {} /\ rows' = View(q) /\ made' = made
      /\ adminRequests' = adminRequests
      /\ gone' = gone \cup doomed \cup UNION {Thread(rows, d) : d \in doomed}
      /\ stale' = (stale \ tx[q].sure) \cup (Drafted(q) \ tx[q].sure) \cup Skipped(q) \cup doomed
      /\ tx' = [o \in Request |-> IF o = q \/ ~Active(o) THEN Idle
                                  ELSE [tx[o] EXCEPT !.sure = @ \ Skipped(q)]]
  BY DEF Commit, Release, Counters
<1>2. Tidy(q) /\ tx[q] \in Tx /\ TypeOK /\ Skipped(q) = {}
  BY <1>1, NothingSkipped DEF Inv2, Inv, TypeOK, Active, Settled
<1>3. stale' \subseteq gone'
  <2>1. Drafted(q) \subseteq tx[q].sure /\ stale \subseteq gone
    BY <1>2 DEF Tidy, Inv2, Settled
  <2> HIDE DEF doomed
  <2> QED BY <1>1, <1>2, <2>1
<1>4. \A o \in Request : Active(o)' => o # q /\ Active(o) /\ tx'[o] = tx[o]
  <2>1. \A o \in Request : Active(o) => tx[o] \in Tx /\ [tx[o] EXCEPT !.sure = @ \ {}] = tx[o]
    BY <1>2 DEF TypeOK, Active, Tx
  <2> QED BY <1>1, <1>2, <2>1 DEF Active
<1>5. \A c \in Comment : /\ c \in Loaded(q) \/ rows'[c] = rows[c]
                         /\ rows[c] # NoRow => rows'[c] # NoRow /\ KeySet(rows'[c]) = KeySet(rows[c])
  <2> SUFFICES ASSUME NEW c \in Comment, rows'[c] # rows[c]
               PROVE  /\ c \in Loaded(q)
                      /\ rows[c] # NoRow => rows'[c] # NoRow /\ KeySet(rows'[c]) = KeySet(rows[c])
    OBVIOUS
  <2>1. c \in Written(q) /\ rows'[c] = tx[q].written[c]
    BY <1>1, <1>2 DEF View, Written
  <2>2. c \in Loaded(q) /\ KeySet(tx[q].written[c]) = KeySet(tx[q].loaded[c]) /\ tx[q].written[c] # NoRow
    BY <2>1, NothingSkipped DEF Written
  <2>3. rows[c] # NoRow => KeySet(rows[c]) = KeySet(tx[q].loaded[c])
    BY <1>2, <2>2 DEF Tidy
  <2> QED BY <2>1, <2>2, <2>3
<1>6. \A c \in Comment : rows'[c] # NoRow => c <= made'
  BY <1>1, <1>2, <1>5 DEF Inv2, Settled, Tidy
<1>7. ASSUME NEW o \in Request, Active(o)' PROVE Tidy(o)'
  <2>1. o # q /\ Active(o) /\ tx'[o] = tx[o] /\ Tidy(o)
    BY <1>4, <1>7 DEF Inv2, Settled
  <2>2. /\ Loaded(o)' = Loaded(o) /\ Drafted(o)' = Drafted(o) /\ Written(o)' = Written(o)
        /\ \A c \in Comment : NextInstance(o, c)' = NextInstance(o, c)
    BY <2>1 DEF Loaded, Drafted, Written, NextInstance
  <2>3. \A c \in Loaded(o) : c <= made' /\ IF tx[o].op = "create" THEN rows'[c] = NoRow
                                           ELSE rows'[c] # NoRow /\ KeySet(rows'[c]) = KeySet(tx[o].loaded[c])
    <3> SUFFICES ASSUME NEW c \in Loaded(o)
                 PROVE  IF tx[o].op = "create" THEN rows'[c] = NoRow
                        ELSE rows'[c] # NoRow /\ KeySet(rows'[c]) = KeySet(tx[o].loaded[c])
      BY <1>1, <2>1 DEF Tidy
    <3>1. c \in Comment
      BY DEF Loaded
    <3>2. CASE tx[o].op = "create"
      <4>1. c \notin Loaded(q) /\ rows[c] = NoRow
        BY <1>1, <2>1, <3>2 DEF Inv2, Settled, OwnKeys, Tidy
      <4> QED BY <1>5, <3>1, <3>2, <4>1
    <3>3. CASE tx[o].op # "create"
      BY <1>5, <2>1, <3>1, <3>3 DEF Tidy
    <3> QED BY <3>2, <3>3
  <2> QED BY <2>1, <2>2, <2>3 DEF Tidy
<1>8. OwnKeys'
  <2> SUFFICES ASSUME NEW a \in Request, NEW b \in Request, a # b, Active(a)', Active(b)', tx'[a].op = "create"
               PROVE  Loaded(a)' \cap Loaded(b)' = {}
    BY DEF OwnKeys
  <2> QED BY <1>4 DEF OwnKeys, Loaded, Inv2, Settled
<1> QED BY <1>3, <1>6, <1>7, <1>8 DEF Settled

\* Every step keeps both invariants.
LEMMA Inv2Step == Inv2 /\ [Next]_vars => Inv2'
<1> SUFFICES ASSUME Inv2, [Next]_vars, adminRequests' = 0 PROVE Settled'
  BY InvStep DEF Inv2, Settled
<1>1. CASE UNCHANGED vars
  BY <1>1 DEF Inv2, Settled, OwnKeys, Tidy, vars, Active, Loaded, Drafted, Written, NextInstance
<1>2. ASSUME NEW q \in Request, Statement(q) PROVE Settled'
  <2>1. adminRequests = 0
    BY <1>2 DEF Statement, SaveComment, SoftDelete, Send, SaveMetadata, Recount, Commit, CommitMetadata,
       RollBack, Release, Counters
  <2>2. Active(q) => tx[q].op # "enable"
    BY <2>1 DEF Inv2, Settled, Tidy
  <2>3. ~SaveMetadata(q) /\ ~CommitMetadata(q)
    BY <2>2 DEF SaveMetadata, CommitMetadata
  <2> QED BY <1>2, <2>1, <2>3, SettledStatement, SettledRecount, SettledCommit, SettledRollBack DEF Statement
<1> QED BY <1>1, <1>2, SettledStart DEF Next

\* However requests overlap and fail, as long as nobody uses the admin site the only
\* counts left behind are those of comments that were deleted, or lay under one.
THEOREM OnlyDeletionsLeaveStale == Spec => []OnlyDeletedStale
<1>1. Init => Inv2
  BY InvInit, SettledInit DEF Inv2
<1>2. Inv2 => OnlyDeletedStale
  BY DEF Inv2, Settled, OnlyDeletedStale
<1> QED BY <1>1, <1>2, Inv2Step, PTL DEF Spec

-----------------------------------------------------------------------------
(* While requests do not overlap and nobody uses the admin site.           *)

\* The pinned and visible comments of the thread of d.
PinnedIn(rs, d) ==
  {e \in Comment : /\ rs[e] # NoRow /\ rs[e].visible /\ rs[e].pinned
                   /\ rs[e].parent = rs[d].parent
                   /\ rs[d].parent = Root => rs[e].target = rs[d].target}

WithinPins(rs) == \A d \in Comment : rs[d] # NoRow /\ rs[d].visible => Cardinality(PinnedIn(rs, d)) <= MaxPins

\* What the only request in flight loads, and what it has sent of it: a new comment is not
\* pinned, a pin was checked against the rows as they still are, and a deletion takes
\* all that lies below what it takes.
Plan(q) ==
  /\ tx[q].op = "create" => \A c \in Loaded(q) : ~tx[q].loaded[c].pinned
  /\ tx[q].op = "save" => \E x \in Comment :
       /\ Loaded(q) = {x}
       /\ \/ tx[q].loaded[x] = rows[x]
          \/ /\ tx[q].loaded[x] = [rows[x] EXCEPT !.pinned = ~@]
             /\ Cardinality(PinnedIn(rows, x)) < MaxPins
  /\ tx[q].op = "delete" => \A c \in Loaded(q) : Thread(rows, c) \subseteq Loaded(q)
  /\ tx[q].sent => \A c \in Comment :
       tx[q].written[c] = IF tx[q].op # "delete" THEN tx[q].loaded[c]
                          ELSE IF c \in Loaded(q) THEN [rows[c] EXCEPT !.visible = FALSE] ELSE NoRow

Serial == ~overlapped /\ adminRequests = 0 =>
  /\ \A q, o \in Request : Active(q) /\ Active(o) => q = o
  /\ \A c \in gone : rows[c] # NoRow /\ ~rows[c].visible
  /\ WithinPins(rows)
  /\ \A q \in Request : Active(q) => Plan(q)

Inv3 == Inv2 /\ Serial

\* Sets of comments are finite.
LEMMA CommentsFinite ==
  ASSUME NEW S \in SUBSET Comment
  PROVE  IsFiniteSet(S) /\ Cardinality(S) \in Nat
<1>1. IsFiniteSet(Comment)
  BY FS_Interval, BoundAssumption DEF Comment
<1> QED BY <1>1, FS_Subset, FS_CardinalityType

\* What lies below a comment of a thread lies in that thread.
LEMMA ThreadNested ==
  ASSUME NEW rs, NEW c \in Comment, NEW d \in Thread(rs, c)
  PROVE  Thread(rs, d) \subseteq Thread(rs, c)
<1> SUFFICES ASSUME NEW e \in Thread(rs, d) PROVE e \in Thread(rs, c)
  OBVIOUS
<1>1. e \in Comment /\ rs[e] # NoRow
  BY DEF Thread
<1>2. ASSUME NEW S \in SUBSET Comment, c \in S, Closed(rs, S) PROVE e \in S
  <2>1. d \in S
    BY <1>2 DEF Thread
  <2> QED BY <1>2, <2>1 DEF Thread
<1> QED BY <1>1, <1>2 DEF Thread

\* A table that pins no more than another, but for one comment whose thread had room,
\* is within the limit if that other is.
LEMMA PinsKept ==
  ASSUME NEW rs, NEW ts, NEW x \in Comment, WithinPins(rs),
         \A e \in Comment : ts[e] # NoRow /\ ts[e].visible /\ ts[e].pinned =>
           /\ rs[e] # NoRow /\ rs[e].parent = ts[e].parent /\ rs[e].target = ts[e].target
           /\ \/ rs[e].visible /\ rs[e].pinned
              \/ e = x /\ Cardinality(PinnedIn(rs, x)) < MaxPins
  PROVE  WithinPins(ts)
<1> SUFFICES ASSUME NEW d \in Comment, ts[d] # NoRow PROVE Cardinality(PinnedIn(ts, d)) <= MaxPins
  BY DEF WithinPins
<1>1. \A e \in Comment : PinnedIn(ts, e) \in SUBSET Comment /\ PinnedIn(rs, e) \in SUBSET Comment
  BY DEF PinnedIn
<1>2. CASE PinnedIn(ts, d) = {}
  BY <1>2, FS_EmptySet, PinsAssumption
<1>3. CASE x \in PinnedIn(ts, d) /\ ~(rs[x].visible /\ rs[x].pinned)
  <2>1. Cardinality(PinnedIn(rs, x)) < MaxPins
    BY <1>3 DEF PinnedIn
  <2>2. PinnedIn(ts, d) \subseteq PinnedIn(rs, x) \cup {x}
    BY <1>3 DEF PinnedIn
  <2>3. /\ IsFiniteSet(PinnedIn(rs, x)) /\ Cardinality(PinnedIn(rs, x)) \in Nat
        /\ Cardinality(PinnedIn(ts, d)) \in Nat
    BY <1>1, CommentsFinite
  <2>4. /\ IsFiniteSet(PinnedIn(rs, x) \cup {x})
        /\ Cardinality(PinnedIn(rs, x) \cup {x}) <= Cardinality(PinnedIn(rs, x)) + 1
        /\ Cardinality(PinnedIn(rs, x) \cup {x}) \in Nat
    <3> DEFINE P == PinnedIn(rs, x)
    <3> HIDE DEF P
    <3>1. IsFiniteSet(P) /\ Cardinality(P) \in Nat
      BY <2>3 DEF P
    <3>2. /\ IsFiniteSet(P \cup {x})
          /\ Cardinality(P \cup {x}) = (IF x \in P THEN Cardinality(P) ELSE Cardinality(P) + 1)
      BY <3>1, FS_AddElement
    <3> QED BY <3>1, <3>2 DEF P
  <2>5. Cardinality(PinnedIn(ts, d)) <= Cardinality(PinnedIn(rs, x) \cup {x})
    BY <2>2, <2>4, FS_Subset
  <2> QED BY <2>1, <2>3, <2>4, <2>5, PinsAssumption
<1>4. CASE ~(x \in PinnedIn(ts, d) /\ ~(rs[x].visible /\ rs[x].pinned)) /\ PinnedIn(ts, d) # {}
  <2>1. PICK e \in PinnedIn(ts, d) : TRUE
    BY <1>4
  <2>2. \A f \in PinnedIn(ts, d) : f \in Comment /\ rs[f] # NoRow /\ rs[f].visible /\ rs[f].pinned
    BY <1>4 DEF PinnedIn
  <2>3. e \in Comment /\ PinnedIn(ts, d) \subseteq PinnedIn(rs, e)
    BY <2>1, <2>2 DEF PinnedIn
  <2>4. Cardinality(PinnedIn(rs, e)) <= MaxPins
    BY <2>1, <2>2, <2>3 DEF WithinPins
  <2>5. /\ IsFiniteSet(PinnedIn(rs, e)) /\ Cardinality(PinnedIn(rs, e)) \in Nat
        /\ Cardinality(PinnedIn(ts, d)) \in Nat
    BY <1>1, <2>3, CommentsFinite
  <2>6. Cardinality(PinnedIn(ts, d)) <= Cardinality(PinnedIn(rs, e))
    BY <2>3, <2>5, FS_Subset
  <2> QED BY <2>4, <2>5, <2>6, PinsAssumption
<1> QED BY <1>2, <1>3, <1>4

\* The siblings that the mutation counts are those of the thread.
LEMMA PinnedSiblings ==
  ASSUME NEW c \in Comment
  PROVE  {d \in Siblings(c) : rows[d].pinned} = PinnedIn(rows, c)
BY DEF Siblings, PinnedIn, Visible

\* No comments, and nothing in flight.
LEMMA SerialInit == Init => Serial
BY DEF Init, Serial, Active, WithinPins, NoRows

\* A step that commits nothing keeps Serial if only q is in flight and keeps its plan.
LEMMA SerialStep ==
  ASSUME Serial, NEW q \in Request, ~overlapped, adminRequests = 0,
         UNCHANGED <<rows, gone>>,
         \A o \in Request \ {q} : ~Active(o)',
         Active(q)' => Plan(q)'
  PROVE  Serial'
<1>1. \A c \in gone' : rows'[c] # NoRow /\ ~rows'[c].visible
  BY DEF Serial
<1>2. WithinPins(rows')
  BY DEF Serial
<1>3. (\A o, p \in Request : Active(o) /\ Active(p) => o = p)'
  OBVIOUS
<1>4. (\A o \in Request : Active(o) => Plan(o))'
  OBVIOUS
<1> QED BY <1>1, <1>2, <1>3, <1>4 DEF Serial

\* A request that begins alone begins with a plan.
LEMMA SerialBegin ==
  ASSUME Inv3, NEW q \in Request, NEW op \in {"create", "save", "delete"},
         NEW loaded \in [Comment -> Row \cup {NoRow}], Begin(q, op, loaded, NoCounts),
         ~overlapped', adminRequests = 0,
         op = "create" => \A c \in Comment : loaded[c] # NoRow => ~loaded[c].pinned,
         op = "save" => \E x \in Comment :
           /\ {c \in Comment : loaded[c] # NoRow} = {x}
           /\ \/ loaded[x] = rows[x]
              \/ /\ loaded[x] = [rows[x] EXCEPT !.pinned = ~@]
                 /\ Cardinality(PinnedIn(rows, x)) < MaxPins,
         op = "delete" => \A c, d \in Comment : loaded[c] # NoRow /\ d \in Thread(rows, c) => loaded[d] # NoRow
  PROVE  Serial'
<1> DEFINE new == [op |-> op, sent |-> FALSE, loaded |-> loaded, written |-> NoRows,
                   left |-> {}, half |-> FALSE, draft |-> NoCounts, sure |-> {}]
<1>1. /\ tx' = [tx EXCEPT ![q] = new] /\ UNCHANGED <<rows, gone>>
      /\ overlapped' = (overlapped \/ \E o \in Request : Active(o))
  BY DEF Begin
<1>2. tx'[q] = new /\ \A o \in Request \ {q} : tx'[o] = tx[o]
  BY <1>1 DEF Inv3, Inv2, Inv, TypeOK
<1>3. ~overlapped /\ \A o \in Request : ~Active(o)
  BY <1>1
<1>4. \A o \in Request \ {q} : ~Active(o)'
  BY <1>2, <1>3 DEF Active
<1>5. /\ tx'[q].op = op /\ tx'[q].loaded = loaded /\ tx'[q].sent = FALSE
      /\ Loaded(q)' = {c \in Comment : loaded[c] # NoRow}
  BY <1>2 DEF Loaded
<1>6. \A c \in Comment : Thread(rows, c) \in SUBSET Comment
  BY DEF Thread
<1> HIDE DEF new
<1>7. Plan(q)'
  <2>1. op = "create" => \A c \in Loaded(q)' : ~loaded[c].pinned
    BY <1>5
  <2>2. op = "delete" => \A c \in Loaded(q)' : Thread(rows, c) \subseteq Loaded(q)'
    BY <1>5, <1>6
  <2>3. op = "save" => \E x \in Comment :
          /\ Loaded(q)' = {x}
          /\ \/ loaded[x] = rows[x]
             \/ /\ loaded[x] = [rows[x] EXCEPT !.pinned = ~@]
                /\ Cardinality(PinnedIn(rows, x)) < MaxPins
    BY <1>5
  <2>4. rows' = rows
    BY <1>1
  <2> QED BY <1>5, <2>1, <2>2, <2>3, <2>4 DEF Plan
<1> QED BY <1>1, <1>3, <1>4, <1>7, SerialStep DEF Inv3

\* Each mutation begins with a plan.
LEMMA SerialStart ==
  ASSUME Inv3, NEW q \in Request, Start(q), ~overlapped', adminRequests' = 0
  PROVE  Serial'
<1>1. /\ rows \in [Comment -> Row \cup {NoRow}] /\ adminRequests \in Nat /\ made \in Nat
  BY BoundAssumption DEF Inv3, Inv2, Inv, TypeOK
<1>2. adminRequests' = adminRequests + 1 => FALSE
  BY <1>1
<1>3. \A c \in Comment, row \in Row : /\ Only(c, row) \in [Comment -> Row \cup {NoRow}]
                                      /\ Only(c, row)[c] = row
                                      /\ {d \in Comment : Only(c, row)[d] # NoRow} = {c}
  BY NoRowAssumption DEF Only, NoRows
<1>4. ASSUME NEW t \in Target, NEW p \in Comment \cup {Root}, CommentCreate(q, t, p) PROVE Serial'
  <2> DEFINE row == [target |-> t, parent |-> p, visible |-> TRUE, pinned |-> FALSE]
  <2>1. row \in Row /\ ~row.pinned
    BY DEF Row
  <2>2. Begin(q, "create", Only(made + 1, row), NoCounts) /\ made + 1 \in Comment /\ adminRequests = 0
    BY <1>1, <1>4, BoundAssumption DEF CommentCreate, Comment
  <2> HIDE DEF row
  <2>3. \A d \in Comment : Only(made + 1, row)[d] # NoRow => d = made + 1
    BY <1>3, <2>1, <2>2
  <2>4. Only(made + 1, row) \in [Comment -> Row \cup {NoRow}] /\ Only(made + 1, row)[made + 1] = row
    BY <1>3, <2>1, <2>2
  <2>5. \A d \in Comment : Only(made + 1, row)[d] # NoRow => ~Only(made + 1, row)[d].pinned
    BY <2>1, <2>3, <2>4
  <2> QED BY <2>2, <2>4, <2>5, SerialBegin
<1>5. ASSUME NEW c \in Comment, NEW row \in Row, Begin(q, "save", Only(c, row), NoCounts), adminRequests = 0,
             \/ row = rows[c]
             \/ row = [rows[c] EXCEPT !.pinned = ~@] /\ Cardinality(PinnedIn(rows, c)) < MaxPins
      PROVE  Serial'
  <2>1. /\ Only(c, row) \in [Comment -> Row \cup {NoRow}] /\ Only(c, row)[c] = row
        /\ {d \in Comment : Only(c, row)[d] # NoRow} = {c}
    BY <1>3
  <2> QED BY <1>5, <2>1, SerialBegin
<1>6. ASSUME NEW c \in Comment, CommentUpdate(q, c) PROVE Serial'
  <2>1. rows[c] \in Row
    BY <1>1, <1>6 DEF CommentUpdate
  <2> QED BY <1>5, <1>6, <2>1 DEF CommentUpdate
<1>7. ASSUME NEW c \in Comment, CommentPin(q, c) PROVE Serial'
  <2>1. [rows[c] EXCEPT !.pinned = ~@] \in Row
    BY <1>1, <1>7 DEF CommentPin, Row
  <2>2. Cardinality(PinnedIn(rows, c)) < MaxPins
    BY <1>7, PinnedSiblings DEF CommentPin
  <2> QED BY <1>5, <1>7, <2>1, <2>2 DEF CommentPin
<1>8. ASSUME NEW c \in Comment, CommentDelete(q, c) PROVE Serial'
  <2> DEFINE loaded == [d \in Comment |-> IF d \in Thread(rows, c) THEN rows[d] ELSE NoRow]
  <2>1. loaded \in [Comment -> Row \cup {NoRow}]
    BY <1>1
  <2>2. Begin(q, "delete", loaded, NoCounts) /\ adminRequests = 0
    BY <1>8 DEF CommentDelete
  <2>3. \A d \in Thread(rows, c) : d \in Comment /\ rows[d] # NoRow
    BY DEF Thread
  <2>4. \A d, e \in Comment : loaded[d] # NoRow /\ e \in Thread(rows, d) => loaded[e] # NoRow
    <3> SUFFICES ASSUME NEW d \in Comment, NEW e \in Comment, loaded[d] # NoRow, e \in Thread(rows, d)
                 PROVE  loaded[e] # NoRow
      OBVIOUS
    <3>1. d \in Thread(rows, c)
      OBVIOUS
    <3>2. e \in Thread(rows, c)
      BY <3>1, ThreadNested
    <3> QED BY <2>3, <3>2
  <2> HIDE DEF loaded
  <2> QED BY <2>1, <2>2, <2>4, SerialBegin
<1> QED BY <1>2, <1>4, <1>6, <1>7, <1>8 DEF Start, AdminChange, AdminEnable

\* Up to its commit a request keeps its plan.
LEMMA SerialSend ==
  ASSUME Inv3, NEW q \in Request, SaveComment(q) \/ SoftDelete(q), ~overlapped, adminRequests = 0
  PROVE  Serial'
<1> DEFINE written == IF tx[q].op # "delete" THEN tx[q].loaded
                      ELSE [c \in Comment |-> IF c \in Loaded(q) THEN [rows[c] EXCEPT !.visible = FALSE]
                                                                 ELSE NoRow]
           new == [tx[q] EXCEPT !.sent = TRUE, !.written = written, !.left = Loaded(q)]
<1>1. Active(q) /\ tx[q] \in Tx /\ Plan(q) /\ \A o \in Request \ {q} : ~Active(o)
  BY DEF SaveComment, SoftDelete, Inv3, Inv2, Inv, TypeOK, Active, Serial
<1>2. Send(q, written)
  BY DEF SaveComment, SoftDelete
<1>3. tx' = [tx EXCEPT ![q] = new] /\ UNCHANGED <<rows, gone>>
  BY <1>2 DEF Send, Committed
<1>4. new.sent = TRUE /\ new.written = written /\ new.op = tx[q].op /\ new.loaded = tx[q].loaded
  BY <1>1 DEF Tx
<1>5. \A c \in Comment : written[c] = IF tx[q].op # "delete" THEN tx[q].loaded[c]
                          ELSE IF c \in Loaded(q) THEN [rows[c] EXCEPT !.visible = FALSE] ELSE NoRow
  OBVIOUS
<1> HIDE DEF written, new
<1>6. tx'[q] = new /\ \A o \in Request \ {q} : tx'[o] = tx[o]
  BY <1>3 DEF Inv3, Inv2, Inv, TypeOK
<1>7. Loaded(q)' = Loaded(q) /\ rows' = rows
  BY <1>3, <1>4, <1>6 DEF Loaded
<1>8. Plan(q)'
  BY <1>1, <1>4, <1>5, <1>6, <1>7 DEF Plan
<1>9. \A o \in Request \ {q} : ~Active(o)'
  BY <1>1, <1>6 DEF Active
<1> QED BY <1>3, <1>8, <1>9, SerialStep DEF Inv3

\* A recount changes no comment.
LEMMA SerialRecount ==
  ASSUME Inv3, NEW q \in Request, NEW c \in Comment, Recount(q, c), ~overlapped, adminRequests = 0
  PROVE  Serial'
<1> DEFINE new == Recounted(q, c)
<1>1. Active(q) /\ tx[q] \in Tx /\ Plan(q) /\ \A o \in Request \ {q} : ~Active(o)
  BY DEF Recount, Inv3, Inv2, Inv, TypeOK, Active, Serial
<1>2. tx' = [tx EXCEPT ![q] = new] /\ UNCHANGED <<rows, gone>>
  BY DEF Recount, Committed
<1>3. new.sent = tx[q].sent /\ new.written = tx[q].written /\ new.op = tx[q].op /\ new.loaded = tx[q].loaded
  BY <1>1 DEF Tx, Recounted
<1> HIDE DEF new
<1>4. tx'[q] = new /\ \A o \in Request \ {q} : tx'[o] = tx[o]
  BY <1>2 DEF Inv3, Inv2, Inv, TypeOK
<1>5. Loaded(q)' = Loaded(q) /\ rows' = rows
  BY <1>2, <1>3, <1>4 DEF Loaded
<1>6. Plan(q)'
  BY <1>1, <1>3, <1>4, <1>5 DEF Plan
<1>7. \A o \in Request \ {q} : ~Active(o)'
  BY <1>1, <1>4 DEF Active
<1> QED BY <1>2, <1>6, <1>7, SerialStep DEF Inv3

\* The rows of a plan: at most one pin more, where there was room, and what a deletion
\* takes is hidden.
LEMMA SerialCommit ==
  ASSUME Inv3, NEW q \in Request, Commit(q), ~overlapped, adminRequests = 0
  PROVE  Serial'
<1> DEFINE doomed == IF tx[q].op = "delete" THEN Loaded(q) ELSE {}
           ts == View(q)
<1>1. /\ Active(q) /\ tx[q].sent /\ tx[q].op # "enable" /\ rows' = ts
      /\ gone' = gone \cup doomed \cup UNION {Thread(rows, d) : d \in doomed}
      /\ \A o \in Request : o = q \/ ~Active(o) => tx'[o] = Idle
  BY DEF Commit
<1>2. /\ tx[q] \in Tx /\ Plan(q) /\ Tidy(q) /\ WithinPins(rows)
      /\ \A o \in Request \ {q} : ~Active(o)
      /\ \A c \in gone : rows[c] # NoRow /\ ~rows[c].visible
      /\ rows \in [Comment -> Row \cup {NoRow}] /\ gone \in SUBSET Comment
  BY <1>1 DEF Inv3, Inv2, Inv, TypeOK, Active, Serial, Settled
<1>3. \A o \in Request : ~Active(o)'
  BY <1>1, <1>2 DEF Active
<1>4. gone' = gone \cup doomed
  BY <1>1, <1>2 DEF Plan
<1>5. tx[q].op \in {"create", "save", "delete"}
  BY <1>1, <1>2 DEF Tx, OpNames
<1>6. \A c \in Comment : ts[c] = IF tx[q].written[c] # NoRow THEN tx[q].written[c] ELSE rows[c]
  BY DEF View
<1>7. \A c \in Comment : tx[q].written[c] = IF tx[q].op # "delete" THEN tx[q].loaded[c]
                          ELSE IF c \in Loaded(q) THEN [rows[c] EXCEPT !.visible = FALSE] ELSE NoRow
  BY <1>1, <1>2 DEF Plan
<1> HIDE DEF ts
<1>8. CASE tx[q].op = "create"
  <2>1. \A c \in Comment : \/ ts[c] = rows[c]
                           \/ rows[c] = NoRow /\ ts[c] # NoRow /\ ~ts[c].pinned
    BY <1>2, <1>6, <1>7, <1>8 DEF Plan, Tidy, Loaded
  <2>2. \A e \in Comment : ts[e] # NoRow /\ ts[e].visible /\ ts[e].pinned => ts[e] = rows[e]
    BY <2>1
  <2>3. WithinPins(ts)
    <3>1. CASE \A e \in Comment : ~(ts[e] # NoRow /\ ts[e].visible)
      BY <3>1 DEF WithinPins
    <3>2. CASE \E e \in Comment : ts[e] # NoRow /\ ts[e].visible
      <4>1. PICK e \in Comment : TRUE
        BY <3>2
      <4>2. \A f \in Comment : ts[f] # NoRow /\ ts[f].visible /\ ts[f].pinned =>
             /\ rows[f] # NoRow /\ rows[f].parent = ts[f].parent /\ rows[f].target = ts[f].target
             /\ \/ rows[f].visible /\ rows[f].pinned
                \/ f = e /\ Cardinality(PinnedIn(rows, e)) < MaxPins
        BY <2>2
      <4> QED BY <1>2, <4>1, <4>2, PinsKept
    <3> QED BY <3>1, <3>2
  <2>4. \A c \in gone' : ts[c] # NoRow /\ ~ts[c].visible
    BY <1>2, <1>4, <1>8, <2>1
  <2> QED BY <1>1, <1>3, <2>3, <2>4 DEF Serial
<1>9. CASE tx[q].op = "save"
  <2>1. PICK x \in Comment : /\ Loaded(q) = {x}
                             /\ \/ tx[q].loaded[x] = rows[x]
                                \/ /\ tx[q].loaded[x] = [rows[x] EXCEPT !.pinned = ~@]
                                   /\ Cardinality(PinnedIn(rows, x)) < MaxPins
    BY <1>2, <1>9 DEF Plan
  <2>2. rows[x] # NoRow /\ rows[x] \in Row
    BY <1>2, <1>9, <2>1 DEF Tidy
  <2>3. \A c \in Comment \ {x} : ts[c] = rows[c]
    BY <1>6, <1>7, <1>9, <2>1 DEF Loaded
  <2>4. ts[x] = tx[q].loaded[x]
    BY <1>6, <1>7, <1>9, <2>1 DEF Loaded
  <2>5. ts[x] # NoRow
    BY <2>1, <2>4 DEF Loaded
  <2>6. /\ ts[x].visible = rows[x].visible /\ ts[x].parent = rows[x].parent /\ ts[x].target = rows[x].target
        /\ ts[x] = rows[x] \/ Cardinality(PinnedIn(rows, x)) < MaxPins
    BY <2>1, <2>2, <2>4 DEF Row
  <2>7. WithinPins(ts)
    <3>1. \A e \in Comment : ts[e] # NoRow /\ ts[e].visible /\ ts[e].pinned =>
           /\ rows[e] # NoRow /\ rows[e].parent = ts[e].parent /\ rows[e].target = ts[e].target
           /\ \/ rows[e].visible /\ rows[e].pinned
              \/ e = x /\ Cardinality(PinnedIn(rows, x)) < MaxPins
      BY <2>2, <2>3, <2>6
    <3> QED BY <1>2, <3>1, PinsKept
  <2>8. \A c \in gone' : ts[c] # NoRow /\ ~ts[c].visible
    BY <1>2, <1>4, <1>9, <2>3, <2>5, <2>6
  <2> QED BY <1>1, <1>3, <2>7, <2>8 DEF Serial
<1>10. CASE tx[q].op = "delete"
  <2>1. ASSUME NEW c \in Loaded(q) PROVE ts[c] # NoRow /\ ~ts[c].visible
    <3>1. c \in Comment /\ rows[c] # NoRow /\ rows[c] \in Row
      BY <1>2, <1>10 DEF Tidy, Loaded
    <3> DEFINE row == [rows[c] EXCEPT !.visible = FALSE]
    <3>2. row \in Row /\ ~row.visible
      BY <3>1 DEF Row
    <3>3. tx[q].written[c] = row
      BY <1>7, <1>10, <3>1
    <3> HIDE DEF row
    <3>4. row # NoRow
      BY <3>2, NoRowAssumption
    <3> QED BY <1>6, <3>1, <3>2, <3>3, <3>4
  <2>2. \A c \in Comment : c \notin Loaded(q) => ts[c] = rows[c]
    BY <1>6, <1>7, <1>10
  <2>3. WithinPins(ts)
    <3>1. \A e \in Comment : ts[e] # NoRow /\ ts[e].visible /\ ts[e].pinned => ts[e] = rows[e]
      BY <2>1, <2>2
    <3>2. CASE \A e \in Comment : ~(ts[e] # NoRow /\ ts[e].visible)
      BY <3>2 DEF WithinPins
    <3>3. CASE \E e \in Comment : ts[e] # NoRow /\ ts[e].visible
      <4>1. PICK e \in Comment : TRUE
        BY <3>3
      <4>2. \A f \in Comment : ts[f] # NoRow /\ ts[f].visible /\ ts[f].pinned =>
             /\ rows[f] # NoRow /\ rows[f].parent = ts[f].parent /\ rows[f].target = ts[f].target
             /\ \/ rows[f].visible /\ rows[f].pinned
                \/ f = e /\ Cardinality(PinnedIn(rows, e)) < MaxPins
        BY <3>1
      <4> QED BY <1>2, <4>1, <4>2, PinsKept
    <3> QED BY <3>2, <3>3
  <2>4. \A c \in gone' : ts[c] # NoRow /\ ~ts[c].visible
    BY <1>2, <1>4, <1>10, <2>1, <2>2
  <2> QED BY <1>1, <1>3, <2>3, <2>4 DEF Serial
<1> QED BY <1>5, <1>8, <1>9, <1>10

\* Every step keeps the three invariants.
LEMMA Inv3Step == Inv3 /\ [Next]_vars => Inv3'
<1> SUFFICES ASSUME Inv3, [Next]_vars, ~overlapped', adminRequests' = 0 PROVE Serial'
  BY Inv2Step DEF Inv3, Serial
<1>1. CASE UNCHANGED vars
  BY <1>1 DEF Inv3, Serial, Plan, vars, Active, Loaded
<1>2. ASSUME NEW q \in Request, Statement(q) PROVE Serial'
  <2>1. adminRequests = 0 /\ ~overlapped
    BY <1>2 DEF Statement, SaveComment, SoftDelete, Send, SaveMetadata, Recount, Commit, CommitMetadata,
       RollBack, Release, Counters
  <2>2. Active(q) => tx[q].op # "enable"
    BY <2>1 DEF Inv3, Inv2, Settled, Tidy
  <2>3. ~SaveMetadata(q) /\ ~CommitMetadata(q)
    BY <2>2 DEF SaveMetadata, CommitMetadata
  <2>4. ASSUME RollBack(q) PROVE Serial'
    <3>1. tx' = [tx EXCEPT ![q] = Idle] /\ UNCHANGED <<rows, gone>> /\ Active(q)
      BY <2>4 DEF RollBack, Committed
    <3>2. \A o \in Request : ~Active(o)'
      BY <2>1, <3>1 DEF Inv3, Inv2, Inv, TypeOK, Active, Serial
    <3> QED BY <2>1, <3>1, <3>2, SerialStep DEF Inv3
  <2> QED BY <1>2, <2>1, <2>3, <2>4, SerialSend, SerialRecount, SerialCommit DEF Statement
<1> QED BY <1>1, <1>2, SerialStart DEF Next

\* As long as requests do not overlap and nobody uses the admin site, a deleted thread
\* stays deleted whatever is created, edited, pinned or rolled back later, and no thread
\* shows more pins than the setting allows.
THEOREM SerialThreadsHold == Spec => []SerialThreads
<1>1. Init => Inv3
  BY InvInit, SettledInit, SerialInit DEF Inv2, Inv3
<1>2. Inv3 => SerialThreads
  <2> SUFFICES ASSUME Inv3, ~overlapped, adminRequests = 0 PROVE SerialThreads
    BY DEF SerialThreads
  <2>1. \A c \in gone : ~rows[c].visible
    BY DEF Inv3, Serial
  <2>2. ASSUME NEW c \in Visible(rows) PROVE Cardinality({d \in Siblings(c) : rows[d].pinned}) <= MaxPins
    <3>1. c \in Comment /\ rows[c] # NoRow /\ rows[c].visible
      BY DEF Visible
    <3> QED BY <3>1, PinnedSiblings DEF Inv3, Serial, WithinPins
  <2> QED BY <2>1, <2>2 DEF SerialThreads
<1> QED BY <1>1, <1>2, Inv3Step, PTL DEF Spec
==============================================================================
