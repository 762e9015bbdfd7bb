------------------------------ MODULE Recounts ------------------------------
(***************************************************************************)
(* Blocks, reactions, ratings and reports: four packages that keep one row *)
(* per actor and target, and recount them into the metadata row of the     *)
(* target after every save() and delete() of a row.                        *)
(*                                                                         *)
(* They share no table, so a behaviour is about one of them (kind).  Each  *)
(* request is one transaction at READ COMMITTED: a statement sees what is  *)
(* committed and its own writes; what it writes stays locked until the     *)
(* transaction ends.  The count is taken by a statement of its own, before *)
(* the metadata row is locked.                                             *)
(***************************************************************************)
EXTENDS Integers, FiniteSets, Sequences

CONSTANTS
  Profile,     \* profiles: they act, and are what is acted on
  User,
  Staff,       \* users who hold the global change and delete permissions
  Manages,     \* Manages[u]: the profiles u may use
  Current,     \* Current[u]: the current profile of u, one per user
  Value,       \* reaction types, ratings or report types
  Worth,       \* Worth[v]: the integer v stands for, as a rating
  Request,     \* requests in flight
  Before,      \* keys that may have a row to begin with
  Enabled,     \* targets whose metadata allows reactions or ratings
  None,        \* no row, or no metadata row
  MaxStarts    \* bound: requests, commands and bulk deletions begun

Kind == {"blocks", "reactions", "ratings", "reports"}
Key == Profile \X Profile

\* A primary key is named by the request that inserted the row, 0 for an earlier one, and
\* by the key it was inserted at.
Row == [id : Nat \X Key, by : User, value : Value]

\* The counters of a metadata row.
FieldsOfKind(p) == CASE p = "blocks" -> {"blockers", "blocking"}
                     [] p = "ratings" -> {"count", "sum"}
                     [] OTHER -> Value \cup {"total"}

ASSUME ProfileAssumption == IsFiniteSet(Profile)
ASSUME UserAssumption == Current \in [User -> Profile] /\ Staff \subseteq User
ASSUME ValueAssumption == Value # {} /\ Worth \in [Value -> Int]
ASSUME BeforeAssumption == \A k \in Before : k \in Key /\ \E u \in User : Current[u] = k[1]
ASSUME NoneAssumption == None \notin Row /\ \A p \in Kind : None \notin [FieldsOfKind(p) -> Int]
ASSUME BoundAssumption == MaxStarts \in Nat

VARIABLES
  kind,        \* the package this behaviour is about
  row,         \* row[k]: the row of actor k[1] and target k[2], or None
  meta,        \* meta[o]: the metadata row of o, or None
  tx,          \* tx[q]: the transaction of request q
  job,         \* the management command that recounts
  starts,      \* how many of these have begun; primary keys too
  asked,       \* history: <<user, key, value>> that a request of that user asked for
  suspect,     \* history: sides whose counter a stale recount or no recount has left behind
  calm         \* history: no overlap so far, and nothing that does not recount

vars == <<kind, row, meta, tx, job, starts, asked, suspect, calm>>

Fields == FieldsOfKind(kind)
NoCounts == [f \in Fields |-> 0]

\* What the metadata row holds; ratings may be negative, and so may their sum.
Counts == {c \in [Fields -> Int] : \A f \in Fields : (kind = "ratings" /\ f = "sum") \/ c[f] >= 0}

\* A side is an object with the counters that one recount writes: blocks recount the
\* blockers of the target and the blocking of the actor, the others only the target.
Side == Profile \X (IF kind = "blocks" THEN {"in", "out"} ELSE {"in"})
FieldsOf(s) == IF kind = "blocks" THEN (IF s[2] = "in" THEN {"blockers"} ELSE {"blocking"})
               ELSE Fields
SidesOf(k) == IF kind = "blocks" THEN <<<<k[2], "in">>, <<k[1], "out">>>> ELSE <<<<k[2], "in">>>>
SidesOfKeys(K) == UNION {{SidesOf(k)[i] : i \in DOMAIN SidesOf(k)} : k \in K}

Idle == [step |-> "idle"]
Resting == [step |-> "rest"]

-----------------------------------------------------------------------------
(* What a recount computes from a table of rows. *)

On(t, o) == {k \in Key : t[k] # None /\ k[2] = o}
By(t, o) == {k \in Key : t[k] # None /\ k[1] = o}

BlockersCount(t, o) == Cardinality(On(t, o))
BlockingCount(t, o) == Cardinality(By(t, o))
ReactionsCount(t, o) ==
  [f \in Value \cup {"total"} |->
     Cardinality(IF f = "total" THEN On(t, o) ELSE {k \in On(t, o) : t[k].value = f})]
\* The ratings add up to their stars, less those of the negative ones.
Stars(t, o) == UNION {{<<k, n>> : n \in 1..Worth[t[k].value]} : k \in On(t, o)}
Minus(t, o) == UNION {{<<k, n>> : n \in 1..-Worth[t[k].value]} : k \in On(t, o)}
RatingsIndicators(t, o) ==
  [f \in {"count", "sum"} |->
     IF f = "count" THEN Cardinality(On(t, o)) ELSE Cardinality(Stars(t, o)) - Cardinality(Minus(t, o))]
ReportsCount(t, o) ==
  [f \in Value \cup {"total"} |->
     Cardinality({k \in On(t, o) : f = "total" \/ t[k].value = f})]

Counted(t, s) ==
  CASE kind = "blocks" /\ s[2] = "in" -> [f \in {"blockers"} |-> BlockersCount(t, s[1])]
    [] kind = "blocks" /\ s[2] = "out" -> [f \in {"blocking"} |-> BlockingCount(t, s[1])]
    [] kind = "reactions" -> ReactionsCount(t, s[1])
    [] kind = "ratings" -> RatingsIndicators(t, s[1])
    [] kind = "reports" -> ReportsCount(t, s[1])

-----------------------------------------------------------------------------
(* Transactions. *)

\* The values of f, and where it has none those of g.
Over(f, g) == [x \in DOMAIN f \cup DOMAIN g |-> IF x \in DOMAIN f THEN f[x] ELSE g[x]]
One(x, v) == [y \in {x} |-> v]

Active == {q \in Request : tx[q] # Idle}
Others(q) == Active \ {q}

\* What q sees: its own writes over what is committed.
Seen(q) == Over(tx[q].rows, row)
SeenMeta(q) == Over(tx[q].meta, meta)

RowsLocked(q) == UNION {DOMAIN tx[p].rows : p \in Others(q)}
MetaLocked(q) == UNION {DOMAIN tx[p].meta : p \in Others(q)}

\* Where the row with primary key id is now, if anywhere.
At(t, id) == {k \in DOMAIN t : t[k] # None /\ t[k].id = id}

Begin(q, new) ==
  /\ starts < MaxStarts
  /\ tx[q] = Idle
  /\ tx' = [tx EXCEPT ![q] =
       [op |-> new.op, key |-> new.key, old |-> new.old, new |-> new.new, step |-> "write",
        rows |-> <<>>, meta |-> <<>>, todo |-> <<>>, done |-> {}, sure |-> {},
        loaded |-> NoCounts, count |-> NoCounts]]
  /\ starts' = starts + 1
  /\ calm' = (calm /\ Active = {} /\ job = Resting)
  /\ UNCHANGED <<kind, row, meta, job, suspect>>

Asks(u, k, v) == asked' = asked \cup {<<u, k, v>>}

-----------------------------------------------------------------------------
(* Who may do what, and the mutations: each reads, then sends its first write. *)

MayDeleteBlock(u, k, r) == r.by = u \/ k[1] \in Manages[u] \/ u \in Staff
MayChangeReactionAnyone(u, k, r) == k[2] \in Enabled
MayChangeReaction(u, k, r) == k[2] \in Enabled /\ (r.by = u \/ u \in Staff)

ToggledRetrying(u, k, v, r) == [op |-> "insert", key |-> k, old |-> r, new |-> r]
\* The statement for a row that get_or_create found: delete it, or save the other value.
Toggled(u, k, v, r) ==
  IF r.value = v THEN [op |-> "delete", key |-> k, old |-> r, new |-> r]
  ELSE [op |-> "save", key |-> k, old |-> r, new |-> [r EXCEPT !.value = v]]
Insert(u, k, v) ==
  LET r == [id |-> <<starts + 1, k>>, by |-> u, value |-> v]
  IN [op |-> "insert", key |-> k, old |-> r, new |-> r]

\* get_or_create looks a block up by actor, target and user.
BlockToggle(q, u, k) ==
  /\ kind = "blocks"
  /\ k[1] \in Manages[u] /\ k[1] # k[2]
  /\ LET v == CHOOSE x \in Value : TRUE
         found == row[k] # None /\ row[k].by = u
     IN /\ found => MayDeleteBlock(u, k, row[k])
        /\ Begin(q, IF found THEN Toggled(u, k, v, row[k]) ELSE Insert(u, k, v))
        /\ Asks(u, k, v)

ReactionToggle(q, u, k, v) ==
  /\ kind = "reactions"
  /\ k[2] \in Enabled
  /\ k[1] \in Manages[u]
  /\ row[k] # None => MayChangeReaction(u, k, row[k])
  /\ Begin(q, IF row[k] # None THEN Toggled(u, k, v, row[k]) ELSE Insert(u, k, v))
  /\ Asks(u, k, v)

RateCreate(q, u, o, v) ==
  /\ kind = "ratings"
  /\ o \in Enabled
  /\ Begin(q, Insert(u, <<Current[u], o>>, v))
  /\ Asks(u, <<Current[u], o>>, v)

ReportCreate(q, u, o, v) ==
  /\ kind = "reports"
  /\ Current[u] # o
  /\ Begin(q, Insert(u, <<Current[u], o>>, v))
  /\ Asks(u, <<Current[u], o>>, v)

\* The change form of the admin site: any column of a row.
AdminSave(q, k, o, v) ==
  /\ row[k] # None
  /\ kind = "blocks" => k[1] # o
  /\ Begin(q, [op |-> "save", key |-> <<k[1], o>>, old |-> row[k], new |-> [row[k] EXCEPT !.value = v]])
  /\ Asks(row[k].by, <<k[1], o>>, v)

AdminDelete(q, k) ==
  /\ row[k] # None
  /\ Begin(q, [op |-> "delete", key |-> k, old |-> row[k], new |-> row[k]])
  /\ UNCHANGED asked

-----------------------------------------------------------------------------
(* The statements of a transaction. *)

Rest == <<kind, row, meta, job, starts, asked, suspect, calm>>

RecountedOnSaveOnly(op, k) == IF op = "delete" THEN <<>> ELSE SidesOf(k)

\* save() of a new block recounts, save() of an existing one does not.
Recounted(op, k) == IF kind = "blocks" /\ op = "save" THEN <<>> ELSE SidesOf(k)

Wrote(q, op, changes) ==
  tx' = [tx EXCEPT ![q].rows = Over(changes, @), ![q].todo = Recounted(op, tx[q].key), ![q].step = "load"]

Abort(q) == tx' = [tx EXCEPT ![q] = Idle]

\* INSERT.  When the unique constraint refuses it, get_or_create reads again; a block of
\* another user is not found even then, and create() has nothing to fall back on.
InsertRow(q) ==
  LET k == tx[q].key
      r == Seen(q)[k]
  IN /\ tx[q].step = "write" /\ tx[q].op = "insert"
     /\ k \notin RowsLocked(q)
     /\ \/ /\ r = None
           /\ Wrote(q, "insert", One(k, tx[q].new))
        \/ /\ r # None
           /\ \/ kind = "blocks" /\ r.by = tx[q].new.by
              \/ kind = "reactions" /\ MayChangeReaction(tx[q].new.by, k, r)
           /\ LET next == Toggled(tx[q].new.by, k, tx[q].new.value, r)
              IN tx' = [tx EXCEPT ![q].op = next.op, ![q].old = next.old, ![q].new = next.new]
        \/ /\ r # None
           /\ ~ (kind = "blocks" /\ r.by = tx[q].new.by)
           /\ ~ (kind = "reactions" /\ MayChangeReaction(tx[q].new.by, k, r))
           /\ Abort(q)
     /\ UNCHANGED Rest

\* Model.save() of the instance in memory: every column, by primary key; inserted again
\* when the row is gone, which fails if another transaction has inserted it.
SaveRow(q) ==
  LET k == tx[q].key
      at == At(Seen(q), tx[q].old.id)
      taken == at = {} /\ \E p \in Others(q) : At(tx[p].rows, tx[q].old.id) # {}
  IN /\ tx[q].step = "write" /\ tx[q].op = "save"
     /\ (at \cup {k}) \cap RowsLocked(q) = {}
     /\ IF taken \/ (Seen(q)[k] # None /\ k \notin at) THEN Abort(q)
        ELSE Wrote(q, "save", [x \in at \cup {k} |-> IF x = k THEN tx[q].new ELSE None])
     /\ UNCHANGED Rest

\* DELETE by primary key: nothing when the row is gone.  The instance recounts its target.
DeleteRow(q) ==
  LET at == At(Seen(q), tx[q].old.id)
  IN /\ tx[q].step = "write" /\ tx[q].op = "delete"
     /\ at \cap RowsLocked(q) = {}
     /\ Wrote(q, "delete", [x \in at |-> None])
     /\ UNCHANGED Rest

\* get_or_create_for_object: the metadata row as it is now; a missing one is inserted.
LoadMetadata(q) ==
  LET s == Head(tx[q].todo)
      found == SeenMeta(q)[s[1]]
  IN /\ tx[q].step = "load" /\ tx[q].todo # <<>>
     /\ found = None => s[1] \notin MetaLocked(q)
     /\ tx' = [tx EXCEPT ![q].loaded = IF found = None THEN NoCounts ELSE found,
                         ![q].meta = IF found = None THEN Over(One(s[1], NoCounts), @) ELSE @,
                         ![q].sure = IF kind = "blocks" THEN @ \cup {s} ELSE @,
                         ![q].step = "count"]
     /\ UNCHANGED Rest

CountRows(q) ==
  LET s == Head(tx[q].todo)
  IN /\ tx[q].step = "count"
     /\ tx' = [tx EXCEPT ![q].count = Counted(Seen(q), s),
                         ![q].sure = IF kind = "blocks" THEN @ ELSE @ \cup {s},
                         ![q].step = "save"]
     /\ UNCHANGED Rest

SameTotal(q) ==
  kind # "ratings" /\ \A f \in FieldsOf(Head(tx[q].todo)) \ Value : tx[q].loaded[f] = tx[q].count[f]
Unchanged(q) ==
  kind = "blocks" /\ \A f \in FieldsOf(Head(tx[q].todo)) : tx[q].loaded[f] = tx[q].count[f]

\* save(update_fields): blocks write only a count that differs from the one loaded.
SaveMetadata(q) ==
  LET s == Head(tx[q].todo)
  IN /\ tx[q].step = "save"
     /\ Unchanged(q) \/ s[1] \notin MetaLocked(q)
     /\ tx' = [tx EXCEPT ![q].meta = IF Unchanged(q) THEN @
                                     ELSE Over(One(s[1], Over(tx[q].count, SeenMeta(q)[s[1]])), @),
                         ![q].todo = Tail(@), ![q].done = @ \cup {s}, ![q].step = "load"]
     /\ UNCHANGED Rest

-----------------------------------------------------------------------------
(* Ends of transactions. *)

Touched(q) == {k \in DOMAIN tx[q].rows : tx[q].rows[k] # row[k]}

\* A commit unsettles what others have counted: the sides of the rows it changed and, for
\* blocks, which compare with a row loaded before, the metadata rows it wrote.
Unsettled(q) ==
  SidesOfKeys(Touched(q)) \cup {s \in Side : kind = "blocks" /\ s[1] \in DOMAIN tx[q].meta}

Commit(q) ==
  /\ tx[q].step = "load" /\ tx[q].todo = <<>>
  /\ row' = Seen(q)
  /\ meta' = SeenMeta(q)
  /\ suspect' = (suspect \cup SidesOfKeys(Touched(q)) \cup tx[q].done) \ tx[q].sure
  /\ tx' = [p \in Request |-> IF p = q THEN Idle
                              ELSE IF tx[p] = Idle THEN Idle
                              ELSE [tx[p] EXCEPT !.sure = @ \ Unsettled(q)]]
  /\ job' = IF job # Resting /\ job.sure /\ <<job.at, "in">> \in Unsettled(q)
            THEN [job EXCEPT !.sure = FALSE] ELSE job
  /\ calm' = (calm /\ (tx[q].op = "save" => kind # "blocks" /\ Touched(q) \subseteq {tx[q].key}))
  /\ UNCHANGED <<kind, starts, asked>>

\* The rows and metadata rows that the next statement of q waits for.
Waits(q, p) ==
  /\ tx[q] # Idle /\ p \in Others(q)
  /\ \/ /\ tx[q].step = "write"
        /\ (At(Seen(q), tx[q].old.id) \cup IF tx[q].op = "delete" THEN {} ELSE {tx[q].key})
             \cap DOMAIN tx[p].rows # {}
     \/ /\ tx[q].step = "load" /\ tx[q].todo # <<>>
        /\ SeenMeta(q)[Head(tx[q].todo)[1]] = None
        /\ Head(tx[q].todo)[1] \in DOMAIN tx[p].meta
     \/ /\ tx[q].step = "save" /\ ~ Unchanged(q)
        /\ Head(tx[q].todo)[1] \in DOMAIN tx[p].meta

\* PostgreSQL ends a transaction that waits in a circle.
BreakDeadlock(q) ==
  /\ \E S \in SUBSET Active : q \in S /\ \A p \in S : \E o \in S : Waits(p, o)
  /\ Abort(q)
  /\ UNCHANGED Rest

\* Rows deleted without Model.delete(): the bulk action of the admin site, the cascade of a
\* user, a profile or a report type.  Nothing is recounted.
BulkDelete(K) ==
  /\ starts < MaxStarts /\ starts' = starts + 1
  /\ K # {} /\ K \cap UNION {DOMAIN tx[p].rows : p \in Active} = {}
  /\ \A k \in K : row[k] # None
  /\ row' = [k \in Key |-> IF k \in K THEN None ELSE row[k]]
  /\ suspect' = suspect \cup SidesOfKeys(K)
  /\ tx' = [p \in Request |-> IF tx[p] = Idle THEN Idle ELSE [tx[p] EXCEPT !.sure = @ \ SidesOfKeys(K)]]
  /\ job' = IF job # Resting /\ job.sure /\ <<job.at, "in">> \in SidesOfKeys(K)
            THEN [job EXCEPT !.sure = FALSE] ELSE job
  /\ calm' = FALSE
  /\ UNCHANGED <<kind, meta, asked>>

-----------------------------------------------------------------------------
(* update_reactions_count and update_reports_count: a command that recounts each target    *)
(* that has rows, one statement at a time, each committed at once.                          *)

RecomputeStart ==
  /\ kind \in {"reactions", "reports"} /\ job = Resting
  /\ starts < MaxStarts /\ starts' = starts + 1
  /\ \E k \in Key : row[k] # None
  /\ job' = [step |-> "count", todo |-> {k[2] : k \in {x \in Key : row[x] # None}},
             at |-> None, count |-> NoCounts, sure |-> FALSE]
  /\ calm' = (calm /\ Active = {})
  /\ UNCHANGED <<kind, row, meta, tx, asked, suspect>>

RecomputeCount(o) ==
  /\ job.step = "count" /\ o \in job.todo
  /\ job' = [job EXCEPT !.step = "save", !.at = o, !.count = Counted(row, <<o, "in">>), !.sure = TRUE]
  /\ UNCHANGED <<kind, row, meta, tx, starts, asked, suspect, calm>>

RecomputeSave ==
  /\ job.step = "save"
  /\ job.at \notin UNION {DOMAIN tx[p].meta : p \in Active}
  /\ meta' = [meta EXCEPT ![job.at] = job.count]
  /\ suspect' = IF job.sure THEN suspect \ {<<job.at, "in">>} ELSE suspect \cup {<<job.at, "in">>}
  /\ job' = IF job.todo = {job.at} THEN Resting
            ELSE [job EXCEPT !.step = "count", !.todo = @ \ {job.at}, !.at = None,
                             !.count = NoCounts, !.sure = FALSE]
  /\ UNCHANGED <<kind, row, tx, starts, asked, calm>>

-----------------------------------------------------------------------------
TypeOK ==
  /\ kind \in Kind
  /\ row \in [Key -> Row \cup {None}]
  /\ meta \in [Profile -> Counts \cup {None}]
  /\ \A q \in Active : /\ \A k \in DOMAIN tx[q].rows : k \in Key /\ tx[q].rows[k] \in Row \cup {None}
                       /\ \A o \in DOMAIN tx[q].meta : o \in Profile /\ tx[q].meta[o] \in Counts
                       /\ tx[q].sure \in SUBSET Side /\ tx[q].done \in SUBSET Side
                       /\ tx[q].loaded \in Counts
  /\ \A q \in Active : /\ DOMAIN tx[q].rows \cap RowsLocked(q) = {}
                       /\ DOMAIN tx[q].meta \cap MetaLocked(q) = {}
  /\ starts \in 0..MaxStarts
  /\ suspect \in SUBSET Side /\ calm \in BOOLEAN

\* What an earlier request of the user of k[1] has left.
Earlier(k) == [id |-> <<0, k>>, by |-> CHOOSE u \in User : Current[u] = k[1], value |-> CHOOSE v \in Value : TRUE]
CountedAll(o) == IF kind = "blocks" THEN Over(Counted(row, <<o, "in">>), Counted(row, <<o, "out">>))
                 ELSE Counted(row, <<o, "in">>)

Init ==
  /\ kind \in Kind
  /\ \E K \in SUBSET Before :
       row = [k \in Key |-> IF k \in K THEN Earlier(k) ELSE None]
  /\ meta = [o \in Profile |-> IF \E k \in Key : row[k] # None /\ o \in {k[1], k[2]}
                             THEN CountedAll(o) ELSE None]
  /\ tx = [q \in Request |-> Idle]
  /\ job = Resting
  /\ starts = 0
  /\ asked = {<<row[k].by, k, row[k].value>> : k \in {x \in Key : row[x] # None}}
  /\ suspect = {}
  /\ calm = TRUE

Statement(q) ==
  InsertRow(q) \/ SaveRow(q) \/ DeleteRow(q) \/ LoadMetadata(q) \/ CountRows(q)
  \/ SaveMetadata(q) \/ Commit(q) \/ BreakDeadlock(q)

Next ==
  \/ \E q \in Request, u \in User, k \in Key : BlockToggle(q, u, k)
  \/ \E q \in Request, u \in User, k \in Key, v \in Value : ReactionToggle(q, u, k, v)
  \/ \E q \in Request, u \in User, o \in Profile, v \in Value :
       RateCreate(q, u, o, v) \/ ReportCreate(q, u, o, v)
  \/ \E q \in Request, k \in Key, o \in Profile, v \in Value : AdminSave(q, k, o, v)
  \/ \E q \in Request, k \in Key : AdminDelete(q, k)
  \/ \E q \in Request : Statement(q)
  \/ \E K \in SUBSET Key : BulkDelete(K)
  \/ RecomputeStart \/ RecomputeSave
  \/ \E o \in Profile : RecomputeCount(o)

Spec == Init /\ [][Next]_vars /\ \A q \in Request : SF_vars(Statement(q))

-----------------------------------------------------------------------------
(* Properties. *)

\* A missing metadata row reads as zero (get_blockers_count, get_reactions_count, ...).
Shown(s) == [f \in FieldsOf(s) |-> IF meta[s[1]] = None THEN 0 ELSE meta[s[1]][f]]

\* A counter differs from the rows it counts only where the last to write it had counted
\* before somebody else's commit, or where rows changed with no recount: whoever counts
\* last, and undisturbed, repairs it, whatever was wrong before.
RecountsSettle == \A s \in Side : s \notin suspect => Shown(s) = Counted(row, s)

\* While requests do not overlap, rows change through save() and delete() alone, and no
\* change form edits a block or moves another row to a new target, every counter is exact.
CalmIsExact == calm => \A s \in Side : Shown(s) = Counted(row, s)

\* A row holds a value that its own user asked for, or staff set for them: nobody's choice
\* is changed by another manager of the profile, nor brought back by a stale save() as
\* somebody else's.
Wanted(r, k) == \E u \in {r.by} \cup Staff : <<u, k, r.value>> \in asked
OwnChoice == \A k \in Key : row[k] # None => Wanted(row[k], k)

\* Every row is well formed, and nobody's choice is changed by another user's request.
ChoicesKept == TypeOK /\ OwnChoice

\* Every request ends: waiting for rows and for metadata rows, in whatever order the
\* sides of a block are locked, never lasts for ever.
RequestsEnd == \A q \in Request : tx[q] # Idle ~> tx[q] = Idle
=============================================================================
