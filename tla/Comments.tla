------------------------------- MODULE Comments ------------------------------
(***************************************************************************)
(* Comments (baseapp_comments): creating, editing, pinning and soft        *)
(* deleting comments, what the admin site does to them, and the            *)
(* comments_count that signals.py keeps on CommentableMetadata.            *)
(*                                                                         *)
(* Each request is one transaction (ATOMIC_REQUESTS) at READ COMMITTED: a  *)
(* statement sees what is committed and the writes of its own transaction; *)
(* what it writes stays locked until the transaction ends.  A transaction  *)
(* may be rolled back at any point (deadlock, lost connection, refused     *)
(* constraint).  The statements of a batch take their locks together.      *)
(***************************************************************************)
EXTENDS Integers, FiniteSets

CONSTANTS
  Target,        \* the objects commented on, none of them a comment
  Request,       \* request slots
  Root,          \* the parent of a comment that replies to none
  NoRow,         \* no such Comment row
  Idle,          \* a request slot that is not in use
  Free,          \* a row lock nobody holds
  MaxPins,       \* BASEAPP_COMMENTS_MAX_PINS_PER_THREAD
  Concurrency,   \* how many requests may be in flight at once
  MaxComments,   \* bound: Comment rows
  MaxRequests,   \* bound: requests
  MaxAdmin       \* bound: those among them made in the admin site

ASSUME BoundAssumption == MaxComments \in Nat /\ MaxRequests \in Nat /\ MaxAdmin \in Nat
ASSUME PinsAssumption == MaxPins \in Nat

Comment == 1..MaxComments

ASSUME NameAssumption ==
  /\ Target \cap (Comment \cup {Root}) = {} /\ Root \notin Comment
  /\ Free \notin Request

Row == [target : Target, parent : Comment \cup {Root}, visible : BOOLEAN, pinned : BOOLEAN]

Counts == [total : Nat, main : Nat, replies : Nat, pinned : Nat]
Zero == [total |-> 0, main |-> 0, replies |-> 0, pinned |-> 0]

ASSUME NoRowAssumption == NoRow \notin Row \cup Counts

VARIABLES
  rows,       \* rows[c]: the Comment row c, or NoRow
  count,      \* count[k]: comments_count of a target or comment (zeros when it has no row)
  enabled,    \* what has is_comments_enabled
  rowLock,    \* rowLock[c]: the request that has written row c and not yet ended
  metaLock,   \* metaLock[k]: the request that has locked the metadata row of k
  tx,         \* tx[q]: the transaction of request q
  made,       \* primary keys given out
  requests, adminRequests,   \* how many have begun
  overlapped, \* history: two requests have been in flight at once
  gone,       \* history: comments under one that was deleted, and that one
  stale       \* history: keys whose count a commit has left behind

vars == <<rows, count, enabled, rowLock, metaLock, tx, made, requests, adminRequests,
          overlapped, gone, stale>>

Key == Target \cup Comment

OpNames == {"create", "save", "delete", "enable"}

\* loaded: the rows in memory.  written: those already sent.  left: the instances whose
\* signal has not run to its end; half: the parent of the next one is done.  draft: the
\* counts in memory or sent.  sure: the recounts that no commit of another request has
\* overtaken (history).
Tx == [op : OpNames, sent : BOOLEAN, loaded : [Comment -> Row \cup {NoRow}],
       written : [Comment -> Row \cup {NoRow}], left : SUBSET Comment, half : BOOLEAN,
       draft : [Key -> Counts \cup {NoRow}], sure : SUBSET Key]

TypeOK ==
  /\ rows \in [Comment -> Row \cup {NoRow}]
  /\ count \in [Key -> Counts] /\ enabled \in SUBSET Key
  /\ rowLock \in [Comment -> Request \cup {Free}]
  /\ metaLock \in [Key -> Request \cup {Free}]
  /\ tx \in [Request -> Tx \cup {Idle}]
  /\ made \in 0..MaxComments /\ requests \in Nat /\ adminRequests \in Nat
  /\ overlapped \in BOOLEAN /\ gone \in SUBSET Comment /\ stale \in SUBSET Key

-----------------------------------------------------------------------------
(* Rows and counts.  rs stands for the rows that a transaction sees.       *)

Visible(rs) == {c \in Comment : rs[c] # NoRow /\ rs[c].visible}
On(rs, k) == {c \in Visible(rs) : rs[c].target = k}
RepliesTo(rs, k) == {c \in Visible(rs) : rs[c].parent = k}

\* recompute_for_parent
CountReplies(rs, k) ==
  LET n == Cardinality(RepliesTo(rs, k))
  IN [total |-> n, main |-> n, replies |-> n,
      pinned |-> Cardinality({c \in RepliesTo(rs, k) : rs[c].pinned})]

CountOnSwapped(rs, k) ==
  LET total == Cardinality(On(rs, k))
      replies == Cardinality({c \in On(rs, k) : rs[c].parent # Root})
  IN [total |-> total, main |-> replies - total, replies |-> replies,
      pinned |-> Cardinality({c \in On(rs, k) : rs[c].parent = Root /\ rs[c].pinned})]

\* recompute_for_target
CountOn(rs, k) ==
  LET total == Cardinality(On(rs, k))
      replies == Cardinality({c \in On(rs, k) : rs[c].parent # Root})
  IN [total |-> total, main |-> total - replies, replies |-> replies,
      pinned |-> Cardinality({c \in On(rs, k) : rs[c].parent = Root /\ rs[c].pinned})]

Recomputed(rs, k) == IF k \in Target THEN CountOn(rs, k) ELSE CountReplies(rs, k)

\* What update_comments_count recounts for an instance.
KeySet(row) == IF row = NoRow THEN {} ELSE {row.parent, row.target} \ {Root}

\* What Collector.collect finds: the comment and the replies below it, deleted ones too,
\* which is the least set that has the comment and every reply to one of its own.
Closed(rs, S) == \A d \in Comment : rs[d] # NoRow /\ rs[d].parent \in S => d \in S
Thread(rs, c) ==
  {d \in Comment : rs[d] # NoRow /\ \A S \in SUBSET Comment : c \in S /\ Closed(rs, S) => d \in S}

\* The rows as q sees them.
View(q) == [c \in Comment |-> IF tx[q].written[c] # NoRow THEN tx[q].written[c] ELSE rows[c]]

Active(q) == tx[q] # Idle
NoRows == [c \in Comment |-> NoRow]

-----------------------------------------------------------------------------
(* Requests up to their first write: what they load, and what they check.  *)

Begin(q, op, loaded, draft) ==
  /\ ~Active(q) /\ requests < MaxRequests
  /\ Cardinality({o \in Request : Active(o)}) < Concurrency
  /\ tx' = [tx EXCEPT ![q] = [op |-> op, sent |-> FALSE, loaded |-> loaded, written |-> NoRows,
                              left |-> {}, half |-> FALSE, draft |-> draft, sure |-> {}]]
  /\ requests' = requests + 1
  /\ overlapped' = (overlapped \/ \E o \in Request : Active(o))
  /\ UNCHANGED <<rows, count, enabled, rowLock, metaLock, gone, stale>>

Only(c, row) == [NoRows EXCEPT ![c] = row]
NoCounts == [k \in Key |-> NoRow]

\* CommentCreate.  Nothing asks that a reply be about the target of its parent, or that
\* the parent not be deleted: Comment.objects does not filter.
CommentCreate(q, t, p) ==
  /\ made < MaxComments
  /\ t \in enabled
  /\ p # Root => rows[p] # NoRow /\ p \in enabled
  /\ LET row == [target |-> t, parent |-> p, visible |-> TRUE, pinned |-> FALSE]
     IN Begin(q, "create", Only(made + 1, row), NoCounts)
  /\ made' = made + 1
  /\ UNCHANGED adminRequests

\* CommentUpdate, whose new body no property tells apart.
CommentUpdate(q, c) ==
  /\ rows[c] # NoRow /\ rows[c].target \in enabled
  /\ Begin(q, "save", Only(c, rows[c]), NoCounts)
  /\ UNCHANGED <<made, adminRequests>>

\* The visible comments of the thread of c: those with the same parent, or the roots of
\* the same target.
Siblings(c) ==
  {d \in Visible(rows) : /\ rows[d].parent = rows[c].parent
                         /\ rows[c].parent = Root => rows[d].target = rows[c].target}

CommentPinUnlimited(q, c) ==
  /\ rows[c] # NoRow
  /\ Begin(q, "save", Only(c, [rows[c] EXCEPT !.pinned = ~@]), NoCounts)
  /\ UNCHANGED <<made, adminRequests>>

\* CommentPin pins and unpins; a thread at its limit refuses both.
CommentPin(q, c) ==
  /\ rows[c] # NoRow
  /\ Cardinality({d \in Siblings(c) : rows[d].pinned}) < MaxPins
  /\ Begin(q, "save", Only(c, [rows[c] EXCEPT !.pinned = ~@]), NoCounts)
  /\ UNCHANGED <<made, adminRequests>>

CommentDelete(q, c) ==
  /\ rows[c] # NoRow /\ rows[c].target \in enabled
  /\ LET loaded == [d \in Comment |-> IF d \in Thread(rows, c) THEN rows[d] ELSE NoRow]
     IN Begin(q, "delete", loaded, NoCounts)
  /\ UNCHANGED <<made, adminRequests>>

\* CommentAdmin: its form can move a comment to any target and parent, pin it past the limit,
\* and delete or restore it by its status.
AdminChange(q, c, row) ==
  /\ rows[c] # NoRow /\ adminRequests < MaxAdmin
  /\ row.parent # Root => rows[row.parent] # NoRow
  /\ Begin(q, "save", Only(c, row), NoCounts)
  /\ adminRequests' = adminRequests + 1
  /\ UNCHANGED made

\* CommentableMetadataAdmin: is_comments_enabled is editable in the list, whose save
\* writes the whole row, comments_count as it was loaded included.
AdminEnable(q, k) ==
  /\ adminRequests < MaxAdmin
  /\ k \in Comment => rows[k] # NoRow
  /\ Begin(q, "enable", NoRows, [NoCounts EXCEPT ![k] = count[k]])
  /\ adminRequests' = adminRequests + 1
  /\ UNCHANGED made

-----------------------------------------------------------------------------
(* The statements that write.                                              *)

CanLock(lock, q) == lock \in {Free, q}
LockRows(q, cs) == rowLock' = [c \in Comment |-> IF c \in cs THEN q ELSE rowLock[c]]
Counters == <<made, requests, adminRequests, overlapped>>
Committed == <<rows, count, enabled, gone, stale>>

Loaded(q) == {c \in Comment : tx[q].loaded[c] # NoRow}
Written(q) == {c \in Comment : tx[q].written[c] # NoRow}
Drafted(q) == {k \in Key : tx[q].draft[k] # NoRow}

\* The foreign key of a reply, when it is new or changed, keeps its parent from being deleted,
\* and waits for whoever is deleting it.
NewParent(d, row) == rows[d] = NoRow \/ rows[d].parent # row.parent
Refers(o, c) ==
  Active(o) /\ \E d \in Written(o) : tx[o].written[d].parent = c /\ NewParent(d, tx[o].written[d])
Deletes(o, c) == Active(o) /\ tx[o].op = "delete" /\ c \in Written(o)

Send(q, written) ==
  /\ \A c \in Loaded(q) : CanLock(rowLock[c], q)
  /\ LockRows(q, Loaded(q))
  /\ tx' = [tx EXCEPT ![q] = [@ EXCEPT !.sent = TRUE, !.written = written, !.left = Loaded(q)]]
  /\ UNCHANGED <<metaLock, Counters, Committed>>

\* Comment.save(): every column is written as it is in memory.
SaveComment(q) ==
  /\ Active(q) /\ tx[q].op \in {"create", "save"} /\ ~tx[q].sent
  /\ \A c \in Loaded(q), o \in Request :
       NewParent(c, tx[q].loaded[c]) => ~Deletes(o, tx[q].loaded[c].parent)
  /\ Send(q, tx[q].loaded)

\* DELETE, which the soft_delete trigger turns into an update of the status alone.
SoftDelete(q) ==
  /\ Active(q) /\ tx[q].op = "delete" /\ ~tx[q].sent
  /\ \A c \in Loaded(q), o \in Request : ~Refers(o, c)
  /\ Send(q, [c \in Comment |-> IF c \in Loaded(q) THEN [rows[c] EXCEPT !.visible = FALSE] ELSE NoRow])

\* The signal of the next instance: after a batch, those of the last ones come first.
\* The parent is recounted before the target.
NextInstance(q, c) == c \in tx[q].left /\ \A d \in tx[q].left : d <= c
AtParent(q, c) == tx[q].loaded[c].parent # Root /\ ~tx[q].half
NextKey(q, c) == IF AtParent(q, c) THEN tx[q].loaded[c].parent ELSE tx[q].loaded[c].target

RecountedOnce(q, c) ==
  [tx[q] EXCEPT !.left = @ \ {c},
                !.draft = [@ EXCEPT ![NextKey(q, c)] = Recomputed(View(q), NextKey(q, c))],
                !.sure = @ \cup {NextKey(q, c)}]

Recounted(q, c) ==
  [tx[q] EXCEPT !.left = IF AtParent(q, c) THEN @ ELSE @ \ {c}, !.half = AtParent(q, c),
                !.draft = [@ EXCEPT ![NextKey(q, c)] = Recomputed(View(q), NextKey(q, c))],
                !.sure = @ \cup {NextKey(q, c)}]

RecountUnlocked(q, c) ==
  /\ Active(q) /\ NextInstance(q, c)
  /\ tx' = [tx EXCEPT ![q] = Recounted(q, c)]
  /\ UNCHANGED <<metaLock, rowLock, Counters, Committed>>

\* _recompute_and_save_comments_count: the metadata row is locked, then the comments are
\* counted.
Recount(q, c) ==
  /\ Active(q) /\ NextInstance(q, c)
  /\ CanLock(metaLock[NextKey(q, c)], q)
  /\ metaLock' = [metaLock EXCEPT ![NextKey(q, c)] = q]
  /\ tx' = [tx EXCEPT ![q] = Recounted(q, c)]
  /\ UNCHANGED <<rowLock, Counters, Committed>>

\* Model.save() of the metadata row in memory.
SaveMetadata(q) ==
  /\ Active(q) /\ tx[q].op = "enable" /\ ~tx[q].sent
  /\ \A k \in Drafted(q) : CanLock(metaLock[k], q)
  /\ metaLock' = [k \in Key |-> IF k \in Drafted(q) THEN q ELSE metaLock[k]]
  /\ tx' = [tx EXCEPT ![q] = [@ EXCEPT !.sent = TRUE]]
  /\ UNCHANGED <<rowLock, Counters, Committed>>

-----------------------------------------------------------------------------
(* The ends of transactions.                                               *)

Release(q) ==
  /\ rowLock' = [c \in Comment |-> IF rowLock[c] = q THEN Free ELSE rowLock[c]]
  /\ metaLock' = [k \in Key |-> IF metaLock[k] = q THEN Free ELSE metaLock[k]]
  /\ UNCHANGED Counters

\* The keys whose comments the commit of q changes without a recount of q.
Skipped(q) ==
  (UNION {KeySet(rows[c]) \cup KeySet(tx[q].written[c]) : c \in Written(q)}) \ Drafted(q)

\* With a deleted comment go its DocumentId and, by cascade, its own metadata.
Commit(q) ==
  /\ Active(q) /\ tx[q].op # "enable" /\ tx[q].sent /\ tx[q].left = {}
  /\ LET doomed == IF tx[q].op = "delete" THEN Loaded(q) ELSE {} IN
       /\ \A d \in doomed : CanLock(metaLock[d], q)
       /\ rows' = View(q)
       /\ count' = [k \in Key |-> IF k \in doomed THEN Zero
                                  ELSE IF k \in Drafted(q) THEN tx[q].draft[k] ELSE count[k]]
       /\ enabled' = enabled \cup doomed
       /\ gone' = gone \cup doomed \cup UNION {Thread(rows, d) : d \in doomed}
       /\ stale' = (stale \ tx[q].sure) \cup (Drafted(q) \ tx[q].sure) \cup Skipped(q) \cup doomed
  /\ tx' = [o \in Request |-> IF o = q \/ ~Active(o) THEN Idle
                              ELSE [tx[o] EXCEPT !.sure = @ \ Skipped(q)]]
  /\ Release(q)

CommitMetadata(q) ==
  /\ Active(q) /\ tx[q].op = "enable" /\ tx[q].sent
  /\ count' = [k \in Key |-> IF k \in Drafted(q) THEN tx[q].draft[k] ELSE count[k]]
  /\ enabled' \in {enabled \cup Drafted(q), enabled \ Drafted(q)}
  /\ stale' = stale \cup {k \in Drafted(q) : tx[q].draft[k] # count[k]}
  /\ tx' = [tx EXCEPT ![q] = Idle]
  /\ Release(q)
  /\ UNCHANGED <<rows, gone>>

RollBack(q) ==
  /\ Active(q)
  /\ tx' = [tx EXCEPT ![q] = Idle]
  /\ Release(q)
  /\ UNCHANGED Committed

-----------------------------------------------------------------------------
Init ==
  /\ rows = NoRows
  /\ count = [k \in Key |-> Zero] /\ enabled = Key
  /\ rowLock = [c \in Comment |-> Free] /\ metaLock = [k \in Key |-> Free]
  /\ tx = [q \in Request |-> Idle]
  /\ made = 0 /\ requests = 0 /\ adminRequests = 0
  /\ overlapped = FALSE /\ gone = {} /\ stale = {}

Start(q) ==
  \/ \E t \in Target, p \in Comment \cup {Root} : CommentCreate(q, t, p)
  \/ \E c \in Comment : CommentUpdate(q, c) \/ CommentPin(q, c) \/ CommentDelete(q, c)
  \/ \E c \in Comment, row \in Row : AdminChange(q, c, row)
  \/ \E k \in Key : AdminEnable(q, k)

Statement(q) ==
  \/ SaveComment(q) \/ SoftDelete(q) \/ SaveMetadata(q)
  \/ \E c \in Comment : Recount(q, c)
  \/ Commit(q) \/ CommitMetadata(q) \/ RollBack(q)

Next == \E q \in Request : Start(q) \/ Statement(q)

Spec == Init /\ [][Next]_vars

-----------------------------------------------------------------------------
(* What readers of commentsCount and of threads can count on.              *)

\* However requests overlap and fail, and whatever they wrote, the committed count of a
\* target or comment is that of its visible comments: every recount starts by locking
\* the metadata row that the next one needs.  The exceptions are the keys in stale,
\* until they are recounted.
CountsExact == \A k \in Key \ stale : count[k] = Recomputed(rows, k)

\* Without the admin site a count is left behind only with a comment that was deleted:
\* its metadata goes, although replies may have slipped in below it.
OnlyDeletedStale == adminRequests = 0 => stale \subseteq gone

\* While requests do not overlap, a deleted thread stays deleted whatever is done to it
\* later, and no thread shows more pins than the setting allows.
SerialThreads == ~overlapped /\ adminRequests = 0 =>
  /\ \A c \in gone : ~rows[c].visible
  /\ \A c \in Visible(rows) : Cardinality({d \in Siblings(c) : rows[d].pinned}) <= MaxPins
==============================================================================
