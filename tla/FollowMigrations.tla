-------------------------- MODULE FollowMigrations --------------------------
(***************************************************************************)
(* The helpers that rewrite Follow.actor and Follow.target from primary    *)
(* keys of profiles to ids of documents, in place, and back; and the ones  *)
(* that seed the followers and following counters.  The numbers of the two *)
(* kinds overlap, so a column that was not rewritten reads as another row. *)
(***************************************************************************)
EXTENDS Integers, Sequences, FiniteSets, SequencesExt

CONSTANTS
  Pks,         \* primary keys of profiles
  Pages,       \* primary keys of pages, which only the upgraded application follows
  RowId,
  None,
  MaxSteps     \* bound: migrations and new follows

VARIABLES
  docs,        \* the documents, <<content type, primary key>>; the id of one is its place
  follow,      \* follow[r]: the columns actor and target, or None
  meta,        \* meta[d]: followers and following of document d, or None
  done,        \* the operations applied
  truth,       \* history: who follows whom, as objects
  skipped,     \* history: rows that a downgrade could not restore
  steps

vars == <<docs, follow, meta, done, truth, skipped, steps>>

Profiles == {"profile"} \X Pks
Entity == Profiles \cup ({"page"} \X Pages)
Rows == {r \in RowId : follow[r] # None}

Pipeline == <<"convert", "seed">>
Forward(op) == /\ steps < MaxSteps /\ steps' = steps + 1
               /\ Len(done) < 2 /\ Pipeline[Len(done) + 1] = op
               /\ done' = Append(done, op)
Backward(op) == /\ steps < MaxSteps /\ steps' = steps + 1
                /\ done # <<>> /\ Last(done) = op
                /\ done' = Front(done)

-----------------------------------------------------------------------------
\* The maps the helpers build: profile to document and document to profile; 0 is no entry.
DocByObject(pk) == IF \E d \in DOMAIN docs : docs[d] = <<"profile", pk>>
                   THEN CHOOSE d \in DOMAIN docs : docs[d] = <<"profile", pk>> ELSE 0
ObjectByAnyDoc(id) == IF id \in DOMAIN docs THEN docs[id][2] ELSE 0

ObjectByDoc(id) == IF id \in DOMAIN docs /\ docs[id][1] = "profile" THEN docs[id][2] ELSE 0

DocsOfRows == [r \in Rows |-> [actor |-> DocByObject(follow[r].actor),
                               target |-> DocByObject(follow[r].target)]]
ObjectsOfRows == [r \in Rows |-> [actor |-> ObjectByDoc(follow[r].actor),
                                  target |-> ObjectByDoc(follow[r].target)]]

\* A row maps as a whole or not at all.
Resolved(new) == {r \in Rows : new[r].actor # 0 /\ new[r].target # 0}

\* The UPDATE checks unique (actor, target) row by row, against rows not rewritten yet too.
Rewrites(new) ==
  \E order \in SetToSeqs(Resolved(new)) : \A i \in DOMAIN order :
    LET moved == {order[j] : j \in 1..(i - 1)}
    IN new[order[i]] \notin
         {new[r] : r \in moved} \cup {follow[r] : r \in Rows \ (moved \cup {order[i]})}

migrate_follow_profile_fks_to_document_id ==
  /\ Forward("convert")
  /\ Rewrites(DocsOfRows)
  /\ follow' = [r \in RowId |-> IF r \in Resolved(DocsOfRows) THEN DocsOfRows[r] ELSE None]
  /\ truth' = [r \in RowId |-> IF follow'[r] = None THEN None ELSE truth[r]]
  /\ UNCHANGED <<docs, meta, skipped>>

reverse_migrate_follow_document_id_fks_to_profile ==
  /\ Backward("convert")
  /\ Rewrites(ObjectsOfRows)
  /\ follow' = [r \in RowId |-> IF r \in Resolved(ObjectsOfRows) THEN ObjectsOfRows[r] ELSE follow[r]]
  /\ skipped' = skipped \cup (Rows \ Resolved(ObjectsOfRows))
  /\ UNCHANGED <<docs, meta, truth>>

-----------------------------------------------------------------------------
Ends == {follow[r].actor : r \in Rows} \cup {follow[r].target : r \in Rows}
FollowersCount(d) == Cardinality({r \in Rows : follow[r].target = d})
FollowingCount(d) == Cardinality({r \in Rows : follow[r].actor = d})
Counts(d) == [followers |-> FollowersCount(d), following |-> FollowingCount(d)]

seed_followable_metadata_from_follows ==
  /\ Forward("seed")
  /\ meta' = [d \in DOMAIN meta |-> IF d \in Ends THEN Counts(d) ELSE meta[d]]
  /\ UNCHANGED <<docs, follow, truth, skipped>>

reverse_seed_followable_metadata ==
  /\ Backward("seed")
  /\ meta' = [d \in DOMAIN meta |-> IF d \in Ends THEN None ELSE meta[d]]
  /\ UNCHANGED <<docs, follow, truth, skipped>>

-----------------------------------------------------------------------------
\* The upgraded application follows any documentable object and keeps the counters, which
\* Follows.tla models; here one toggle is a step.
Toggle(r, a, o) ==
  /\ steps < MaxSteps /\ steps' = steps + 1
  /\ done = Pipeline
  /\ follow[r] = None /\ a # o
  /\ LET D == docs \o SetToSeq({a, o} \ ToSet(docs))
         id(x) == CHOOSE d \in DOMAIN D : D[d] = x
         new == [actor |-> id(a), target |-> id(o)]
         had(d) == IF meta[d] = None THEN [followers |-> 0, following |-> 0] ELSE meta[d]
         one(b) == IF b THEN 1 ELSE 0
     IN /\ \A x \in Rows : follow[x] # new
        /\ docs' = D
        /\ follow' = [follow EXCEPT ![r] = new]
        /\ meta' = [d \in DOMAIN meta |->
                      IF d \notin {new.actor, new.target} THEN meta[d]
                      ELSE [followers |-> had(d).followers + one(d = new.target),
                            following |-> had(d).following + one(d = new.actor)]]
  /\ truth' = [truth EXCEPT ![r] = <<a, o>>]
  /\ UNCHANGED <<done, skipped>>

Init ==
  /\ docs \in UNION {SetToSeqs(S) : S \in SUBSET (Profiles \cup ({"page"} \X Pages))}
  /\ follow \in {f \in [RowId -> {None} \cup [actor : Pks, target : Pks]] :
                   /\ \A r \in RowId : f[r] # None => f[r].actor # f[r].target
                   /\ \A r, x \in RowId : f[r] # None /\ f[r] = f[x] => r = x}
  /\ meta = [d \in 1..Cardinality(Entity) |-> None]
  /\ done = <<>>
  /\ truth = [r \in RowId |-> IF follow[r] = None THEN None
                              ELSE <<<<"profile", follow[r].actor>>, <<"profile", follow[r].target>>>>]
  /\ skipped = {}
  /\ steps = 0

Next ==
  \/ migrate_follow_profile_fks_to_document_id
  \/ reverse_migrate_follow_document_id_fks_to_profile
  \/ seed_followable_metadata_from_follows
  \/ reverse_seed_followable_metadata
  \/ \E r \in RowId, a \in Profiles, o \in Entity : Toggle(r, a, o)

-----------------------------------------------------------------------------
ObjectOf(n) == IF done = <<>> THEN <<"profile", n>> ELSE docs[n]

\* Whatever the numbers, and however often the project goes up and down, a follow still
\* joins the two objects it joined, unless a downgrade had to leave it as it was.
FollowsKept ==
  \A r \in Rows \ skipped : <<ObjectOf(follow[r].actor), ObjectOf(follow[r].target)>> = truth[r]

\* Seeded, and then used, the counters are those of the rows; a document without a row of
\* counters has no follows.
SeededCountsExact ==
  done = Pipeline /\ skipped = {} =>
    \A d \in DOMAIN docs : IF meta[d] = None THEN d \notin Ends ELSE meta[d] = Counts(d)
=============================================================================
