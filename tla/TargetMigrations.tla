-------------------------- MODULE TargetMigrations --------------------------
(***************************************************************************)
(* The helpers that project migrations call to move to DocumentId and to   *)
(* metadata tables: rows that name their target by a generic foreign key   *)
(* (GFK) get the target's document, counters kept as columns of the target *)
(* become a metadata row, and metadata rows are seeded from existing rows. *)
(*                                                                         *)
(* Each helper runs in one RunPython operation of an atomic migration: the *)
(* whole helper is one step, and one that raises changes nothing.  Django  *)
(* applies the operations of a package in a fixed order and takes them     *)
(* back in the reverse order.  A behaviour is about one package (kind).    *)
(***************************************************************************)
EXTENDS Integers, Sequences, FiniteSets, SequencesExt

CONSTANTS
  Object,      \* what rows are about; each may get one document
  RowId,
  Adult,       \* the report type "adult_content"
  BaseType,    \* the other report types of DEFAULT_REPORT_TYPES
  SubType,     \* DEFAULT_ADULT_CONTENT_SUBTYPES
  OwnType,     \* report types that the project has made itself
  None,
  MaxSteps     \* bound: migrations and uses of the application

VARIABLES
  kind,        \* the package
  done,        \* the operations applied, in order
  docs,        \* the documents: the id of one is its place
  row,         \* row[r]: target by GFK, document (0: NULL), report type; or None
  history,     \* the comment events: their comment, target by GFK, document
  column,      \* column[o]: the legacy counters of o
  meta,        \* meta[d]: the metadata row of document d, or None
  types,       \* types[t]: the parent of report type t; None: no such type
  truth,       \* history: the target each row was made for
  steps

vars == <<kind, done, docs, row, history, column, meta, types, truth, steps>>

Kinds == {"blocks", "reactions", "ratings", "reports", "comments"}
Type == BaseType \cup SubType \cup OwnType \cup {Adult}
Doc == 1..Cardinality(Object)

\* The counters of a target.
Fields == IF kind = "blocks" THEN {"blockers", "blocking"}
          ELSE IF kind = "reports" THEN {"count"} ELSE {"count", "enabled"}
Default(f) == IF f = "enabled" THEN 1 ELSE 0
Defaults == [f \in Fields |-> Default(f)]
Blank == [f \in Fields |-> None]

\* The order in which the project's migrations run the helpers of a package.
BlocksPipeline == <<"legacy">>
CommentsPipeline == <<"legacy", "convert">>
ReactionsPipeline == <<"convert", "seed", "legacy">>
RatingsPipeline == <<"convert", "seed", "legacy">>
ReportsPipeline == <<"types", "convert", "seed", "legacy">>
Pipeline == IF kind = "blocks" THEN BlocksPipeline
            ELSE IF kind = "comments" THEN CommentsPipeline
            ELSE IF kind = "reactions" THEN ReactionsPipeline
            ELSE IF kind = "ratings" THEN RatingsPipeline ELSE ReportsPipeline

Applied == ToSet(done)
Upgraded == Len(done) = Len(Pipeline)

Forward(op) == /\ steps < MaxSteps /\ steps' = steps + 1
               /\ ~ Upgraded /\ Pipeline[Len(done) + 1] = op
               /\ done' = Append(done, op)
Backward(op) == /\ steps < MaxSteps /\ steps' = steps + 1
                /\ done # <<>> /\ Last(done) = op
                /\ done' = Front(done)

-----------------------------------------------------------------------------
(* Documents: get_or_create, and the map that the helpers build beforehand. *)

DocOf(D, o) == IF \E d \in DOMAIN D : D[d] = o THEN CHOOSE d \in DOMAIN D : D[d] = o ELSE 0
WithDocs(D, S) == D \o SetToSeq(S \ ToSet(D))

Rows == {r \in RowId : row[r] # None}
Targets == {row[r].target : r \in Rows} \ {None}

FillAlways(D, x) == [x EXCEPT !.document = Len(D)]

\* Only a row without document whose GFK is set is updated.
Fill(D, x) == IF x.document = 0 /\ x.target # None THEN [x EXCEPT !.document = DocOf(D, x.target)] ELSE x

\* A generic foreign key no longer exists once its columns are removed.
Drop(x) == [x EXCEPT !.target = None]
Filled(D) == [r \in RowId |-> IF row[r] = None THEN None ELSE Fill(D, row[r])]
AllFilled(t) == \A r \in RowId : t[r] # None => t[r].document # 0
Dropped(t) == [r \in RowId |-> IF t[r] = None THEN None ELSE Drop(t[r])]

\* The reverse: the document's object becomes the GFK, the new column goes.
Restore(x) == [x EXCEPT !.target = IF x.document = 0 THEN @ ELSE docs[x.document], !.document = 0]
Restored == [r \in RowId |-> IF row[r] = None THEN None ELSE Restore(row[r])]

Convert(k) ==
  /\ kind = k
  /\ Forward("convert")
  /\ docs' = WithDocs(docs, Targets)
  /\ AllFilled(Filled(docs'))
  /\ row' = Dropped(Filled(docs'))
  /\ UNCHANGED <<kind, column, meta, types, truth>>

ConvertBack(k) ==
  /\ kind = k
  /\ Backward("convert")
  /\ row' = Restored
  /\ UNCHANGED <<kind, docs, column, meta, types, truth>>

migrate_reaction_targets_to_document_id == Convert("reactions") /\ UNCHANGED history
reverse_migrate_reaction_targets_to_generic_fk == ConvertBack("reactions") /\ UNCHANGED history

migrate_rate_targets_to_document_id == Convert("ratings") /\ UNCHANGED history
reverse_migrate_rate_targets_to_generic_fk == ConvertBack("ratings") /\ UNCHANGED history

migrate_report_targets_to_document_id == Convert("reports") /\ UNCHANGED history
reverse_migrate_report_targets_to_generic_fk == ConvertBack("reports") /\ UNCHANGED history

\* An event without target of its own takes the document of its comment.
FromComment(t, e) ==
  IF e.document = 0 /\ t[e.of] # None THEN [e EXCEPT !.document = t[e.of].document] ELSE e

FilledEvents(D, t) == {FromComment(t, Fill(D, e)) : e \in history}

\* Only the targets of comments get a document: the assertion also counts the events.
migrate_comment_targets_to_document_id ==
  /\ Convert("comments")
  /\ \A e \in FilledEvents(docs', row') : e.document # 0
  /\ history' = {Drop(e) : e \in FilledEvents(docs', row')}

reverse_migrate_comment_targets_to_generic_fk ==
  /\ ConvertBack("comments")
  /\ history' = {Restore(e) : e \in history}

-----------------------------------------------------------------------------
(* Legacy counters.  A column that is NULL is carried as each package sees fit. *)

EnabledLost(c) == [f \in {g \in Fields \ {"enabled"} : c[g] # None} |-> c[f]]

NotNull(c) == [f \in {g \in Fields : c[g] # None} |-> c[f]]
OrZero(c) == [f \in Fields |-> IF c[f] = None THEN 0 ELSE c[f]]

KeptNotNull == [o \in Object |-> NotNull(column[o])]
KeptOrZero == [o \in Object |-> OrZero(column[o])]

\* A metadata row as get_or_create gives it, and one after update_or_create with the values c.
Got(d) == IF meta[d] = None THEN Defaults ELSE meta[d]
Updated(d, c) == [f \in Fields |-> IF f \in DOMAIN c THEN c[f] ELSE Got(d)[f]]

\* The metadata after update_or_create for each object of S; the columns are removed.
Move(k, S, kept) ==
  /\ kind = k
  /\ Forward("legacy")
  /\ docs' = WithDocs(docs, S)
  /\ meta' = [d \in Doc |-> IF d \in DOMAIN docs' /\ docs'[d] \in S
                            THEN Updated(d, kept[docs'[d]]) ELSE meta[d]]
  /\ column' = [o \in Object |-> Blank]
  /\ UNCHANGED <<kind, row, history, types, truth>>

\* The columns come back with their defaults; then each metadata row is copied to its object.
MoveBack(k) ==
  /\ kind = k
  /\ Backward("legacy")
  /\ column' = [o \in Object |->
                  IF DocOf(docs, o) = 0 \/ meta[DocOf(docs, o)] = None THEN Defaults ELSE meta[DocOf(docs, o)]]
  /\ UNCHANGED <<kind, docs, row, history, meta, types, truth>>

migrate_legacy_block_counts_to_metadata ==
  Move("blocks", {o \in Object : \E f \in Fields : column[o][f] # None}, KeptNotNull)
reverse_migrate_legacy_block_counts_from_metadata == MoveBack("blocks")

migrate_legacy_reactable_fields_to_metadata == Move("reactions", Object, KeptNotNull)
reverse_migrate_legacy_reactable_fields_from_metadata == MoveBack("reactions")

migrate_legacy_ratings_to_metadata == Move("ratings", Object, KeptOrZero)
reverse_migrate_legacy_ratings_from_metadata == MoveBack("ratings")

migrate_legacy_reports_count_to_metadata ==
  Move("reports", {o \in Object : column[o]["count"] # None}, KeptNotNull)
reverse_migrate_legacy_reports_count_from_metadata == MoveBack("reports")

migrate_legacy_commentable_fields_to_metadata ==
  Move("comments", {o \in Object : \A f \in Fields : column[o][f] # None}, KeptNotNull)
reverse_migrate_legacy_commentable_fields_from_metadata == MoveBack("comments")

-----------------------------------------------------------------------------
(* Seeding: a metadata row for each document that a row points at. *)

On(d) == {r \in Rows : row[r].document = d}

\* Reports are counted type by type, so one without a type gives a row and no count.
Counted(d) == {r \in On(d) : kind = "reports" => row[r].type # None}

Seed(k) ==
  /\ kind = k
  /\ Forward("seed")
  /\ meta' = [d \in Doc |-> IF On(d) = {} THEN meta[d]
                            ELSE [Got(d) EXCEPT !["count"] = Cardinality(Counted(d))]]
  /\ UNCHANGED <<kind, docs, row, history, column, types, truth>>

SeedBack(k) ==
  /\ kind = k
  /\ Backward("seed")
  /\ meta' = [d \in Doc |-> IF On(d) = {} THEN meta[d] ELSE None]
  /\ UNCHANGED <<kind, docs, row, history, column, types, truth>>

seed_reactable_metadata_from_reactions == Seed("reactions")
reverse_seed_reactable_metadata == SeedBack("reactions")
seed_ratable_metadata_from_rates == Seed("ratings")
reverse_seed_ratable_metadata == SeedBack("ratings")
seed_reportable_metadata_from_reports == Seed("reports")
reverse_seed_reportable_metadata == SeedBack("reports")

\* Report types: existing ones of the same key are updated, others are left alone.
seed_default_report_types ==
  /\ kind = "reports"
  /\ Forward("types")
  /\ types' = [t \in Type |-> IF t \in SubType THEN Adult
                              ELSE IF t \in BaseType \cup {Adult} /\ types[t] = None THEN "top"
                              ELSE types[t]]
  /\ UNCHANGED <<kind, docs, row, history, column, meta, truth>>

\* Every type goes, the project's own ones too, and every report with its type.
reverse_seed_default_report_types ==
  /\ kind = "reports"
  /\ Backward("types")
  /\ types' = [t \in Type |-> None]
  /\ row' = [r \in RowId |-> IF row[r] = None \/ row[r].type # None THEN None ELSE row[r]]
  /\ truth' = [r \in RowId |-> IF row'[r] = None THEN None ELSE truth[r]]
  /\ UNCHANGED <<kind, docs, history, column, meta>>

-----------------------------------------------------------------------------
(* The upgraded application: rows and metadata go through documents. *)

Use == steps < MaxSteps /\ steps' = steps + 1 /\ Upgraded

\* Assigning a target creates its document.
AddRow(r, o, t) ==
  /\ Use /\ kind # "blocks"
  /\ row[r] = None
  /\ t # None => kind = "reports" /\ types[t] # None
  /\ docs' = WithDocs(docs, {o})
  /\ row' = [row EXCEPT ![r] = [target |-> None, document |-> DocOf(docs', o), type |-> t]]
  /\ truth' = [truth EXCEPT ![r] = o]
  /\ UNCHANGED <<kind, done, history, column, meta, types>>

\* get_or_create of the metadata of an object, then a counter or flag is saved.
WriteMeta(o, f, v) ==
  /\ Use
  /\ docs' = WithDocs(docs, {o})
  /\ meta' = [meta EXCEPT ![DocOf(docs', o)] = [Got(DocOf(docs', o)) EXCEPT ![f] = v]]
  /\ UNCHANGED <<kind, done, row, history, column, types, truth>>

-----------------------------------------------------------------------------
TypeOK ==
  /\ kind \in Kinds
  /\ Len(docs) <= Cardinality(Object) /\ IsInjective(docs) /\ ToSet(docs) \subseteq Object
  /\ \A r \in Rows : row[r].document \in 0..Len(docs) /\ row[r].target \in Object \cup {None}
  /\ \A e \in history : e.document \in 0..Len(docs)
  /\ \A d \in Doc : meta[d] # None => d <= Len(docs) /\ DOMAIN meta[d] = Fields
  /\ done = SubSeq(Pipeline, 1, Len(done))

\* A project before the upgrade: some objects have documents already, comments may have
\* been deleted, and their history stays.
Init ==
  /\ kind \in Kinds
  /\ done = <<>>
  /\ docs \in {<<>>} \cup {<<o>> : o \in Object}
  /\ row \in [RowId -> {None} \cup [target : Object, document : {0},
                                    type : IF kind = "reports" THEN OwnType \cup {None} ELSE {None}]]
  /\ history \in (IF kind = "comments"
                  THEN {E \in SUBSET [of : RowId, target : Object \cup {None}, document : {0}, was : Object \cup {None}] :
                          /\ Cardinality(E) <= 1
                          /\ \A e \in E : e.was = e.target}
                  ELSE {{}})
  /\ column \in [Object -> {Blank, [f \in Fields |-> IF f = "enabled" THEN 0 ELSE 1],
                            [f \in Fields |-> IF f = "count" /\ kind = "reactions" THEN None ELSE 0]}]
  /\ meta = [d \in Doc |-> None]
  /\ types = [t \in Type |-> IF kind = "reports" /\ t \in OwnType THEN "top" ELSE None]
  /\ truth = [r \in RowId |-> IF row[r] = None THEN None ELSE row[r].target]
  /\ steps = 0

Next ==
  \/ migrate_reaction_targets_to_document_id \/ reverse_migrate_reaction_targets_to_generic_fk
  \/ migrate_rate_targets_to_document_id \/ reverse_migrate_rate_targets_to_generic_fk
  \/ migrate_report_targets_to_document_id \/ reverse_migrate_report_targets_to_generic_fk
  \/ migrate_comment_targets_to_document_id \/ reverse_migrate_comment_targets_to_generic_fk
  \/ migrate_legacy_block_counts_to_metadata \/ reverse_migrate_legacy_block_counts_from_metadata
  \/ migrate_legacy_reactable_fields_to_metadata \/ reverse_migrate_legacy_reactable_fields_from_metadata
  \/ migrate_legacy_ratings_to_metadata \/ reverse_migrate_legacy_ratings_from_metadata
  \/ migrate_legacy_reports_count_to_metadata \/ reverse_migrate_legacy_reports_count_from_metadata
  \/ migrate_legacy_commentable_fields_to_metadata \/ reverse_migrate_legacy_commentable_fields_from_metadata
  \/ seed_reactable_metadata_from_reactions \/ reverse_seed_reactable_metadata
  \/ seed_ratable_metadata_from_rates \/ reverse_seed_ratable_metadata
  \/ seed_reportable_metadata_from_reports \/ reverse_seed_reportable_metadata
  \/ seed_default_report_types \/ reverse_seed_default_report_types
  \/ \E r \in RowId, o \in Object, t \in Type \cup {None} : AddRow(r, o, t)
  \/ \E o \in Object, f \in Fields, v \in {0, 1} : WriteMeta(o, f, v)

-----------------------------------------------------------------------------
(* Properties. *)

TargetOf(x) == IF x.document # 0 THEN docs[x.document] ELSE x.target

\* Upgraded, downgraded and upgraded again, with the application running in between, a row
\* still names the object it was made for; an event names the target it recorded or, when
\* no document and no comment had that target, what its comment is about.
TargetsKept ==
  /\ \A r \in RowId : row[r] # None => TargetOf(row[r]) = truth[r]
  /\ \A e \in history : e.was # None => TargetOf(e) \in {e.was, truth[e.of]}

\* What the application shows for a counter: the column, or later the metadata row.
Shown(o, f) == IF "legacy" \notin Applied THEN column[o][f]
               ELSE IF DocOf(docs, o) = 0 \/ meta[DocOf(docs, o)] = None THEN Default(f)
               ELSE meta[DocOf(docs, o)][f]

\* Moving the legacy counters, in either direction, changes no counter and no flag that
\* had a value, not even for an object that had no document.
CountersCarried ==
  [][("legacy" \in Applied) # ("legacy" \in Applied')
       => \A o \in Object, f \in Fields : Shown(o, f) # None => Shown(o, f)' = Shown(o, f)]_vars
=============================================================================
