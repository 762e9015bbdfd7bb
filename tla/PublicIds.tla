----------------------------- MODULE PublicIds -----------------------------
(***************************************************************************)
(* The registry of documents (DocumentId), which gives an object of any    *)
(* model a public id: triggers that insert and delete documents with their *)
(* object, get_or_create by code that holds an object, the batched command *)
(* that makes the missing documents while the application runs, and the    *)
(* strategies that turn objects into global ids and global ids back.       *)
(*                                                                         *)
(* The command runs outside a transaction: each query is a step and sees   *)
(* what is committed then.  A request's insert, delete or get_or_create is *)
(* one step.                                                               *)
(***************************************************************************)
EXTENDS Integers, Sequences, FiniteSets, SequencesExt

CONSTANTS
  Model,         \* concrete models
  Documentable,  \* those that extend DocumentIdMixin
  Autoincrement, \* those with an integer primary key from a sequence
  LegacyPk,      \* those that extend LegacyWithPkMixin
  BatchSize,
  MaxPk,         \* bound: MaxPk[m] objects of model m
  MaxUuid,       \* bound: public ids drawn
  None

VARIABLES
  live,          \* the objects, <<model, pk>>
  next,          \* next[m]: the sequence of the primary keys of m
  docs,          \* the documents, [object, uuid]; unique per object
  drawn,         \* public ids drawn so far; each is new
  triggers,      \* the models whose document triggers are installed
  enabled,       \* ENABLE_PUBLIC_ID_LOGIC, a setting an operator changes at run time
  handed,        \* history: one id given to a client with its object, or None
  command        \* the state of the backfill command

vars == <<live, next, docs, drawn, triggers, enabled, handed, command>>

Compatible == Documentable \cap Autoincrement
HasDoc(o) == \E d \in docs : d.object = o
PksOf(m) == {o[2] : o \in {x \in live : x[1] = m}}
Draw(n) == drawn + n <= MaxUuid /\ drawn' = drawn + n

-----------------------------------------------------------------------------
(* Documents. *)

insert_document_id_trigger(o) ==
  IF o[1] \in triggers /\ ~ HasDoc(o)
  THEN Draw(1) /\ docs' = docs \cup {[object |-> o, uuid |-> drawn + 1]}
  ELSE UNCHANGED <<docs, drawn>>

delete_document_id_trigger(o) ==
  docs' = IF o[1] \in triggers THEN {d \in docs : d.object # o} ELSE docs

Insert(m) ==
  /\ next[m] <= MaxPk[m]
  /\ live' = live \cup {<<m, next[m]>>}
  /\ next' = [next EXCEPT ![m] = @ + 1]
  /\ insert_document_id_trigger(<<m, next[m]>>)
  /\ UNCHANGED <<triggers, enabled, handed, command>>

Delete(o) ==
  /\ o \in live
  /\ live' = live \ {o}
  /\ delete_document_id_trigger(o)
  /\ UNCHANGED <<next, drawn, triggers, enabled, handed, command>>

\* For an object that a request holds: it may have been deleted since it was loaded, and its
\* document is made all the same.
get_or_create_for_object(o) ==
  /\ o[2] < next[o[1]] /\ ~ HasDoc(o)
  /\ Draw(1) /\ docs' = docs \cup {[object |-> o, uuid |-> drawn + 1]}
  /\ UNCHANGED <<live, next, triggers, enabled, handed, command>>

\* A migration creates the triggers that class_prepared adds to the model.
add_document_id_trigger(m) ==
  /\ m \in Documentable \ triggers
  /\ triggers' = triggers \cup {m}
  /\ UNCHANGED <<live, next, docs, drawn, enabled, handed, command>>

SetEnabled ==
  /\ enabled' = ~ enabled
  /\ UNCHANGED <<live, next, docs, drawn, triggers, handed, command>>

-----------------------------------------------------------------------------
(* The backfill command. *)

Rest == UNCHANGED <<live, next, triggers, enabled, handed>>
Idle == [at |-> "idle", models |-> {}, model |-> None, pks |-> {}, missing |-> {}, wanted |-> {},
         failed |-> FALSE, dry |-> FALSE]

\* The models come in the order in which the applications registered them: any order here.
backfill_all_models(dry) ==
  /\ command.at = "idle"
  /\ command' = [Idle EXCEPT !.at = "model", !.dry = dry, !.models = Compatible]
  /\ UNCHANGED <<docs, drawn>> /\ Rest

\* One query reads all the keys of a model; the batches are slices of its result.
ReadPks ==
  /\ command.at = "model"
  /\ \E m \in command.models :
       command' = [command EXCEPT !.at = "batch", !.model = m, !.models = @ \ {m}, !.pks = PksOf(m),
                                  !.wanted = @ \cup ({m} \X PksOf(m))]
  /\ UNCHANGED <<docs, drawn>> /\ Rest

Finish ==
  /\ command.at = "model" /\ command.models = {}
  /\ command' = [command EXCEPT !.at = "done"]
  /\ UNCHANGED <<docs, drawn>> /\ Rest

\* The keys that are left come in their order.
Batch == {p \in command.pks : Cardinality({k \in command.pks : k < p}) < BatchSize}
Existing == {d.object[2] : d \in {x \in docs : x.object[1] = command.model}}
ExistingAnyType == {d.object[2] : d \in docs}
MissingByPk == Batch \ ExistingAnyType
Missing == Batch \ Existing

ReadExisting ==
  /\ command.at = "batch"
  /\ command' = IF command.pks = {} THEN [command EXCEPT !.at = "model"]
                ELSE [command EXCEPT !.at = "verify", !.missing = Missing]
  /\ UNCHANGED <<docs, drawn>> /\ Rest

NextBatch == [command EXCEPT !.at = "batch", !.missing = {}, !.pks = @ \ Batch]

Verify ==
  /\ command.at = "verify"
  /\ LET still == command.missing \cap PksOf(command.model)
     IN command' = IF still = {} \/ command.dry THEN NextBatch
                   ELSE [command EXCEPT !.at = "create", !.missing = still]
  /\ UNCHANGED <<docs, drawn>> /\ Rest

\* Rows that have appeared in the meantime are left alone (ignore_conflicts).
Created(S) ==
  LET new == SetToSeq({o \in S : ~ HasDoc(o)})
  IN {[object |-> new[i], uuid |-> drawn + i] : i \in DOMAIN new} \cup docs
Replaced(S) ==
  LET new == SetToSeq(S)
  IN {[object |-> new[i], uuid |-> drawn + i] : i \in DOMAIN new} \cup {d \in docs : d.object \notin S}
CreatedMissing(S) == Created(S)

BulkCreate ==
  /\ command.at = "create"
  /\ LET S == {command.model} \X command.missing
     IN Draw(Cardinality(S)) /\ docs' = CreatedMissing(S)
  /\ command' = NextBatch
  /\ Rest

\* An exception is logged, and the command goes on with the next batch.
BulkCreateFails ==
  /\ command.at = "create"
  /\ command' = [NextBatch EXCEPT !.failed = TRUE]
  /\ UNCHANGED <<docs, drawn>> /\ Rest

\* One object by its key: two checks, then an insert that fails if the document has appeared.
backfill_single_instance(o, dry) ==
  /\ command.at = "idle"
  /\ o[1] \in Compatible /\ o \in live /\ ~ HasDoc(o) /\ ~ dry
  /\ command' = [Idle EXCEPT !.at = "single", !.model = o[1], !.missing = {o[2]}]
  /\ UNCHANGED <<docs, drawn>> /\ Rest

CreateSingle ==
  /\ command.at = "single"
  /\ LET S == {command.model} \X command.missing
     IN Draw(Cardinality(S)) /\ docs' = Created(S)
  /\ command' = Idle
  /\ Rest

-----------------------------------------------------------------------------
(* Global ids.  An id is a public id, the pair of type and key that Relay encodes, or a   *)
(* bare key.  A type is named after its model.                                            *)

Uuid(u) == [form |-> "uuid", uuid |-> u]
Relay(o) == [form |-> "relay", object |-> o]
Pk(o) == [form |-> "pk", pk |-> o[2]]

get_public_id_from_object(o) == IF HasDoc(o) THEN (CHOOSE d \in docs : d.object = o).uuid ELSE None
get_content_type_and_id_by_public_id(u) ==
  IF \E d \in docs : d.uuid = u THEN (CHOOSE d \in docs : d.uuid = u).object ELSE None

should_use_public_id(m) == m \in Compatible /\ enabled
get_hashids_strategy_from_instance_or_cls(m) ==
  IF should_use_public_id(m) THEN "public_id" ELSE IF m \in LegacyPk THEN "pk" ELSE "legacy"

graphql_to_global_id_using_strategy(o) ==
  IF should_use_public_id(o[1]) /\ get_public_id_from_object(o) # None
  THEN Uuid(get_public_id_from_object(o)) ELSE Relay(o)

Error == <<"error">>
get_node(o) == IF o \in live THEN o ELSE None

\* What a node query of a type (None: of any) answers: an object, None or an error.  A public id
\* that no document has, or that comes while the setting is off, goes on to the legacy strategy,
\* which cannot decode it.
graphql_get_node_from_global_id_using_strategy(id, only_type) ==
  LET named == IF id.form = "relay" THEN id.object
               ELSE IF id.form = "pk" THEN IF only_type = None THEN None ELSE <<only_type, id.pk>>
               ELSE IF enabled THEN get_content_type_and_id_by_public_id(id.uuid) ELSE None
      suits == \/ id.form = "relay"
               \/ id.form = "pk" /\ only_type \in LegacyPk
               \/ id.form = "uuid" /\ named # None /\ named[1] \in Compatible
  IN IF named = None \/ only_type \notin {None, named[1]} THEN Error
     ELSE IF get_node(named) = None THEN None
     ELSE IF suits THEN named ELSE Error

\* GraphQL answers with global ids, a REST view with the id that the model's strategy takes from
\* the instance: its public id, or its key.
drf_id(o) ==
  IF get_hashids_strategy_from_instance_or_cls(o[1]) = "public_id"
  THEN IF HasDoc(o) THEN Uuid(get_public_id_from_object(o)) ELSE None
  ELSE Pk(o)

GiveId(o, id) ==
  /\ o \in live /\ handed = None /\ id # None
  /\ handed' = [id |-> id, object |-> o]
  /\ UNCHANGED <<live, next, docs, drawn, triggers, enabled, command>>

\* The view looks a public id up among the objects of its own model, by the key alone: the
\* strategy for public ids does not look at the model the view expects.
resolve_public_id_to_pk(id) ==
  IF id.form = "uuid" /\ enabled /\ get_content_type_and_id_by_public_id(id.uuid) # None
  THEN get_content_type_and_id_by_public_id(id.uuid)[2] ELSE None
get_object(m, id) ==
  IF id.form = "pk" THEN get_node(<<m, id.pk>>)
  ELSE IF resolve_public_id_to_pk(id) = None THEN None ELSE get_node(<<m, resolve_public_id_to_pk(id)>>)

-----------------------------------------------------------------------------
Init ==
  /\ live = {} /\ docs = {} /\ drawn = 0 /\ handed = None
  /\ next = [m \in Model |-> 1]
  /\ triggers \in {{}, Documentable}
  /\ enabled = FALSE
  /\ command = Idle

Next ==
  \/ \E m \in Model : Insert(m) \/ add_document_id_trigger(m)
  \/ \E o \in live : Delete(o)
  \/ \E o \in live : \E id \in {graphql_to_global_id_using_strategy(o), drf_id(o)} : GiveId(o, id)
  \/ \E m \in Documentable : \E p \in 1..MaxPk[m] : get_or_create_for_object(<<m, p>>)
  \/ SetEnabled
  \/ \E dry \in BOOLEAN : backfill_all_models(dry)
  \/ ReadPks \/ Finish \/ ReadExisting \/ Verify \/ BulkCreate \/ BulkCreateFails
  \/ \E o \in live, dry \in BOOLEAN : backfill_single_instance(o, dry)
  \/ CreateSingle

-----------------------------------------------------------------------------
(* Properties. *)

\* An id that a client has been given never names another object of its type, and it names its
\* object for as long as that lives: always if it is a legacy id, and, if it is a public id,
\* whenever the setting is on; with backfill, triggers and get_or_create racing for the document.
IdsKeepNaming ==
  handed # None =>
    LET o == handed.object
        id == handed.id
        answer == graphql_get_node_from_global_id_using_strategy(id, o[1])
    IN /\ answer \in {o, None, Error}
       /\ o \in live /\ (id.form = "relay" \/ (id.form = "uuid" /\ enabled)) => answer = o
       /\ get_object(o[1], id) \in {o, None}
       /\ o \in live /\ (id.form = "uuid" /\ enabled) => get_object(o[1], id) = o

\* A command that ends without a logged failure leaves no object undocumented that
\* existed when the command came to its model and still exists.
BackfillComplete ==
  command.at = "done" /\ ~ command.failed /\ ~ command.dry =>
    \A o \in command.wanted \cap live : HasDoc(o)
=============================================================================
