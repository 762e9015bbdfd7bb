---------------------------- MODULE RecordsProofs ----------------------------
(***************************************************************************)
(* What the rows of persons, pages and documents promise, for any users,   *)
(* objects, rows, requests and number of steps.                            *)
(*                                                                         *)
(* Public ids (IdsInv): objects and documents only Grow, in the sense that *)
(* no key and no public id is used again, so an id names what it named;    *)
(* what the command found and has not documented is still before it.       *)
(*                                                                         *)
(* Follows (FollowsInv): the documents are distinct, so both columns can   *)
(* be rewritten there and back, and the counters of documents are those of *)
(* the rows that join them.                                                *)
(*                                                                         *)
(* Targets (TargetsInv): a row names its object by a document, or without  *)
(* one by its generic key, and counters are columns or metadata of a       *)
(* document; documents are only added, so what names one still does.       *)
(*                                                                         *)
(* Accounts (AccountsInv): what a request has loaded fits (RowFits) as well *)
(* as what is stored: the clicks and choices that it stands on are past.   *)
(*                                                                         *)
(* Paths (PathsInv): requests under way on one profile have loaded rows    *)
(* that Agree on what no update may change, so saving one, even over a     *)
(* profile that is gone, breaks no link; numbers are not given out again.  *)
(*                                                                         *)
(* Payments (PaymentsInv): what a row does not say yet, an event on its    *)
(* way will, and who has validated is Promised to be the only one.         *)
(***************************************************************************)
EXTENDS MCRecords, Sequences, FiniteSetTheorems, TLAPS

-----------------------------------------------------------------------------
(* Sequences of the elements of a set. *)

\* A finite set can be listed.
LEMMA Listing ==
  ASSUME NEW S, IsFiniteSet(S), NEW s,
         (\E f \in [1..Cardinality(S) -> S] : \A i, j \in DOMAIN f : f[i] = f[j] => i = j)
           => s \in [1..Cardinality(S) -> S] /\ \A i, j \in DOMAIN s : s[i] = s[j] => i = j
  PROVE  /\ Cardinality(S) \in Nat /\ s \in [1..Cardinality(S) -> S]
         /\ \A i, j \in 1..Cardinality(S) : s[i] = s[j] => i = j
         /\ \A x \in S : \E i \in 1..Cardinality(S) : s[i] = x
<1>1. Cardinality(S) \in Nat /\ ExistsBijection(1..Cardinality(S), S)
  BY FS_CardinalityType
<1>2. PICK b \in [1..Cardinality(S) -> S] : \A i, j \in DOMAIN b : b[i] = b[j] => i = j
  BY <1>1, Zenon DEF ExistsBijection, Bijection, Injection, IsInjective
<1>3. /\ s \in [1..Cardinality(S) -> S]
      /\ \A i, j \in DOMAIN s : s[i] = s[j] => i = j
  BY <1>2
<1>4. s \in Injection(1..Cardinality(S), S)
  BY <1>3 DEF Injection, IsInjective
<1>5. Cardinality(1..Cardinality(S)) = Cardinality(S)
  BY <1>1, FS_Interval
<1>6. s \in Surjection(1..Cardinality(S), S)
  BY <1>4, <1>5, FS_Injection
<1> QED BY <1>1, <1>3, <1>6 DEF Surjection

\* Cardinality is one operator, in whichever part.
LEMMA SameCardinality ==
  /\ \A S : P!Cardinality(S) = Cardinality(S)
  /\ \A S : F!Cardinality(S) = Cardinality(S)
  /\ \A S : T!Cardinality(S) = Cardinality(S)
  /\ \A S : Url!Cardinality(S) = Cardinality(S)
  /\ \A S : Pay!Cardinality(S) = Cardinality(S)
<1>1. \A S : P!Cardinality(S) = Cardinality(S)
  BY DEF P!Cardinality, Cardinality
<1>2. \A S : F!Cardinality(S) = Cardinality(S)
  BY DEF F!Cardinality, Cardinality
<1>3. \A S : T!Cardinality(S) = Cardinality(S)
  BY DEF T!Cardinality, Cardinality
<1>4. \A S : Url!Cardinality(S) = Cardinality(S)
  BY DEF Url!Cardinality, Cardinality
<1>5. \A S : Pay!Cardinality(S) = Cardinality(S)
  BY DEF Pay!Cardinality, Cardinality
<1> QED BY <1>1, <1>2, <1>3, <1>4, <1>5

-----------------------------------------------------------------------------
(* Public ids. *)

Objects == Model \X Nat
Numbered(o) == o[2] < next[o[1]]

\* Keys are not used again, and documents are unique by object and by public id.
IdsTyped ==
  /\ live \subseteq Objects /\ IsFiniteSet(live) /\ next \in [Model -> Nat] /\ drawn \in Nat
  /\ \A o \in live : Numbered(o)
  /\ docs \subseteq [object : Objects, uuid : Nat]
  /\ \A d \in docs : d.uuid <= drawn
  /\ \A d, e \in docs : d.object = e.object \/ d.uuid = e.uuid => d = e

CommandState ==
  [at : {"idle", "model", "batch", "verify", "create", "single", "done"}, models : SUBSET Model,
   model : Model \cup {None}, pks : SUBSET Nat, missing : SUBSET Nat, wanted : SUBSET Objects,
   failed : BOOLEAN, dry : BOOLEAN]

CommandTyped ==
  /\ command \in CommandState
  /\ command.at \in {"batch", "verify", "create", "single"} => command.model \in Model
  /\ IsFiniteSet(command.pks) /\ IsFiniteSet(command.missing)
  /\ \A o \in command.wanted : Numbered(o)

\* What the command was to document, exists and has no document is still before it.
Pending ==
  ~ command.failed /\ ~ command.dry =>
    \A o \in command.wanted \cap live :
      \/ P!HasDoc(o)
      \/ /\ command.at \in {"batch", "verify", "create"}
         /\ o[1] = command.model /\ o[2] \in command.pks
         /\ command.at # "batch" /\ o[2] \in P!Batch => o[2] \in command.missing

\* The id that was given to a client.
NamedBy(o, id) ==
  \/ id = P!Relay(o)
  \/ id = P!Pk(o)
  \/ \E u \in Nat : /\ id = P!Uuid(u) /\ o[1] \in P!Compatible /\ u <= drawn
                    /\ \A d \in docs : d.uuid = u => d.object = o
                    /\ o \in live => \E d \in docs : d.object = o /\ d.uuid = u
Named ==
  handed = None \/ (handed.object \in Objects /\ Numbered(handed.object) /\ NamedBy(handed.object, handed.id))

IdsInv == IdsTyped /\ CommandTyped /\ Pending /\ Named

\* How the objects and their documents change: no object comes back, a document goes only
\* with its object, and a new one has a new public id.
Grow ==
  /\ drawn <= drawn'
  /\ \A m \in Model : next[m] <= next'[m]
  /\ \A o \in live' : o \in live \/ ~ Numbered(o)
  /\ \A d \in docs : d \in docs' \/ d.object \notin live'
  /\ \A d \in docs' : d \in docs \/ drawn < d.uuid

\* Then an id names what it named, ...
LEMMA NamedKept ==
  ASSUME IdsTyped, IdsTyped', Grow, handed' = handed, Named
  PROVE  Named'
<1> SUFFICES ASSUME handed # None PROVE Named'
  BY DEF Named
<1>1. PICK o \in Objects, id \in {handed.id} : handed.object = o /\ handed.id = id /\ Numbered(o) /\ NamedBy(o, id)
  BY DEF Named
<1>2. o[1] \in Model /\ o[2] \in Nat
  BY DEF Objects
<1>3. Numbered(o)'
  BY <1>1, <1>2 DEF Numbered, Grow, IdsTyped
<1>4. NamedBy(o, id)'
  <2>1. CASE id = P!Relay(o) \/ id = P!Pk(o)
    BY <2>1 DEF NamedBy, P!Relay, P!Pk
  <2>2. ASSUME NEW u \in Nat, id = P!Uuid(u), o[1] \in P!Compatible, u <= drawn,
               \A d \in docs : d.uuid = u => d.object = o,
               o \in live => \E d \in docs : d.object = o /\ d.uuid = u
        PROVE  NamedBy(o, id)'
    <3>1. u <= drawn'
      BY <2>2 DEF Grow, IdsTyped
    <3>2. \A d \in docs' : d.uuid = u => d.object = o
      BY <2>2 DEF Grow, IdsTyped
    <3>3. o \in live' => \E d \in docs' : d.object = o /\ d.uuid = u
      BY <1>1, <2>2 DEF Grow
    <3> QED BY <2>2, <3>1, <3>2, <3>3 DEF NamedBy, P!Uuid, P!Compatible
  <2> QED BY <1>1, <2>1, <2>2 DEF NamedBy
<1> QED BY <1>1, <1>3, <1>4 DEF Named, NamedBy, Numbered

\* ... an object of the command stays documented or is gone, ...
LEMMA DocumentedKept ==
  ASSUME IdsTyped, Grow, NEW o \in Objects, Numbered(o), o \in live'
  PROVE  o \in live /\ (P!HasDoc(o) => P!HasDoc(o)')
BY DEF Grow, P!HasDoc

\* ... and a command that does nothing has as little before it as it had.
LEMMA CommandKept ==
  ASSUME IdsTyped, IdsTyped', Grow, command' = command, CommandTyped, Pending
  PROVE  CommandTyped' /\ Pending'
<1>1. \A o \in command.wanted : o \in Objects /\ Numbered(o)
  BY DEF CommandTyped, CommandState
<1>2. \A o \in command.wanted : Numbered(o)'
  BY <1>1 DEF Objects, Numbered, Grow, IdsTyped
<1>3. CommandTyped'
  BY <1>2 DEF CommandTyped, CommandState, Numbered
<1>4. P!Batch' = P!Batch
  BY DEF P!Batch
<1>5. ASSUME ~ command.failed, ~ command.dry, NEW o \in command.wanted \cap live'
      PROVE  \/ P!HasDoc(o)'
             \/ /\ command.at \in {"batch", "verify", "create"}
                /\ o[1] = command.model /\ o[2] \in command.pks
                /\ command.at # "batch" /\ o[2] \in P!Batch => o[2] \in command.missing
  <2>1. o \in live /\ (P!HasDoc(o) => P!HasDoc(o)')
    BY <1>1, <1>5, DocumentedKept
  <2> QED BY <1>5, <2>1 DEF Pending
<1>6. Pending'
  BY <1>4, <1>5 DEF Pending, P!HasDoc
<1> QED BY <1>3, <1>6

\* One document for each object of S that has none.
LEMMA CreatedDocs ==
  ASSUME IdsTyped, NEW S \in SUBSET Objects, IsFiniteSet(S),
         docs' = P!Created(S), drawn' = drawn + Cardinality(S), live' = live, next' = next
  PROVE  /\ IdsTyped' /\ Grow
         /\ \A o \in S : P!HasDoc(o)'
<1> DEFINE Extra == {o \in S : ~ P!HasDoc(o)}
           new == P!SetToSeq(Extra)
           added == {[object |-> new[i], uuid |-> drawn + i] : i \in DOMAIN new}
<1>1. /\ live \subseteq Objects /\ IsFiniteSet(live) /\ next \in [Model -> Nat] /\ drawn \in Nat
      /\ \A o \in live : Numbered(o)
      /\ docs \subseteq [object : Objects, uuid : Nat]
      /\ \A d \in docs : d.uuid <= drawn
      /\ \A d, e \in docs : d.object = e.object \/ d.uuid = e.uuid => d = e
  BY DEF IdsTyped
<1>2. IsFiniteSet(Extra) /\ Cardinality(Extra) <= Cardinality(S) /\ Cardinality(S) \in Nat
  BY FS_Subset, FS_CardinalityType
<1>3. (\E f \in [1..Cardinality(Extra) -> Extra] : \A i, j \in DOMAIN f : f[i] = f[j] => i = j)
        => new \in [1..Cardinality(Extra) -> Extra] /\ \A i, j \in DOMAIN new : new[i] = new[j] => i = j
  <2>1. new = CHOOSE f \in [1..Cardinality(Extra) -> Extra] : \A i, j \in DOMAIN f : f[i] = f[j] => i = j
    BY SameCardinality DEF P!SetToSeq, P!IsInjective
  <2> HIDE DEF Extra, new
  <2> QED BY <2>1, Zenon
<1> HIDE DEF new
<1>4. /\ Cardinality(Extra) \in Nat /\ new \in [1..Cardinality(Extra) -> Extra]
      /\ \A i, j \in 1..Cardinality(Extra) : new[i] = new[j] => i = j
      /\ \A x \in Extra : \E i \in 1..Cardinality(Extra) : new[i] = x
  <2> HIDE DEF Extra
  <2> QED BY <1>2, <1>3, Listing
<1>5. docs' = added \cup docs
  BY DEF P!Created, new
<1> DEFINE n == Cardinality(Extra)
<1>6. \A i \in 1..n : /\ new[i] \in Objects /\ ~ P!HasDoc(new[i])
                      /\ drawn + i \in Nat /\ drawn < drawn + i /\ drawn + i <= drawn'
  BY <1>1, <1>2, <1>4
<1>7. \A d \in added : \E i \in 1..n : d = [object |-> new[i], uuid |-> drawn + i]
  BY <1>4
<1>8. \A x \in Extra : \E d \in added : d.object = x
  <2> SUFFICES ASSUME NEW x \in Extra PROVE \E d \in added : d.object = x
    OBVIOUS
  <2>1. PICK i \in DOMAIN new : new[i] = x
    BY <1>4
  <2>2. [object |-> new[i], uuid |-> drawn + i] \in added
    OBVIOUS
  <2> HIDE DEF added
  <2> QED BY <2>1, <2>2
<1>9. \A d \in docs : P!HasDoc(d.object)
  BY DEF P!HasDoc
<1>10. \A d, e \in added : d.object = e.object \/ d.uuid = e.uuid => d = e
  <2> HIDE DEF added, n, Extra
  <2> SUFFICES ASSUME NEW d \in added, NEW e \in added, d.object = e.object \/ d.uuid = e.uuid PROVE d = e
    OBVIOUS
  <2>1. PICK i \in 1..n, j \in 1..n : d = [object |-> new[i], uuid |-> drawn + i]
                                      /\ e = [object |-> new[j], uuid |-> drawn + j]
    BY <1>7
  <2>2. i = j
    BY <1>1, <1>4, <2>1 DEF n
  <2> QED BY <2>1, <2>2
<1> HIDE DEF added, n, Extra
<1>11. docs' \subseteq [object : Objects, uuid : Nat] /\ \A d \in docs' : d.uuid <= drawn'
  BY <1>1, <1>2, <1>5, <1>6, <1>7
<1>12. \A d, e \in docs' : d.object = e.object \/ d.uuid = e.uuid => d = e
  <2>1. \A d \in added : \A e \in docs : d.object # e.object /\ d.uuid # e.uuid
    BY <1>1, <1>6, <1>7, <1>9
  <2> QED BY <1>1, <1>5, <1>10, <2>1
<1>13. IdsTyped'
  BY <1>1, <1>2, <1>11, <1>12 DEF IdsTyped, Numbered
<1>14. Grow
  BY <1>1, <1>2, <1>5, <1>6, <1>7 DEF Grow
<1>15. \A o \in S : P!HasDoc(o)'
  <2> SUFFICES ASSUME NEW o \in S PROVE \E d \in docs' : d.object = o
    BY DEF P!HasDoc
  <2> QED BY <1>5, <1>8 DEF Extra, P!HasDoc
<1> QED BY <1>13, <1>14, <1>15

\* The application: an object is made or deleted with or without its trigger, or a
\* request makes the document of an object it holds.
LEMMA InsertKeeps ==
  ASSUME IdsTyped, NEW m \in Model, P!Insert(m)
  PROVE  IdsTyped' /\ Grow
<1> DEFINE o == <<m, next[m]>>
<1>1. /\ live \subseteq Objects /\ IsFiniteSet(live) /\ next \in [Model -> Nat] /\ drawn \in Nat
      /\ \A x \in live : Numbered(x)
      /\ docs \subseteq [object : Objects, uuid : Nat]
      /\ \A d \in docs : d.uuid <= drawn
      /\ \A d, e \in docs : d.object = e.object \/ d.uuid = e.uuid => d = e
  BY DEF IdsTyped
<1>2. /\ live' = live \cup {o} /\ next' = [next EXCEPT ![m] = next[m] + 1]
      /\ \/ drawn' = drawn + 1 /\ docs' = docs \cup {[object |-> o, uuid |-> drawn + 1]} /\ ~ P!HasDoc(o)
         \/ UNCHANGED <<docs, drawn>>
  BY DEF P!Insert, P!insert_document_id_trigger, P!Draw
<1>3. o \in Objects /\ ~ Numbered(o)
  BY <1>1 DEF Objects, Numbered
<1>4. \A x \in Objects : x[1] \in Model /\ x[2] \in Nat
  BY DEF Objects
<1>5. next' \in [Model -> Nat] /\ (\A k \in Model : next[k] <= next'[k]) /\ next[m] < next'[m]
  BY <1>1, <1>2
<1>6. IsFiniteSet(live')
  BY <1>1, <1>2, FS_AddElement
<1>7. \A x \in live' : x[2] < next'[x[1]]
  BY <1>1, <1>2, <1>4, <1>5 DEF Numbered
<1> HIDE DEF o
<1>8. docs' \subseteq [object : Objects, uuid : Nat] /\ (\A d \in docs' : d.uuid <= drawn') /\ drawn' \in Nat
  BY <1>1, <1>2, <1>3
<1>9. \A d, e \in docs' : d.object = e.object \/ d.uuid = e.uuid => d = e
  BY <1>1, <1>2 DEF P!HasDoc
<1>10. IdsTyped'
  BY <1>1, <1>2, <1>3, <1>5, <1>6, <1>7, <1>8, <1>9 DEF IdsTyped, Numbered
<1>11. Grow
  BY <1>1, <1>2, <1>3, <1>5 DEF Grow
<1> QED BY <1>10, <1>11

LEMMA DeleteKeeps ==
  ASSUME IdsTyped, NEW o \in live, P!Delete(o)
  PROVE  IdsTyped' /\ Grow
<1>1. /\ live' = live \ {o} /\ next' = next /\ drawn' = drawn
      /\ docs' = docs \/ docs' = {d \in docs : d.object # o}
  BY DEF P!Delete, P!delete_document_id_trigger
<1>2. IsFiniteSet(live')
  BY <1>1, FS_Subset DEF IdsTyped
<1>3. docs' \subseteq docs
  BY <1>1
<1>4. IdsTyped'
  BY <1>1, <1>2, <1>3 DEF IdsTyped, Numbered
<1> QED BY <1>1, <1>3, <1>4 DEF Grow, IdsTyped

LEMMA GetOrCreateKeeps ==
  ASSUME IdsTyped, NEW m \in Documentable, NEW p \in 1..MaxPk[m], P!get_or_create_for_object(<<m, p>>)
  PROVE  IdsTyped' /\ Grow
<1> DEFINE o == <<m, p>>
<1>1. o \in Objects
  BY ModelAssumption DEF Objects
<1>2. /\ ~ P!HasDoc(o) /\ drawn' = drawn + 1 /\ live' = live /\ next' = next
      /\ docs' = docs \cup {[object |-> o, uuid |-> drawn + 1]}
  BY DEF P!get_or_create_for_object, P!Draw
<1> HIDE DEF o
<1> DEFINE n == [object |-> o, uuid |-> drawn + 1]
<1>3. drawn \in Nat /\ n \in [object : Objects, uuid : Nat] /\ \A d \in docs : d.uuid # n.uuid /\ d.object # n.object
  BY <1>1, <1>2 DEF IdsTyped, P!HasDoc
<1>4. IdsTyped'
  BY <1>2, <1>3 DEF IdsTyped, Numbered
<1> QED BY <1>2, <1>3, <1>4 DEF Grow, IdsTyped

-----------------------------------------------------------------------------
(* The backfill command. *)

\* The keys of the objects of a model.
LEMMA Keys ==
  ASSUME IdsTyped, NEW m \in Model
  PROVE  /\ P!PksOf(m) \subseteq Nat /\ IsFiniteSet(P!PksOf(m))
         /\ \A o \in Objects : o \in live /\ o[1] = m => o[2] \in P!PksOf(m)
         /\ \A p \in P!PksOf(m) : <<m, p>> \in live
<1> DEFINE S == {x \in live : x[1] = m}
           f == [x \in S |-> x[2]]
<1>1. P!PksOf(m) = {x[2] : x \in S}
  BY DEF P!PksOf
<1>2. live \subseteq Objects /\ IsFiniteSet(live)
  BY DEF IdsTyped
<1>3. IsFiniteSet(S)
  BY <1>2, FS_Subset
<1>4. IsFiniteSet(P!PksOf(m))
  <2>1. f \in Surjection(S, P!PksOf(m))
    BY <1>1 DEF Surjection
  <2> HIDE DEF f, S
  <2> QED BY <1>3, <2>1, FS_Surjection
<1>5. \A p \in P!PksOf(m) : <<m, p>> \in live
  BY <1>1, <1>2 DEF Objects
<1>6. P!PksOf(m) \subseteq Nat
  BY <1>1, <1>2 DEF Objects
<1>7. \A o \in Objects : o \in live /\ o[1] = m => o[2] \in P!PksOf(m)
  BY <1>1
<1> QED BY <1>4, <1>5, <1>6, <1>7

\* Steps that make no document keep what is typed of the rest.
LEMMA QuietIds ==
  ASSUME IdsTyped, P!Rest, UNCHANGED <<docs, drawn>>
  PROVE  /\ IdsTyped' /\ Grow
         /\ \A o : P!HasDoc(o)' = P!HasDoc(o) /\ Numbered(o)' = Numbered(o)
BY DEF IdsTyped, Grow, P!Rest, P!HasDoc, Numbered

LEMMA StartKeeps ==
  ASSUME IdsTyped, NEW dry \in BOOLEAN, P!backfill_all_models(dry)
  PROVE  CommandTyped' /\ Pending'
<1> DEFINE c == [P!Idle EXCEPT !.at = "model", !.dry = dry, !.models = P!Compatible]
<1>1. command' = c
  BY DEF P!backfill_all_models
<1>2. P!Compatible \subseteq Model
  BY ModelAssumption DEF P!Compatible
<1>3. c \in CommandState /\ c.at = "model" /\ c.pks = {} /\ c.missing = {} /\ c.wanted = {}
  BY <1>2 DEF CommandState, P!Idle
<1> HIDE DEF c
<1> QED BY <1>1, <1>3, FS_EmptySet DEF CommandTyped, Pending

LEMMA StartSingleKeeps ==
  ASSUME IdsTyped, NEW o \in live, NEW dry \in BOOLEAN, P!backfill_single_instance(o, dry)
  PROVE  CommandTyped' /\ Pending'
<1> DEFINE c == [P!Idle EXCEPT !.at = "single", !.model = o[1], !.missing = {o[2]}]
<1>1. command' = c
  BY DEF P!backfill_single_instance
<1>2. o[1] \in Model /\ o[2] \in Nat
  BY DEF IdsTyped, Objects
<1>3. c \in CommandState /\ c.at = "single" /\ c.model = o[1] /\ c.pks = {} /\ c.missing = {o[2]} /\ c.wanted = {}
  BY <1>2 DEF CommandState, P!Idle
<1> HIDE DEF c
<1>4. IsFiniteSet({}) /\ IsFiniteSet({o[2]})
  BY FS_EmptySet, FS_Singleton
<1> QED BY <1>1, <1>2, <1>3, <1>4 DEF CommandTyped, Pending

LEMMA ReadPksKeeps ==
  ASSUME IdsTyped, CommandTyped, Pending, P!ReadPks
  PROVE  CommandTyped' /\ Pending'
<1>1. PICK m \in command.models :
        command' = [command EXCEPT !.at = "batch", !.model = m, !.models = @ \ {m}, !.pks = P!PksOf(m),
                                   !.wanted = @ \cup ({m} \X P!PksOf(m))]
  BY DEF P!ReadPks
<1>2. command \in CommandState /\ command.at = "model" /\ m \in Model /\ P!Rest /\ UNCHANGED <<docs, drawn>>
  BY DEF P!ReadPks, CommandTyped, CommandState
<1>3. /\ P!PksOf(m) \subseteq Nat /\ IsFiniteSet(P!PksOf(m))
      /\ \A p \in P!PksOf(m) : <<m, p>> \in live
  BY <1>2, Keys
<1> DEFINE keys == P!PksOf(m)
           all == {m} \X keys
           c == [[[[[command EXCEPT !.at = "batch"] EXCEPT !.model = m] EXCEPT !.models = command.models \ {m}]
                 EXCEPT !.pks = keys] EXCEPT !.wanted = command.wanted \cup all]
<1>4. command' = c
  BY <1>1, <1>2 DEF CommandState
<1>5. all \subseteq Objects /\ all \subseteq live
  BY <1>2, <1>3 DEF Objects
<1> HIDE DEF keys, all
<1>6. c \in CommandState /\ c.at = "batch" /\ c.model = m /\ c.pks = keys /\ c.missing = command.missing
      /\ c.wanted = command.wanted \cup all /\ c.failed = command.failed /\ c.dry = command.dry
  BY <1>2, <1>3, <1>5 DEF CommandState, keys
<1> HIDE DEF c
<1>7. live' = live /\ \A o : P!HasDoc(o)' = P!HasDoc(o) /\ Numbered(o)' = Numbered(o)
  BY <1>2, QuietIds DEF P!Rest
<1>8. CommandTyped'
  BY <1>2, <1>3, <1>4, <1>5, <1>6, <1>7 DEF CommandTyped, IdsTyped, keys
<1>9. \A o \in all : o[1] = m /\ o[2] \in keys
  BY DEF all
<1>10. Pending'
  <2> SUFFICES ASSUME ~ c.failed, ~ c.dry, NEW o \in c.wanted \cap live
               PROVE  P!HasDoc(o) \/ (o[1] = m /\ o[2] \in keys)
    BY <1>4, <1>6, <1>7 DEF Pending, P!HasDoc
  <2> QED BY <1>2, <1>6, <1>9 DEF Pending
<1> QED BY <1>8, <1>10

LEMMA FinishKeeps ==
  ASSUME IdsTyped, CommandTyped, Pending, P!Finish
  PROVE  CommandTyped' /\ Pending'
<1> DEFINE c == [command EXCEPT !.at = "done"]
<1>1. command' = c /\ command.at = "model" /\ P!Rest /\ UNCHANGED <<docs, drawn>> /\ command \in CommandState
  BY DEF P!Finish, CommandTyped
<1>2. c \in CommandState /\ c.at = "done" /\ c.pks = command.pks /\ c.missing = command.missing
      /\ c.wanted = command.wanted /\ c.failed = command.failed /\ c.dry = command.dry
  BY <1>1 DEF CommandState
<1> HIDE DEF c
<1>3. live' = live /\ \A o : P!HasDoc(o)' = P!HasDoc(o) /\ Numbered(o)' = Numbered(o)
  BY <1>1, QuietIds DEF P!Rest
<1>4. CommandTyped'
  BY <1>1, <1>2, <1>3 DEF CommandTyped
<1>5. Pending'
  <2> SUFFICES ASSUME ~ c.failed, ~ c.dry, NEW o \in c.wanted \cap live PROVE P!HasDoc(o)
    BY <1>1, <1>2, <1>3 DEF Pending, P!HasDoc
  <2> QED BY <1>1, <1>2 DEF Pending
<1> QED BY <1>4, <1>5

\* A batch whose documents are read: what has none is missing.
LEMMA ReadExistingKeeps ==
  ASSUME IdsTyped, CommandTyped, Pending, P!ReadExisting
  PROVE  CommandTyped' /\ Pending'
<1>1. command \in CommandState /\ command.at = "batch" /\ command.model \in Model /\ IsFiniteSet(command.pks)
      /\ P!Rest /\ UNCHANGED <<docs, drawn>>
  BY DEF P!ReadExisting, CommandTyped
<1>2. live' = live /\ \A o : P!HasDoc(o)' = P!HasDoc(o) /\ Numbered(o)' = Numbered(o)
  BY <1>1, QuietIds DEF P!Rest
<1>3. CASE command.pks = {}
  <2> DEFINE c == [command EXCEPT !.at = "model"]
  <2>1. command' = c
    BY <1>3 DEF P!ReadExisting
  <2>2. c \in CommandState /\ c.at = "model" /\ c.pks = command.pks /\ c.missing = command.missing
        /\ c.wanted = command.wanted /\ c.failed = command.failed /\ c.dry = command.dry
    BY <1>1 DEF CommandState
  <2> HIDE DEF c
  <2>3. CommandTyped'
    BY <1>2, <2>1, <2>2 DEF CommandTyped
  <2>4. Pending'
    <3> SUFFICES ASSUME ~ c.failed, ~ c.dry, NEW o \in c.wanted \cap live PROVE P!HasDoc(o)
      BY <1>2, <2>1, <2>2 DEF Pending, P!HasDoc
    <3> QED BY <1>3, <2>2 DEF Pending
  <2> QED BY <2>3, <2>4
<1>4. CASE command.pks # {}
  <2> DEFINE missing == P!Missing
             c == [[command EXCEPT !.at = "verify"] EXCEPT !.missing = missing]
  <2>1. command' = c
    BY <1>1, <1>4 DEF P!ReadExisting, CommandState
  <2>2. missing \subseteq command.pks
    BY DEF P!Missing, P!Batch
  <2>3. IsFiniteSet(missing)
    <3> HIDE DEF missing
    <3> QED BY <1>1, <2>2, FS_Subset
  <2>4. \A o \in Objects : o[1] = command.model /\ o[2] \in P!Batch /\ o[2] \notin missing => P!HasDoc(o)
    <3> SUFFICES ASSUME NEW o \in Objects, o[1] = command.model, o[2] \in P!Existing PROVE P!HasDoc(o)
      BY DEF P!Missing
    <3>1. PICK d \in docs : d.object[1] = command.model /\ d.object[2] = o[2]
      BY DEF P!Existing
    <3>2. d.object \in Objects
      BY DEF IdsTyped
    <3>3. d.object = o
      BY <3>1, <3>2 DEF Objects
    <3> QED BY <3>3 DEF P!HasDoc
  <2> HIDE DEF missing
  <2>5. c \in CommandState /\ c.at = "verify" /\ c.pks = command.pks /\ c.missing = missing /\ c.model = command.model
        /\ c.wanted = command.wanted /\ c.failed = command.failed /\ c.dry = command.dry
    BY <1>1, <2>2 DEF CommandState
  <2> HIDE DEF c
  <2>6. CommandTyped'
    BY <1>1, <1>2, <2>1, <2>3, <2>5 DEF CommandTyped
  <2>7. P!Batch' = P!Batch
    BY <2>1, <2>5 DEF P!Batch
  <2>8. Pending'
    <3> SUFFICES ASSUME ~ c.failed, ~ c.dry, NEW o \in c.wanted \cap live
                 PROVE  \/ P!HasDoc(o)
                        \/ /\ o[1] = command.model /\ o[2] \in command.pks
                           /\ o[2] \in P!Batch => o[2] \in missing
      BY <1>2, <2>1, <2>5, <2>7 DEF Pending, P!HasDoc
    <3>1. o \in Objects
      BY <2>5 DEF IdsTyped
    <3> QED BY <1>1, <2>4, <2>5, <3>1 DEF Pending
  <2> QED BY <2>6, <2>8
<1> QED BY <1>3, <1>4

\* The next batch comes when each object of this one has its document or is gone.
LEMMA NextBatchKeeps ==
  ASSUME IdsTyped, IdsTyped', Grow, CommandTyped, Pending, NEW fails \in BOOLEAN,
         command.at \in {"verify", "create"},
         command' = [P!NextBatch EXCEPT !.failed = fails],
         command.failed => fails,
         ~ fails /\ ~ command.dry =>
           \A o \in Objects : o \in live' /\ o[1] = command.model /\ o[2] \in command.missing => P!HasDoc(o)'
  PROVE  CommandTyped' /\ Pending'
<1> DEFINE left == command.pks \ P!Batch
           c == [[[[command EXCEPT !.at = "batch"] EXCEPT !.missing = {}] EXCEPT !.pks = left] EXCEPT !.failed = fails]
<1>1. command \in CommandState /\ command.model \in Model /\ IsFiniteSet(command.pks)
  BY DEF CommandTyped
<1>2. command' = c
  BY <1>1 DEF P!NextBatch, CommandState
<1>3. left \subseteq command.pks /\ \A p \in command.pks : p \in left \/ p \in P!Batch
  OBVIOUS
<1> HIDE DEF left
<1>4. IsFiniteSet(left) /\ IsFiniteSet({})
  BY <1>1, <1>3, FS_Subset, FS_EmptySet
<1>5. c \in CommandState /\ c.at = "batch" /\ c.pks = left /\ c.missing = {} /\ c.model = command.model
      /\ c.wanted = command.wanted /\ c.failed = fails /\ c.dry = command.dry
  BY <1>1, <1>3 DEF CommandState
<1> HIDE DEF c
<1>6. \A o \in command.wanted : o \in Objects /\ Numbered(o)
  BY <1>1 DEF CommandTyped, CommandState
<1>7. \A o \in command.wanted : Numbered(o)'
  BY <1>6 DEF Objects, Numbered, Grow, IdsTyped
<1>8. CommandTyped'
  BY <1>1, <1>2, <1>4, <1>5, <1>7 DEF CommandTyped, Numbered
<1>9. ASSUME ~ fails, ~ command.dry, NEW o \in command.wanted \cap live'
      PROVE  P!HasDoc(o)' \/ (o[1] = command.model /\ o[2] \in left)
  <2>1. o \in Objects /\ o \in live /\ (P!HasDoc(o) => P!HasDoc(o)')
    BY <1>6, <1>9, DocumentedKept
  <2> QED BY <1>3, <1>9, <2>1 DEF Pending
<1>10. Pending'
  BY <1>2, <1>5, <1>9 DEF Pending, P!HasDoc
<1> QED BY <1>8, <1>10

LEMMA VerifyKeeps ==
  ASSUME IdsTyped, CommandTyped, Pending, P!Verify
  PROVE  CommandTyped' /\ Pending'
<1> DEFINE still == command.missing \cap P!PksOf(command.model)
<1>1. command \in CommandState /\ command.at = "verify" /\ command.model \in Model
      /\ IsFiniteSet(command.pks) /\ IsFiniteSet(command.missing) /\ P!Rest /\ UNCHANGED <<docs, drawn>>
  BY DEF P!Verify, CommandTyped
<1>2. IdsTyped' /\ Grow /\ live' = live /\ \A o : P!HasDoc(o)' = P!HasDoc(o) /\ Numbered(o)' = Numbered(o)
  BY <1>1, QuietIds DEF P!Rest
<1>3. \A o \in Objects : o \in live /\ o[1] = command.model => o[2] \in P!PksOf(command.model)
  BY <1>1, Keys
<1>4. CASE still = {} \/ command.dry
  <2>1. command' = P!NextBatch
    BY <1>4 DEF P!Verify
  <2>2. P!NextBatch = [P!NextBatch EXCEPT !.failed = command.failed] /\ command.failed \in BOOLEAN
    BY <1>1 DEF P!NextBatch, CommandState
  <2>3. command' = [P!NextBatch EXCEPT !.failed = command.failed]
    BY <2>1, <2>2
  <2>4. ~ command.failed /\ ~ command.dry =>
          \A o \in Objects : o \in live' /\ o[1] = command.model /\ o[2] \in command.missing => P!HasDoc(o)'
    BY <1>2, <1>3, <1>4
  <2> QED BY <1>1, <1>2, <2>2, <2>3, <2>4, NextBatchKeeps
<1>5. CASE ~ (still = {} \/ command.dry)
  <2> DEFINE c == [[command EXCEPT !.at = "create"] EXCEPT !.missing = still]
  <2>1. command' = c
    BY <1>1, <1>5 DEF P!Verify, CommandState
  <2>2. still \subseteq command.missing
    OBVIOUS
  <2>3. \A o \in Objects : o \in live /\ o[1] = command.model /\ o[2] \in command.missing => o[2] \in still
    BY <1>3
  <2> HIDE DEF still
  <2>4. IsFiniteSet(still)
    BY <1>1, <2>2, FS_Subset
  <2>5. c \in CommandState /\ c.at = "create" /\ c.pks = command.pks /\ c.missing = still /\ c.model = command.model
        /\ c.wanted = command.wanted /\ c.failed = command.failed /\ c.dry = command.dry
    BY <1>1, <2>2 DEF CommandState
  <2> HIDE DEF c
  <2>6. CommandTyped'
    BY <1>1, <1>2, <2>1, <2>4, <2>5 DEF CommandTyped
  <2>7. P!Batch' = P!Batch
    BY <2>1, <2>5 DEF P!Batch
  <2>8. Pending'
    <3> SUFFICES ASSUME ~ c.failed, ~ c.dry, NEW o \in c.wanted \cap live
                 PROVE  \/ P!HasDoc(o)
                        \/ /\ o[1] = command.model /\ o[2] \in command.pks
                           /\ o[2] \in P!Batch => o[2] \in still
      BY <1>2, <2>1, <2>5, <2>7 DEF Pending, P!HasDoc
    <3>1. o \in Objects
      BY <2>5 DEF IdsTyped
    <3> QED BY <1>1, <2>3, <2>5, <3>1 DEF Pending
  <2> QED BY <2>6, <2>8
<1> QED BY <1>4, <1>5

\* The objects of a batch.
LEMMA BatchObjects ==
  ASSUME NEW m \in Model, NEW keys \in SUBSET Nat, IsFiniteSet(keys)
  PROVE  /\ {m} \X keys \in SUBSET Objects /\ IsFiniteSet({m} \X keys)
         /\ \A o \in Objects : o[1] = m /\ o[2] \in keys => o \in {m} \X keys
<1> DEFINE one == {m}
<1>1. IsFiniteSet(one)
  BY FS_Singleton
<1>2. IsFiniteSet(one \X keys)
  <2> HIDE DEF one
  <2> QED BY <1>1, FS_Product
<1> QED BY <1>2 DEF Objects

LEMMA BulkCreateKeeps ==
  ASSUME IdsTyped, CommandTyped, Pending, P!BulkCreate
  PROVE  IdsTyped' /\ Grow /\ CommandTyped' /\ Pending'
<1>1. command \in CommandState /\ command.at = "create" /\ command.model \in Model
      /\ IsFiniteSet(command.missing) /\ command.missing \in SUBSET Nat
  BY DEF P!BulkCreate, CommandTyped, CommandState
<1> DEFINE S == {command.model} \X command.missing
<1>2. S \in SUBSET Objects /\ IsFiniteSet(S)
      /\ \A o \in Objects : o[1] = command.model /\ o[2] \in command.missing => o \in S
  BY <1>1, BatchObjects
<1>3. docs' = P!Created(S) /\ drawn' = drawn + Cardinality(S) /\ live' = live /\ next' = next /\ command' = P!NextBatch
  BY SameCardinality DEF P!BulkCreate, P!Draw, P!CreatedMissing, P!Rest
<1> HIDE DEF S
<1>4. IdsTyped' /\ Grow /\ \A o \in S : P!HasDoc(o)'
  BY <1>2, <1>3, CreatedDocs
<1>5. P!NextBatch = [P!NextBatch EXCEPT !.failed = command.failed] /\ command.failed \in BOOLEAN
  BY <1>1 DEF P!NextBatch, CommandState
<1>6. command' = [P!NextBatch EXCEPT !.failed = command.failed]
  BY <1>3, <1>5
<1>7. ~ command.failed /\ ~ command.dry =>
        \A o \in Objects : o \in live' /\ o[1] = command.model /\ o[2] \in command.missing => P!HasDoc(o)'
  BY <1>2, <1>4
<1>8. CommandTyped' /\ Pending'
  BY <1>1, <1>4, <1>5, <1>6, <1>7, NextBatchKeeps
<1> QED BY <1>4, <1>8

LEMMA BulkCreateFailsKeeps ==
  ASSUME IdsTyped, CommandTyped, Pending, P!BulkCreateFails
  PROVE  CommandTyped' /\ Pending'
<1>1. command.at = "create" /\ command' = [P!NextBatch EXCEPT !.failed = TRUE] /\ P!Rest /\ UNCHANGED <<docs, drawn>>
  BY DEF P!BulkCreateFails
<1>2. IdsTyped' /\ Grow
  BY <1>1, QuietIds
<1>3. TRUE \in BOOLEAN
  OBVIOUS
<1> QED BY <1>1, <1>2, <1>3, NextBatchKeeps

LEMMA CreateSingleKeeps ==
  ASSUME IdsTyped, CommandTyped, P!CreateSingle
  PROVE  IdsTyped' /\ Grow /\ CommandTyped' /\ Pending'
<1>1. command \in CommandState /\ command.at = "single" /\ command.model \in Model
      /\ IsFiniteSet(command.missing) /\ command.missing \in SUBSET Nat
  BY DEF P!CreateSingle, CommandTyped, CommandState
<1> DEFINE S == {command.model} \X command.missing
<1>2. S \in SUBSET Objects /\ IsFiniteSet(S)
  BY <1>1, BatchObjects
<1>3. docs' = P!Created(S) /\ drawn' = drawn + Cardinality(S) /\ live' = live /\ next' = next /\ command' = P!Idle
  BY SameCardinality DEF P!CreateSingle, P!Draw, P!Rest
<1> HIDE DEF S
<1>4. IdsTyped' /\ Grow
  BY <1>2, <1>3, CreatedDocs
<1>5. P!Idle \in CommandState /\ P!Idle.at = "idle" /\ P!Idle.pks = {} /\ P!Idle.missing = {} /\ P!Idle.wanted = {}
  BY DEF CommandState, P!Idle
<1>6. CommandTyped' /\ Pending'
  BY <1>3, <1>5, FS_EmptySet DEF CommandTyped, Pending
<1> QED BY <1>4, <1>6

-----------------------------------------------------------------------------
(* Every step of the documents and their command. *)

LEMMA IdsInit ==
  ASSUME P!Init
  PROVE  IdsInv
<1>1. live = {} /\ docs = {} /\ drawn = 0 /\ handed = None /\ next = [m \in Model |-> 1] /\ command = P!Idle
  BY DEF P!Init
<1>2. P!Idle \in CommandState /\ P!Idle.at = "idle" /\ P!Idle.pks = {} /\ P!Idle.missing = {} /\ P!Idle.wanted = {}
  BY DEF CommandState, P!Idle
<1>3. IdsTyped
  BY <1>1, FS_EmptySet DEF IdsTyped
<1>4. CommandTyped /\ Pending
  BY <1>1, <1>2, FS_EmptySet DEF CommandTyped, Pending
<1> QED BY <1>1, <1>3, <1>4 DEF IdsInv, Named

\* An id that is given names its object.
LEMMA GiveIdNames ==
  ASSUME IdsTyped, NEW o \in live, NEW id \in {P!graphql_to_global_id_using_strategy(o), P!drf_id(o)},
         P!GiveId(o, id)
  PROVE  Named'
<1>1. /\ handed' = [id |-> id, object |-> o] /\ id # None
      /\ next' = next /\ docs' = docs /\ drawn' = drawn /\ live' = live
  BY DEF P!GiveId
<1>2. o \in Objects /\ Numbered(o)
  BY DEF IdsTyped
<1>3. NamedBy(o, id)
  <2>1. CASE id = P!Relay(o) \/ id = P!Pk(o)
    BY <2>1 DEF NamedBy
  <2>2. CASE o[1] \in P!Compatible /\ P!HasDoc(o) /\ id = P!Uuid(P!get_public_id_from_object(o))
    <3> DEFINE d == CHOOSE d \in docs : d.object = o
    <3>1. d \in docs /\ d.object = o
      BY <2>2, Zenon DEF P!HasDoc
    <3>2. id = P!Uuid(d.uuid)
      BY <2>2 DEF P!get_public_id_from_object
    <3> HIDE DEF d
    <3>3. d.uuid \in Nat /\ d.uuid <= drawn /\ \A e \in docs : e.uuid = d.uuid => e.object = o
      BY <3>1 DEF IdsTyped
    <3> QED BY <2>2, <3>1, <3>2, <3>3 DEF NamedBy
  <2>3. id = P!Relay(o) \/ id = P!Pk(o) \/ (o[1] \in P!Compatible /\ P!HasDoc(o) /\ id = P!Uuid(P!get_public_id_from_object(o)))
    <3>1. CASE id = P!graphql_to_global_id_using_strategy(o)
      <4>1. CASE P!should_use_public_id(o[1]) /\ P!get_public_id_from_object(o) # None
        BY <3>1, <4>1 DEF P!graphql_to_global_id_using_strategy, P!should_use_public_id, P!get_public_id_from_object
      <4>2. CASE ~ (P!should_use_public_id(o[1]) /\ P!get_public_id_from_object(o) # None)
        BY <3>1, <4>2 DEF P!graphql_to_global_id_using_strategy
      <4> QED BY <4>1, <4>2
    <3>2. CASE id = P!drf_id(o)
      <4>1. CASE P!should_use_public_id(o[1])
        BY <1>1, <3>2, <4>1 DEF P!drf_id, P!get_hashids_strategy_from_instance_or_cls, P!should_use_public_id
      <4>2. CASE ~ P!should_use_public_id(o[1])
        BY <3>2, <4>2 DEF P!drf_id, P!get_hashids_strategy_from_instance_or_cls
      <4> QED BY <4>1, <4>2
    <3> QED BY <3>1, <3>2
  <2> QED BY <2>1, <2>2, <2>3
<1>4. NamedBy(o, id)'
  BY <1>1, <1>3 DEF NamedBy, P!Relay, P!Pk, P!Uuid, P!Compatible
<1> QED BY <1>1, <1>2, <1>4 DEF Named, Numbered, NamedBy

\* A step whose documents only grow, and that gives no id, keeps the invariant with its command.
LEMMA GrowKeeps ==
  ASSUME IdsInv, IdsTyped', Grow, handed' = handed, command' = command \/ (CommandTyped' /\ Pending')
  PROVE  IdsInv'
<1>1. IdsTyped /\ CommandTyped /\ Pending /\ Named
  BY DEF IdsInv
<1>2. Named'
  BY <1>1, NamedKept
<1>3. CommandTyped' /\ Pending'
  BY <1>1, CommandKept
<1> QED BY <1>2, <1>3 DEF IdsInv

LEMMA IdsStep ==
  ASSUME IdsInv, P!Next
  PROVE  IdsInv'
<1>0. IdsTyped /\ CommandTyped /\ Pending /\ Named
  BY DEF IdsInv
<1>1. ASSUME NEW m \in Model, P!Insert(m) PROVE IdsInv'
  <2>1. IdsTyped' /\ Grow
    BY <1>0, <1>1, InsertKeeps
  <2> QED BY <1>1, <2>1, GrowKeeps DEF P!Insert
<1>2. ASSUME NEW m \in Model, P!add_document_id_trigger(m) PROVE IdsInv'
  <2>1. IdsTyped' /\ Grow
    BY <1>0, <1>2 DEF P!add_document_id_trigger, IdsTyped, Grow, Numbered
  <2> QED BY <1>2, <2>1, GrowKeeps DEF P!add_document_id_trigger
<1>3. ASSUME NEW o \in live, P!Delete(o) PROVE IdsInv'
  <2>1. IdsTyped' /\ Grow
    BY <1>0, <1>3, DeleteKeeps
  <2> QED BY <1>3, <2>1, GrowKeeps DEF P!Delete
<1>4. ASSUME NEW o \in live, NEW id \in {P!graphql_to_global_id_using_strategy(o), P!drf_id(o)}, P!GiveId(o, id)
      PROVE  IdsInv'
  <2>1. IdsTyped' /\ Grow /\ command' = command
    BY <1>0, <1>4 DEF P!GiveId, IdsTyped, Grow, Numbered
  <2>2. CommandTyped' /\ Pending'
    BY <1>0, <2>1, CommandKept
  <2>3. Named'
    BY <1>0, <1>4, GiveIdNames
  <2> QED BY <2>1, <2>2, <2>3 DEF IdsInv
<1>5. ASSUME NEW m \in Documentable, NEW p \in 1..MaxPk[m], P!get_or_create_for_object(<<m, p>>) PROVE IdsInv'
  <2>1. IdsTyped' /\ Grow
    BY <1>0, <1>5, GetOrCreateKeeps
  <2> QED BY <1>5, <2>1, GrowKeeps DEF P!get_or_create_for_object
<1>6. ASSUME P!SetEnabled PROVE IdsInv'
  <2>1. IdsTyped' /\ Grow
    BY <1>0, <1>6 DEF P!SetEnabled, IdsTyped, Grow, Numbered
  <2> QED BY <1>6, <2>1, GrowKeeps DEF P!SetEnabled
<1>7. ASSUME P!Rest, UNCHANGED <<docs, drawn>>, CommandTyped' /\ Pending' PROVE IdsInv'
  <2>1. IdsTyped' /\ Grow
    BY <1>0, <1>7, QuietIds
  <2> QED BY <1>7, <2>1, GrowKeeps DEF P!Rest
<1>8. ASSUME NEW dry \in BOOLEAN, P!backfill_all_models(dry) PROVE IdsInv'
  BY <1>0, <1>7, <1>8, StartKeeps DEF P!backfill_all_models
<1>9. CASE P!ReadPks
  BY <1>0, <1>7, <1>9, ReadPksKeeps DEF P!ReadPks
<1>10. CASE P!Finish
  BY <1>0, <1>7, <1>10, FinishKeeps DEF P!Finish
<1>11. CASE P!ReadExisting
  BY <1>0, <1>7, <1>11, ReadExistingKeeps DEF P!ReadExisting
<1>12. CASE P!Verify
  BY <1>0, <1>7, <1>12, VerifyKeeps DEF P!Verify
<1>13. CASE P!BulkCreate
  BY <1>0, <1>13, BulkCreateKeeps, GrowKeeps DEF P!BulkCreate, P!Rest
<1>14. CASE P!BulkCreateFails
  BY <1>0, <1>7, <1>14, BulkCreateFailsKeeps DEF P!BulkCreateFails
<1>15. ASSUME NEW o \in live, NEW dry \in BOOLEAN, P!backfill_single_instance(o, dry) PROVE IdsInv'
  BY <1>0, <1>7, <1>15, StartSingleKeeps DEF P!backfill_single_instance
<1>16. CASE P!CreateSingle
  BY <1>0, <1>16, CreateSingleKeeps, GrowKeeps DEF P!CreateSingle, P!Rest
<1> QED BY <1>1, <1>2, <1>3, <1>4, <1>5, <1>6, <1>8, <1>9, <1>10, <1>11, <1>12, <1>13, <1>14, <1>15, <1>16 DEF P!Next

LEMMA IdsQuiet ==
  ASSUME IdsInv, UNCHANGED <<docs, ids>>
  PROVE  IdsInv'
BY DEF IdsInv, IdsTyped, CommandTyped, Pending, Named, NamedBy, Numbered, ids, P!HasDoc, P!Batch

-----------------------------------------------------------------------------
(* What the invariant says of ids and of the command. *)

LEMMA NamingHolds ==
  ASSUME IdsInv
  PROVE  P!IdsKeepNaming
<1> SUFFICES ASSUME handed # None PROVE P!IdsKeepNaming
  BY DEF P!IdsKeepNaming
<1> DEFINE o == handed.object
           id == handed.id
           answer == P!graphql_get_node_from_global_id_using_strategy(id, o[1])
           found == P!get_object(o[1], id)
<1>1. o \in Objects /\ NamedBy(o, id)
  BY DEF IdsInv, Named
<1>2. o[1] \in Model /\ o[2] \in Nat /\ o = <<o[1], o[2]>> /\ o # None /\ o[2] # None
  BY <1>1, NoneAssumption DEF Objects
<1> SUFFICES /\ answer \in {o, None, P!Error} /\ found \in {o, None}
             /\ o \in live /\ (id.form = "relay" \/ (id.form = "uuid" /\ enabled)) => answer = o
             /\ o \in live /\ (id.form = "uuid" /\ enabled) => found = o
  BY DEF P!IdsKeepNaming
<1>3. CASE id = P!Relay(o)
  BY <1>2, <1>3 DEF P!Relay, P!graphql_get_node_from_global_id_using_strategy, P!get_object, P!get_node,
                    P!resolve_public_id_to_pk
<1>4. CASE id = P!Pk(o)
  BY <1>2, <1>4 DEF P!Pk, P!graphql_get_node_from_global_id_using_strategy, P!get_object, P!get_node
<1>5. ASSUME NEW u \in Nat, id = P!Uuid(u), o[1] \in P!Compatible,
             \A d \in docs : d.uuid = u => d.object = o,
             o \in live => \E d \in docs : d.object = o /\ d.uuid = u
      PROVE  /\ answer \in {o, None, P!Error} /\ found \in {o, None}
             /\ o \in live /\ (id.form = "relay" \/ (id.form = "uuid" /\ enabled)) => answer = o
             /\ o \in live /\ (id.form = "uuid" /\ enabled) => found = o
  <2> DEFINE named == P!get_content_type_and_id_by_public_id(u)
  <2>1. id.form = "uuid" /\ id.uuid = u
    BY <1>5 DEF P!Uuid
  <2>2. named \in {o, None} /\ (o \in live => named = o)
    BY <1>5, Zenon DEF P!get_content_type_and_id_by_public_id
  <2> HIDE DEF named
  <2>3. /\ answer \in {o, None, P!Error}
        /\ o \in live /\ enabled => answer = o
    BY <1>2, <1>5, <2>1, <2>2 DEF named, P!graphql_get_node_from_global_id_using_strategy, P!get_node
  <2>4. found \in {o, None} /\ (o \in live /\ enabled => found = o)
    BY <1>2, <2>1, <2>2 DEF named, P!get_object, P!get_node, P!resolve_public_id_to_pk
  <2> QED BY <2>1, <2>3, <2>4
<1> QED BY <1>1, <1>3, <1>4, <1>5 DEF NamedBy

LEMMA CompleteHolds ==
  ASSUME IdsInv
  PROVE  P!BackfillComplete
BY DEF IdsInv, Pending, P!BackfillComplete

-----------------------------------------------------------------------------
(* Migrations of follows. *)

\* The columns name documents once they are converted, and there is a row of counters for
\* each document that there may be.
FollowsTyped ==
  /\ done \in {<<>>, <<"convert">>, <<"convert", "seed">>}
  /\ docs \in Seq(F!Entity) /\ \A d, e \in DOMAIN docs : docs[d] = docs[e] => d = e
  /\ meta = [d \in 1..Cardinality(F!Entity) |-> meta[d]]
  /\ follow = [r \in RowId |-> follow[r]] /\ truth = [r \in RowId |-> truth[r]]
  /\ done # <<>> =>
       \A r \in F!Rows : \E d, e \in DOMAIN docs : follow[r] = [actor |-> d, target |-> e]

\* Where the documents are counted, their counters are right; elsewhere there are none.
Counted ==
  skipped = {} =>
    \A d \in DOMAIN meta : meta[d] = IF done = F!Pipeline /\ d \in F!Ends THEN F!Counts(d) ELSE None

FollowsInv == FollowsTyped /\ F!FollowsKept /\ Counted

LEMMA EntityFinite ==
  IsFiniteSet(F!Entity) /\ Cardinality(F!Entity) \in Nat
<1>1. IsFiniteSet({"profile"}) /\ IsFiniteSet({"page"})
  BY FS_Singleton
<1>2. IsFiniteSet({"profile"} \X Pks) /\ IsFiniteSet({"page"} \X Pages)
  BY <1>1, FS_Product, FiniteAssumption
<1>3. IsFiniteSet(F!Entity)
  BY <1>2, FS_Union DEF F!Entity, F!Profiles
<1> QED BY <1>3, FS_CardinalityType

\* The operations come in their order, and go in the reverse of it.
LEMMA FollowOperations ==
  ASSUME FollowsTyped
  PROVE  /\ F!Forward("convert") => done = <<>> /\ done' = <<"convert">>
         /\ F!Forward("seed") => done = <<"convert">> /\ done' = F!Pipeline
         /\ F!Backward("convert") => done = <<"convert">> /\ done' = <<>>
         /\ F!Backward("seed") => done = F!Pipeline /\ done' = <<"convert">>
<1>1. CASE done = <<>>
  BY <1>1 DEF F!Forward, F!Backward, F!Pipeline
<1>2. CASE done = <<"convert">>
  BY <1>2 DEF F!Forward, F!Backward, F!Pipeline, F!Front, F!Last
<1>3. CASE done = <<"convert", "seed">>
  BY <1>3 DEF F!Forward, F!Backward, F!Pipeline, F!Front, F!Last
<1> QED BY <1>1, <1>2, <1>3 DEF FollowsTyped

\* The maps of the helpers.
LEMMA DocFound ==
  ASSUME NEW pk, F!DocByObject(pk) # 0
  PROVE  F!DocByObject(pk) \in DOMAIN docs /\ docs[F!DocByObject(pk)] = <<"profile", pk>>
BY Zenon DEF F!DocByObject

LEMMA ObjectFound ==
  ASSUME FollowsTyped, NEW id, F!ObjectByDoc(id) # 0
  PROVE  id \in DOMAIN docs /\ docs[id] = <<"profile", F!ObjectByDoc(id)>>
<1>1. id \in DOMAIN docs /\ docs[id][1] = "profile" /\ F!ObjectByDoc(id) = docs[id][2]
  BY DEF F!ObjectByDoc
<1>2. docs[id] \in F!Entity
  BY <1>1 DEF FollowsTyped
<1> QED BY <1>1, <1>2 DEF F!Entity, F!Profiles

LEMMA FollowsStart ==
  ASSUME F!Init
  PROVE  FollowsInv
<1>1. PICK S \in SUBSET F!Entity : docs \in F!SetToSeqs(S)
  BY DEF F!Init, F!Entity
<1>2. Cardinality(S) \in Nat
  BY EntityFinite, FS_Subset, FS_CardinalityType
<1>3. docs \in [1..Cardinality(S) -> S] /\ \A i, j \in 1..Cardinality(S) : i # j => docs[i] # docs[j]
  BY <1>1, SameCardinality DEF F!SetToSeqs
<1>4. docs \in Seq(F!Entity) /\ \A d, e \in DOMAIN docs : docs[d] = docs[e] => d = e
  BY <1>2, <1>3
<1>5. /\ done = <<>> /\ skipped = {} /\ meta = [d \in 1..Cardinality(F!Entity) |-> None]
      /\ follow = [r \in RowId |-> follow[r]]
      /\ truth = [r \in RowId |-> IF follow[r] = None THEN None
                                  ELSE <<<<"profile", follow[r].actor>>, <<"profile", follow[r].target>>>>]
  BY SameCardinality DEF F!Init
<1>6. FollowsTyped
  BY <1>4, <1>5 DEF FollowsTyped
<1>7. F!FollowsKept
  BY <1>5 DEF F!FollowsKept, F!Rows, F!ObjectOf
<1>8. Counted
  BY <1>5 DEF Counted, F!Pipeline
<1> QED BY <1>6, <1>7, <1>8 DEF FollowsInv

LEMMA ConvertKeepsFollows ==
  ASSUME FollowsInv, F!migrate_follow_profile_fks_to_document_id
  PROVE  FollowsInv'
<1>1. FollowsTyped /\ F!FollowsKept /\ Counted /\ docs' = docs /\ meta' = meta /\ skipped' = skipped
  BY DEF FollowsInv, F!migrate_follow_profile_fks_to_document_id
<1>2. done = <<>> /\ done' = <<"convert">>
  BY <1>1, FollowOperations DEF F!migrate_follow_profile_fks_to_document_id
<1>3. /\ follow' = [r \in RowId |-> IF r \in F!Resolved(F!DocsOfRows) THEN F!DocsOfRows[r] ELSE None]
      /\ truth' = [r \in RowId |-> IF follow'[r] = None THEN None ELSE truth[r]]
  BY DEF F!migrate_follow_profile_fks_to_document_id
<1>4. ASSUME NEW r \in RowId, follow'[r] # None
      PROVE  /\ r \in F!Rows
             /\ \E d, e \in DOMAIN docs :
                  /\ follow'[r] = [actor |-> d, target |-> e]
                  /\ docs[d] = <<"profile", follow[r].actor>> /\ docs[e] = <<"profile", follow[r].target>>
  <2>1. r \in F!Rows /\ F!DocsOfRows[r].actor # 0 /\ F!DocsOfRows[r].target # 0 /\ follow'[r] = F!DocsOfRows[r]
    BY <1>3, <1>4 DEF F!Resolved
  <2>2. F!DocsOfRows[r] = [actor |-> F!DocByObject(follow[r].actor), target |-> F!DocByObject(follow[r].target)]
    BY <2>1 DEF F!DocsOfRows
  <2>3. F!DocByObject(follow[r].actor) # 0 /\ F!DocByObject(follow[r].target) # 0
    BY <2>1, <2>2
  <2> QED BY <2>1, <2>2, <2>3, DocFound
<1>5. FollowsTyped'
  BY <1>1, <1>2, <1>3, <1>4 DEF FollowsTyped, F!Rows
<1>6. F!FollowsKept'
  <2> SUFFICES ASSUME NEW r \in RowId, follow'[r] # None, r \notin skipped
               PROVE  <<docs[follow'[r].actor], docs[follow'[r].target]>> = truth'[r]
    BY <1>1, <1>2 DEF F!FollowsKept, F!Rows, F!ObjectOf
  <2>1. <<<<"profile", follow[r].actor>>, <<"profile", follow[r].target>>>> = truth[r]
    BY <1>1, <1>2, <1>4 DEF F!FollowsKept, F!ObjectOf
  <2>2. truth'[r] = truth[r]
    BY <1>3
  <2>3. PICK d \in DOMAIN docs, e \in DOMAIN docs :
          /\ follow'[r] = [actor |-> d, target |-> e]
          /\ docs[d] = <<"profile", follow[r].actor>> /\ docs[e] = <<"profile", follow[r].target>>
    BY <1>4
  <2>4. follow'[r].actor = d /\ follow'[r].target = e
    BY <2>3
  <2> QED BY <2>1, <2>2, <2>3, <2>4
<1>7. Counted'
  BY <1>1, <1>2 DEF Counted, F!Pipeline
<1> QED BY <1>5, <1>6, <1>7 DEF FollowsInv

LEMMA RevertKeepsFollows ==
  ASSUME FollowsInv, F!reverse_migrate_follow_document_id_fks_to_profile
  PROVE  FollowsInv'
<1> DEFINE new == F!ObjectsOfRows
<1>1. /\ FollowsTyped /\ F!FollowsKept /\ Counted /\ docs' = docs /\ meta' = meta /\ truth' = truth
      /\ skipped' = skipped \cup (F!Rows \ F!Resolved(new))
      /\ follow' = [r \in RowId |-> IF r \in F!Resolved(new) THEN new[r] ELSE follow[r]]
  BY DEF FollowsInv, F!reverse_migrate_follow_document_id_fks_to_profile
<1>2. done = <<"convert">> /\ done' = <<>>
  BY <1>1, FollowOperations DEF F!reverse_migrate_follow_document_id_fks_to_profile
<1>3. FollowsTyped'
  BY <1>1, <1>2 DEF FollowsTyped
<1>4. F!FollowsKept'
  <2> SUFFICES ASSUME NEW r \in RowId, follow'[r] # None, r \notin skipped'
               PROVE  <<<<"profile", follow'[r].actor>>, <<"profile", follow'[r].target>>>> = truth[r]
    BY <1>1, <1>2 DEF F!FollowsKept, F!Rows, F!ObjectOf
  <2>1. r \in F!Resolved(new) /\ r \in F!Rows /\ r \notin skipped /\ follow'[r] = new[r]
    BY <1>1 DEF F!Rows, F!Resolved
  <2>2. new[r] = [actor |-> F!ObjectByDoc(follow[r].actor), target |-> F!ObjectByDoc(follow[r].target)]
    BY <2>1 DEF F!ObjectsOfRows
  <2>3. F!ObjectByDoc(follow[r].actor) # 0 /\ F!ObjectByDoc(follow[r].target) # 0
    BY <2>1, <2>2 DEF F!Resolved
  <2>4. /\ docs[follow[r].actor] = <<"profile", F!ObjectByDoc(follow[r].actor)>>
        /\ docs[follow[r].target] = <<"profile", F!ObjectByDoc(follow[r].target)>>
    BY <1>1, <2>3, ObjectFound
  <2>5. <<docs[follow[r].actor], docs[follow[r].target]>> = truth[r]
    BY <1>1, <1>2, <2>1 DEF F!FollowsKept, F!ObjectOf
  <2> QED BY <2>1, <2>2, <2>4, <2>5
<1>5. Counted'
  BY <1>1, <1>2 DEF Counted, F!Pipeline
<1> QED BY <1>3, <1>4, <1>5 DEF FollowsInv

\* Seeding and its reverse change only the counters.
LEMMA SeedKeepsFollows ==
  ASSUME FollowsInv, F!seed_followable_metadata_from_follows \/ F!reverse_seed_followable_metadata
  PROVE  FollowsInv'
<1>1. FollowsTyped /\ F!FollowsKept /\ Counted /\ docs' = docs /\ follow' = follow /\ truth' = truth /\ skipped' = skipped
  BY DEF FollowsInv, F!seed_followable_metadata_from_follows, F!reverse_seed_followable_metadata
<1>2. /\ F!Rows' = F!Rows /\ F!Ends' = F!Ends
      /\ \A d : F!Counts(d)' = F!Counts(d)
  BY <1>1 DEF F!Rows, F!Ends, F!Counts, F!FollowersCount, F!FollowingCount
<1>3. /\ done # <<>> /\ done' # <<>>
      /\ done' \in {<<"convert">>, <<"convert", "seed">>}
      /\ \/ /\ done # F!Pipeline /\ done' = F!Pipeline
            /\ meta' = [d \in DOMAIN meta |-> IF d \in F!Ends THEN F!Counts(d) ELSE meta[d]]
         \/ /\ done' # F!Pipeline /\ done = F!Pipeline
            /\ meta' = [d \in DOMAIN meta |-> IF d \in F!Ends THEN None ELSE meta[d]]
  BY <1>1, FollowOperations DEF F!seed_followable_metadata_from_follows, F!reverse_seed_followable_metadata, F!Pipeline
<1>4. FollowsTyped'
  BY <1>1, <1>2, <1>3 DEF FollowsTyped
<1>5. F!FollowsKept'
  BY <1>1, <1>2, <1>3 DEF F!FollowsKept, F!ObjectOf
<1>6. Counted'
  BY <1>1, <1>2, <1>3 DEF Counted
<1> QED BY <1>4, <1>5, <1>6 DEF FollowsInv

\* A set of documents that is appended lists each once.
Extends(D, C, Extra, S) ==
  /\ D \in Seq(S) /\ Len(D) \in Nat /\ Len(D) <= Cardinality(S)
  /\ \A d, e \in DOMAIN D : D[d] = D[e] => d = e
  /\ \A d \in DOMAIN C : d \in DOMAIN D /\ D[d] = C[d]
  /\ \A x \in Extra : \E d \in DOMAIN D : D[d] = x

LEMMA Appended ==
  ASSUME NEW S, IsFiniteSet(S), NEW C \in Seq(S), \A d, e \in DOMAIN C : C[d] = C[e] => d = e,
         NEW Extra \in SUBSET S, \A x \in Extra : \A d \in DOMAIN C : C[d] # x,
         NEW n \in Nat, NEW s \in [1..n -> Extra],
         \A i, j \in 1..n : s[i] = s[j] => i = j,
         \A x \in Extra : \E i \in 1..n : s[i] = x
  PROVE  Extends(C \o s, C, Extra, S)
<1>2. s \in Seq(S) /\ Len(s) = n /\ Len(C) \in Nat
  OBVIOUS
<1> DEFINE E == C \o s
<1>3. /\ E \in Seq(S) /\ DOMAIN E = 1..(Len(C) + Len(s)) /\ Len(E) = Len(C) + Len(s) /\ DOMAIN C = 1..Len(C)
      /\ \A d \in 1..Len(C) : E[d] = C[d]
      /\ \A d \in 1..Len(s) : E[Len(C) + d] = s[d]
  BY <1>2
<1>4. \A d \in DOMAIN E : \/ d \in 1..Len(C) /\ E[d] = C[d]
                          \/ \E i \in 1..Len(s) : d = Len(C) + i /\ E[d] = s[i]
  <2> HIDE DEF E
  <2> TAKE d \in DOMAIN E
  <2>1. d \in 1..Len(C) \/ (d - Len(C) \in 1..Len(s) /\ d = Len(C) + (d - Len(C)))
    BY <1>2, <1>3
  <2> QED BY <1>3, <2>1
<1> HIDE DEF E
<1>5. \A d, e \in DOMAIN E : E[d] = E[e] => d = e
  <2> SUFFICES ASSUME NEW d \in DOMAIN E, NEW e \in DOMAIN E, E[d] = E[e] PROVE d = e
    OBVIOUS
  <2>1. \A i \in 1..Len(s) : s[i] \in Extra
    BY <1>2
  <2>2. CASE d \in 1..Len(C) /\ e \in 1..Len(C)
    BY <1>3, <2>2
  <2>3. ASSUME NEW i \in 1..Len(s), d = Len(C) + i, E[d] = s[i] PROVE d = e
    <3>1. CASE e \in 1..Len(C) /\ E[e] = C[e]
      BY <1>3, <2>1, <2>3, <3>1
    <3>2. CASE \E j \in 1..Len(s) : e = Len(C) + j /\ E[e] = s[j]
      BY <1>2, <2>3, <3>2
    <3> QED BY <1>4, <3>1, <3>2
  <2>4. CASE d \in 1..Len(C) /\ E[d] = C[d]
    <3>1. CASE e \in 1..Len(C) /\ E[e] = C[e]
      BY <2>2, <2>4, <3>1
    <3>2. CASE \E j \in 1..Len(s) : e = Len(C) + j /\ E[e] = s[j]
      BY <1>3, <2>1, <2>4, <3>2
    <3> QED BY <1>4, <3>1, <3>2
  <2> QED BY <1>4, <2>3, <2>4
<1>6. Len(E) <= Cardinality(S)
  <2>0. E \in [1..Len(E) -> S]
    BY <1>3
  <2>1. E \in Injection(1..Len(E), S)
    BY <1>5, <2>0, Zenon DEF Injection, IsInjective
  <2>2. IsFiniteSet(1..Len(E)) /\ Cardinality(1..Len(E)) = Len(E)
    BY <1>2, <1>3, FS_Interval
  <2> QED BY <2>1, <2>2, FS_Injection
<1>7. \A x \in Extra : \E d \in DOMAIN E : E[d] = x
  <2> SUFFICES ASSUME NEW i \in 1..Len(s) PROVE Len(C) + i \in DOMAIN E /\ E[Len(C) + i] = s[i]
    BY <1>2
  <2> QED BY <1>2, <1>3
<1>8. Len(E) \in Nat /\ \A d \in DOMAIN C : d \in DOMAIN E /\ E[d] = C[d]
  BY <1>2, <1>3
<1>9. Extends(E, C, Extra, S)
  BY <1>3, <1>5, <1>6, <1>7, <1>8, Zenon DEF Extends
<1> QED BY <1>9 DEF E

\* One row more among those that satisfy something.
LEMMA CountMore ==
  ASSUME NEW S, IsFiniteSet(S), NEW r, r \notin S, NEW b \in BOOLEAN
  PROVE  /\ Cardinality(S) \in Nat
         /\ Cardinality(S \cup (IF b THEN {r} ELSE {})) = Cardinality(S) + (IF b THEN 1 ELSE 0)
<1>1. Cardinality(S) \in Nat
  BY FS_CardinalityType
<1>2. Cardinality(S \cup {r}) = Cardinality(S) + 1
  BY FS_AddElement
<1>3. S \cup {} = S
  OBVIOUS
<1> QED BY <1>1, <1>2, <1>3

\* A follow that is made when the project is upgraded: its documents, its row and its counters.
LEMMA ToggleKeepsFollows ==
  ASSUME FollowsInv, NEW r \in RowId, NEW a \in F!Profiles, NEW o \in F!Entity, F!Toggle(r, a, o)
  PROVE  FollowsInv'
<1> DEFINE Extra == {a, o} \ F!ToSet(docs)
           s == F!SetToSeq(Extra)
           D == docs \o s
           n == Cardinality(Extra)
           da == CHOOSE d \in DOMAIN D : D[d] = a
           dt == CHOOSE d \in DOMAIN D : D[d] = o
           new == [actor |-> da, target |-> dt]
           Had(d) == IF meta[d] = None THEN [followers |-> 0, following |-> 0] ELSE meta[d]
           One(b) == IF b THEN 1 ELSE 0
<1>1. /\ FollowsTyped /\ F!FollowsKept /\ Counted
      /\ done = F!Pipeline /\ done' = done /\ skipped' = skipped /\ follow[r] = None /\ a # o
      /\ docs' = D /\ truth' = [truth EXCEPT ![r] = <<a, o>>]
      /\ follow' = [follow EXCEPT ![r] = new]
      /\ meta' = [d \in DOMAIN meta |->
                    IF d \notin {da, dt} THEN meta[d]
                    ELSE [followers |-> Had(d).followers + One(d = dt),
                          following |-> Had(d).following + One(d = da)]]
  BY DEF FollowsInv, F!Toggle
<1>2. /\ docs \in Seq(F!Entity) /\ (\A d, e \in DOMAIN docs : docs[d] = docs[e] => d = e)
      /\ a \in F!Entity /\ Extra \subseteq F!Entity /\ (\A x \in Extra : \A d \in DOMAIN docs : docs[d] # x)
      /\ \A x \in {a, o} : x \in Extra \/ \E d \in DOMAIN docs : docs[d] = x
  BY <1>1 DEF FollowsTyped, F!Entity, F!ToSet
<1>0. \A x \in F!Rows : \E d, e \in DOMAIN docs : follow[x] = [actor |-> d, target |-> e]
  <2>1. done # <<>>
    BY <1>1 DEF F!Pipeline
  <2> QED BY <1>1, <2>1 DEF FollowsTyped
<1>3. IsFiniteSet(Extra) /\ IsFiniteSet(F!Entity)
  BY <1>2, EntityFinite, FS_Subset
<1>4. (\E f \in [1..Cardinality(Extra) -> Extra] : \A i, j \in DOMAIN f : f[i] = f[j] => i = j)
        => s \in [1..Cardinality(Extra) -> Extra] /\ \A i, j \in DOMAIN s : s[i] = s[j] => i = j
  <2>1. s = CHOOSE f \in [1..Cardinality(Extra) -> Extra] : \A i, j \in DOMAIN f : f[i] = f[j] => i = j
    BY SameCardinality DEF F!SetToSeq, F!IsInjective
  <2> HIDE DEF Extra, s
  <2> QED BY <2>1, Zenon
<1> HIDE DEF Extra, s
<1>5. /\ n \in Nat /\ s \in [1..n -> Extra]
      /\ \A i, j \in 1..n : s[i] = s[j] => i = j
      /\ \A x \in Extra : \E i \in 1..n : s[i] = x
  BY <1>3, <1>4, Listing
<1> HIDE DEF n
<1>6. /\ D \in Seq(F!Entity) /\ Len(D) \in Nat /\ Len(D) <= Cardinality(F!Entity)
      /\ \A d, e \in DOMAIN D : D[d] = D[e] => d = e
      /\ \A d \in DOMAIN docs : d \in DOMAIN D /\ D[d] = docs[d]
      /\ \A x \in Extra : \E d \in DOMAIN D : D[d] = x
  <2>1. docs \in Seq(F!Entity) /\ Extra \in SUBSET F!Entity
    BY <1>2
  <2>2. Extends(docs \o s, docs, Extra, F!Entity)
    <3> HIDE DEF D
    <3> QED BY <1>2, <1>3, <1>5, <2>1, Appended
  <2>3. Extends(D, docs, Extra, F!Entity)
    BY <2>2
  <2> HIDE DEF D
  <2> QED BY <2>3 DEF Extends
<1> HIDE DEF D
<1>7. da \in DOMAIN D /\ D[da] = a /\ dt \in DOMAIN D /\ D[dt] = o
  <2>1. (\E d \in DOMAIN D : D[d] = a) /\ (\E d \in DOMAIN D : D[d] = o)
    BY <1>2, <1>6
  <2> QED BY <2>1, Zenon
<1> HIDE DEF da, dt
<1>8. da \in Nat /\ dt \in Nat /\ da # dt /\ da \in DOMAIN meta /\ dt \in DOMAIN meta
  BY <1>1, <1>6, <1>7, EntityFinite DEF FollowsTyped
<1>9. new # None
  BY <1>8, NoneAssumption
<1> HIDE DEF new, Had, One
<1>10. /\ follow' = [x \in RowId |-> IF x = r THEN new ELSE follow[x]]
       /\ truth' = [x \in RowId |-> IF x = r THEN <<a, o>> ELSE truth[x]]
  BY <1>1 DEF FollowsTyped
<1>11. r \notin F!Rows /\ F!Rows' = F!Rows \cup {r} /\ \A x \in F!Rows : x # r /\ follow'[x] = follow[x]
  BY <1>1, <1>9, <1>10 DEF F!Rows
<1>12. FollowsTyped'
  <2>1. \A x \in F!Rows' : \E d, e \in DOMAIN D : follow'[x] = [actor |-> d, target |-> e]
    <3>1. follow'[r] = [actor |-> da, target |-> dt]
      BY <1>10 DEF new
    <3>2. ASSUME NEW x \in F!Rows PROVE \E d, e \in DOMAIN D : follow'[x] = [actor |-> d, target |-> e]
      <4>1. PICK d \in DOMAIN docs, e \in DOMAIN docs : follow[x] = [actor |-> d, target |-> e]
        BY <1>0
      <4>2. d \in DOMAIN D /\ e \in DOMAIN D
        BY <1>6
      <4>3. follow'[x] = [actor |-> d, target |-> e]
        BY <1>11, <4>1
      <4> QED BY <4>2, <4>3
    <3> QED BY <1>7, <1>11, <3>1, <3>2
  <2>2. /\ done' \in {<<>>, <<"convert">>, <<"convert", "seed">>}
        /\ follow' = [x \in RowId |-> follow'[x]] /\ truth' = [x \in RowId |-> truth'[x]]
    BY <1>1, <1>10 DEF FollowsTyped
  <2>3. meta' = [d \in 1..Cardinality(F!Entity) |-> meta'[d]]
    BY <1>1 DEF FollowsTyped
  <2>4. docs' = D
    BY <1>1
  <2>5. docs' \in Seq(F!Entity) /\ \A d, e \in DOMAIN docs' : docs'[d] = docs'[e] => d = e
    BY <1>6, <2>4
  <2>6. \A x \in F!Rows' : \E d, e \in DOMAIN docs' : follow'[x] = [actor |-> d, target |-> e]
    BY <2>1, <2>4
  <2> QED BY <2>2, <2>3, <2>5, <2>6, Zenon DEF FollowsTyped
<1>13. F!FollowsKept'
  <2>1. \A x \in F!Rows : follow[x].actor \in DOMAIN docs /\ follow[x].target \in DOMAIN docs
    <3> SUFFICES ASSUME NEW x \in F!Rows PROVE follow[x].actor \in DOMAIN docs /\ follow[x].target \in DOMAIN docs
      OBVIOUS
    <3>1. PICK d \in DOMAIN docs, e \in DOMAIN docs : follow[x] = [actor |-> d, target |-> e]
      BY <1>0
    <3> QED BY <3>1
  <2>2. ASSUME NEW x \in F!Rows, x \notin skipped
        PROVE  <<D[follow'[x].actor], D[follow'[x].target]>> = truth'[x]
    <3>1. <<docs[follow[x].actor], docs[follow[x].target]>> = truth[x]
      BY <1>1, <2>2 DEF F!FollowsKept, F!ObjectOf, F!Pipeline
    <3>2. x \in RowId
      BY DEF F!Rows
    <3> QED BY <1>6, <1>10, <1>11, <2>1, <3>1, <3>2
  <2>3. <<D[follow'[r].actor], D[follow'[r].target]>> = truth'[r]
    BY <1>7, <1>10 DEF new
  <2> QED BY <1>1, <1>11, <2>2, <2>3 DEF F!FollowsKept, F!ObjectOf, F!Pipeline
<1>14. Counted'
  <2> SUFFICES ASSUME skipped = {}, NEW d \in DOMAIN meta
               PROVE  meta'[d] = IF d \in F!Ends' THEN F!Counts(d)' ELSE None
    BY <1>1 DEF Counted
  <2>1. meta[d] = IF d \in F!Ends THEN F!Counts(d) ELSE None
    BY <1>1 DEF Counted
  <2>2. F!Ends' = F!Ends \cup {da, dt}
    BY <1>10, <1>11 DEF F!Ends, new
  <2> DEFINE In == {x \in F!Rows : follow[x].target = d}
             Out == {x \in F!Rows : follow[x].actor = d}
  <2>3. /\ {x \in F!Rows' : follow'[x].target = d} = In \cup (IF d = dt THEN {r} ELSE {})
        /\ {x \in F!Rows' : follow'[x].actor = d} = Out \cup (IF d = da THEN {r} ELSE {})
    BY <1>10, <1>11 DEF new
  <2>4. IsFiniteSet(In) /\ IsFiniteSet(Out) /\ r \notin In /\ r \notin Out
    <3>1. In \subseteq RowId /\ Out \subseteq RowId
      BY DEF F!Rows
    <3>2. r \notin In /\ r \notin Out
      BY <1>11
    <3> HIDE DEF In, Out
    <3> QED BY <3>1, <3>2, FiniteAssumption, FS_Subset
  <2>5. F!Counts(d) = [followers |-> Cardinality(In), following |-> Cardinality(Out)]
    BY SameCardinality DEF F!Counts, F!FollowersCount, F!FollowingCount
  <2>6. F!Counts(d)' = [followers |-> Cardinality(In \cup (IF d = dt THEN {r} ELSE {})),
                        following |-> Cardinality(Out \cup (IF d = da THEN {r} ELSE {}))]
    BY <2>3, SameCardinality DEF F!Counts, F!FollowersCount, F!FollowingCount
  <2>7. d \notin F!Ends => In = {} /\ Out = {}
    BY DEF F!Ends
  <2> HIDE DEF In, Out
  <2>8. /\ Cardinality(In) \in Nat /\ Cardinality(Out) \in Nat
        /\ Cardinality(In \cup (IF d = dt THEN {r} ELSE {})) = Cardinality(In) + (IF d = dt THEN 1 ELSE 0)
        /\ Cardinality(Out \cup (IF d = da THEN {r} ELSE {})) = Cardinality(Out) + (IF d = da THEN 1 ELSE 0)
    BY <2>4, CountMore
  <2>9. F!Counts(d)' = [followers |-> Cardinality(In) + (IF d = dt THEN 1 ELSE 0),
                        following |-> Cardinality(Out) + (IF d = da THEN 1 ELSE 0)]
    BY <2>6, <2>8
  <2>10. CASE d \notin {da, dt}
    <3>1. meta'[d] = meta[d]
      BY <1>1, <2>10
    <3>2. F!Counts(d)' = F!Counts(d)
      BY <2>5, <2>8, <2>9, <2>10
    <3> QED BY <2>1, <2>2, <2>10, <3>1, <3>2
  <2>11. CASE d \in {da, dt}
    <3>1. meta'[d] = [followers |-> Had(d).followers + One(d = dt), following |-> Had(d).following + One(d = da)]
      BY <1>1, <2>11
    <3>2. Had(d) = [followers |-> Cardinality(In), following |-> Cardinality(Out)]
      <4>1. CASE d \in F!Ends
        <5>1. meta[d] = [followers |-> Cardinality(In), following |-> Cardinality(Out)]
          BY <2>1, <2>5, <4>1
        <5>2. meta[d] # None
          BY <2>8, <5>1, NoneAssumption
        <5> QED BY <5>1, <5>2 DEF Had
      <4>2. CASE d \notin F!Ends
        <5>1. Cardinality(In) = 0 /\ Cardinality(Out) = 0
          BY <2>7, <4>2, FS_EmptySet
        <5> QED BY <2>1, <4>2, <5>1 DEF Had
      <4> QED BY <4>1, <4>2
    <3> QED BY <2>2, <2>9, <2>11, <3>1, <3>2 DEF One
  <2> QED BY <2>10, <2>11
<1> QED BY <1>12, <1>13, <1>14 DEF FollowsInv

LEMMA FollowsStep ==
  ASSUME FollowsInv, F!Next
  PROVE  FollowsInv'
BY ConvertKeepsFollows, RevertKeepsFollows, SeedKeepsFollows, ToggleKeepsFollows DEF F!Next

LEMMA FollowsQuiet ==
  ASSUME FollowsInv, UNCHANGED <<docs, migrating, follows>>
  PROVE  FollowsInv'
<1>1. UNCHANGED <<docs, done, meta, truth, follow, skipped>>
  BY DEF migrating, follows
<1>2. /\ F!Rows' = F!Rows /\ F!Ends' = F!Ends
      /\ \A d : F!Counts(d)' = F!Counts(d) /\ F!ObjectOf(d)' = F!ObjectOf(d)
  BY <1>1 DEF F!Rows, F!Ends, F!Counts, F!FollowersCount, F!FollowingCount, F!ObjectOf
<1>3. FollowsTyped'
  BY <1>1, <1>2 DEF FollowsInv, FollowsTyped
<1>4. F!FollowsKept'
  BY <1>1, <1>2 DEF FollowsInv, F!FollowsKept
<1>5. Counted'
  BY <1>1, <1>2 DEF FollowsInv, Counted
<1> QED BY <1>3, <1>4, <1>5 DEF FollowsInv

LEMMA FollowsHold ==
  ASSUME FollowsInv
  PROVE  F!FollowsKept /\ F!SeededCountsExact
<1> SUFFICES ASSUME done = F!Pipeline, skipped = {}, NEW d \in DOMAIN docs
             PROVE  IF meta[d] = None THEN d \notin F!Ends ELSE meta[d] = F!Counts(d)
  BY DEF FollowsInv, F!SeededCountsExact
<1>1. d \in DOMAIN meta
  <2>1. docs \in [1..Len(docs) -> F!Entity] /\ Len(docs) \in Nat /\ \A i, j \in 1..Len(docs) : docs[i] = docs[j] => i = j
    BY DEF FollowsInv, FollowsTyped
  <2>0. DOMAIN docs = 1..Len(docs)
    BY <2>1
  <2>2. docs \in Injection(1..Len(docs), F!Entity)
    BY <2>0, <2>1, Zenon DEF Injection, IsInjective
  <2>3. IsFiniteSet(1..Len(docs)) /\ Cardinality(1..Len(docs)) = Len(docs)
    <3> DEFINE n == Len(docs)
    <3>1. n \in Nat
      BY <2>1
    <3> HIDE DEF n
    <3>2. IsFiniteSet(1..n) /\ Cardinality(1..n) = n
      BY <3>1, FS_Interval
    <3> QED BY <3>2 DEF n
  <2>4. Len(docs) <= Cardinality(F!Entity)
    BY <2>2, <2>3, EntityFinite, FS_Injection
  <2> QED BY <2>1, <2>4, EntityFinite DEF FollowsInv, FollowsTyped
<1>2. meta[d] = IF d \in F!Ends THEN F!Counts(d) ELSE None
  BY <1>1 DEF FollowsInv, Counted
<1>3. F!Counts(d) # None
  <2>1. IsFiniteSet({x \in F!Rows : follow[x].target = d}) /\ IsFiniteSet({x \in F!Rows : follow[x].actor = d})
    <3> DEFINE In == {x \in F!Rows : follow[x].target = d}
               Out == {x \in F!Rows : follow[x].actor = d}
    <3>1. In \subseteq RowId /\ Out \subseteq RowId
      BY DEF F!Rows
    <3>2. IsFiniteSet(In) /\ IsFiniteSet(Out)
      <4> HIDE DEF In, Out
      <4> QED BY <3>1, FiniteAssumption, FS_Subset
    <3> QED BY <3>2
  <2>2. F!FollowersCount(d) \in Nat /\ F!FollowingCount(d) \in Nat
    BY <2>1, SameCardinality, FS_CardinalityType DEF F!FollowersCount, F!FollowingCount
  <2> QED BY <2>2, NoneAssumption DEF F!Counts
<1> QED BY <1>2, <1>3

-----------------------------------------------------------------------------
(* Migrations of targets. *)

RowRecord == [target : Object \cup {None}, document : Nat, type : T!Type \cup {None}]
Event == [of : RowId, target : Object \cup {None}, document : Nat, was : Object \cup {None}]

TargetsTyped ==
  /\ kind \in T!Kinds /\ done = SubSeq(T!Pipeline, 1, Len(done)) /\ Len(done) \in 0..Len(T!Pipeline)
  /\ docs \in Seq(Object) /\ Len(docs) <= Cardinality(Object)
  /\ \A d, e \in DOMAIN docs : docs[d] = docs[e] => d = e
  /\ row \in [RowId -> {None} \cup RowRecord] /\ truth = [r \in RowId |-> truth[r]]
  /\ \A r \in RowId : row[r] # None => row[r].document <= Len(docs)
  /\ history \subseteq Event /\ (kind # "comments" => history = {})
  /\ \A e \in history : e.document <= Len(docs)

\* A row is where it was, and an event where it was or, since it had no document, where its
\* comment, which is never deleted, is.
TargetsOf ==
  /\ \A r \in RowId : row[r] # None => T!TargetOf(row[r]) = truth[r]
  /\ \A e \in history : e.was # None =>
       T!TargetOf(e) = e.was \/ (row[e.of] # None /\ T!TargetOf(e) = truth[e.of])

\* The counters, as columns or as metadata of documents that exist.  The columns of a comment's
\* target are all there or none is.
CountersTyped ==
  /\ column \in [Object -> [T!Fields -> Nat \cup {None}]]
  /\ meta \in [T!Doc -> {None} \cup [T!Fields -> Nat]]
  /\ \A d \in T!Doc : meta[d] # None => d <= Len(docs)
  /\ kind = "comments" =>
       \A o \in Object : \A f, g \in T!Fields : column[o][f] = None => column[o][g] = None

TargetsInv == TargetsTyped /\ TargetsOf /\ CountersTyped

LEMMA DocOfFound ==
  ASSUME NEW D, NEW o, (\E d \in DOMAIN D : D[d] = o) \/ T!DocOf(D, o) # 0
  PROVE  T!DocOf(D, o) \in DOMAIN D /\ D[T!DocOf(D, o)] = o
<1>1. \E d \in DOMAIN D : D[d] = o
  BY DEF T!DocOf
<1>2. T!DocOf(D, o) = CHOOSE d \in DOMAIN D : D[d] = o
  BY <1>1 DEF T!DocOf
<1> QED BY <1>1, <1>2, Zenon

\* get_or_create for each object of S.
LEMMA WithDocsExtends ==
  ASSUME docs \in Seq(Object), Len(docs) <= Cardinality(Object),
         \A d, e \in DOMAIN docs : docs[d] = docs[e] => d = e, NEW S \in SUBSET Object
  PROVE  Extends(T!WithDocs(docs, S), docs, S, Object)
<1> DEFINE new == S \ T!ToSet(docs)
           s == T!SetToSeq(new)
           n == Cardinality(new)
           D == docs \o s
<1>1. new \in SUBSET Object /\ (\A x \in new : \A d \in DOMAIN docs : docs[d] # x)
      /\ \A x \in S : x \in new \/ \E d \in DOMAIN docs : docs[d] = x
  BY DEF T!ToSet
<1>2. T!WithDocs(docs, S) = D
  BY DEF T!WithDocs
<1>3. (\E f \in [1..Cardinality(new) -> new] : \A i, j \in DOMAIN f : f[i] = f[j] => i = j)
        => s \in [1..Cardinality(new) -> new] /\ \A i, j \in DOMAIN s : s[i] = s[j] => i = j
  <2>1. s = CHOOSE f \in [1..Cardinality(new) -> new] : \A i, j \in DOMAIN f : f[i] = f[j] => i = j
    BY SameCardinality DEF T!SetToSeq, T!IsInjective
  <2> HIDE DEF new, s
  <2> QED BY <2>1, Zenon
<1> HIDE DEF new, s
<1>4. IsFiniteSet(new)
  BY <1>1, FiniteAssumption, FS_Subset
<1>5. /\ n \in Nat /\ s \in [1..n -> new]
      /\ \A i, j \in 1..n : s[i] = s[j] => i = j
      /\ \A x \in new : \E i \in 1..n : s[i] = x
  BY <1>3, <1>4, Listing
<1> HIDE DEF n
<1>6. Extends(docs \o s, docs, new, Object)
  <2> HIDE DEF D
  <2> QED BY <1>1, <1>5, FiniteAssumption, Appended
<1>7. Extends(D, docs, new, Object)
  BY <1>6
<1> HIDE DEF D
<1>8. /\ D \in Seq(Object) /\ Len(D) \in Nat /\ Len(D) <= Cardinality(Object)
      /\ \A d, e \in DOMAIN D : D[d] = D[e] => d = e
      /\ \A d \in DOMAIN docs : d \in DOMAIN D /\ D[d] = docs[d]
      /\ \A x \in new : \E d \in DOMAIN D : D[d] = x
  BY <1>7 DEF Extends
<1>9. \A x \in S : \E d \in DOMAIN D : D[d] = x
  <2> SUFFICES ASSUME NEW x \in S PROVE \E d \in DOMAIN D : D[d] = x
    OBVIOUS
  <2> QED BY <1>1, <1>8
<1>10. Extends(D, docs, S, Object)
  BY <1>8, <1>9, Zenon DEF Extends
<1> QED BY <1>2, <1>10

\* What the invariant needs of documents when some are made.
LEMMA DocsMade ==
  ASSUME TargetsTyped, NEW S \in SUBSET Object, docs' = T!WithDocs(docs, S)
  PROVE  /\ docs' \in Seq(Object) /\ Len(docs') \in Nat /\ Len(docs') <= Cardinality(Object)
         /\ Len(docs) \in Nat /\ Len(docs) <= Len(docs')
         /\ \A d, e \in DOMAIN docs' : docs'[d] = docs'[e] => d = e
         /\ \A d \in DOMAIN docs : d \in DOMAIN docs' /\ docs'[d] = docs[d]
         /\ \A x \in S : T!DocOf(docs', x) \in DOMAIN docs' /\ docs'[T!DocOf(docs', x)] = x
         /\ DOMAIN docs = 1..Len(docs) /\ DOMAIN docs' = 1..Len(docs')
<1>1. docs \in Seq(Object) /\ Len(docs) <= Cardinality(Object) /\ \A d, e \in DOMAIN docs : docs[d] = docs[e] => d = e
  BY DEF TargetsTyped
<1>2. Extends(docs', docs, S, Object)
  BY <1>1, WithDocsExtends
<1>3. /\ docs' \in Seq(Object) /\ Len(docs') \in Nat /\ Len(docs') <= Cardinality(Object)
      /\ \A d, e \in DOMAIN docs' : docs'[d] = docs'[e] => d = e
      /\ \A d \in DOMAIN docs : d \in DOMAIN docs' /\ docs'[d] = docs[d]
      /\ \A x \in S : \E d \in DOMAIN docs' : docs'[d] = x
  BY <1>2, Zenon DEF Extends
<1>4. \A x \in S : T!DocOf(docs', x) \in DOMAIN docs' /\ docs'[T!DocOf(docs', x)] = x
  BY <1>3, DocOfFound
<1>5. DOMAIN docs = 1..Len(docs) /\ DOMAIN docs' = 1..Len(docs') /\ Len(docs) \in Nat
  BY <1>1, <1>3
<1>6. Len(docs) <= Len(docs')
  <2>1. CASE Len(docs) = 0
    BY <1>3, <2>1
  <2>2. CASE Len(docs) # 0
    <3>1. Len(docs) \in DOMAIN docs
      BY <1>5, <2>2
    <3> QED BY <1>3, <1>5, <3>1
  <2> QED BY <2>1, <2>2
<1> QED BY <1>1, <1>3, <1>4, <1>5, <1>6

\* The operations applied are the first of the package.
LEMMA TargetOperations ==
  ASSUME kind \in T!Kinds, done = SubSeq(T!Pipeline, 1, Len(done)), Len(done) \in 0..Len(T!Pipeline),
         NEW op, T!Forward(op) \/ T!Backward(op), kind' = kind
  PROVE  /\ done' = SubSeq(T!Pipeline', 1, Len(done')) /\ Len(done') \in 0..Len(T!Pipeline')
         /\ T!Forward(op) => T!Applied' = T!Applied \cup {op}
         /\ T!Backward(op) => T!Applied = T!Applied' \cup {op}
<1> DEFINE line == T!Pipeline
           Op == {"types", "convert", "seed", "legacy"}
<1>1. line \in Seq(Op)
  <2> HIDE DEF Op
  <2>1. ASSUME NEW a \in Op, NEW b \in Op, NEW c \in Op, NEW d \in Op
        PROVE  <<a>> \in Seq(Op) /\ <<a, b>> \in Seq(Op) /\ <<a, b, c>> \in Seq(Op) /\ <<a, b, c, d>> \in Seq(Op)
    OBVIOUS
  <2>2. "types" \in Op /\ "convert" \in Op /\ "seed" \in Op /\ "legacy" \in Op
    BY DEF Op
  <2>3. /\ T!BlocksPipeline \in Seq(Op) /\ T!CommentsPipeline \in Seq(Op) /\ T!ReactionsPipeline \in Seq(Op)
        /\ T!RatingsPipeline \in Seq(Op) /\ T!ReportsPipeline \in Seq(Op)
    BY <2>1, <2>2, Zenon DEF T!BlocksPipeline, T!CommentsPipeline, T!ReactionsPipeline, T!RatingsPipeline, T!ReportsPipeline
  <2> QED BY <2>3, Zenon DEF T!Pipeline
<1>2. T!Pipeline' = line
  BY DEF T!Pipeline
<1> HIDE DEF line, Op
<1>3. done = SubSeq(line, 1, Len(done)) /\ Len(done) \in 0..Len(line)
  BY DEF line
<1>4. /\ done \in Seq(Op) /\ Len(line) \in Nat
      /\ \A i \in 1..Len(done) : done[i] = line[i]
  BY <1>1, <1>3
<1>5. CASE T!Forward(op)
  <2>1. done' = Append(done, op) /\ Len(done) # Len(line) /\ line[Len(done) + 1] = op
    BY <1>5 DEF T!Forward, T!Upgraded, line
  <2>2. /\ Len(done') = Len(done) + 1 /\ Len(done') \in 0..Len(line)
        /\ \A i \in 1..Len(done') : done'[i] = line[i]
    BY <1>3, <1>4, <2>1
  <2>3. done' \in Seq(Op)
    BY <1>1, <1>3, <1>4, <2>1
  <2>4. done' = SubSeq(line, 1, Len(done'))
    BY <1>1, <1>4, <2>2, <2>3
  <2>5. T!Applied' = T!Applied \cup {op}
    BY <1>4, <2>1 DEF T!Applied, T!ToSet
  <2>6. ASSUME T!Backward(op) PROVE FALSE
    <3>1. done # <<>> /\ done' = SubSeq(done, 1, Len(done) - 1)
      BY <2>6 DEF T!Backward, T!Front
    <3>2. Len(done) # 0 /\ Len(done) \in Nat
      BY <1>4, <3>1
    <3>3. Len(done') = Len(done) - 1
      BY <1>4, <3>1, <3>2
    <3> QED BY <2>2, <3>2, <3>3
  <2> QED BY <1>2, <2>2, <2>4, <2>5, <2>6
<1>6. CASE T!Backward(op)
  <2>1. done # <<>> /\ done[Len(done)] = op /\ done' = SubSeq(done, 1, Len(done) - 1)
    BY <1>6 DEF T!Backward, T!Front, T!Last
  <2>2. Len(done) # 0
    BY <1>4, <2>1
  <2>3. /\ Len(done') = Len(done) - 1 /\ Len(done') \in 0..Len(line)
        /\ \A i \in 1..Len(done') : done'[i] = line[i] /\ done'[i] = done[i]
    BY <1>3, <1>4, <2>1, <2>2
  <2>4. done' \in Seq(Op)
    BY <1>4, <2>1
  <2>5. done' = SubSeq(line, 1, Len(done'))
    BY <1>1, <1>4, <2>3, <2>4
  <2>6. T!Applied = T!Applied' \cup {op}
    <3>1. DOMAIN done = 1..Len(done) /\ DOMAIN done' = 1..(Len(done) - 1) /\ Len(done) \in Nat \ {0}
      BY <1>4, <2>2, <2>3, <2>4
    <3>2. \A i \in DOMAIN done' : i \in DOMAIN done /\ done'[i] = done[i]
      BY <2>3, <3>1
    <3>3. \A i \in DOMAIN done : i = Len(done) \/ i \in DOMAIN done'
      BY <3>1
    <3>4. Len(done) \in DOMAIN done
      BY <3>1
    <3> QED BY <2>1, <3>2, <3>3, <3>4, Zenon DEF T!Applied, T!ToSet
  <2>7. ~ T!Forward(op)
    BY <1>4, <2>3 DEF T!Forward
  <2> QED BY <1>2, <2>3, <2>5, <2>6, <2>7
<1> QED BY <1>5, <1>6

\* The rows after a conversion: each has the document of what it named.
LEMMA ConvertRows ==
  ASSUME TargetsTyped, TargetsOf, NEW k, T!Convert(k)
  PROVE  /\ docs' = T!WithDocs(docs, T!Targets) /\ T!Targets \in SUBSET Object
         /\ row' \in [RowId -> {None} \cup RowRecord]
         /\ \A r \in RowId : row[r] # None => row'[r] # None
         /\ \A r \in RowId : row'[r] # None =>
              row'[r].document \in DOMAIN docs' /\ docs'[row'[r].document] = truth[r]
<1>1. /\ docs' = T!WithDocs(docs, T!Targets) /\ T!AllFilled(T!Filled(docs'))
      /\ row' = T!Dropped(T!Filled(docs'))
  BY DEF T!Convert
<1>2. /\ row \in [RowId -> {None} \cup RowRecord] /\ docs \in Seq(Object)
      /\ \A r \in RowId : row[r] # None => row[r].document <= Len(docs)
  BY DEF TargetsTyped
<1>3. T!Targets \in SUBSET Object
  BY <1>2 DEF T!Targets, T!Rows, RowRecord
<1>4. /\ docs' \in Seq(Object) /\ Len(docs') \in Nat /\ Len(docs) \in Nat
      /\ \A d \in DOMAIN docs : d \in DOMAIN docs' /\ docs'[d] = docs[d]
      /\ \A x \in T!Targets : T!DocOf(docs', x) \in DOMAIN docs' /\ docs'[T!DocOf(docs', x)] = x
      /\ DOMAIN docs = 1..Len(docs) /\ DOMAIN docs' = 1..Len(docs')
  BY <1>1, <1>3, DocsMade
<1>5. ASSUME NEW r \in RowId, row[r] # None
      PROVE  /\ row'[r] \in RowRecord
             /\ row'[r].document \in DOMAIN docs' /\ docs'[row'[r].document] = truth[r]
  <2> DEFINE x == row[r]
             y == T!Fill(docs', x)
  <2>1. x \in RowRecord /\ T!Filled(docs')[r] = y
    BY <1>2, <1>5 DEF T!Filled
  <2>2. y # None => y.document # 0
    BY <1>1, <2>1 DEF T!AllFilled
  <2>3. T!TargetOf(x) = truth[r] /\ x.document <= Len(docs)
    BY <1>2, <1>5 DEF TargetsOf
  <2>4. CASE x.document = 0 /\ x.target # None
    <3>1. x.target \in T!Targets
      BY <1>5, <2>4 DEF T!Targets, T!Rows
    <3> DEFINE d == T!DocOf(docs', x.target)
    <3>2. d \in DOMAIN docs' /\ docs'[d] = x.target /\ d \in Nat
      BY <1>4, <3>1
    <3>3. y = [x EXCEPT !.document = d]
      BY <2>4 DEF T!Fill
    <3> HIDE DEF d, x
    <3>4. y \in RowRecord /\ y.document = d
      BY <2>1, <3>2, <3>3 DEF RowRecord
    <3> HIDE DEF y
    <3>5. y # None
      BY <3>4, NoneAssumption DEF RowRecord, T!Type
    <3>6. row'[r] = T!Drop(y)
      BY <1>1, <2>1, <3>5 DEF T!Dropped
    <3>7. row'[r] = [y EXCEPT !.target = None]
      BY <3>6 DEF T!Drop
    <3>8. row'[r] \in RowRecord /\ row'[r].document = d
      BY <3>4, <3>7 DEF RowRecord
    <3> QED BY <2>3, <2>4, <3>2, <3>8 DEF T!TargetOf
  <2>5. CASE ~ (x.document = 0 /\ x.target # None)
    <3>1. y = x
      BY <2>5 DEF T!Fill
    <3> HIDE DEF x, y
    <3>2. x # None
      BY <1>5 DEF x
    <3>3. x.document \in DOMAIN docs
      BY <1>4, <2>1, <2>2, <2>3, <3>1, <3>2 DEF RowRecord
    <3>4. row'[r] = T!Drop(x)
      BY <1>1, <2>1, <3>1, <3>2 DEF T!Dropped
    <3>5. row'[r] = [x EXCEPT !.target = None]
      BY <3>4 DEF T!Drop
    <3>6. row'[r] \in RowRecord /\ row'[r].document = x.document
      BY <2>1, <3>5 DEF RowRecord
    <3>7. x.document # 0
      BY <1>4, <3>3
    <3> QED BY <1>4, <2>3, <3>3, <3>6, <3>7 DEF T!TargetOf
  <2> QED BY <2>4, <2>5
<1>6. ASSUME NEW r \in RowId, row[r] = None PROVE row'[r] = None
  BY <1>1, <1>6 DEF T!Dropped, T!Filled
<1>7. DOMAIN row' = RowId /\ row' = [r \in RowId |-> row'[r]]
  BY <1>1 DEF T!Dropped
<1>8. None \notin RowRecord
  BY NoneAssumption DEF RowRecord, T!Type
<1>9. \A r \in RowId : row'[r] \in {None} \cup RowRecord
  BY <1>5, <1>6
<1> QED BY <1>1, <1>3, <1>5, <1>6, <1>7, <1>8, <1>9

\* The events after a conversion of comments.
LEMMA ConvertEvents ==
  ASSUME TargetsTyped, TargetsOf, T!migrate_comment_targets_to_document_id
  PROVE  /\ history' \subseteq Event
         /\ \A e \in history' : e.document \in DOMAIN docs'
         /\ \A e \in history' : e.was # None =>
              docs'[e.document] = e.was \/ (row'[e.of] # None /\ docs'[e.document] = truth[e.of])
<1> DEFINE t == row'
<1>1. T!Convert("comments") /\ docs' = T!WithDocs(docs, T!Targets) /\ T!Targets \in SUBSET Object
  BY ConvertRows DEF T!migrate_comment_targets_to_document_id
<1>2. /\ history \subseteq Event /\ docs \in Seq(Object)
      /\ \A e \in history : e.document <= Len(docs)
  BY DEF TargetsTyped
<1>3. /\ docs' \in Seq(Object) /\ Len(docs') \in Nat /\ Len(docs) \in Nat
      /\ \A d \in DOMAIN docs : d \in DOMAIN docs' /\ docs'[d] = docs[d]
      /\ DOMAIN docs = 1..Len(docs) /\ DOMAIN docs' = 1..Len(docs')
  BY <1>1, DocsMade
<1>4. /\ \A r \in RowId : row[r] # None => t[r] # None
      /\ \A r \in RowId : t[r] # None => t[r].document \in DOMAIN docs' /\ docs'[t[r].document] = truth[r]
  BY <1>1, ConvertRows
<1>5. ASSUME NEW c \in history'
      PROVE  /\ c \in Event /\ c.document \in DOMAIN docs'
             /\ c.was # None => docs'[c.document] = c.was \/ (t[c.of] # None /\ docs'[c.document] = truth[c.of])
  <2>1. PICK e \in history : c = T!Drop(T!FromComment(t, T!Fill(docs', e)))
                             /\ T!FromComment(t, T!Fill(docs', e)).document # 0
    BY DEF T!migrate_comment_targets_to_document_id, T!FilledEvents
  <2>2. e \in Event /\ e.document <= Len(docs)
        /\ (e.was # None => T!TargetOf(e) = e.was \/ (row[e.of] # None /\ T!TargetOf(e) = truth[e.of]))
    BY <1>2 DEF TargetsOf
  <2> DEFINE f == T!Fill(docs', e)
             g == T!FromComment(t, f)
  <2>3. /\ f \in Event /\ f.of = e.of /\ f.was = e.was
        /\ f.document # 0 => /\ f.document \in DOMAIN docs'
                             /\ e.was # None => \/ docs'[f.document] = e.was
                                                \/ t[e.of] # None /\ docs'[f.document] = truth[e.of]
    <3>1. CASE e.document = 0 /\ e.target # None
      <4> DEFINE d == T!DocOf(docs', e.target)
      <4>1. f = [e EXCEPT !.document = d]
        BY <3>1 DEF T!Fill
      <4>2. d # 0 => d \in DOMAIN docs' /\ docs'[d] = e.target
        BY DocOfFound
      <4>3. d \in Nat
        BY <1>3, <4>2
      <4>4. T!TargetOf(e) = e.target
        BY <3>1 DEF T!TargetOf
      <4> HIDE DEF d, f
      <4>5. f \in Event /\ f.of = e.of /\ f.was = e.was /\ f.document = d
        BY <2>2, <4>1, <4>3 DEF Event
      <4>6. e.of \in RowId
        BY <2>2 DEF Event
      <4> QED BY <1>4, <2>2, <4>2, <4>4, <4>5, <4>6
    <3>2. CASE ~ (e.document = 0 /\ e.target # None)
      <4>1. f = e
        BY <3>2 DEF T!Fill
      <4> HIDE DEF f
      <4>2. e.of \in RowId /\ e.document \in Nat
        BY <2>2 DEF Event
      <4>3. e.document # 0 => e.document \in DOMAIN docs' /\ docs'[e.document] = T!TargetOf(e)
        BY <1>3, <2>2, <4>2 DEF T!TargetOf
      <4> QED BY <1>4, <2>2, <4>1, <4>2, <4>3
    <3> QED BY <3>1, <3>2
  <2> HIDE DEF f
  <2>4. /\ g \in Event /\ g.of = e.of /\ g.was = e.was
        /\ g.document # 0 => /\ g.document \in DOMAIN docs'
                             /\ e.was # None => \/ docs'[g.document] = e.was
                                                \/ t[e.of] # None /\ docs'[g.document] = truth[e.of]
    <3>1. CASE f.document = 0 /\ t[f.of] # None
      <4> DEFINE d == t[f.of].document
      <4>1. g = [f EXCEPT !.document = d]
        BY <3>1 DEF T!FromComment
      <4>2. f.of \in RowId
        BY <2>3 DEF Event
      <4>3. d \in DOMAIN docs' /\ docs'[d] = truth[e.of] /\ d \in Nat
        BY <1>3, <1>4, <2>3, <3>1, <4>2
      <4> HIDE DEF d, g
      <4>4. g \in Event /\ g.of = f.of /\ g.was = f.was /\ g.document = d
        BY <2>3, <4>1, <4>3 DEF Event
      <4> QED BY <2>3, <3>1, <4>3, <4>4
    <3>2. CASE ~ (f.document = 0 /\ t[f.of] # None)
      <4>1. g = f
        BY <3>2 DEF T!FromComment
      <4> QED BY <2>3, <4>1
    <3> QED BY <3>1, <3>2
  <2>5. c = [g EXCEPT !.target = None] /\ g.document # 0
    BY <2>1 DEF T!Drop, f
  <2> HIDE DEF g
  <2>6. c \in Event /\ c.of = e.of /\ c.was = e.was /\ c.document = g.document
    BY <2>4, <2>5 DEF Event
  <2> QED BY <2>4, <2>5, <2>6
<1> QED BY <1>5

\* The operations of a step leave what is typed of them.
DoneTyped == done = SubSeq(T!Pipeline, 1, Len(done)) /\ Len(done) \in 0..Len(T!Pipeline)

LEMMA DoneKept ==
  ASSUME TargetsTyped, kind' = kind
  PROVE  /\ \A op : T!Forward(op) => DoneTyped' /\ T!Applied' = T!Applied \cup {op}
         /\ \A op : T!Backward(op) => DoneTyped' /\ T!Applied = T!Applied' \cup {op}
         /\ done' = done => DoneTyped' /\ T!Applied' = T!Applied
<1>1. kind \in T!Kinds /\ done = SubSeq(T!Pipeline, 1, Len(done)) /\ Len(done) \in 0..Len(T!Pipeline)
  BY DEF TargetsTyped
<1>2. ASSUME NEW op, T!Forward(op) PROVE DoneTyped' /\ T!Applied' = T!Applied \cup {op}
  BY <1>1, <1>2, TargetOperations DEF DoneTyped
<1>3. ASSUME NEW op, T!Backward(op) PROVE DoneTyped' /\ T!Applied = T!Applied' \cup {op}
  BY <1>1, <1>3, TargetOperations DEF DoneTyped
<1>4. done' = done => DoneTyped' /\ T!Applied' = T!Applied
  BY <1>1 DEF DoneTyped, T!Pipeline, T!Applied
<1> QED BY <1>2, <1>3, <1>4

\* A step that only makes documents keeps the targets, ...
LEMMA DocsKeepTargets ==
  ASSUME TargetsTyped, TargetsOf, NEW S \in SUBSET Object, docs' = T!WithDocs(docs, S),
         kind' = kind, row' = row, history' = history, truth' = truth, DoneTyped'
  PROVE  TargetsTyped' /\ TargetsOf' /\ Len(docs) <= Len(docs')
<1>1. /\ docs' \in Seq(Object) /\ Len(docs') \in Nat /\ Len(docs') <= Cardinality(Object)
      /\ Len(docs) \in Nat /\ Len(docs) <= Len(docs')
      /\ \A d, e \in DOMAIN docs' : docs'[d] = docs'[e] => d = e
      /\ \A d \in DOMAIN docs : d \in DOMAIN docs' /\ docs'[d] = docs[d]
      /\ DOMAIN docs = 1..Len(docs)
  BY DocsMade
<1>2. /\ row \in [RowId -> {None} \cup RowRecord] /\ truth = [r \in RowId |-> truth[r]]
      /\ \A r \in RowId : row[r] # None => row[r].document <= Len(docs)
      /\ kind \in T!Kinds /\ history \subseteq Event /\ (kind # "comments" => history = {})
      /\ \A e \in history : e.document <= Len(docs)
  BY DEF TargetsTyped
<1>3. /\ \A r \in RowId : row[r] # None => row[r].document <= Len(docs') /\ row[r].document \in Nat
      /\ \A e \in history : e.document <= Len(docs') /\ e.document \in Nat
  BY <1>1, <1>2 DEF RowRecord, Event
<1>4. TargetsTyped'
  BY <1>1, <1>2, <1>3, Zenon DEF TargetsTyped, DoneTyped
<1>5. /\ \A r \in RowId : row[r] # None => T!TargetOf(row[r])' = T!TargetOf(row[r])
      /\ \A e \in history : T!TargetOf(e)' = T!TargetOf(e)
  BY <1>1, <1>2, <1>3 DEF T!TargetOf
<1>6. TargetsOf'
  BY <1>5 DEF TargetsOf, T!TargetOf
<1> QED BY <1>1, <1>4, <1>6

\* ... and so does one that makes none.
LEMMA SameTargets ==
  ASSUME TargetsTyped, TargetsOf, docs' = docs,
         kind' = kind, row' = row, history' = history, truth' = truth, DoneTyped'
  PROVE  TargetsTyped' /\ TargetsOf'
BY DEF TargetsTyped, TargetsOf, DoneTyped, T!TargetOf

\* Counters that are left alone.
LEMMA SameCounters ==
  ASSUME CountersTyped, kind' = kind, column' = column, meta' = meta,
         Len(docs) \in Nat, Len(docs') \in Nat, Len(docs) <= Len(docs')
  PROVE  CountersTyped'
<1>1. T!Fields' = T!Fields /\ T!Doc \subseteq Nat
  BY FiniteAssumption, FS_CardinalityType, SameCardinality DEF T!Fields, T!Doc
<1>2. \A d \in T!Doc : meta[d] # None => d <= Len(docs')
  BY <1>1 DEF CountersTyped
<1> QED BY <1>1, <1>2 DEF CountersTyped

\* The reverse of a conversion: each row and event names the object of its document.
LEMMA BackRows ==
  ASSUME TargetsTyped, TargetsOf, NEW k, T!ConvertBack(k)
  PROVE  /\ row' \in [RowId -> {None} \cup RowRecord]
         /\ \A r \in RowId : row[r] # None => row'[r] # None
         /\ \A r \in RowId : row'[r] # None => row'[r].document = 0 /\ row'[r].target = truth[r]
<1>1. row' = T!Restored
  BY DEF T!ConvertBack
<1>2. /\ row \in [RowId -> {None} \cup RowRecord] /\ docs \in Seq(Object) /\ Len(docs) \in Nat
      /\ \A r \in RowId : row[r] # None => row[r].document <= Len(docs)
  BY DEF TargetsTyped
<1>3. ASSUME NEW r \in RowId, row[r] # None
      PROVE  row'[r] \in RowRecord /\ row'[r].document = 0 /\ row'[r].target = truth[r]
  <2> DEFINE x == row[r]
             target == IF x.document = 0 THEN x.target ELSE docs[x.document]
  <2>1. x \in RowRecord /\ target = truth[r] /\ x.document <= Len(docs)
    BY <1>2, <1>3 DEF TargetsOf, T!TargetOf
  <2> DEFINE y == [[x EXCEPT !.target = target] EXCEPT !.document = 0]
  <2>2. row'[r] = y
    BY <1>1, <1>3 DEF T!Restored, T!Restore
  <2>3. target \in Object \cup {None}
    BY <1>2, <2>1 DEF RowRecord
  <2> HIDE DEF x, target
  <2>4. y \in RowRecord /\ y.document = 0 /\ y.target = target
    BY <2>1, <2>3 DEF RowRecord
  <2> HIDE DEF y
  <2> QED BY <2>1, <2>2, <2>4
<1>4. None \notin RowRecord
  BY NoneAssumption DEF RowRecord, T!Type
<1>5. DOMAIN row' = RowId /\ row' = [r \in RowId |-> row'[r]]
  BY <1>1 DEF T!Restored
<1>6. \A r \in RowId : row[r] = None => row'[r] = None
  BY <1>1 DEF T!Restored
<1>7. \A r \in RowId : row'[r] \in {None} \cup RowRecord
  BY <1>3, <1>6
<1> QED BY <1>3, <1>4, <1>5, <1>6, <1>7

LEMMA BackEvents ==
  ASSUME TargetsTyped, TargetsOf, T!reverse_migrate_comment_targets_to_generic_fk
  PROVE  /\ history' \subseteq Event
         /\ \A e \in history' : e.document = 0
         /\ \A e \in history' : e.was # None =>
              e.target = e.was \/ (row'[e.of] # None /\ e.target = truth[e.of])
<1>1. T!ConvertBack("comments") /\ history' = {T!Restore(e) : e \in history}
  BY DEF T!reverse_migrate_comment_targets_to_generic_fk
<1>2. \A r \in RowId : row[r] # None => row'[r] # None
  BY <1>1, BackRows
<1>3. docs \in Seq(Object) /\ Len(docs) \in Nat /\ history \subseteq Event /\ \A e \in history : e.document <= Len(docs)
  BY DEF TargetsTyped
<1>4. ASSUME NEW c \in history'
      PROVE  /\ c \in Event /\ c.document = 0
             /\ c.was # None => c.target = c.was \/ (row'[c.of] # None /\ c.target = truth[c.of])
  <2>1. PICK e \in history : c = T!Restore(e)
    BY <1>1
  <2> DEFINE target == IF e.document = 0 THEN e.target ELSE docs[e.document]
  <2>2. /\ e \in Event /\ e.document <= Len(docs)
        /\ e.was # None => target = e.was \/ (row[e.of] # None /\ target = truth[e.of])
    BY <1>3 DEF TargetsOf, T!TargetOf
  <2>3. c = [[e EXCEPT !.target = target] EXCEPT !.document = 0]
    BY <2>1 DEF T!Restore
  <2>4. target \in Object \cup {None} /\ e.of \in RowId
    BY <1>3, <2>2 DEF Event
  <2> HIDE DEF target
  <2>5. c \in Event /\ c.document = 0 /\ c.target = target /\ c.was = e.was /\ c.of = e.of
    BY <2>2, <2>3, <2>4 DEF Event
  <2> QED BY <1>2, <2>2, <2>4, <2>5
<1> QED BY <1>4

\* A conversion and its reverse.
LEMMA ConvertKeeps ==
  ASSUME TargetsInv, NEW k, T!Convert(k), UNCHANGED history, k # "comments"
  PROVE  TargetsInv' /\ T!Applied' = T!Applied \cup {"convert"}
<1>1. TargetsTyped /\ TargetsOf /\ CountersTyped /\ kind = k /\ kind' = kind /\ truth' = truth /\ column' = column
      /\ meta' = meta /\ history' = {} /\ T!Forward("convert")
  BY DEF TargetsInv, TargetsTyped, T!Convert
<1>2. DoneTyped' /\ T!Applied' = T!Applied \cup {"convert"}
  BY <1>1, DoneKept
<1>3. /\ docs' = T!WithDocs(docs, T!Targets) /\ T!Targets \in SUBSET Object
      /\ row' \in [RowId -> {None} \cup RowRecord]
      /\ \A r \in RowId : row'[r] # None =>
           row'[r].document \in DOMAIN docs' /\ docs'[row'[r].document] = truth[r]
  BY <1>1, ConvertRows
<1>4. /\ docs' \in Seq(Object) /\ Len(docs') \in Nat /\ Len(docs') <= Cardinality(Object)
      /\ Len(docs) \in Nat /\ Len(docs) <= Len(docs')
      /\ \A d, e \in DOMAIN docs' : docs'[d] = docs'[e] => d = e
      /\ DOMAIN docs' = 1..Len(docs')
  BY <1>1, <1>3, DocsMade
<1>5. TargetsTyped'
  BY <1>1, <1>2, <1>3, <1>4 DEF TargetsTyped, DoneTyped
<1>6. TargetsOf'
  BY <1>1, <1>3, <1>4 DEF TargetsOf, T!TargetOf
<1>7. CountersTyped'
  BY <1>1, <1>4, SameCounters
<1> QED BY <1>2, <1>5, <1>6, <1>7 DEF TargetsInv

LEMMA ConvertCommentsKeeps ==
  ASSUME TargetsInv, T!migrate_comment_targets_to_document_id
  PROVE  TargetsInv' /\ T!Applied' = T!Applied \cup {"convert"}
<1>1. TargetsTyped /\ TargetsOf /\ CountersTyped /\ kind = "comments" /\ kind' = kind /\ truth' = truth
      /\ column' = column /\ meta' = meta /\ T!Forward("convert") /\ T!Convert("comments")
  BY DEF TargetsInv, T!migrate_comment_targets_to_document_id, T!Convert
<1>2. DoneTyped' /\ T!Applied' = T!Applied \cup {"convert"}
  BY <1>1, DoneKept
<1>3. /\ docs' = T!WithDocs(docs, T!Targets) /\ T!Targets \in SUBSET Object
      /\ row' \in [RowId -> {None} \cup RowRecord]
      /\ \A r \in RowId : row'[r] # None =>
           row'[r].document \in DOMAIN docs' /\ docs'[row'[r].document] = truth[r]
  BY <1>1, ConvertRows
<1>4. /\ docs' \in Seq(Object) /\ Len(docs') \in Nat /\ Len(docs') <= Cardinality(Object)
      /\ Len(docs) \in Nat /\ Len(docs) <= Len(docs')
      /\ \A d, e \in DOMAIN docs' : docs'[d] = docs'[e] => d = e
      /\ DOMAIN docs' = 1..Len(docs')
  BY <1>1, <1>3, DocsMade
<1>5. /\ history' \subseteq Event
      /\ \A e \in history' : e.document \in DOMAIN docs'
      /\ \A e \in history' : e.was # None =>
           docs'[e.document] = e.was \/ (row'[e.of] # None /\ docs'[e.document] = truth[e.of])
  BY <1>1, ConvertEvents
<1>6. TargetsTyped'
  BY <1>1, <1>2, <1>3, <1>4, <1>5 DEF TargetsTyped, DoneTyped
<1>7. TargetsOf'
  BY <1>1, <1>3, <1>4, <1>5 DEF TargetsOf, T!TargetOf
<1>8. CountersTyped'
  BY <1>1, <1>4, SameCounters
<1> QED BY <1>2, <1>6, <1>7, <1>8 DEF TargetsInv

LEMMA ConvertBackKeeps ==
  ASSUME TargetsInv, NEW k, T!ConvertBack(k),
         (UNCHANGED history /\ k # "comments") \/ T!reverse_migrate_comment_targets_to_generic_fk
  PROVE  TargetsInv' /\ T!Applied = T!Applied' \cup {"convert"}
<1>1. TargetsTyped /\ TargetsOf /\ CountersTyped /\ kind' = kind /\ truth' = truth /\ docs' = docs
      /\ column' = column /\ meta' = meta /\ T!Backward("convert")
      /\ docs \in Seq(Object) /\ Len(docs) \in Nat
  BY DEF TargetsInv, TargetsTyped, T!ConvertBack
<1>2. DoneTyped' /\ T!Applied = T!Applied' \cup {"convert"}
  BY <1>1, DoneKept
<1>3. /\ row' \in [RowId -> {None} \cup RowRecord]
      /\ \A r \in RowId : row'[r] # None => row'[r].document = 0 /\ row'[r].target = truth[r]
  BY <1>1, BackRows
<1>4. /\ history' \subseteq Event /\ (kind # "comments" => history' = {})
      /\ \A e \in history' : e.document = 0
      /\ \A e \in history' : e.was # None =>
           e.target = e.was \/ (row'[e.of] # None /\ e.target = truth[e.of])
  <2>1. CASE UNCHANGED history /\ k # "comments"
    <3>1. history' = {}
      BY <2>1 DEF TargetsInv, TargetsTyped, T!ConvertBack
    <3> QED BY <3>1
  <2>2. CASE T!reverse_migrate_comment_targets_to_generic_fk
    <3>1. kind = "comments"
      BY <2>2 DEF T!reverse_migrate_comment_targets_to_generic_fk, T!ConvertBack
    <3> QED BY <1>1, <2>2, <3>1, BackEvents
  <2> QED BY <2>1, <2>2
<1>5. TargetsTyped'
  BY <1>1, <1>2, <1>3, <1>4 DEF TargetsTyped, DoneTyped
<1>6. TargetsOf'
  BY <1>1, <1>3, <1>4 DEF TargetsOf, T!TargetOf
<1>7. CountersTyped'
  BY <1>1, SameCounters
<1> QED BY <1>2, <1>5, <1>6, <1>7 DEF TargetsInv

-----------------------------------------------------------------------------
(* The counters. *)

\* What a move between columns and metadata may not do.
Carried ==
  ("legacy" \in T!Applied) # ("legacy" \in T!Applied') =>
    \A o \in Object, f \in T!Fields : T!Shown(o, f) # None => T!Shown(o, f)' = T!Shown(o, f)

\* A metadata row as get_or_create gives it.
LEMMA GotTyped ==
  ASSUME CountersTyped, NEW d \in T!Doc
  PROVE  T!Got(d) \in [T!Fields -> Nat]
<1>1. T!Defaults \in [T!Fields -> Nat]
  BY DEF T!Defaults, T!Default
<1>2. meta[d] \in {None} \cup [T!Fields -> Nat]
  BY DEF CountersTyped
<1> QED BY <1>1, <1>2 DEF T!Got

\* What is kept of the columns of an object.
KeptTyped(kept) ==
  \A o \in Object : \A f \in T!Fields :
    /\ f \in DOMAIN kept[o] => kept[o][f] \in Nat
    /\ column[o][f] # None => f \in DOMAIN kept[o] /\ kept[o][f] = column[o][f]

LEMMA KeptHolds ==
  ASSUME CountersTyped
  PROVE  KeptTyped(T!KeptNotNull) /\ KeptTyped(T!KeptOrZero)
<1>1. \A o \in Object : column[o] \in [T!Fields -> Nat \cup {None}]
  BY DEF CountersTyped
<1> QED BY <1>1 DEF KeptTyped, T!KeptNotNull, T!KeptOrZero, T!NotNull, T!OrZero

LEMMA MoveKeeps ==
  ASSUME TargetsInv, NEW k, NEW S \in SUBSET Object, NEW kept, T!Move(k, S, kept), UNCHANGED history,
         KeptTyped(kept), \A o \in Object : (\E f \in T!Fields : column[o][f] # None) => o \in S
  PROVE  TargetsInv' /\ Carried
<1>1. /\ TargetsTyped /\ TargetsOf /\ CountersTyped /\ T!Forward("legacy")
      /\ kind' = kind /\ row' = row /\ truth' = truth /\ history' = history
      /\ docs' = T!WithDocs(docs, S)
      /\ meta' = [d \in T!Doc |-> IF d \in DOMAIN docs' /\ docs'[d] \in S
                                  THEN T!Updated(d, kept[docs'[d]]) ELSE meta[d]]
      /\ column' = [o \in Object |-> T!Blank]
  BY DEF TargetsInv, T!Move
<1>2. DoneTyped' /\ T!Applied' = T!Applied \cup {"legacy"}
  BY <1>1, DoneKept
<1>3. TargetsTyped' /\ TargetsOf'
  BY <1>1, <1>2, DocsKeepTargets
<1>4. /\ docs' \in Seq(Object) /\ Len(docs') \in Nat /\ Len(docs') <= Cardinality(Object)
      /\ Len(docs) \in Nat /\ Len(docs) <= Len(docs') /\ DOMAIN docs' = 1..Len(docs')
      /\ \A d, e \in DOMAIN docs' : docs'[d] = docs'[e] => d = e
      /\ \A x \in S : T!DocOf(docs', x) \in DOMAIN docs' /\ docs'[T!DocOf(docs', x)] = x
  BY <1>1, DocsMade
<1>5. T!Fields' = T!Fields /\ T!Doc = 1..Cardinality(Object) /\ Cardinality(Object) \in Nat
  BY <1>1, FiniteAssumption, FS_CardinalityType, SameCardinality DEF T!Fields, T!Doc
<1>6. ASSUME NEW d \in T!Doc, d \in DOMAIN docs', docs'[d] \in S
      PROVE  /\ meta'[d] \in [T!Fields -> Nat]
             /\ \A f \in T!Fields : column[docs'[d]][f] # None => meta'[d][f] = column[docs'[d]][f]
  <2> DEFINE o == docs'[d]
             c == kept[o]
  <2>1. meta'[d] = [f \in T!Fields |-> IF f \in DOMAIN c THEN c[f] ELSE T!Got(d)[f]]
    BY <1>1, <1>6 DEF T!Updated
  <2>2. T!Got(d) \in [T!Fields -> Nat]
    BY <1>1, GotTyped
  <2>3. o \in Object
    BY <1>6
  <2>4. \A f \in T!Fields : /\ f \in DOMAIN c => c[f] \in Nat
                            /\ column[o][f] # None => f \in DOMAIN c /\ c[f] = column[o][f]
    BY <2>3 DEF KeptTyped
  <2> HIDE DEF c, o
  <2>5. meta'[d] \in [T!Fields -> Nat] /\ \A f \in T!Fields : column[o][f] # None => meta'[d][f] = column[o][f]
    BY <2>1, <2>2, <2>4
  <2> QED BY <2>5 DEF o
<1>7. CountersTyped'
  <2>1. column' \in [Object -> [T!Fields' -> Nat \cup {None}]] /\ \A o \in Object : \A f, g \in T!Fields' : column'[o][f] = column'[o][g]
    BY <1>1, <1>5 DEF T!Blank
  <2>2. \A d \in T!Doc : meta'[d] \in {None} \cup [T!Fields -> Nat] /\ (meta'[d] # None => d <= Len(docs'))
    <3> SUFFICES ASSUME NEW d \in T!Doc
                 PROVE  meta'[d] \in {None} \cup [T!Fields -> Nat] /\ (meta'[d] # None => d <= Len(docs'))
      OBVIOUS
    <3>1. CASE d \in DOMAIN docs' /\ docs'[d] \in S
      BY <1>4, <1>6, <3>1
    <3>2. CASE ~ (d \in DOMAIN docs' /\ docs'[d] \in S)
      <4>1. meta'[d] = meta[d]
        BY <1>1, <3>2
      <4>2. d \in Nat
        BY <1>5
      <4> QED BY <1>1, <1>4, <4>1, <4>2 DEF CountersTyped
    <3> QED BY <3>1, <3>2
  <2>3. meta' \in [T!Doc -> {None} \cup [T!Fields' -> Nat]]
    BY <1>1, <1>5, <2>2
  <2> QED BY <1>1, <1>5, <2>1, <2>2, <2>3 DEF CountersTyped
<1>8. Carried
  <2> SUFFICES ASSUME "legacy" \notin T!Applied, NEW o \in Object, NEW f \in T!Fields, T!Shown(o, f) # None
               PROVE  T!Shown(o, f)' = T!Shown(o, f)
    BY <1>2 DEF Carried
  <2>1. T!Shown(o, f) = column[o][f]
    BY DEF T!Shown
  <2>2. o \in S
    BY <2>1
  <2> DEFINE d == T!DocOf(docs', o)
  <2>3. d \in DOMAIN docs' /\ docs'[d] = o /\ d \in T!Doc /\ d # 0
    BY <1>4, <1>5, <2>2
  <2>4. meta'[d] \in [T!Fields -> Nat] /\ meta'[d][f] = column[o][f]
    BY <1>6, <2>1, <2>2, <2>3
  <2>5. None \notin [T!Fields -> Nat]
    BY NoneAssumption DEF T!Fields
  <2>6. T!DocOf(docs, o)' = d
    BY DEF T!DocOf
  <2>7. "legacy" \in T!Applied'
    BY <1>2
  <2> HIDE DEF d
  <2>8. T!Shown(o, f)' = meta'[d][f]
    BY <2>3, <2>4, <2>5, <2>6, <2>7 DEF T!Shown
  <2> QED BY <2>1, <2>4, <2>8
<1> QED BY <1>3, <1>7, <1>8 DEF TargetsInv

LEMMA MoveBackKeeps ==
  ASSUME TargetsInv, NEW k, T!MoveBack(k), UNCHANGED history
  PROVE  TargetsInv' /\ Carried
<1>1. /\ TargetsTyped /\ TargetsOf /\ CountersTyped /\ T!Backward("legacy")
      /\ kind' = kind /\ row' = row /\ truth' = truth /\ history' = history /\ docs' = docs /\ meta' = meta
      /\ column' = [o \in Object |->
                      IF T!DocOf(docs, o) = 0 \/ meta[T!DocOf(docs, o)] = None
                      THEN T!Defaults ELSE meta[T!DocOf(docs, o)]]
  BY DEF TargetsInv, T!MoveBack
<1>2. DoneTyped' /\ T!Applied = T!Applied' \cup {"legacy"}
  BY <1>1, DoneKept
<1>3. TargetsTyped' /\ TargetsOf'
  BY <1>1, <1>2, SameTargets
<1>4. T!Fields' = T!Fields /\ T!Doc = 1..Cardinality(Object) /\ Cardinality(Object) \in Nat
  BY <1>1, FiniteAssumption, FS_CardinalityType, SameCardinality DEF T!Fields, T!Doc
<1>5. docs \in Seq(Object) /\ Len(docs) \in Nat /\ Len(docs) <= Cardinality(Object) /\ DOMAIN docs = 1..Len(docs)
  BY <1>1 DEF TargetsTyped
<1>6. ASSUME NEW o \in Object PROVE column'[o] \in [T!Fields -> Nat]
  <2> DEFINE d == T!DocOf(docs, o)
  <2>1. T!Defaults \in [T!Fields -> Nat]
    BY DEF T!Defaults, T!Default
  <2>2. d # 0 => d \in T!Doc
    BY <1>4, <1>5, DocOfFound
  <2>3. d # 0 => meta[d] \in {None} \cup [T!Fields -> Nat]
    BY <1>1, <2>2 DEF CountersTyped
  <2>4. column'[o] = IF d = 0 \/ meta[d] = None THEN T!Defaults ELSE meta[d]
    BY <1>1
  <2> HIDE DEF d
  <2> QED BY <2>1, <2>3, <2>4
<1>7. CountersTyped'
  <2>1. \A o \in Object : \A f \in T!Fields : column'[o][f] # None
    BY <1>6, NoneAssumption
  <2>2. column' \in [Object -> [T!Fields -> Nat \cup {None}]]
    BY <1>1, <1>6
  <2> QED BY <1>1, <1>4, <2>1, <2>2 DEF CountersTyped
<1>8. Carried
  <2> SUFFICES ASSUME "legacy" \notin T!Applied', NEW o \in Object, NEW f \in T!Fields
               PROVE  T!Shown(o, f)' = T!Shown(o, f)
    BY <1>2 DEF Carried
  <2>1. T!Shown(o, f)' = column'[o][f]
    BY DEF T!Shown
  <2>2. "legacy" \in T!Applied
    BY <1>2
  <2> DEFINE d == T!DocOf(docs, o)
  <2>3. column'[o] = IF d = 0 \/ meta[d] = None THEN T!Defaults ELSE meta[d]
    BY <1>1
  <2>4. T!Defaults[f] = T!Default(f)
    BY DEF T!Defaults
  <2>5. T!Shown(o, f) = IF d = 0 \/ meta[d] = None THEN T!Default(f) ELSE meta[d][f]
    BY <2>2 DEF T!Shown
  <2> HIDE DEF d
  <2> QED BY <2>1, <2>3, <2>4, <2>5
<1> QED BY <1>3, <1>7, <1>8 DEF TargetsInv

\* Seeding and its reverse change only the counters of documents that rows point at.
LEMMA SeedKeeps ==
  ASSUME TargetsInv, NEW k \in {"reactions", "ratings", "reports"}, T!Seed(k) \/ T!SeedBack(k), UNCHANGED history
  PROVE  TargetsInv' /\ (("legacy" \in T!Applied) <=> ("legacy" \in T!Applied'))
<1>1. /\ TargetsTyped /\ TargetsOf /\ CountersTyped /\ kind = k /\ (T!Forward("seed") \/ T!Backward("seed"))
      /\ kind' = kind /\ row' = row /\ truth' = truth /\ history' = history /\ docs' = docs /\ column' = column
      /\ \/ meta' = [d \in T!Doc |-> IF T!On(d) = {} THEN meta[d] ELSE [T!Got(d) EXCEPT !["count"] = Cardinality(T!Counted(d))]]
         \/ meta' = [d \in T!Doc |-> IF T!On(d) = {} THEN meta[d] ELSE None]
  BY SameCardinality DEF TargetsInv, T!Seed, T!SeedBack
<1>2. DoneTyped' /\ (("legacy" \in T!Applied) <=> ("legacy" \in T!Applied'))
  BY <1>1, DoneKept
<1>3. TargetsTyped' /\ TargetsOf'
  BY <1>1, <1>2, SameTargets
<1>4. T!Fields' = T!Fields /\ "count" \in T!Fields
  BY <1>1 DEF T!Fields
<1>5. ASSUME NEW d \in T!Doc
      PROVE  meta'[d] \in {None} \cup [T!Fields -> Nat] /\ (meta'[d] # None => d <= Len(docs))
  <2>1. meta[d] \in {None} \cup [T!Fields -> Nat] /\ (meta[d] # None => d <= Len(docs))
    BY <1>1 DEF CountersTyped
  <2>2. T!On(d) # {} => d <= Len(docs)
    BY <1>1 DEF T!On, T!Rows, TargetsTyped
  <2>3. Cardinality(T!Counted(d)) \in Nat
    <3>1. T!Counted(d) \subseteq RowId
      BY DEF T!Counted, T!On, T!Rows
    <3> QED BY <3>1, FiniteAssumption, FS_Subset, FS_CardinalityType
  <2>4. [T!Got(d) EXCEPT !["count"] = Cardinality(T!Counted(d))] \in [T!Fields -> Nat]
    BY <1>1, <1>4, <2>3, GotTyped
  <2> QED BY <1>1, <2>1, <2>2, <2>4
<1>6. meta' \in [T!Doc -> {None} \cup [T!Fields -> Nat]]
  BY <1>1, <1>5
<1>7. CountersTyped'
  BY <1>1, <1>4, <1>5, <1>6 DEF CountersTyped
<1> QED BY <1>2, <1>3, <1>7 DEF TargetsInv

\* Report types come, and go with the reports of a type.
LEMMA TypesKeep ==
  ASSUME TargetsInv, T!seed_default_report_types \/ T!reverse_seed_default_report_types
  PROVE  TargetsInv' /\ (("legacy" \in T!Applied) <=> ("legacy" \in T!Applied'))
<1>1. /\ TargetsTyped /\ TargetsOf /\ CountersTyped /\ (T!Forward("types") \/ T!Backward("types")) /\ kind = "reports"
      /\ kind' = kind /\ docs' = docs /\ column' = column /\ meta' = meta /\ history' = {}
      /\ docs \in Seq(Object) /\ Len(docs) \in Nat
  BY DEF TargetsInv, TargetsTyped, T!seed_default_report_types, T!reverse_seed_default_report_types
<1>2. DoneTyped' /\ (("legacy" \in T!Applied) <=> ("legacy" \in T!Applied'))
  BY <1>1, DoneKept
<1>3. /\ row \in [RowId -> {None} \cup RowRecord] /\ truth = [r \in RowId |-> truth[r]]
      /\ \A r \in RowId : row[r] # None => row[r].document <= Len(docs)
  BY <1>1 DEF TargetsTyped
<1>4. /\ row' = [r \in RowId |-> row'[r]] /\ truth' = [r \in RowId |-> truth'[r]]
      /\ \A r \in RowId : row'[r] = None \/ (row'[r] = row[r] /\ truth'[r] = truth[r])
  BY <1>3 DEF T!seed_default_report_types, T!reverse_seed_default_report_types
<1>5. row' \in [RowId -> {None} \cup RowRecord]
  BY <1>3, <1>4
<1>6. TargetsTyped'
  BY <1>1, <1>2, <1>3, <1>4, <1>5 DEF TargetsTyped, DoneTyped
<1>7. TargetsOf'
  BY <1>1, <1>4 DEF TargetsOf, T!TargetOf
<1>8. CountersTyped'
  BY <1>1, SameCounters
<1> QED BY <1>2, <1>6, <1>7, <1>8 DEF TargetsInv

\* The upgraded application makes a row, ...
LEMMA AddRowKeeps ==
  ASSUME TargetsInv, NEW r \in RowId, NEW o \in Object, NEW t \in T!Type \cup {None}, T!AddRow(r, o, t)
  PROVE  TargetsInv' /\ T!Applied' = T!Applied
<1> DEFINE d == T!DocOf(docs', o)
           new == [target |-> None, document |-> d, type |-> t]
<1>1. /\ TargetsTyped /\ TargetsOf /\ CountersTyped /\ kind' = kind /\ done' = done /\ history' = history
      /\ column' = column /\ meta' = meta /\ row[r] = None /\ docs' = T!WithDocs(docs, {o})
      /\ row' = [row EXCEPT ![r] = new] /\ truth' = [truth EXCEPT ![r] = o]
  BY DEF TargetsInv, T!AddRow
<1>2. DoneTyped' /\ T!Applied' = T!Applied
  BY <1>1, DoneKept
<1>3. /\ docs' \in Seq(Object) /\ Len(docs') \in Nat /\ Len(docs') <= Cardinality(Object)
      /\ Len(docs) \in Nat /\ Len(docs) <= Len(docs')
      /\ \A x, y \in DOMAIN docs' : docs'[x] = docs'[y] => x = y
      /\ \A x \in DOMAIN docs : x \in DOMAIN docs' /\ docs'[x] = docs[x]
      /\ DOMAIN docs = 1..Len(docs) /\ DOMAIN docs' = 1..Len(docs')
      /\ d \in DOMAIN docs' /\ docs'[d] = o
  <2>1. {o} \in SUBSET Object
    OBVIOUS
  <2> QED BY <1>1, <2>1, DocsMade
<1>4. /\ row \in [RowId -> {None} \cup RowRecord] /\ truth = [x \in RowId |-> truth[x]]
      /\ \A x \in RowId : row[x] # None => row[x].document <= Len(docs)
      /\ kind \in T!Kinds /\ history \subseteq Event /\ (kind # "comments" => history = {})
      /\ \A e \in history : e.document <= Len(docs)
  BY <1>1 DEF TargetsTyped
<1> HIDE DEF d
<1>5. new \in RowRecord /\ new.document = d /\ d # 0 /\ d <= Len(docs')
  BY <1>3 DEF RowRecord
<1> HIDE DEF new
<1>6. /\ row' \in [RowId -> {None} \cup RowRecord] /\ truth' = [x \in RowId |-> truth'[x]]
      /\ row'[r] = new /\ truth'[r] = o
      /\ \A x \in RowId \ {r} : row'[x] = row[x] /\ truth'[x] = truth[x]
  BY <1>1, <1>4, <1>5
<1>7. /\ \A x \in RowId : row[x] # None => row[x].document <= Len(docs') /\ row[x].document \in Nat
      /\ \A e \in history : e.document <= Len(docs') /\ e.document \in Nat /\ e.of \in RowId
  BY <1>3, <1>4 DEF RowRecord, Event
<1>8. \A x \in RowId : row'[x] # None => row'[x].document <= Len(docs')
  BY <1>5, <1>6, <1>7
<1>9. TargetsTyped'
  <2>1. \A e \in history : e.document <= Len(docs')
    BY <1>7
  <2> QED BY <1>1, <1>2, <1>3, <1>4, <1>6, <1>8, <2>1, Zenon DEF TargetsTyped, DoneTyped
<1>10. TargetsOf'
  <2>1. ASSUME NEW x \in RowId, row'[x] # None
        PROVE  (IF row'[x].document # 0 THEN docs'[row'[x].document] ELSE row'[x].target) = truth'[x]
    <3>1. CASE x = r
      BY <1>3, <1>5, <1>6, <3>1
    <3>2. CASE x # r
      <4>1. row[x] # None /\ row'[x] = row[x] /\ truth'[x] = truth[x]
        BY <1>6, <2>1, <3>2
      <4>2. (IF row[x].document # 0 THEN docs[row[x].document] ELSE row[x].target) = truth[x]
        BY <1>1, <4>1 DEF TargetsOf, T!TargetOf
      <4>3. row[x].document # 0 => row[x].document \in DOMAIN docs
        BY <1>3, <1>4, <1>7, <4>1
      <4> QED BY <1>3, <4>1, <4>2, <4>3
    <3> QED BY <3>1, <3>2
  <2>2. ASSUME NEW e \in history, e.was # None
        PROVE  \/ (IF e.document # 0 THEN docs'[e.document] ELSE e.target) = e.was
               \/ row'[e.of] # None /\ (IF e.document # 0 THEN docs'[e.document] ELSE e.target) = truth'[e.of]
    <3>1. \/ (IF e.document # 0 THEN docs[e.document] ELSE e.target) = e.was
          \/ row[e.of] # None /\ (IF e.document # 0 THEN docs[e.document] ELSE e.target) = truth[e.of]
      BY <1>1, <2>2 DEF TargetsOf, T!TargetOf
    <3>2. e.document # 0 => e.document \in DOMAIN docs
      BY <1>3, <1>4, <1>7
    <3>3. row[e.of] # None => row'[e.of] = row[e.of] /\ truth'[e.of] = truth[e.of]
      BY <1>1, <1>6, <1>7
    <3> QED BY <1>3, <3>1, <3>2, <3>3
  <2> QED BY <1>1, <2>1, <2>2 DEF TargetsOf, T!TargetOf
<1>11. CountersTyped'
  BY <1>1, <1>3, SameCounters
<1> QED BY <1>2, <1>9, <1>10, <1>11 DEF TargetsInv

\* ... or saves a counter or flag.
LEMMA WriteMetaKeeps ==
  ASSUME TargetsInv, NEW o \in Object, NEW f \in T!Fields, NEW v \in {0, 1}, T!WriteMeta(o, f, v)
  PROVE  TargetsInv' /\ T!Applied' = T!Applied
<1> DEFINE d == T!DocOf(docs', o)
           m == [T!Got(d) EXCEPT ![f] = v]
<1>1. /\ TargetsTyped /\ TargetsOf /\ CountersTyped /\ kind' = kind /\ done' = done /\ history' = history
      /\ row' = row /\ truth' = truth /\ column' = column /\ docs' = T!WithDocs(docs, {o})
      /\ meta' = [meta EXCEPT ![d] = m] /\ {o} \in SUBSET Object
  BY DEF TargetsInv, T!WriteMeta
<1>2. DoneTyped' /\ T!Applied' = T!Applied
  BY <1>1, DoneKept
<1>3. TargetsTyped' /\ TargetsOf'
  BY <1>1, <1>2, DocsKeepTargets
<1>4. /\ Len(docs') \in Nat /\ Len(docs') <= Cardinality(Object) /\ Len(docs) \in Nat /\ Len(docs) <= Len(docs')
      /\ DOMAIN docs' = 1..Len(docs') /\ d \in DOMAIN docs'
  BY <1>1, DocsMade
<1>5. T!Fields' = T!Fields /\ T!Doc = 1..Cardinality(Object) /\ Cardinality(Object) \in Nat
  BY <1>1, FiniteAssumption, FS_CardinalityType, SameCardinality DEF T!Fields, T!Doc
<1>6. d \in T!Doc /\ d <= Len(docs')
  BY <1>4, <1>5
<1> HIDE DEF d
<1>7. m \in [T!Fields -> Nat]
  BY <1>1, <1>6, GotTyped
<1> HIDE DEF m
<1>8. meta \in [T!Doc -> {None} \cup [T!Fields -> Nat]] /\ \A x \in T!Doc : meta[x] # None => x <= Len(docs)
  BY <1>1 DEF CountersTyped
<1>9. meta' \in [T!Doc -> {None} \cup [T!Fields -> Nat]] /\ \A x \in T!Doc : meta'[x] # None => x <= Len(docs')
  <2>1. \A x \in T!Doc : meta[x] # None => x <= Len(docs')
    BY <1>4, <1>5, <1>8
  <2> QED BY <1>1, <1>6, <1>7, <1>8, <2>1
<1>10. CountersTyped'
  BY <1>1, <1>5, <1>9 DEF CountersTyped
<1> QED BY <1>2, <1>3, <1>10 DEF TargetsInv

LEMMA TargetsStart ==
  ASSUME T!Init
  PROVE  TargetsInv
<1>1. /\ kind \in T!Kinds /\ done = <<>> /\ docs \in {<<>>} \cup {<<o>> : o \in Object}
      /\ row \in [RowId -> {None} \cup [target : Object, document : {0},
                                        type : IF kind = "reports" THEN OwnType \cup {None} ELSE {None}]]
      /\ column \in [Object -> {T!Blank, [f \in T!Fields |-> IF f = "enabled" THEN 0 ELSE 1],
                                [f \in T!Fields |-> IF f = "count" /\ kind = "reactions" THEN None ELSE 0]}]
      /\ meta = [d \in T!Doc |-> None]
      /\ truth = [r \in RowId |-> IF row[r] = None THEN None ELSE row[r].target]
  BY DEF T!Init
<1>2. /\ history \subseteq [of : RowId, target : Object \cup {None}, document : {0}, was : Object \cup {None}]
      /\ (kind # "comments" => history = {}) /\ \A e \in history : e.was = e.target
  <2>1. CASE kind = "comments"
    BY <2>1 DEF T!Init
  <2>2. CASE kind # "comments"
    BY <2>2 DEF T!Init
  <2> QED BY <2>1, <2>2
<1>3. Cardinality(Object) \in Nat /\ (Object # {} => Cardinality(Object) # 0)
  BY FiniteAssumption, FS_CardinalityType, FS_EmptySet
<1>4. /\ docs \in Seq(Object) /\ Len(docs) \in Nat /\ Len(docs) <= Cardinality(Object)
      /\ \A d, e \in DOMAIN docs : docs[d] = docs[e] => d = e
  <2>1. CASE docs = <<>>
    BY <1>3, <2>1
  <2>2. ASSUME NEW o \in Object, docs = <<o>>
        PROVE  /\ docs \in Seq(Object) /\ Len(docs) = 1 /\ Len(docs) <= Cardinality(Object)
               /\ \A d, e \in DOMAIN docs : docs[d] = docs[e] => d = e
    BY <1>3, <2>2
  <2> QED BY <1>1, <2>1, <2>2
<1>5. done = SubSeq(T!Pipeline, 1, Len(done)) /\ Len(done) \in 0..Len(T!Pipeline)
  <2>1. Len(T!Pipeline) \in Nat
    BY DEF T!Pipeline, T!BlocksPipeline, T!CommentsPipeline, T!ReactionsPipeline, T!RatingsPipeline, T!ReportsPipeline
  <2> DEFINE line == T!Pipeline
  <2> HIDE DEF line
  <2>2. SubSeq(line, 1, 0) = <<>>
    OBVIOUS
  <2> QED BY <1>1, <2>1, <2>2 DEF line
<1>6. row \in [RowId -> {None} \cup RowRecord] /\ \A r \in RowId : row[r] # None => row[r].document = 0
  <2>1. [target : Object, document : {0}, type : IF kind = "reports" THEN OwnType \cup {None} ELSE {None}] \subseteq RowRecord
    BY DEF RowRecord, T!Type
  <2> QED BY <1>1, <2>1
<1>7. history \subseteq Event /\ \A e \in history : e.document = 0
  BY <1>2 DEF Event
<1>8. TargetsTyped
  BY <1>1, <1>2, <1>4, <1>5, <1>6, <1>7 DEF TargetsTyped
<1>9. TargetsOf
  BY <1>1, <1>2, <1>6, <1>7 DEF TargetsOf, T!TargetOf
<1>10. CountersTyped
  <2>1. \A o \in Object : column[o] \in [T!Fields -> Nat \cup {None}]
    BY <1>1 DEF T!Blank
  <2>2. kind = "comments" => \A o \in Object : \A f, g \in T!Fields : column[o][f] = None => column[o][g] = None
    <3> SUFFICES ASSUME kind = "comments", NEW o \in Object, NEW f \in T!Fields, NEW g \in T!Fields, column[o][f] = None
                 PROVE  column[o][g] = None
      OBVIOUS
    <3>1. None \notin Nat
      BY NoneAssumption
    <3>2. 0 # None /\ 1 # None
      BY <3>1
    <3>3. column[o] \in {T!Blank, [x \in T!Fields |-> IF x = "enabled" THEN 0 ELSE 1],
                         [x \in T!Fields |-> IF x = "count" /\ kind = "reactions" THEN None ELSE 0]}
      BY <1>1
    <3> QED BY <3>2, <3>3 DEF T!Blank
  <2> QED BY <1>1, <2>1, <2>2 DEF CountersTyped
<1> QED BY <1>8, <1>9, <1>10 DEF TargetsInv

\* A step of the package keeps the invariant, and what is shown of a counter when it moves.
LEMMA TargetsStep ==
  ASSUME TargetsInv, T!Next
  PROVE  TargetsInv' /\ Carried
<1> DEFINE Still == ("legacy" \in T!Applied) <=> ("legacy" \in T!Applied')
<1>0. Still => Carried
  BY DEF Carried
<1>1. KeptTyped(T!KeptNotNull) /\ KeptTyped(T!KeptOrZero)
  BY KeptHolds DEF TargetsInv
<1>2. CASE \/ T!migrate_reaction_targets_to_document_id
           \/ T!migrate_rate_targets_to_document_id
           \/ T!migrate_report_targets_to_document_id
  <2>1. PICK k \in {"reactions", "ratings", "reports"} : T!Convert(k) /\ UNCHANGED history
    BY <1>2 DEF T!migrate_reaction_targets_to_document_id, T!migrate_rate_targets_to_document_id,
                T!migrate_report_targets_to_document_id
  <2>2. TargetsInv' /\ T!Applied' = T!Applied \cup {"convert"}
    BY <2>1, ConvertKeeps
  <2> QED BY <1>0, <2>2
<1>3. CASE \/ T!reverse_migrate_reaction_targets_to_generic_fk
           \/ T!reverse_migrate_rate_targets_to_generic_fk
           \/ T!reverse_migrate_report_targets_to_generic_fk
           \/ T!reverse_migrate_comment_targets_to_generic_fk
  <2>1. PICK k \in {"reactions", "ratings", "reports", "comments"} :
          T!ConvertBack(k) /\ ((UNCHANGED history /\ k # "comments") \/ T!reverse_migrate_comment_targets_to_generic_fk)
    BY <1>3 DEF T!reverse_migrate_reaction_targets_to_generic_fk, T!reverse_migrate_rate_targets_to_generic_fk,
                T!reverse_migrate_report_targets_to_generic_fk, T!reverse_migrate_comment_targets_to_generic_fk
  <2>2. TargetsInv' /\ T!Applied = T!Applied' \cup {"convert"}
    BY <2>1, ConvertBackKeeps
  <2> QED BY <1>0, <2>2
<1>4. CASE T!migrate_comment_targets_to_document_id
  BY <1>0, <1>4, ConvertCommentsKeeps
<1>5. CASE \/ T!migrate_legacy_block_counts_to_metadata
           \/ T!migrate_legacy_reactable_fields_to_metadata
           \/ T!migrate_legacy_ratings_to_metadata
           \/ T!migrate_legacy_reports_count_to_metadata
           \/ T!migrate_legacy_commentable_fields_to_metadata
  <2> DEFINE Some == {o \in Object : \E f \in T!Fields : column[o][f] # None}
             WithCount == {o \in Object : column[o]["count"] # None}
             Whole == {o \in Object : \A f \in T!Fields : column[o][f] # None}
  <2>1. \A k, kept : KeptTyped(kept) /\ T!Move(k, Object, kept) /\ UNCHANGED history => TargetsInv' /\ Carried
    BY MoveKeeps
  <2>2. CASE T!migrate_legacy_block_counts_to_metadata
    <3>1. T!Move("blocks", Some, T!KeptNotNull) /\ UNCHANGED history
      BY <2>2 DEF T!migrate_legacy_block_counts_to_metadata, T!Move
    <3>2. Some \in SUBSET Object /\ \A o \in Object : (\E f \in T!Fields : column[o][f] # None) => o \in Some
      OBVIOUS
    <3> HIDE DEF Some
    <3> QED BY <1>1, <3>1, <3>2, MoveKeeps
  <2>3. CASE T!migrate_legacy_reactable_fields_to_metadata
    BY <1>1, <2>1, <2>3 DEF T!migrate_legacy_reactable_fields_to_metadata, T!Move
  <2>4. CASE T!migrate_legacy_ratings_to_metadata
    BY <1>1, <2>1, <2>4 DEF T!migrate_legacy_ratings_to_metadata, T!Move
  <2>5. CASE T!migrate_legacy_reports_count_to_metadata
    <3>1. T!Move("reports", WithCount, T!KeptNotNull) /\ UNCHANGED history /\ kind = "reports"
      BY <2>5 DEF T!migrate_legacy_reports_count_to_metadata, T!Move
    <3>2. WithCount \in SUBSET Object /\ \A o \in Object : (\E f \in T!Fields : column[o][f] # None) => o \in WithCount
      BY <3>1 DEF T!Fields
    <3> HIDE DEF WithCount
    <3> QED BY <1>1, <3>1, <3>2, MoveKeeps
  <2>6. CASE T!migrate_legacy_commentable_fields_to_metadata
    <3>1. T!Move("comments", Whole, T!KeptNotNull) /\ UNCHANGED history /\ kind = "comments"
      BY <2>6 DEF T!migrate_legacy_commentable_fields_to_metadata, T!Move
    <3>2. Whole \in SUBSET Object /\ \A o \in Object : (\E f \in T!Fields : column[o][f] # None) => o \in Whole
      BY <3>1 DEF TargetsInv, CountersTyped
    <3> HIDE DEF Whole
    <3> QED BY <1>1, <3>1, <3>2, MoveKeeps
  <2> QED BY <1>5, <2>2, <2>3, <2>4, <2>5, <2>6
<1>6. CASE \/ T!reverse_migrate_legacy_block_counts_from_metadata
           \/ T!reverse_migrate_legacy_reactable_fields_from_metadata
           \/ T!reverse_migrate_legacy_ratings_from_metadata
           \/ T!reverse_migrate_legacy_reports_count_from_metadata
           \/ T!reverse_migrate_legacy_commentable_fields_from_metadata
  <2>1. \A k : T!MoveBack(k) /\ UNCHANGED history => TargetsInv' /\ Carried
    BY MoveBackKeeps
  <2> QED BY <1>6, <2>1 DEF T!reverse_migrate_legacy_block_counts_from_metadata,
        T!reverse_migrate_legacy_reactable_fields_from_metadata, T!reverse_migrate_legacy_ratings_from_metadata,
        T!reverse_migrate_legacy_reports_count_from_metadata, T!reverse_migrate_legacy_commentable_fields_from_metadata,
        T!MoveBack
<1>7. CASE \/ T!seed_reactable_metadata_from_reactions \/ T!reverse_seed_reactable_metadata
           \/ T!seed_ratable_metadata_from_rates \/ T!reverse_seed_ratable_metadata
           \/ T!seed_reportable_metadata_from_reports \/ T!reverse_seed_reportable_metadata
  <2>1. PICK k \in {"reactions", "ratings", "reports"} : (T!Seed(k) \/ T!SeedBack(k)) /\ UNCHANGED history
    BY <1>7 DEF T!seed_reactable_metadata_from_reactions, T!reverse_seed_reactable_metadata,
       T!seed_ratable_metadata_from_rates, T!reverse_seed_ratable_metadata,
       T!seed_reportable_metadata_from_reports, T!reverse_seed_reportable_metadata, T!Seed, T!SeedBack
  <2>2. TargetsInv' /\ Still
    BY <2>1, SeedKeeps
  <2> QED BY <1>0, <2>2
<1>8. CASE T!seed_default_report_types \/ T!reverse_seed_default_report_types
  BY <1>0, <1>8, TypesKeep
<1>9. ASSUME NEW r \in RowId, NEW o \in Object, NEW t \in T!Type \cup {None}, T!AddRow(r, o, t)
      PROVE  TargetsInv' /\ Carried
  BY <1>0, <1>9, AddRowKeeps
<1>10. ASSUME NEW o \in Object, NEW f \in T!Fields, NEW v \in {0, 1}, T!WriteMeta(o, f, v)
       PROVE  TargetsInv' /\ Carried
  BY <1>0, <1>10, WriteMetaKeeps
<1> HIDE DEF Still
<1> QED BY <1>2, <1>3, <1>4, <1>5, <1>6, <1>7, <1>8, <1>9, <1>10 DEF T!Next

LEMMA TargetsQuiet ==
  ASSUME TargetsInv, UNCHANGED <<docs, migrating, targets>>
  PROVE  TargetsInv'
<1>1. UNCHANGED <<docs, done, meta, truth, kind, row, history, column>>
  BY DEF migrating, targets
<1>2. T!Fields' = T!Fields /\ T!Pipeline' = T!Pipeline
  BY <1>1 DEF T!Fields, T!Pipeline
<1>3. TargetsTyped'
  BY <1>1, <1>2 DEF TargetsInv, TargetsTyped
<1>4. TargetsOf'
  BY <1>1 DEF TargetsInv, TargetsOf, T!TargetOf
<1>5. CountersTyped'
  BY <1>1, <1>2 DEF TargetsInv, CountersTyped
<1> QED BY <1>3, <1>4, <1>5 DEF TargetsInv

LEMMA TargetsHold ==
  ASSUME TargetsInv
  PROVE  T!TypeOK /\ T!TargetsKept
<1>1. TargetsTyped /\ TargetsOf /\ CountersTyped
  BY DEF TargetsInv
<1>2. /\ docs \in Seq(Object) /\ Len(docs) \in Nat
      /\ \A d, e \in DOMAIN docs : docs[d] = docs[e] => d = e
  BY <1>1 DEF TargetsTyped
<1>3. \A r \in T!Rows : row[r].document \in 0..Len(docs) /\ row[r].target \in Object \cup {None}
  BY <1>1, <1>2 DEF TargetsTyped, T!Rows, RowRecord
<1>4. \A e \in history : e.document \in 0..Len(docs)
  BY <1>1, <1>2 DEF TargetsTyped, Event
<1>5. \A d \in T!Doc : meta[d] # None => d <= Len(docs) /\ DOMAIN meta[d] = T!Fields
  BY <1>1 DEF CountersTyped
<1>6. T!IsInjective(docs) /\ T!ToSet(docs) \subseteq Object
  BY <1>2 DEF T!IsInjective, T!ToSet
<1>7. T!TypeOK
  BY <1>1, <1>3, <1>4, <1>5, <1>6, SameCardinality DEF T!TypeOK, TargetsTyped
<1>8. T!TargetsKept
  BY <1>1 DEF T!TargetsKept, TargetsOf
<1> QED BY <1>7, <1>8

-----------------------------------------------------------------------------
(* Accounts. *)

Kinds == {"change-email", "verify-email", "confirm_email", "pre_auth", "expired", "reset"}

\* A row of u's, as it is stored or as a slow request has loaded it: a verified address has
\* answered, a confirmed one is there, and the password was set on its day.
RowFits(u, x, C, S) ==
  /\ x \in Acc!Row
  /\ x.is_email_verified = TRUE => <<u, x.email>> \in C
  /\ x.is_new_email_confirmed = TRUE => x.new_email # None
  /\ <<u, x.password, x.password_changed_date>> \in S

\* A token that proves an address was mailed to the address it signs.
TokenFits(m) ==
  /\ m.kind \in DOMAIN Lifetime /\ m.user \in User /\ m.at \in 0..MaxNow /\ m.to \in Email
  /\ m.kind \in {"verify-email", "confirm_email"} => m.signs[1] = m.to

ClicksTyped(C) == \A x \in C : \E u \in User, e \in Email : x = <<u, e>>
SetsTyped(S) == \A x \in S : \E u \in User, p \in Password, d \in Int : x = <<u, p, d>>

Stored ==
  /\ DOMAIN account = User /\ account = [u \in User |-> account[u]]
  /\ \A u \in User : account[u] = None \/ RowFits(u, account[u], clicked, chosen)
Sent == \A m \in mail : TokenFits(m)
Others ==
  /\ session \subseteq User /\ now \in 0..MaxNow
  /\ \A t \in task : \E u \in User, d \in Nat : t = <<u, d>>
Waiting ==
  slow = None
  \/ /\ slow \in [user : User, row : Acc!Row, session : BOOLEAN]
     /\ RowFits(slow.user, slow.row, clicked, chosen)
Histories == ClicksTyped(clicked) /\ SetsTyped(chosen)
AccountsInv == Stored /\ Sent /\ Others /\ Waiting /\ Histories

LEMMA Signed ==
  ASSUME NEW x
  PROVE  /\ Acc!signing_value("verify-email", x) = <<x.new_email, x.is_new_email_confirmed>>
         /\ Acc!signing_value("confirm_email", x) = <<x.email>>
<1>1. Acc!signing_value("verify-email", x) = <<x.new_email, x.is_new_email_confirmed>>
  BY DEF Acc!signing_value, Acc!ChangeEmailVerifyTokenGenerator
<1>2. Acc!signing_value("confirm_email", x) = <<x.email>>
  BY Zenon DEF Acc!signing_value, Acc!ConfirmEmailTokenGenerator
<1> QED BY <1>1, <1>2

LEMMA RowFields ==
  ASSUME NEW x \in Acc!Row
  PROVE  /\ x.email \in Email /\ x.new_email \in Email \cup {None} /\ x.password \in Password
         /\ x.password_changed_date \in Int
  BY DEF Acc!Row

LEMMA StillFits ==
  ASSUME NEW u, NEW x, NEW C, NEW S, NEW C2, NEW S2, RowFits(u, x, C, S), C \subseteq C2, S \subseteq S2
  PROVE  RowFits(u, x, C2, S2)
  BY DEF RowFits

\* What is mailed to the address of a row, and what to the address it is about to take
LEMMA TokenMade ==
  ASSUME Others, NEW u \in User, NEW x \in Acc!Row, NEW k \in Kinds \ {"verify-email"}
  PROVE  TokenFits(Acc!make_token(k, u, x, x.email))
<1> DEFINE m == Acc!make_token(k, u, x, x.email)
<1>1. /\ m.kind = k /\ m.user = u /\ m.signs = Acc!signing_value(k, x) /\ m.to = x.email /\ m.at = now
  BY DEF Acc!make_token
<1> HIDE DEF m
<1>2. k = "confirm_email" => m.signs[1] = m.to
  <2> SUFFICES ASSUME k = "confirm_email" PROVE m.signs[1] = m.to
    OBVIOUS
  <2>1. m.signs = <<x.email>>
    BY <1>1, Signed
  <2> QED BY <2>1, <1>1
<1>3. now \in 0..MaxNow /\ k \in DOMAIN Lifetime /\ x.email \in Email
  BY AccountAssumption, RowFields DEF Others, Kinds
<1>4. TokenFits(m)
  BY <1>1, <1>2, <1>3 DEF TokenFits
<1> QED BY <1>4 DEF m

LEMMA VerifyTokenMade ==
  ASSUME Others, NEW u \in User, NEW x \in Acc!Row, x.new_email # None
  PROVE  TokenFits(Acc!make_token("verify-email", u, x, x.new_email))
<1> DEFINE m == Acc!make_token("verify-email", u, x, x.new_email)
<1>1. /\ m.kind = "verify-email" /\ m.user = u /\ m.signs = Acc!signing_value("verify-email", x)
      /\ m.to = x.new_email /\ m.at = now
  BY DEF Acc!make_token
<1> HIDE DEF m
<1>2. m.signs[1] = m.to
  <2>1. m.signs = <<x.new_email, x.is_new_email_confirmed>>
    BY <1>1, Signed
  <2> QED BY <2>1, <1>1
<1>3. now \in 0..MaxNow /\ "verify-email" \in DOMAIN Lifetime /\ x.new_email \in Email
  BY AccountAssumption, RowFields DEF Others, Kinds
<1>4. TokenFits(m)
  BY <1>1, <1>2, <1>3 DEF TokenFits
<1> QED BY <1>4 DEF m

LEMMA MessagesFit ==
  ASSUME Others, NEW u \in User, NEW x \in Acc!Row
  PROVE  /\ \A m \in Acc!send_change_email_confirm_email(u, x) : TokenFits(m)
         /\ x.new_email # None => \A m \in Acc!send_change_email_verify_email(u, x) : TokenFits(m)
         /\ \A m \in Acc!send_welcome_email(u, x) : TokenFits(m)
         /\ \A m \in Acc!send_password_reset_email(u, x) : TokenFits(m)
         /\ \A m \in Acc!send_password_expired_email(u, x) : TokenFits(m)
<1>1. \A k \in {"change-email", "confirm_email", "reset", "expired"} :
        TokenFits(Acc!make_token(k, u, x, x.email))
  BY TokenMade DEF Kinds
<1>2. x.new_email # None => TokenFits(Acc!make_token("verify-email", u, x, x.new_email))
  BY VerifyTokenMade
<1> QED BY <1>1, <1>2
      DEF Acc!send_change_email_confirm_email, Acc!send_change_email_verify_email,
          Acc!send_welcome_email, Acc!send_password_reset_email, Acc!send_password_expired_email

LEMMA SendFits ==
  ASSUME Sent, NEW M, \A m \in M : TokenFits(m), Acc!Send(M)
  PROVE  Sent'
  BY DEF Sent, TokenFits, Acc!Send

-----------------------------------------------------------------------------
\* What a handler leaves: all but the slow request, and histories that only grow
Handled ==
  /\ Stored' /\ Sent' /\ Histories'
  /\ clicked \subseteq clicked' /\ chosen \subseteq chosen'

LEMMA SavedFits ==
  ASSUME Stored, Sent, Histories, NEW u \in User, NEW x, NEW M, NEW C, NEW S,
         RowFits(u, x, clicked \cup C, chosen \cup S), \A m \in M : TokenFits(m),
         ClicksTyped(C), SetsTyped(S), Acc!Saved(u, x, M, C, S)
  PROVE  Handled
<1>1. /\ account' = [account EXCEPT ![u] = x] /\ Acc!Send(M)
      /\ clicked' = clicked \cup C /\ chosen' = chosen \cup S
  BY DEF Acc!Saved, Acc!Store
<1>2. Sent'
  BY <1>1, SendFits
<1>3. Histories'
  BY <1>1 DEF Histories, ClicksTyped, SetsTyped
<1>4. \A v \in User : account'[v] = None \/ RowFits(v, account'[v], clicked', chosen')
  <2> SUFFICES ASSUME NEW v \in User PROVE account'[v] = None \/ RowFits(v, account'[v], clicked', chosen')
    OBVIOUS
  <2>1. CASE v = u
    BY <2>1, <1>1 DEF Stored
  <2>2. CASE v # u
    BY <2>2, <1>1, StillFits DEF Stored
  <2> QED BY <2>1, <2>2
<1>5. Stored'
  BY <1>1, <1>4 DEF Stored
<1> QED BY <1>1, <1>2, <1>3, <1>5 DEF Handled

LEMMA SaveFits ==
  ASSUME Stored, Sent, Histories, NEW u \in User, NEW x, NEW M, NEW C, NEW S,
         RowFits(u, x, clicked \cup C, chosen \cup S), \A m \in M : TokenFits(m),
         ClicksTyped(C), SetsTyped(S), Acc!Save(u, x, M, C, S)
  PROVE  Handled
<1>1. CASE Acc!Saved(u, x, M, C, S)
  BY <1>1, SavedFits
<1>2. CASE Acc!Refused(u, x)
  BY <1>2 DEF Acc!Refused, Handled, Stored, Sent, Histories
<1> QED BY <1>1, <1>2 DEF Acc!Save

LEMMA AnswerFits ==
  ASSUME Stored, Sent, Histories, NEW M, \A m \in M : TokenFits(m), Acc!Answer(M)
  PROVE  Handled /\ UNCHANGED <<session, task, now>>
<1>1. UNCHANGED <<account, session, task, now, clicked, chosen>> /\ Acc!Send(M)
  BY DEF Acc!Answer, Acc!Rest
<1>2. Sent'
  BY <1>1, SendFits
<1> QED BY <1>1, <1>2 DEF Handled, Stored, Histories

\* The password of a row, set today
LEMMA PasswordFits ==
  ASSUME Stored, Sent, Histories, Others, NEW u \in User, NEW x, RowFits(u, x, clicked, chosen),
         NEW p \in Password, Acc!SetPassword(u, x, p)
  PROVE  Handled /\ UNCHANGED <<session, task, now>>
<1> DEFINE y == Acc!set_password(x, p)
<1>1. y = [x EXCEPT !.password = p, !.password_changed_date = now]
  BY DEF Acc!set_password
<1>2. now \in Int
  BY DEF Others
<1>3. /\ y \in Acc!Row /\ y.is_email_verified = x.is_email_verified /\ y.email = x.email
      /\ y.is_new_email_confirmed = x.is_new_email_confirmed /\ y.new_email = x.new_email
      /\ y.password = p /\ y.password_changed_date = now
  BY <1>1, <1>2 DEF RowFits, Acc!Row
<1> HIDE DEF y
<1>4. RowFits(u, y, clicked \cup {}, chosen \cup {<<u, p, now>>})
  BY <1>3 DEF RowFits
<1>5. SetsTyped({<<u, p, now>>}) /\ ClicksTyped({})
  BY <1>2 DEF SetsTyped, ClicksTyped
<1>6. Acc!Save(u, y, {}, {}, {<<u, p, now>>}) /\ UNCHANGED <<session, task, now>>
  BY DEF Acc!SetPassword, Acc!Rest, y
<1>7. Handled
  BY <1>4, <1>5, <1>6, SaveFits
<1> QED BY <1>6, <1>7

-----------------------------------------------------------------------------
\* Every handler, on a row as it is or as it was, ...
Keeps == Handled /\ UNCHANGED <<session, now>> /\ (UNCHANGED task \/ \E u \in User : task' = task \cup {<<u, now + Delay>>})

LEMMA ChangeEmailFits ==
  ASSUME Stored, Sent, Histories, Others, NEW u \in User, NEW x, RowFits(u, x, clicked, chosen),
         \/ \E e \in Email : Acc!ChangeEmail_create(u, x, e)
         \/ Acc!ChangeEmail_resend_confirm(u, x) \/ Acc!ChangeEmail_resend_verify(u, x)
         \/ Acc!ChangeEmail_cancel(u, x) \/ Acc!ConfirmEmail_resend_confirm(u, x)
  PROVE  Handled /\ UNCHANGED <<session, task, now>>
<1>1. x \in Acc!Row
  BY DEF RowFits
<1>2. ClicksTyped({}) /\ SetsTyped({})
  BY DEF ClicksTyped, SetsTyped
<1>3. ASSUME NEW e \in Email, Acc!ChangeEmail_create(u, x, e)
      PROVE  Handled /\ UNCHANGED <<session, task, now>>
  <2> DEFINE y == Acc!ChangeEmailRequestSerializer(x, e)
  <2>1. y = [x EXCEPT !.new_email = e]
    BY DEF Acc!ChangeEmailRequestSerializer
  <2>2. /\ y \in Acc!Row /\ y.is_email_verified = x.is_email_verified /\ y.email = x.email
        /\ y.is_new_email_confirmed = x.is_new_email_confirmed /\ y.new_email = e
        /\ y.password = x.password /\ y.password_changed_date = x.password_changed_date
    BY <2>1, <1>1 DEF Acc!Row
  <2>3. /\ Acc!Save(u, y, Acc!send_change_email_confirm_email(u, y), {}, {})
        /\ UNCHANGED <<session, task, now>>
    BY <1>3 DEF Acc!ChangeEmail_create, Acc!Rest
  <2> HIDE DEF y
  <2>4. e # None
    BY AccountAssumption, <1>1 DEF RowFits
  <2>5. RowFits(u, y, clicked \cup {}, chosen \cup {})
    BY <2>2, <2>4 DEF RowFits
  <2>6. \A m \in Acc!send_change_email_confirm_email(u, y) : TokenFits(m)
    BY <2>2, MessagesFit
  <2>7. Handled
    BY <2>3, <2>5, <2>6, <1>2, SaveFits
  <2> QED BY <2>3, <2>7
<1>4. CASE Acc!ChangeEmail_resend_confirm(u, x)
  BY <1>4, <1>1, MessagesFit, AnswerFits DEF Acc!ChangeEmail_resend_confirm
<1>5. CASE Acc!ChangeEmail_resend_verify(u, x)
  <2>1. x.new_email # None
    BY <1>5 DEF Acc!ChangeEmail_resend_verify, RowFits, Acc!Row
  <2> QED BY <1>5, <1>1, <2>1, MessagesFit, AnswerFits DEF Acc!ChangeEmail_resend_verify
<1>6. CASE Acc!ConfirmEmail_resend_confirm(u, x)
  BY <1>6, <1>1, MessagesFit, AnswerFits DEF Acc!ConfirmEmail_resend_confirm
<1>7. CASE Acc!ChangeEmail_cancel(u, x)
  <2> DEFINE y == [x EXCEPT !.new_email = None, !.is_new_email_confirmed = FALSE]
  <2>1. /\ y \in Acc!Row /\ y.is_email_verified = x.is_email_verified /\ y.email = x.email
        /\ y.is_new_email_confirmed = FALSE
        /\ y.password = x.password /\ y.password_changed_date = x.password_changed_date
    BY <1>1 DEF Acc!Row
  <2>2. Acc!Save(u, y, {}, {}, {}) /\ UNCHANGED <<session, task, now>>
    BY <1>7 DEF Acc!ChangeEmail_cancel, Acc!Rest
  <2> HIDE DEF y
  <2>3. RowFits(u, y, clicked \cup {}, chosen \cup {})
    BY <2>1 DEF RowFits
  <2>4. Handled
    BY <2>2, <2>3, <1>2, SaveFits
  <2> QED BY <2>2, <2>4
<1> QED BY <1>3, <1>4, <1>5, <1>6, <1>7

LEMMA BySessionFits ==
  ASSUME Stored, Sent, Histories, Others, NEW u \in User, NEW x, RowFits(u, x, clicked, chosen),
         Acc!BySession(u, x)
  PROVE  Keeps
<1>1. ASSUME NEW p \in Password, Acc!ChangePassword_save(u, x, p)
      PROVE  Keeps
  BY <1>1, PasswordFits DEF Acc!ChangePassword_save, Keeps
<1>2. ClicksTyped({}) /\ SetsTyped({})
  BY DEF ClicksTyped, SetsTyped
<1>3. CASE Acc!Users_update(u, x)
  <2>1. Acc!Save(u, x, {}, {}, {}) /\ UNCHANGED <<session, task, now>>
    BY <1>3 DEF Acc!Users_update, Acc!Rest
  <2>2. RowFits(u, x, clicked \cup {}, chosen \cup {})
    BY DEF RowFits
  <2>3. Handled
    BY <2>1, <2>2, <1>2, SaveFits
  <2> QED BY <2>1, <2>3 DEF Keeps
<1>4. CASE Acc!delete_account(u, x)
  <2> DEFINE y == [x EXCEPT !.is_active = FALSE]
  <2>1. /\ y \in Acc!Row /\ y.is_email_verified = x.is_email_verified /\ y.email = x.email
        /\ y.is_new_email_confirmed = x.is_new_email_confirmed /\ y.new_email = x.new_email
        /\ y.password = x.password /\ y.password_changed_date = x.password_changed_date
    BY DEF RowFits, Acc!Row
  <2>2. /\ \/ Acc!Saved(u, y, {}, {}, {}) /\ (UNCHANGED task \/ task' = task \cup {<<u, now + Delay>>})
           \/ Acc!Refused(u, y) /\ UNCHANGED task
        /\ UNCHANGED <<session, now>>
    BY <1>4 DEF Acc!delete_account
  <2> HIDE DEF y
  <2>3. RowFits(u, y, clicked \cup {}, chosen \cup {})
    BY <2>1 DEF RowFits
  <2>4. Acc!Save(u, y, {}, {}, {})
    BY <2>2 DEF Acc!Save
  <2>5. Handled
    BY <2>3, <2>4, <1>2, SaveFits
  <2> QED BY <2>2, <2>5 DEF Keeps
<1>5. CASE \/ \E e \in Email : Acc!ChangeEmail_create(u, x, e)
           \/ Acc!ChangeEmail_resend_confirm(u, x) \/ Acc!ChangeEmail_resend_verify(u, x)
           \/ Acc!ChangeEmail_cancel(u, x) \/ Acc!ConfirmEmail_resend_confirm(u, x)
  BY <1>5, ChangeEmailFits DEF Keeps
<1> QED BY <1>1, <1>3, <1>4, <1>5 DEF Acc!BySession

LEMMA Checked ==
  ASSUME NEW k, NEW u, NEW x, NEW m, Acc!check_token(k, u, x, m)
  PROVE  m.kind = k /\ m.signs = Acc!signing_value(k, x)
  BY DEF Acc!check_token, Acc!is_value_valid

LEMMA ByLinkFits ==
  ASSUME Stored, Sent, Histories, Others, NEW u \in User, NEW x, RowFits(u, x, clicked, chosen),
         Acc!ByLink(u, x)
  PROVE  Keeps
<1>0. x \in Acc!Row /\ ClicksTyped({}) /\ SetsTyped({})
  BY DEF RowFits, ClicksTyped, SetsTyped
<1>1. ASSUME NEW m \in mail, Acc!ChangeEmail_confirm(u, x, m)
      PROVE  Keeps
  <2> DEFINE y == Acc!ChangeEmailConfirmSerializer(x)
  <2>1. y = [x EXCEPT !.is_new_email_confirmed = TRUE]
    BY DEF Acc!ChangeEmailConfirmSerializer
  <2>2. /\ y \in Acc!Row /\ y.is_email_verified = x.is_email_verified /\ y.email = x.email
        /\ y.new_email = x.new_email
        /\ y.password = x.password /\ y.password_changed_date = x.password_changed_date
    BY <2>1, <1>0 DEF Acc!Row
  <2>3. /\ Acc!Save(u, y, Acc!send_change_email_verify_email(u, y), {}, {})
        /\ UNCHANGED <<session, task, now>> /\ x.new_email # None
    BY <1>1 DEF Acc!ChangeEmail_confirm, Acc!Rest
  <2> HIDE DEF y
  <2>4. RowFits(u, y, clicked \cup {}, chosen \cup {})
    BY <2>2, <2>3 DEF RowFits
  <2>5. \A n \in Acc!send_change_email_verify_email(u, y) : TokenFits(n)
    BY <2>2, <2>3, MessagesFit
  <2>6. Handled
    BY <2>3, <2>4, <2>5, <1>0, SaveFits
  <2> QED BY <2>3, <2>6 DEF Keeps
<1>2. ASSUME NEW m \in mail, Acc!ChangeEmail_verify(u, x, m)
      PROVE  Keeps
  <2> DEFINE y == Acc!ChangeEmailVerifySerializer(x)
  <2>1. y = [x EXCEPT !.email = x.new_email, !.new_email = None, !.is_new_email_confirmed = FALSE,
                      !.is_email_verified = TRUE]
    BY DEF Acc!ChangeEmailVerifySerializer
  <2>2. /\ Acc!Save(u, y, {}, {<<u, m.to>>}, {}) /\ UNCHANGED <<session, task, now>>
        /\ Acc!check_token("verify-email", u, x, m) /\ x.new_email # None
    BY <1>2 DEF Acc!ChangeEmail_verify, Acc!Rest
  <2>3. x.new_email \in Email
    BY <2>2, <1>0, RowFields
  <2>4. /\ y \in Acc!Row /\ y.email = x.new_email /\ y.is_new_email_confirmed = FALSE
        /\ y.password = x.password /\ y.password_changed_date = x.password_changed_date
    BY <2>1, <2>3, <1>0 DEF Acc!Row
  <2> HIDE DEF y
  <2>5. m.kind = "verify-email" /\ m.signs = <<x.new_email, x.is_new_email_confirmed>>
    <3>1. m.kind = "verify-email" /\ m.signs = Acc!signing_value("verify-email", x)
      BY <2>2, Checked
    <3> QED BY <3>1, Signed
  <2>6. m.signs[1] = m.to /\ m.to \in Email
    BY <2>5 DEF Sent, TokenFits
  <2>7. m.to = x.new_email
    BY <2>5, <2>6
  <2>8. RowFits(u, y, clicked \cup {<<u, m.to>>}, chosen \cup {})
    BY <2>4, <2>7 DEF RowFits
  <2>9. ClicksTyped({<<u, m.to>>})
    BY <2>6 DEF ClicksTyped
  <2>10. Handled
    BY <2>2, <2>8, <2>9, <1>0, SaveFits
  <2> QED BY <2>2, <2>10 DEF Keeps
<1>3. ASSUME NEW m \in mail, Acc!ConfirmEmail_update(u, x, m)
      PROVE  Keeps
  <2> DEFINE y == Acc!ConfirmEmailSerializer(x)
  <2>1. y = [x EXCEPT !.is_email_verified = TRUE]
    BY DEF Acc!ConfirmEmailSerializer
  <2>2. /\ Acc!Save(u, y, {}, {<<u, m.to>>}, {}) /\ UNCHANGED <<session, task, now>>
        /\ Acc!check_token("confirm_email", u, x, m)
    BY <1>3 DEF Acc!ConfirmEmail_update, Acc!Rest
  <2>3. /\ y \in Acc!Row /\ y.email = x.email
        /\ y.is_new_email_confirmed = x.is_new_email_confirmed /\ y.new_email = x.new_email
        /\ y.password = x.password /\ y.password_changed_date = x.password_changed_date
    BY <2>1, <1>0 DEF Acc!Row
  <2> HIDE DEF y
  <2>4. m.kind = "confirm_email" /\ m.signs = <<x.email>>
    <3>1. m.kind = "confirm_email" /\ m.signs = Acc!signing_value("confirm_email", x)
      BY <2>2, Checked
    <3> QED BY <3>1, Signed
  <2>5. m.signs[1] = m.to /\ m.to \in Email
    BY <2>4 DEF Sent, TokenFits
  <2>6. m.to = x.email
    BY <2>4, <2>5
  <2>7. RowFits(u, y, clicked \cup {<<u, m.to>>}, chosen \cup {})
    BY <2>3, <2>6 DEF RowFits
  <2>8. ClicksTyped({<<u, m.to>>})
    BY <2>5 DEF ClicksTyped
  <2>9. Handled
    BY <2>2, <2>7, <2>8, <1>0, SaveFits
  <2> QED BY <2>2, <2>9 DEF Keeps
<1>4. ASSUME NEW m \in mail, NEW p \in Password, Acc!ResetPassword_create(u, x, m, p)
      PROVE  Keeps
  BY <1>4, PasswordFits DEF Acc!ResetPassword_create, Keeps
<1>5. ASSUME NEW m \in mail, NEW p \in Password, NEW c \in Password,
             Acc!ChangeExpiredPassword_save(u, x, m, c, p)
      PROVE  Keeps
  BY <1>5, PasswordFits DEF Acc!ChangeExpiredPassword_save, Keeps
<1> QED BY <1>1, <1>2, <1>3, <1>4, <1>5 DEF Acc!ByLink

LEMMA HandleFits ==
  ASSUME Stored, Sent, Histories, Others, NEW u \in User, NEW x, RowFits(u, x, clicked, chosen),
         NEW s \in BOOLEAN, Acc!Handle(u, x, s)
  PROVE  Keeps
  BY BySessionFits, ByLinkFits DEF Acc!Handle

-----------------------------------------------------------------------------
LEMMA Newcomer ==
  ASSUME NEW e \in Email, NEW p \in Password, Others
  PROVE  LET y == Acc!create_user(e, p)
         IN /\ y \in Acc!Row /\ y.email = e /\ y.is_email_verified = FALSE
            /\ y.is_new_email_confirmed = FALSE /\ y.password = p /\ y.password_changed_date = now
  BY DEF Acc!create_user, Acc!Row, Others

LEMMA AccountsInit ==
  ASSUME Acc!Init
  PROVE  AccountsInv
<1>1. PICK address \in [Member -> Email], p \in Password :
        /\ account = [u \in User |-> IF u \in Member THEN Acc!create_user(address[u], p) ELSE None]
        /\ chosen = {<<u, p, 0>> : u \in Member}
  BY DEF Acc!Init
<1>2. now = 0 /\ mail = {} /\ session = Member /\ slow = None /\ task = {} /\ clicked = {}
  BY DEF Acc!Init
<1>3. Others
  BY <1>2, AccountAssumption DEF Others
<1>4. ASSUME NEW u \in User
      PROVE  account[u] = None \/ RowFits(u, account[u], clicked, chosen)
  <2>1. CASE u \notin Member
    BY <2>1, <1>1
  <2>2. CASE u \in Member
    <3> DEFINE y == Acc!create_user(address[u], p)
    <3>1. account[u] = y /\ address[u] \in Email /\ <<u, p, 0>> \in chosen
      BY <2>2, <1>1
    <3>2. /\ y \in Acc!Row /\ y.email = address[u] /\ y.is_email_verified = FALSE
          /\ y.is_new_email_confirmed = FALSE /\ y.password = p /\ y.password_changed_date = 0
      BY <3>1, <1>2, <1>3, Newcomer
    <3> HIDE DEF y
    <3> QED BY <3>1, <3>2 DEF RowFits
  <2> QED BY <2>1, <2>2
<1>5. Stored
  <2>1. DOMAIN account = User /\ account = [u \in User |-> account[u]]
    BY <1>1
  <2> QED BY <2>1, <1>4 DEF Stored
<1>6. ClicksTyped(clicked) /\ SetsTyped(chosen)
  BY <1>1, <1>2, AccountAssumption DEF ClicksTyped, SetsTyped
<1> QED BY <1>2, <1>3, <1>5, <1>6 DEF AccountsInv, Sent, Waiting, Histories

LEMMA OthersStay ==
  ASSUME Others, session' \subseteq session, now' = now,
         UNCHANGED task \/ \E u \in User : task' = task \cup {<<u, now + Delay>>}
  PROVE  Others'
<1>1. now + Delay \in Nat
  BY AccountAssumption DEF Others
<1> QED BY <1>1 DEF Others

LEMMA WaitingStays ==
  ASSUME Waiting, slow' = slow, clicked \subseteq clicked', chosen \subseteq chosen'
  PROVE  Waiting'
  BY StillFits DEF Waiting

\* ... and every step
LEMMA AccountsStep ==
  ASSUME AccountsInv, [Acc!Next]_(Acc!vars)
  PROVE  AccountsInv'
<1>0. Stored /\ Sent /\ Others /\ Waiting /\ Histories
  BY DEF AccountsInv
<1>1. ASSUME Handled, Others', Waiting' PROVE AccountsInv'
  BY <1>1 DEF Handled, AccountsInv
<1>2. ASSUME UNCHANGED <<account, mail, clicked, chosen>> PROVE Handled
  BY <1>2, <1>0 DEF Handled, Stored, Sent, Histories
<1>3. CASE UNCHANGED Acc!vars
  <2>1. UNCHANGED <<account, mail, session, slow, task, now, clicked, chosen>>
    BY <1>3 DEF Acc!vars
  <2> QED BY <2>1, <1>0, <1>1, <1>2, OthersStay, WaitingStays
<1>4. ASSUME NEW u \in User, NEW s \in BOOLEAN, Acc!Arrive(u, s)
      PROVE  AccountsInv'
  <2>1. /\ account[u] # None /\ slow' = [user |-> u, row |-> account[u], session |-> s]
        /\ UNCHANGED <<account, mail, session, task, now, clicked, chosen>>
    BY <1>4 DEF Acc!Arrive, Acc!Admitted, Acc!Users, Acc!Rest
  <2>2. RowFits(u, account[u], clicked, chosen)
    BY <2>1, <1>0 DEF Stored
  <2>3. Waiting'
    BY <2>1, <2>2 DEF Waiting, RowFits
  <2>4. Others'
    BY <2>1, <1>0, OthersStay
  <2> QED BY <2>1, <2>3, <2>4, <1>1, <1>2
<1>5. ASSUME NEW u \in User, NEW s \in BOOLEAN, Acc!Serve(u, s)
      PROVE  AccountsInv'
  <2>1. account[u] # None /\ Acc!Handle(u, account[u], s) /\ slow' = slow
    BY <1>5 DEF Acc!Serve, Acc!Admitted, Acc!Users
  <2>2. RowFits(u, account[u], clicked, chosen)
    BY <2>1, <1>0 DEF Stored
  <2>3. Keeps
    BY <2>1, <2>2, <1>0, HandleFits
  <2>4. Others' /\ Handled
    BY <2>3, <1>0, OthersStay DEF Keeps
  <2>5. Waiting'
    BY <2>1, <2>4, <1>0, WaitingStays DEF Handled
  <2> QED BY <2>4, <2>5, <1>1
<1>6. CASE Acc!Finish
  <2>1. slow # None /\ Acc!Handle(slow.user, slow.row, slow.session) /\ slow' = None
    BY <1>6 DEF Acc!Finish
  <2>2. slow.user \in User /\ slow.session \in BOOLEAN /\ RowFits(slow.user, slow.row, clicked, chosen)
    BY <2>1, <1>0 DEF Waiting
  <2>3. Keeps
    BY <2>1, <2>2, <1>0, HandleFits
  <2>4. Others' /\ Handled
    BY <2>3, <1>0, OthersStay DEF Keeps
  <2>5. Waiting'
    BY <2>1 DEF Waiting
  <2> QED BY <2>4, <2>5, <1>1
<1>7. CASE Acc!Leave
  <2>1. slow' = None /\ UNCHANGED <<account, mail, session, task, now, clicked, chosen>>
    BY <1>7 DEF Acc!Leave, Acc!Rest
  <2>2. Waiting'
    BY <2>1 DEF Waiting
  <2> QED BY <2>1, <2>2, <1>0, <1>1, <1>2, OthersStay
<1>8. ASSUME NEW u \in User, NEW e \in Email, NEW p \in Password, Acc!Register_create(u, e, p)
      PROVE  AccountsInv'
  <2> DEFINE y == Acc!create_user(e, p)
  <2>1. /\ account' = [account EXCEPT ![u] = y] /\ Acc!Send(Acc!send_welcome_email(u, y))
        /\ chosen' = chosen \cup {<<u, p, now>>} /\ UNCHANGED <<slow, session, task, now, clicked>>
    BY <1>8 DEF Acc!Register_create, Acc!Store, Acc!Rest
  <2>2. /\ y \in Acc!Row /\ y.email = e /\ y.is_email_verified = FALSE
        /\ y.is_new_email_confirmed = FALSE /\ y.password = p /\ y.password_changed_date = now
    BY <1>0, Newcomer
  <2> HIDE DEF y
  <2>3. RowFits(u, y, clicked', chosen')
    BY <2>1, <2>2 DEF RowFits
  <2>4. Sent'
    BY <2>1, <2>2, <1>0, MessagesFit, SendFits
  <2>5. Stored'
    <3>1. \A v \in User : account'[v] = None \/ RowFits(v, account'[v], clicked', chosen')
      <4> SUFFICES ASSUME NEW v \in User
                   PROVE  account'[v] = None \/ RowFits(v, account'[v], clicked', chosen')
        OBVIOUS
      <4>1. CASE v = u
        BY <4>1, <2>1, <2>3, <1>0 DEF Stored
      <4>2. CASE v # u
        BY <4>2, <2>1, <1>0, StillFits DEF Stored
      <4> QED BY <4>1, <4>2
    <3> QED BY <3>1, <2>1, <1>0 DEF Stored
  <2>6. Histories'
    BY <2>1, <1>0 DEF Histories, ClicksTyped, SetsTyped, Others
  <2>7. Handled
    BY <2>1, <2>4, <2>5, <2>6 DEF Handled
  <2> QED BY <2>1, <2>7, <1>0, <1>1, OthersStay, WaitingStays
<1>9. ASSUME NEW M, \A m \in M : TokenFits(m), Acc!Answer(M), slow' = slow
      PROVE  AccountsInv'
  <2>1. Handled /\ UNCHANGED <<session, task, now>>
    BY <1>9, <1>0, AnswerFits
  <2> QED BY <2>1, <1>9, <1>0, <1>1, OthersStay, WaitingStays DEF Handled
<1>10. ASSUME NEW u \in User, Acc!ForgotPassword_create(u)
       PROVE  AccountsInv'
  <2>1. account[u] \in Acc!Row
    BY <1>10, <1>0 DEF Acc!ForgotPassword_create, Acc!Users, Stored, RowFits
  <2> QED BY <2>1, <1>9, <1>10, <1>0, MessagesFit DEF Acc!ForgotPassword_create
<1>11. ASSUME NEW u \in User, Acc!SendPreAuth(u)
       PROVE  AccountsInv'
  <2>1. account[u] \in Acc!Row
    BY <1>11, <1>0 DEF Acc!SendPreAuth, Acc!Users, Stored, RowFits
  <2>2. TokenFits(Acc!make_token("pre_auth", u, account[u], account[u].email))
    BY <2>1, <1>0, TokenMade DEF Kinds
  <2> QED BY <2>2, <1>9, <1>11 DEF Acc!SendPreAuth
<1>12. CASE Acc!notify_users_is_password_expired
  <2>1. \A u \in Acc!Users : u \in User /\ account[u] \in Acc!Row
    BY <1>0 DEF Acc!Users, Stored, RowFits
  <2> DEFINE M == UNION {Acc!send_password_expired_email(u, account[u]) :
                         u \in {v \in Acc!Users : Acc!password_expiry_date(account[v]) = now}}
  <2>2. \A m \in M : TokenFits(m)
    BY <2>1, <1>0, MessagesFit
  <2>3. Acc!Answer(M) /\ slow' = slow
    BY <1>12 DEF Acc!notify_users_is_password_expired
  <2> HIDE DEF M
  <2> QED BY <2>2, <2>3, <1>9
<1>13. ASSUME NEW u \in User, NEW p \in Password, Acc!Login(u, p)
       PROVE  AccountsInv'
  <2>1. /\ UNCHANGED <<account, slow, task, now, clicked, chosen>> /\ u \in Acc!Users
        /\ \/ Acc!Send(Acc!send_password_expired_email(u, account[u])) /\ UNCHANGED session
           \/ session' = session \cup {u} /\ UNCHANGED mail
    BY <1>13 DEF Acc!Login, Acc!LoginSerializer, Acc!redirect_if_user_has_expired_password
  <2>2. account[u] \in Acc!Row
    BY <2>1, <1>0 DEF Acc!Users, Stored, RowFits
  <2>3. Sent'
    BY <2>1, <2>2, <1>0, MessagesFit, SendFits DEF Sent
  <2>4. Others'
    BY <2>1, <1>0 DEF Others
  <2>5. Handled
    BY <2>1, <2>3, <1>0 DEF Handled, Stored, Histories
  <2> QED BY <2>1, <2>4, <2>5, <1>0, <1>1, WaitingStays
<1>14. ASSUME NEW u \in User, Acc!PreAuth(u)
       PROVE  AccountsInv'
  <2>1. UNCHANGED <<account, mail, slow, task, now, clicked, chosen>> /\ session' = session \cup {u}
    BY <1>14 DEF Acc!PreAuth
  <2>2. Others'
    BY <2>1, <1>0 DEF Others
  <2> QED BY <2>1, <2>2, <1>0, <1>1, <1>2, WaitingStays
<1>15. ASSUME NEW u \in User, NEW y, NEW S, account[u] # None, account' = [account EXCEPT ![u] = y],
              RowFits(u, y, clicked, chosen \cup S), SetsTyped(S), Sent', chosen' = chosen \cup S,
              UNCHANGED <<slow, session, task, now, clicked>>
       PROVE  AccountsInv'
  <2>1. \A v \in User : account'[v] = None \/ RowFits(v, account'[v], clicked', chosen')
    <3> SUFFICES ASSUME NEW v \in User
                 PROVE  account'[v] = None \/ RowFits(v, account'[v], clicked', chosen')
      OBVIOUS
    <3>1. CASE v = u
      BY <3>1, <1>15, <1>0 DEF Stored
    <3>2. CASE v # u
      BY <3>2, <1>15, <1>0, StillFits DEF Stored
    <3> QED BY <3>1, <3>2
  <2>2. Stored'
    BY <2>1, <1>15, <1>0 DEF Stored
  <2>3. Histories'
    BY <1>15, <1>0 DEF Histories, ClicksTyped, SetsTyped
  <2>4. Handled
    BY <2>2, <2>3, <1>15 DEF Handled
  <2> QED BY <2>4, <1>15, <1>0, <1>1, OthersStay, WaitingStays
<1>16. ASSUME NEW u \in User, Acc!force_expire_password(u)
       PROVE  AccountsInv'
  <2>1. account[u] # None /\ RowFits(u, account[u], clicked, chosen)
    BY <1>16, <1>0 DEF Acc!force_expire_password, Acc!Users, Stored
  <2> DEFINE day == now - (Interval + Slack)
             y == [account[u] EXCEPT !.password_changed_date = day]
  <2>2. /\ account' = [account EXCEPT ![u] = y]
        /\ Acc!Send(Acc!send_password_expired_email(u, account[u]))
        /\ chosen' = chosen \cup {<<u, account[u].password, day>>}
        /\ UNCHANGED <<slow, session, task, now, clicked>>
    BY <1>16 DEF Acc!force_expire_password, Acc!Rest
  <2>3. day \in Int /\ account[u].password \in Password
    BY <2>1, <1>0, AccountAssumption, RowFields DEF Others, RowFits
  <2>4. /\ y \in Acc!Row /\ y.is_email_verified = account[u].is_email_verified
        /\ y.email = account[u].email /\ y.new_email = account[u].new_email
        /\ y.is_new_email_confirmed = account[u].is_new_email_confirmed
        /\ y.password = account[u].password /\ y.password_changed_date = day
    BY <2>1, <2>3 DEF RowFits, Acc!Row
  <2> HIDE DEF y, day
  <2>5. RowFits(u, y, clicked, chosen \cup {<<u, account[u].password, day>>})
    BY <2>1, <2>4 DEF RowFits
  <2>6. SetsTyped({<<u, account[u].password, day>>})
    BY <2>3 DEF SetsTyped
  <2>7. Sent'
    BY <2>1, <2>2, <1>0, MessagesFit, SendFits DEF RowFits
  <2> QED BY <2>1, <2>2, <2>5, <2>6, <2>7, <1>15
<1>17. ASSUME NEW u \in User, NEW a \in BOOLEAN, Acc!save_model(u, a)
       PROVE  AccountsInv'
  <2>1. account[u] # None /\ RowFits(u, account[u], clicked, chosen)
    BY <1>17, <1>0 DEF Acc!save_model, Acc!Users, Stored
  <2> DEFINE y == [account[u] EXCEPT !.is_active = a]
  <2>2. /\ account' = [account EXCEPT ![u] = y]
        /\ UNCHANGED <<mail, slow, session, task, now, clicked, chosen>>
    BY <1>17 DEF Acc!save_model, Acc!Rest
  <2>3. /\ y \in Acc!Row /\ y.is_email_verified = account[u].is_email_verified
        /\ y.email = account[u].email /\ y.new_email = account[u].new_email
        /\ y.is_new_email_confirmed = account[u].is_new_email_confirmed
        /\ y.password = account[u].password
        /\ y.password_changed_date = account[u].password_changed_date
    BY <2>1 DEF RowFits, Acc!Row
  <2> HIDE DEF y
  <2>4. RowFits(u, y, clicked, chosen \cup {}) /\ SetsTyped({}) /\ Sent'
    BY <2>1, <2>2, <2>3, <1>0 DEF RowFits, SetsTyped, Sent
  <2> QED BY <2>1, <2>2, <2>4, <1>15
<1>18. ASSUME NEW t \in task, Acc!anonymize_and_delete_user_task(t)
       PROVE  AccountsInv'
  <2>1. /\ task' = task \ {t} /\ UNCHANGED <<mail, slow, now, clicked, chosen>>
        /\ \/ account' = [account EXCEPT ![t[1]] = None] /\ session' = session \ {t[1]}
           \/ UNCHANGED <<account, session>>
    BY <1>18 DEF Acc!anonymize_and_delete_user_task
  <2>2. Others'
    BY <2>1, <1>0 DEF Others
  <2>3. Stored'
    BY <2>1, <1>0 DEF Stored
  <2>4. Handled
    BY <2>1, <2>3, <1>0 DEF Handled, Sent, Histories
  <2> QED BY <2>1, <2>2, <2>4, <1>0, <1>1, WaitingStays
<1>19. CASE Acc!Day
  <2>1. now < MaxNow /\ now' = now + 1 /\ UNCHANGED <<account, mail, session, slow, task, clicked, chosen>>
    BY <1>19 DEF Acc!Day
  <2>2. Others'
    BY <2>1, <1>0, AccountAssumption DEF Others
  <2> QED BY <2>1, <2>2, <1>0, <1>1, <1>2, WaitingStays
<1> QED BY <1>3, <1>4, <1>5, <1>6, <1>7, <1>8, <1>10, <1>11, <1>12, <1>13, <1>14, <1>16, <1>17,
           <1>18, <1>19 DEF Acc!Next

LEMMA AccountsFollow ==
  ASSUME AccountsInv
  PROVE  Acc!TypeOK /\ Acc!VerifiedProven /\ Acc!PasswordDated
<1>1. Stored /\ Sent /\ Others /\ Waiting /\ Histories
  BY DEF AccountsInv
<1>2. account \in [User -> Acc!Row \cup {None}]
  BY <1>1 DEF Stored, RowFits
<1>3. task \subseteq User \X Nat
  BY <1>1 DEF Others
<1>4. clicked \subseteq User \X Email /\ chosen \subseteq User \X Password \X Int
  BY <1>1 DEF Histories, ClicksTyped, SetsTyped
<1>5. slow \in [user : User, row : Acc!Row, session : BOOLEAN] \cup {None}
  BY <1>1 DEF Waiting
<1>6. Acc!TypeOK
  BY <1>1, <1>2, <1>3, <1>4, <1>5 DEF Acc!TypeOK, Sent, TokenFits, Others
<1>7. Acc!VerifiedProven /\ Acc!PasswordDated
  BY <1>1 DEF Acc!VerifiedProven, Acc!PasswordDated, Acc!Users, Stored, RowFits
<1> QED BY <1>6, <1>7

-----------------------------------------------------------------------------
(* Profiles, organizations, pages and their paths. *)

PathRow(x) ==
  \/ \E q \in Url!Path, p \in Url!Pid : x = <<q, <<"profile", p>>>>
  \/ \E q \in Url!Path, g \in Page : x = <<q, <<"page", g>>>>

\* What a request under way is about
Shaped(r) ==
  /\ r.by \in User /\ Len(r.paths) \in Nat /\ \A i \in 1..Len(r.paths) : r.paths[i] \in Url!Path
  /\ r.kind # "delete" => \A x \in r.old : x[2] = r.target
  /\ r.kind \in {"register", "organization", "profile"} => r.data \in Url!Path /\ Len(r.paths) > 0
  /\ r.kind = "register" => r.target = <<"user", r.by>>
  /\ r.kind = "organization" => \E o \in Organization : r.target = <<"organization", o>>
  /\ r.kind = "profile" => r.target \in Url!Target
  /\ r.kind = "update" => /\ r.data \in Url!ProfileRow /\ \E p \in Url!Pid : r.target = <<"profile", p>>
                          /\ r.paths = <<>> \/ Len(r.paths) > 0
  /\ r.kind = "page" => r.data \in User \cup {None} /\ \E g \in Page : r.target = <<"page", g>>
  /\ r.kind = "delete" => /\ r.data.users \subseteq {r.by}
                          /\ r.data.profiles \subseteq Url!Pid /\ r.data.pages \subseteq Page
                          /\ \A x \in r.old : Url!Goes(x[2], r.data)

\* Two rows of one profile: only the owner of a user's profile may have changed.
Agree(x, y) == x.target = y.target /\ (x.target[1] = "organization" => x.owner = y.owner)

\* An update has loaded a row of its profile, a deletion has collected profiles of no
\* organization and accounts that are closed, and who creates an organization keeps his account
\* or is an exception.
Timely(r) ==
  /\ r.kind = "update" =>
       /\ r.target[2] <= last
       /\ profile[r.target[2]] # None => Agree(r.data, profile[r.target[2]])
  /\ r.kind = "delete" =>
       /\ \A p \in r.data.profiles : /\ p <= last
                                     /\ \A o \in Organization : organization[o] = None \/ organization[o].profile # p
       /\ \A v \in r.data.users : user[v] # None /\ user[v].is_active = FALSE
  /\ r.kind = "organization" =>
       /\ user[r.by] # None
       /\ user[r.by].is_active = TRUE \/ <<"owner", r.by>> \in overlapped

PathsTyped ==
  /\ user \in [User -> Url!UserRow \cup {None}]
  /\ organization \in [Organization -> Url!OrganizationRow \cup {None}]
  /\ page \in [Page -> User \cup {None}] /\ last \in 0..MaxProfile
  /\ profile \in [Url!Pid -> Url!ProfileRow \cup {None}]
  /\ \A p \in Url!Pid : profile[p] # None => p <= last
UrlsFit ==
  /\ \A x \in url : PathRow(x)
  /\ \A x, y \in url : x[1] = y[1] => x = y
RequestsFit ==
  /\ IsFiniteSet(request) /\ Cardinality(request) <= MaxRequest
  /\ \A r \in request : Shaped(r) /\ Timely(r)
  /\ \A r, s \in request :
       r.kind = "update" /\ s.kind = "update" /\ r.target = s.target => Agree(r.data, s.data)
  /\ \A r, s \in request : r.kind = "delete" /\ s.by \in r.data.users => s = r
OwnersKept ==
  \A u \in User, p \in Url!Pid, o \in Organization :
    /\ user[u] # None /\ user[u].is_active = FALSE /\ profile[p] # None /\ profile[p].owner = u
    /\ organization[o] # None /\ organization[o].profile = p
    => <<"owner", u>> \in overlapped
PathsInv ==
  /\ PathsTyped /\ UrlsFit /\ RequestsFit
  /\ Url!PathsLead /\ Url!ProfilesReachable /\ Url!LinksMutual /\ Url!NamesInSync /\ OwnersKept


LEMMA BasesArePaths ==
  ASSUME NEW n \in Base \X {0}
  PROVE  n \in Url!Path
  BY PathAssumption DEF Url!Path

\* The paths a request settles on are paths, one or two
LEMMA PathCreated ==
  ASSUME NEW n, NEW rows, NEW q \in Url!create_url_path(n, rows)
  PROVE  q \in Url!Path
  BY DEF Url!create_url_path, Url!generate_url_path_str

LEMMA OnePath ==
  ASSUME NEW p \in Url!Path
  PROVE  Len(<<p>>) = 1 /\ \A i \in 1..1 : <<p>>[i] \in Url!Path
  OBVIOUS

LEMMA TwoPaths ==
  ASSUME NEW p \in Url!Path, NEW q \in Url!Path
  PROVE  Len(<<p, q>>) = 2 /\ \A i \in 1..2 : <<p, q>>[i] \in Url!Path
  OBVIOUS

LEMMA Chosen ==
  ASSUME NEW n, NEW asked, NEW c \in Url!Choices(n, asked)
  PROVE  Len(c) \in Nat /\ Len(c) > 0 /\ \A i \in 1..Len(c) : c[i] \in Url!Path
<1>1. \/ \E p \in Url!create_url_path(n, url) : c = <<p>>
      \/ \E p \in Url!create_url_path(n, url) :
           \E q \in Url!create_url_path(asked, url \cup {<<p, Url!Nothing>>}) : c = <<p, q>>
  BY DEF Url!Choices
<1>2. (\E p \in Url!Path : c = <<p>>) \/ (\E p, q \in Url!Path : c = <<p, q>>)
  BY <1>1, PathCreated
<1>3. CASE \E p \in Url!Path : c = <<p>>
  <2>1. PICK p \in Url!Path : c = <<p>>
    BY <1>3
  <2> QED BY <2>1, OnePath
<1>4. CASE \E p, q \in Url!Path : c = <<p, q>>
  <2>1. PICK p, q \in Url!Path : c = <<p, q>>
    BY <1>4
  <2> QED BY <2>1, TwoPaths
<1> QED BY <1>2, <1>3, <1>4

-----------------------------------------------------------------------------
\* Requests begin and end; they change nothing else when they only begin or fail.

AllRows == <<user, organization, page, profile, url, last, overlapped>>

LEMMA AllRowsKept ==
  ASSUME PathsInv, UNCHANGED AllRows, RequestsFit'
  PROVE  PathsInv'
<1>1. UNCHANGED <<user, organization, page, profile, url, last, overlapped>>
  BY DEF AllRows
<1>2. PathsTyped' /\ UrlsFit'
  BY <1>1 DEF PathsInv, PathsTyped, UrlsFit
<1>3. Url!Profiles' = Url!Profiles /\ \A t : Url!PathsOf(t)' = Url!PathsOf(t)
  BY <1>1 DEF Url!Profiles, Url!PathsOf
<1>4. Url!PathsLead'
  BY <1>1, <1>3 DEF PathsInv, Url!PathsLead
<1>5. Url!ProfilesReachable'
  BY <1>1, <1>3 DEF PathsInv, Url!ProfilesReachable
<1>6. Url!LinksMutual'
  BY <1>1, <1>3 DEF PathsInv, Url!LinksMutual
<1>7. Url!NamesInSync'
  BY <1>1, <1>3 DEF PathsInv, Url!NamesInSync
<1>8. OwnersKept'
  BY <1>1 DEF PathsInv, OwnersKept
<1> QED BY <1>2, <1>4, <1>5, <1>6, <1>7, <1>8 DEF PathsInv

LEMMA TimelyKept ==
  ASSUME NEW r, Timely(r), UNCHANGED AllRows
  PROVE  Timely(r)'
<1>1. UNCHANGED <<user, organization, profile, last, overlapped>>
  BY DEF AllRows
<1> QED BY <1>1 DEF Timely

LEMMA Begins ==
  ASSUME PathsInv, NEW k, NEW by, NEW t, NEW d, NEW picked, NEW old,
         Url!Begin(k, by, t, d, picked, old),
         LET r == [kind |-> k, by |-> by, target |-> t, data |-> d, paths |-> picked, old |-> old]
         IN /\ Shaped(r) /\ Timely(r)
            /\ k = "update" => \A s \in request : s.kind = "update" /\ s.target = t => Agree(s.data, d),
         \A s \in request : s.kind = "delete" => by \notin s.data.users,
         k = "delete" => \A s \in request : s.by \notin d.users
  PROVE  PathsInv'
<1> DEFINE r == [kind |-> k, by |-> by, target |-> t, data |-> d, paths |-> picked, old |-> old]
<1>1. /\ Cardinality(request) < MaxRequest /\ request' = request \cup {r} /\ UNCHANGED AllRows
  BY SameCardinality DEF Url!Begin, AllRows
<1>2. r.kind = k /\ r.target = t /\ r.data = d /\ r.by = by
  OBVIOUS
<1>3. Shaped(r) /\ Timely(r)
  OBVIOUS
<1>4. k = "update" => \A s \in request : s.kind = "update" /\ s.target = t => Agree(s.data, d)
  OBVIOUS
<1> HIDE DEF r
<1>5. IsFiniteSet(request') /\ Cardinality(request') <= MaxRequest
  <2>1. IsFiniteSet(request) /\ Cardinality(request) \in Nat
    BY FS_CardinalityType DEF PathsInv, RequestsFit
  <2>2. IsFiniteSet(request \cup {r}) /\ Cardinality(request \cup {r}) <= Cardinality(request) + 1
    <3>1. /\ IsFiniteSet(request \cup {r})
          /\ Cardinality(request \cup {r}) = IF r \in request THEN Cardinality(request)
                                             ELSE Cardinality(request) + 1
      BY <2>1, FS_AddElement
    <3> QED BY <2>1, <3>1
  <2>3. IsFiniteSet(request \cup {r}) /\ Cardinality(request \cup {r}) \in Nat
    BY <2>2, FS_CardinalityType
  <2> QED BY <2>1, <2>2, <2>3, <1>1, PathAssumption
<1>6. \A s \in request' : Shaped(s) /\ Timely(s)'
  BY <1>1, <1>3, TimelyKept DEF PathsInv, RequestsFit
<1>7. \A x, y \in request' :
        x.kind = "update" /\ y.kind = "update" /\ x.target = y.target => Agree(x.data, y.data)
  <2>1. \A x, y : Agree(x, y) => Agree(y, x)
    BY DEF Agree
  <2>2. \A x : Agree(x, x)
    BY DEF Agree
  <2> SUFFICES ASSUME NEW x \in request', NEW y \in request', x.kind = "update", y.kind = "update",
                      x.target = y.target
               PROVE  Agree(x.data, y.data)
    OBVIOUS
  <2>3. CASE x \in request /\ y \in request
    BY <2>3 DEF PathsInv, RequestsFit
  <2>4. CASE x = r /\ y = r
    BY <2>4, <2>2
  <2>5. CASE x = r /\ y \in request
    BY <2>5, <2>1, <1>2, <1>4
  <2>6. CASE x \in request /\ y = r
    BY <2>6, <1>2, <1>4
  <2> QED BY <2>3, <2>4, <2>5, <2>6, <1>1
<1>8. \A x, y \in request' : x.kind = "delete" /\ y.by \in x.data.users => y = x
  BY <1>1, <1>2 DEF PathsInv, RequestsFit
<1>9. RequestsFit'
  BY <1>5, <1>6, <1>7, <1>8 DEF RequestsFit
<1> QED BY <1>1, <1>9, AllRowsKept

\* Who has no account yet, or one that is open, is not being deleted.
LEMMA NotGoing ==
  ASSUME PathsInv, NEW u \in User, user[u] = None \/ Url!Active(u)
  PROVE  \A s \in request : s.kind = "delete" => u \notin s.data.users
<1>1. user[u] = None \/ user[u].is_active # FALSE
  BY DEF Url!Active
<1> QED BY <1>1 DEF PathsInv, RequestsFit, Timely

\* What is left of the requests when one of them ends
LEMMA Ends ==
  ASSUME RequestsFit, NEW r \in request, request' = request \ {r},
         \A s \in request \ {r} : Shaped(s) /\ Timely(s) => Timely(s)'
  PROVE  RequestsFit'
<1>1. IsFiniteSet(request \ {r}) /\ Cardinality(request \ {r}) <= MaxRequest
  <2>1. IsFiniteSet(request) /\ Cardinality(request) \in Nat /\ Cardinality(request) <= MaxRequest
    BY FS_CardinalityType DEF RequestsFit
  <2>2. IsFiniteSet(request \ {r}) /\ Cardinality(request \ {r}) = Cardinality(request) - 1
    BY <2>1, FS_RemoveElement
  <2> QED BY <2>1, <2>2, PathAssumption
<1> QED BY <1>1 DEF RequestsFit

LEMMA FailStep ==
  ASSUME PathsInv, NEW r \in request, Url!Fail(r)
  PROVE  PathsInv'
<1>1. request' = request \ {r} /\ UNCHANGED AllRows
  BY DEF Url!Fail, Url!End, AllRows
<1>2. RequestsFit'
  BY <1>1, Ends, TimelyKept DEF PathsInv
<1> QED BY <1>1, <1>2, AllRowsKept

LEMMA TargetsAre ==
  /\ Url!Nothing \in Url!Target
  /\ \A u \in User : <<"user", u>> \in Url!Target
  /\ \A o \in Organization : <<"organization", o>> \in Url!Target
  BY DEF Url!Target

LEMMA RegisterStep ==
  ASSUME PathsInv, NEW u \in User, NEW n \in Base \X {0}, Url!Register(u, n)
  PROVE  PathsInv'
<1>1. PICK picked \in Url!Choices(n, None) : Url!Begin("register", u, <<"user", u>>, n, picked, {})
  BY DEF Url!Register
<1>2. n \in Url!Path /\ Len(picked) \in Nat /\ Len(picked) > 0 /\ \A i \in 1..Len(picked) : picked[i] \in Url!Path
  BY BasesArePaths, Chosen
<1> DEFINE r == [kind |-> "register", by |-> u, target |-> <<"user", u>>, data |-> n, paths |-> picked, old |-> {}]
<1>3. Shaped(r) /\ Timely(r)
  BY <1>2 DEF Shaped, Timely
<1>4. \A s \in request : s.kind = "delete" => u \notin s.data.users
  BY NotGoing DEF Url!Register
<1> QED BY <1>1, <1>3, <1>4, Begins

LEMMA ProfileCreateStep ==
  ASSUME PathsInv, NEW u \in User, NEW n \in Base \X {0}, NEW asked,
         NEW t \in {Url!Nothing} \cup {<<"user", v>> : v \in User}, Url!ProfileCreate(u, t, n, asked)
  PROVE  PathsInv'
<1>1. PICK picked \in Url!Choices(n, asked) : Url!Begin("profile", u, t, n, picked, {})
  BY DEF Url!ProfileCreate
<1>2. n \in Url!Path /\ Len(picked) \in Nat /\ Len(picked) > 0 /\ \A i \in 1..Len(picked) : picked[i] \in Url!Path
  BY BasesArePaths, Chosen
<1>3. t \in Url!Target
  BY TargetsAre
<1> DEFINE r == [kind |-> "profile", by |-> u, target |-> t, data |-> n, paths |-> picked, old |-> {}]
<1>4. Shaped(r) /\ Timely(r)
  BY <1>2, <1>3 DEF Shaped, Timely
<1>5. \A s \in request : s.kind = "delete" => u \notin s.data.users
  BY NotGoing DEF Url!ProfileCreate
<1> QED BY <1>1, <1>4, <1>5, Begins

LEMMA OrganizationCreateStep ==
  ASSUME PathsInv, NEW u \in User, NEW o \in Organization, NEW n \in Base \X {0}, NEW asked,
         Url!OrganizationCreate(u, o, n, asked)
  PROVE  PathsInv'
<1>0. user[u] # None /\ user[u].is_active = TRUE /\ organization[o] = None
  BY DEF Url!OrganizationCreate, Url!Active, PathsInv, PathsTyped, Url!UserRow
<1>1. CASE \E picked \in Url!Choices(n, asked) : Url!Begin("organization", u, <<"organization", o>>, n, picked, {})
  <2>1. PICK picked \in Url!Choices(n, asked) : Url!Begin("organization", u, <<"organization", o>>, n, picked, {})
    BY <1>1
  <2>2. n \in Url!Path /\ Len(picked) \in Nat /\ Len(picked) > 0 /\ \A i \in 1..Len(picked) : picked[i] \in Url!Path
    BY BasesArePaths, Chosen
  <2> DEFINE r == [kind |-> "organization", by |-> u, target |-> <<"organization", o>>, data |-> n,
                   paths |-> picked, old |-> {}]
  <2>3. Shaped(r) /\ Timely(r)
    BY <2>2, <1>0 DEF Shaped, Timely
  <2>4. \A s \in request : s.kind = "delete" => u \notin s.data.users
    BY NotGoing DEF Url!OrganizationCreate
  <2> QED BY <2>1, <2>3, <2>4, Begins
<1>2. CASE /\ organization' = [organization EXCEPT ![o] = [profile |-> None]]
           /\ UNCHANGED <<user, page, profile, url, request, last, overlapped>>
  <2>1. [profile |-> None] \in Url!OrganizationRow
    BY DEF Url!OrganizationRow
  <2>2. PathsTyped'
    BY <1>2, <2>1 DEF PathsInv, PathsTyped
  <2>3. \A p \in Url!Pid : p # None
    BY PathAssumption, NoneAssumption DEF Url!Pid
  <2>4. UrlsFit'
    BY <1>2 DEF PathsInv, UrlsFit
  <2>5. \A r \in request : Timely(r) /\ Shaped(r) => Timely(r)'
    BY <1>2, <2>1, <2>3 DEF Timely, Shaped, PathsInv, PathsTyped
  <2>6. RequestsFit'
    BY <1>2, <2>5 DEF PathsInv, RequestsFit
  <2>7. Url!Profiles' = Url!Profiles /\ \A t : Url!PathsOf(t)' = Url!PathsOf(t)
    BY <1>2 DEF Url!Profiles, Url!PathsOf
  <2>8. Url!PathsLead'
    BY <1>2, <2>7 DEF PathsInv, Url!PathsLead
  <2>9. Url!ProfilesReachable'
    BY <1>2, <2>7 DEF PathsInv, Url!ProfilesReachable
  <2>10. Url!LinksMutual'
    BY <1>2, <2>7 DEF PathsInv, PathsTyped, Url!LinksMutual
  <2>11. Url!NamesInSync'
    BY <1>2 DEF PathsInv, Url!NamesInSync
  <2>12. OwnersKept'
    BY <1>2, <2>3 DEF PathsInv, PathsTyped, OwnersKept
  <2> QED BY <2>2, <2>4, <2>6, <2>8, <2>9, <2>10, <2>11, <2>12 DEF PathsInv
<1> QED BY <1>1, <1>2 DEF Url!OrganizationCreate

LEMMA Loaded ==
  ASSUME PathsTyped, NEW p \in Url!Profiles
  PROVE  p \in Url!Pid /\ profile[p] # None /\ profile[p] \in Url!ProfileRow /\ p <= last
  BY DEF PathsTyped, Url!Profiles

LEMMA ProfileUpdateStep ==
  ASSUME PathsInv, NEW u \in User, NEW p \in Url!Profiles, NEW asked, Url!ProfileUpdate(u, p, asked)
  PROVE  PathsInv'
<1> DEFINE t == <<"profile", p>>
           old == IF asked = None THEN {} ELSE Url!PathsOf(t)
<1>1. PICK picked : /\ picked = <<>> \/ \E q \in Url!create_url_path(asked, url \ old) : picked = <<q>>
                   /\ Url!Begin("update", u, t, profile[p], picked, old)
  BY DEF Url!ProfileUpdate
<1>2. /\ Len(picked) \in Nat /\ \A i \in 1..Len(picked) : picked[i] \in Url!Path
      /\ picked = <<>> \/ Len(picked) > 0
  <2>1. CASE picked = <<>>
    BY <2>1
  <2>2. CASE \E q \in Url!create_url_path(asked, url \ old) : picked = <<q>>
    <3>1. PICK q \in Url!create_url_path(asked, url \ old) : picked = <<q>>
      BY <2>2
    <3>2. q \in Url!Path
      BY PathCreated
    <3> QED BY <3>1, <3>2, OnePath
  <2> QED BY <1>1, <2>1, <2>2
<1>3. p \in Url!Pid /\ profile[p] # None /\ profile[p] \in Url!ProfileRow /\ p <= last
  BY Loaded DEF PathsInv
<1>4. \A x \in old : x[2] = t
  BY DEF Url!PathsOf
<1>5. Agree(profile[p], profile[p])
  BY DEF Agree
<1>6. t[1] = "profile" /\ t[2] = p
  OBVIOUS
<1>7. \A s \in request : s.kind = "update" /\ s.target = t => Agree(s.data, profile[p])
  BY <1>3, <1>6 DEF PathsInv, RequestsFit, Timely
<1>10. \A s \in request : s.kind = "delete" => u \notin s.data.users
  BY NotGoing DEF Url!ProfileUpdate, Url!May
<1> HIDE DEF t, old
<1> DEFINE d == profile[p]
           r == [kind |-> "update", by |-> u, target |-> t, data |-> d, paths |-> picked, old |-> old]
<1>8. Shaped(r)
  BY <1>2, <1>3, <1>4 DEF Shaped, t
<1>9. Timely(r)
  BY <1>3, <1>5, <1>6 DEF Timely
<1> QED BY <1>1, <1>7, <1>8, <1>9, <1>10, Begins

\* A deletion that has collected what goes
LEMMA CollectStep ==
  ASSUME PathsInv, NEW by \in User, NEW t, NEW d, Url!Collect(by, t, d),
         d.users \subseteq {by}, d.profiles \subseteq Url!Profiles, d.pages \subseteq Page,
         \A v \in d.users : user[v] # None /\ user[v].is_active = FALSE,
         \A s \in request : s.kind = "delete" => by \notin s.data.users,
         \A s \in request : s.by \notin d.users
  PROVE  PathsInv'
<1> DEFINE old == {x \in url : Url!Goes(x[2], d)}
<1>1. Url!Begin("delete", by, t, d, <<>>, old) /\ \A p \in d.profiles : ~Url!Linked(p)
  BY DEF Url!Collect
<1>2. \A x \in old : Url!Goes(x[2], d)
  OBVIOUS
<1>3. \A p \in d.profiles : p \in Url!Pid /\ p <= last
  BY Loaded DEF PathsInv
<1>4. \A p \in d.profiles, o \in Organization : organization[o] = None \/ organization[o].profile # p
  BY <1>1 DEF Url!Linked
<1> HIDE DEF old
<1> DEFINE r == [kind |-> "delete", by |-> by, target |-> t, data |-> d, paths |-> <<>>, old |-> old]
<1>5. Shaped(r)
  BY <1>2, <1>3 DEF Shaped
<1>6. Timely(r)
  BY <1>3, <1>4 DEF Timely
<1> QED BY <1>1, <1>5, <1>6, Begins

LEMMA ProfileDeleteStep ==
  ASSUME PathsInv, NEW u \in User, NEW p \in Url!Profiles, Url!ProfileDelete(u, p)
  PROVE  PathsInv'
<1> DEFINE d == [users |-> {}, profiles |-> {p}, pages |-> {}]
<1>1. Url!Collect(u, <<"profile", p>>, d)
  BY DEF Url!ProfileDelete
<1>2. d.users = {} /\ d.profiles = {p} /\ d.pages = {}
  OBVIOUS
<1>3. \A s \in request : s.kind = "delete" => u \notin s.data.users
  BY NotGoing DEF Url!ProfileDelete, Url!May
<1> HIDE DEF d
<1> QED BY <1>1, <1>2, <1>3, CollectStep

LEMMA DeleteNodeStep ==
  ASSUME PathsInv, NEW u \in User, NEW g \in Page, Url!DeleteNode(u, g)
  PROVE  PathsInv'
<1> DEFINE d == [users |-> {}, profiles |-> {}, pages |-> {g}]
<1>1. Url!Collect(u, <<"page", g>>, d)
  BY DEF Url!DeleteNode
<1>2. d.users = {} /\ d.profiles = {} /\ d.pages = {g}
  OBVIOUS
<1>3. \A s \in request : s.kind = "delete" => u \notin s.data.users
  BY NotGoing DEF Url!DeleteNode, Url!May
<1> HIDE DEF d
<1> QED BY <1>1, <1>2, <1>3, CollectStep

LEMMA AnonymizeStep ==
  ASSUME PathsInv, NEW u \in User, Url!anonymize_and_delete_user_task(u)
  PROVE  PathsInv'
<1> DEFINE d == [users |-> {u}, profiles |-> {p \in Url!Profiles : profile[p].owner = u},
                 pages |-> {g \in Page : page[g] = u}]
<1>1. /\ Url!Collect(u, <<"user", u>>, d)
      /\ user[u] # None /\ ~user[u].is_active /\ \A s \in request : s.by # u
  BY DEF Url!anonymize_and_delete_user_task
<1>2. d.users = {u} /\ d.profiles \subseteq Url!Profiles /\ d.pages \subseteq Page
  OBVIOUS
<1>3. \A s \in request : s.kind = "delete" => u \notin s.data.users
  BY <1>1 DEF PathsInv, RequestsFit, Shaped
<1>4. user[u].is_active = FALSE
  BY <1>1 DEF PathsInv, PathsTyped, Url!UserRow
<1> HIDE DEF d
<1> QED BY <1>1, <1>2, <1>3, <1>4, CollectStep

LEMMA PageSaveStep ==
  ASSUME PathsInv, NEW u \in User, NEW g \in Page, NEW q \in Url!Path, Url!PageSave(u, g, q)
  PROVE  PathsInv'
<1> DEFINE picked == <<q>>
           d == page[g]
<1>1. Url!Begin("page", u, <<"page", g>>, d, picked, {})
  BY DEF Url!PageSave
<1>2. Len(picked) \in Nat /\ \A i \in 1..Len(picked) : picked[i] \in Url!Path
  BY OnePath
<1>3. d \in User \cup {None}
  BY DEF PathsInv, PathsTyped
<1>4. \A s \in request : s.kind = "delete" => u \notin s.data.users
  BY NotGoing DEF Url!PageSave, Url!May
<1> HIDE DEF picked, d
<1> DEFINE r == [kind |-> "page", by |-> u, target |-> <<"page", g>>, data |-> d, paths |-> picked, old |-> {}]
<1>5. Shaped(r) /\ Timely(r)
  BY <1>2, <1>3 DEF Shaped, Timely
<1> QED BY <1>1, <1>4, <1>5, Begins

-----------------------------------------------------------------------------
\* What the paths of a request do to those there are, ...
LEMMA Written ==
  ASSUME UrlsFit, NEW r, Shaped(r), NEW t,
         (\E p \in Url!Pid : t = <<"profile", p>>) \/ (\E g \in Page : t = <<"page", g>>),
         NEW gone, Url!Fits(r, gone), Url!Write(r, t, gone)
  PROVE  /\ UrlsFit'
         /\ \A x \in url' : (x \in url /\ x \notin gone) \/ x[2] = t
         /\ \A x \in url : x \notin gone => x \in url'
         /\ Len(r.paths) > 0 => \E x \in url' : x[2] = t
<1>1. /\ \A x \in url' : (x \in url /\ x \notin gone) \/ \E i \in 1..Len(r.paths) : x = <<r.paths[i], t>>
      /\ \A x \in url : x \notin gone => x \in url'
      /\ \A i \in 1..Len(r.paths) : <<r.paths[i], t>> \in url'
  BY DEF Url!Write
<1>2. \A i \in 1..Len(r.paths) : r.paths[i] \in Url!Path /\ \A x \in url : x \notin gone => x[1] # r.paths[i]
  BY DEF Url!Fits, Url!Taken, Shaped
<1>3. \A x \in url' : PathRow(x)
  <2> SUFFICES ASSUME NEW x \in url' PROVE PathRow(x)
    OBVIOUS
  <2>1. CASE x \in url
    BY <2>1 DEF UrlsFit
  <2>2. CASE \E i \in 1..Len(r.paths) : x = <<r.paths[i], t>>
    BY <2>2, <1>2 DEF PathRow
  <2> QED BY <2>1, <2>2, <1>1
<1>4. \A i \in 1..Len(r.paths) : <<r.paths[i], t>>[1] = r.paths[i] /\ <<r.paths[i], t>>[2] = t
  OBVIOUS
<1>5. \A x, y \in url' : x[1] = y[1] => x = y
  BY <1>1, <1>2, <1>4 DEF UrlsFit
<1>6. Len(r.paths) > 0 => \E x \in url' : x[2] = t
  <2> SUFFICES ASSUME Len(r.paths) > 0 PROVE \E x \in url' : x[2] = t
    OBVIOUS
  <2>1. 1 \in 1..Len(r.paths)
    BY DEF Shaped
  <2>2. <<r.paths[1], t>> \in url' /\ <<r.paths[1], t>>[2] = t
    BY <2>1, <1>1
  <2> QED BY <2>2
<1> QED BY <1>1, <1>3, <1>4, <1>5, <1>6 DEF UrlsFit

\* ... and what follows when they are those of a profile that is saved
LEMMA Placed ==
  ASSUME PathsInv, NEW r, Shaped(r), NEW p \in Url!Pid, NEW x \in Url!ProfileRow, NEW gone,
         profile' = [profile EXCEPT ![p] = x], page' = page, overlapped \subseteq overlapped',
         \A y \in gone : y[2] = <<"profile", p>>,
         Url!Fits(r, gone), Url!Write(r, <<"profile", p>>, gone),
         Len(r.paths) > 0 \/ (gone = {} /\ (p \in Url!Profiles \/ <<"gone", p>> \in overlapped'))
  PROVE  UrlsFit' /\ Url!PathsLead' /\ Url!ProfilesReachable'
<1> DEFINE t == <<"profile", p>>
<1>0. t[1] = "profile" /\ t[2] = p
  OBVIOUS
<1>1. /\ UrlsFit'
      /\ \A y \in url' : (y \in url /\ y \notin gone) \/ y[2] = t
      /\ \A y \in url : y \notin gone => y \in url'
      /\ Len(r.paths) > 0 => \E y \in url' : y[2] = t
  BY Written DEF PathsInv
<1>2. \A q \in Url!Pid : profile'[q] = IF q = p THEN x ELSE profile[q]
  BY DEF PathsInv, PathsTyped
<1>3. x # None
  BY PathAssumption
<1>4. /\ p \in Url!Profiles' /\ \A q \in Url!Profiles : q \in Url!Profiles'
      /\ \A q \in Url!Profiles' : q \in Url!Profiles \/ q = p
  BY <1>2, <1>3 DEF Url!Profiles
<1>5. \A y \in gone : y[2] = t
  OBVIOUS
<1> HIDE DEF t
<1>6. Url!PathsLead'
  BY <1>0, <1>1, <1>4 DEF PathsInv, Url!PathsLead
<1>7. Url!ProfilesReachable'
  <2> SUFFICES ASSUME NEW q \in Url!Profiles'
               PROVE  (\E y \in url' : y[2] = <<"profile", q>>) \/ <<"gone", q>> \in overlapped'
    BY DEF Url!ProfilesReachable, Url!PathsOf
  <2>1. CASE q = p
    <3>1. CASE Len(r.paths) > 0
      BY <3>1, <2>1, <1>1 DEF t
    <3>2. CASE gone = {} /\ p \in Url!Profiles
      BY <3>2, <2>1, <1>1 DEF PathsInv, Url!ProfilesReachable, Url!PathsOf
    <3> QED BY <3>1, <3>2, <2>1
  <2>2. CASE q # p
    <3>1. q \in Url!Profiles
      BY <2>2, <1>4
    <3>2. (\E y \in url : y[2] = <<"profile", q>>) \/ <<"gone", q>> \in overlapped
      BY <3>1 DEF PathsInv, Url!ProfilesReachable, Url!PathsOf
    <3>3. <<"profile", q>> # t
      BY <2>2 DEF t
    <3> QED BY <3>2, <3>3, <1>1, <1>5
  <2> QED BY <2>1, <2>2
<1> QED BY <1>1, <1>6, <1>7

\* A profile that is new
LEMMA NumberFree ==
  ASSUME PathsInv, last + 1 \in Url!Pid
  PROVE  /\ profile[last + 1] = None
         /\ \A u \in User : user[u] # None => user[u].profile # last + 1
         /\ \A o \in Organization : organization[o] # None => organization[o].profile # last + 1
<1>1. last \in Nat /\ None # last + 1
  BY PathAssumption, NoneAssumption DEF PathsInv, PathsTyped
<1>2. profile[last + 1] = None
  BY <1>1 DEF PathsInv, PathsTyped
<1>3. last + 1 \notin Url!Profiles
  BY <1>2 DEF Url!Profiles
<1> QED BY <1>1, <1>2, <1>3 DEF PathsInv, Url!LinksMutual

\* The row that is saved when a profile is made
LEMMA Inserted ==
  ASSUME PathsTyped, NEW p \in Url!Pid, NEW u \in User, NEW t \in Url!Target, NEW n \in Url!Path,
         Url!Insert(p, u, t, n), p <= last + 1
  PROVE  \E x \in Url!ProfileRow : /\ x.owner = u /\ x.target = t /\ x.name = n
                          /\ profile' = [profile EXCEPT ![p] = x]
                          /\ last' \in 0..MaxProfile /\ last <= last' /\ p <= last'
                          /\ profile' \in [Url!Pid -> Url!ProfileRow \cup {None}]
                          /\ \A q \in Url!Pid : profile'[q] # None => q <= last'
<1> DEFINE x == [owner |-> u, target |-> t, name |-> n]
<1>1. x \in Url!ProfileRow /\ x.owner = u /\ x.target = t /\ x.name = n
  BY DEF Url!ProfileRow
<1>2. profile' = [profile EXCEPT ![p] = x] /\ last' = IF p > last THEN p ELSE last
  BY DEF Url!Insert
<1> HIDE DEF x
<1>3. last' \in 0..MaxProfile /\ last <= last' /\ p <= last'
  BY <1>2, PathAssumption DEF PathsTyped, Url!Pid
<1>4. profile' \in [Url!Pid -> Url!ProfileRow \cup {None}]
  BY <1>1, <1>2 DEF PathsTyped
<1>5. \A q \in Url!Pid : profile'[q] # None => q <= last'
  BY <1>2, <1>3, PathAssumption DEF PathsTyped, Url!Pid
<1> QED BY <1>1, <1>2, <1>3, <1>4, <1>5

LEMMA ProfileCreateSaveStep ==
  ASSUME PathsInv, NEW r \in request, r.kind = "profile", Url!ProfileCreate_save(r)
  PROVE  PathsInv'
<1> DEFINE p == last + 1
<1>1. /\ p \in Url!Pid /\ Url!Fits(r, {}) /\ Url!Insert(p, r.by, r.target, r.data)
      /\ Url!Write(r, <<"profile", p>>, {}) /\ request' = request \ {r}
      /\ UNCHANGED <<user, organization, page, overlapped>>
  BY DEF Url!ProfileCreate_save, Url!End
<1>2. Shaped(r) /\ r.by \in User /\ r.target \in Url!Target /\ r.data \in Url!Path /\ Len(r.paths) > 0
  BY DEF PathsInv, RequestsFit, Shaped
<1>3. p <= last + 1
  BY DEF PathsInv, PathsTyped
<1>4. PICK x \in Url!ProfileRow : /\ x.owner = r.by /\ x.target = r.target /\ x.name = r.data
                         /\ profile' = [profile EXCEPT ![p] = x]
                         /\ last' \in 0..MaxProfile /\ last <= last' /\ p <= last'
                         /\ profile' \in [Url!Pid -> Url!ProfileRow \cup {None}]
                         /\ \A q \in Url!Pid : profile'[q] # None => q <= last'
  BY <1>1, <1>2, <1>3, Inserted DEF PathsInv
<1>5. /\ profile[p] = None
      /\ \A u \in User : user[u] # None => user[u].profile # p
      /\ \A o \in Organization : organization[o] # None => organization[o].profile # p
  BY <1>1, NumberFree
<1>6. p > last
  BY DEF PathsInv, PathsTyped
<1>7. UrlsFit' /\ Url!PathsLead' /\ Url!ProfilesReachable'
  BY <1>1, <1>2, <1>4, Placed
<1>8. \A q \in Url!Pid : profile'[q] = IF q = p THEN x ELSE profile[q]
  BY <1>4 DEF PathsInv, PathsTyped
<1> HIDE DEF p
<1>9. PathsTyped'
  BY <1>1, <1>4 DEF PathsInv, PathsTyped
<1>10. RequestsFit'
  <2> SUFFICES ASSUME NEW s \in request, Shaped(s), Timely(s) PROVE Timely(s)'
    BY <1>1, Ends DEF PathsInv
  <2>1. s.kind = "update" => s.target[2] \in Url!Pid
    BY DEF Shaped
  <2>2. s.kind = "delete" => \A q \in s.data.profiles :
          q <= last' /\ \A i \in Organization : organization'[i] = None \/ organization'[i].profile # q
    <3> SUFFICES ASSUME s.kind = "delete", NEW q \in s.data.profiles
                 PROVE  q <= last' /\ \A i \in Organization : organization'[i] = None \/ organization'[i].profile # q
      OBVIOUS
    <3>1. q \in Nat /\ last \in Nat /\ last' \in Nat /\ q <= last
      BY <1>1, <1>4, PathAssumption DEF Shaped, Timely, Url!Pid, PathsInv, PathsTyped
    <3>2. q <= last'
      BY <3>1, <1>4
    <3>3. \A i \in Organization : organization'[i] = None \/ organization'[i].profile # q
      BY <1>1 DEF Timely
    <3> QED BY <3>2, <3>3
  <2>3. s.kind = "delete" => \A v \in s.data.users : user'[v] # None /\ user'[v].is_active = FALSE
    BY <1>1 DEF Timely
  <2>4. s.kind = "update" =>
          s.target[2] <= last' /\ (profile'[s.target[2]] # None => Agree(s.data, profile'[s.target[2]]))
    BY <2>1, <1>1, <1>4, <1>6, <1>8 DEF Timely, PathsInv, PathsTyped, Url!Pid
  <2>5. s.kind = "organization" =>
          user'[s.by] # None /\ (user'[s.by].is_active = TRUE \/ <<"owner", s.by>> \in overlapped')
    BY <1>1 DEF Timely
  <2> QED BY <2>2, <2>3, <2>4, <2>5 DEF Timely
<1>11. \A q \in Url!Profiles : q \in Url!Pid /\ q # p /\ profile'[q] = profile[q] /\ q \in Url!Profiles'
  BY <1>5, <1>8 DEF Url!Profiles
<1>12. Url!LinksMutual'
  BY <1>1, <1>11 DEF PathsInv, Url!LinksMutual
<1>13. Url!NamesInSync'
  BY <1>1, <1>11 DEF PathsInv, Url!NamesInSync, Url!LinksMutual
<1>14. OwnersKept'
  BY <1>1, <1>5, <1>8 DEF PathsInv, OwnersKept
<1> QED BY <1>7, <1>9, <1>10, <1>12, <1>13, <1>14 DEF PathsInv

LEMMA CreateOrganizationStep ==
  ASSUME PathsInv, NEW r \in request, r.kind = "organization", Url!CreateOrganization(r)
  PROVE  PathsInv'
<1> DEFINE p == last + 1
<1>0. PICK o \in Organization : r.target = <<"organization", o>>
  BY DEF PathsInv, RequestsFit, Shaped
<1>1. /\ p \in Url!Pid /\ Url!Fits(r, {}) /\ Url!Insert(p, r.by, r.target, r.data)
      /\ organization[o] = None /\ organization' = [organization EXCEPT ![o] = [profile |-> p]]
      /\ Url!Write(r, <<"profile", p>>, {}) /\ request' = request \ {r}
      /\ UNCHANGED <<user, page, overlapped>>
  BY <1>0 DEF Url!CreateOrganization, Url!End
<1>2. Shaped(r) /\ r.by \in User /\ r.target \in Url!Target /\ r.data \in Url!Path /\ Len(r.paths) > 0
  BY <1>0, TargetsAre DEF PathsInv, RequestsFit, Shaped
<1>3. p <= last + 1 /\ p > last
  BY DEF PathsInv, PathsTyped
<1>4. PICK x \in Url!ProfileRow : /\ x.owner = r.by /\ x.target = r.target /\ x.name = r.data
                         /\ profile' = [profile EXCEPT ![p] = x]
                         /\ last' \in 0..MaxProfile /\ last <= last' /\ p <= last'
                         /\ profile' \in [Url!Pid -> Url!ProfileRow \cup {None}]
                         /\ \A q \in Url!Pid : profile'[q] # None => q <= last'
  BY <1>1, <1>2, <1>3, Inserted DEF PathsInv
<1>5. /\ profile[p] = None
      /\ \A u \in User : user[u] # None => user[u].profile # p
      /\ \A i \in Organization : organization[i] # None => organization[i].profile # p
  BY <1>1, NumberFree
<1>6. user[r.by].is_active = TRUE \/ <<"owner", r.by>> \in overlapped
  BY DEF PathsInv, RequestsFit, Timely
<1>7. UrlsFit' /\ Url!PathsLead' /\ Url!ProfilesReachable'
  BY <1>1, <1>2, <1>4, Placed
<1>8. /\ \A q \in Url!Pid : profile'[q] = IF q = p THEN x ELSE profile[q]
      /\ \A i \in Organization : organization'[i] = IF i = o THEN [profile |-> p] ELSE organization[i]
  BY <1>1, <1>4 DEF PathsInv, PathsTyped
<1> HIDE DEF p
<1>9. PathsTyped'
  <2>1. [profile |-> p] \in Url!OrganizationRow
    BY <1>1 DEF Url!OrganizationRow
  <2> QED BY <2>1, <1>1, <1>4 DEF PathsInv, PathsTyped
<1>10. RequestsFit'
  <2> SUFFICES ASSUME NEW s \in request, Shaped(s), Timely(s) PROVE Timely(s)'
    BY <1>1, Ends DEF PathsInv
  <2>1. s.kind = "update" => s.target[2] \in Url!Pid
    BY DEF Shaped
  <2>2. s.kind = "delete" => \A q \in s.data.profiles :
          q <= last' /\ \A i \in Organization : organization'[i] = None \/ organization'[i].profile # q
    <3> SUFFICES ASSUME s.kind = "delete", NEW q \in s.data.profiles
                 PROVE  q <= last' /\ \A i \in Organization : organization'[i] = None \/ organization'[i].profile # q
      OBVIOUS
    <3>1. q \in Nat /\ last \in Nat /\ last' \in Nat /\ q <= last
      BY <1>1, <1>4, PathAssumption DEF Shaped, Timely, Url!Pid, PathsInv, PathsTyped
    <3>2. q <= last'
      BY <3>1, <1>4
    <3>3. \A i \in Organization : organization'[i] = None \/ organization'[i].profile # q
      <4>1. q # p
        BY <3>1, <1>3
      <4>2. [profile |-> p].profile = p
        OBVIOUS
      <4> QED BY <4>1, <4>2, <1>8 DEF Timely
    <3> QED BY <3>2, <3>3
  <2>3. s.kind = "delete" => \A v \in s.data.users : user'[v] # None /\ user'[v].is_active = FALSE
    BY <1>1 DEF Timely
  <2>4. s.kind = "update" =>
          s.target[2] <= last' /\ (profile'[s.target[2]] # None => Agree(s.data, profile'[s.target[2]]))
    BY <2>1, <1>1, <1>3, <1>4, <1>8 DEF Timely, PathsInv, PathsTyped, Url!Pid
  <2>5. s.kind = "organization" =>
          user'[s.by] # None /\ (user'[s.by].is_active = TRUE \/ <<"owner", s.by>> \in overlapped')
    BY <1>1 DEF Timely
  <2> QED BY <2>2, <2>3, <2>4, <2>5 DEF Timely
<1>11. \A q \in Url!Profiles : q \in Url!Pid /\ q # p /\ profile'[q] = profile[q] /\ q \in Url!Profiles'
  BY <1>5, <1>8 DEF Url!Profiles
<1>12. Url!LinksMutual'
  <2>1. x # None /\ p \in Url!Profiles'
    BY <1>1, <1>8, PathAssumption DEF Url!Profiles
  <2>2. ASSUME NEW u \in User, user'[u] # None, user'[u].profile # None
        PROVE  /\ user'[u].profile \in Url!Profiles' /\ profile'[user'[u].profile].target = <<"user", u>>
               /\ (profile'[user'[u].profile].owner = u \/ <<"owned", user'[u].profile>> \in overlapped')
    BY <2>2, <1>1, <1>11 DEF PathsInv, Url!LinksMutual
  <2>3. ASSUME NEW i \in Organization, organization'[i] # None, organization'[i].profile # None
        PROVE  organization'[i].profile \in Url!Profiles' /\ profile'[organization'[i].profile].target = <<"organization", i>>
    <3>1. CASE i = o
      BY <3>1, <2>1, <1>0, <1>1, <1>4, <1>8
    <3>2. CASE i # o
      BY <3>2, <2>3, <1>8, <1>11 DEF PathsInv, Url!LinksMutual
    <3> QED BY <3>1, <3>2
  <2> QED BY <2>2, <2>3 DEF Url!LinksMutual
<1>13. Url!NamesInSync'
  BY <1>1, <1>11 DEF PathsInv, Url!NamesInSync, Url!LinksMutual
<1>14. OwnersKept'
  <2> SUFFICES ASSUME NEW u \in User, NEW q \in Url!Pid, NEW i \in Organization,
                      user[u] # None, user[u].is_active = FALSE, profile'[q] # None, profile'[q].owner = u,
                      organization'[i] # None, organization'[i].profile = q
               PROVE  <<"owner", u>> \in overlapped
    BY <1>1 DEF OwnersKept
  <2>1. CASE i = o
    <3>1. q = p
      BY <2>1, <1>8
    <3>2. u = r.by
      BY <3>1, <1>4, <1>8
    <3> QED BY <3>2, <1>6
  <2>2. CASE i # o
    BY <2>2, <1>5, <1>8 DEF PathsInv, OwnersKept
  <2> QED BY <2>1, <2>2
<1> QED BY <1>7, <1>9, <1>10, <1>12, <1>13, <1>14 DEF PathsInv

\* A profile that a user gets: one that was made for him before, or a new one
LEMMA CreateProfileStep ==
  ASSUME PathsInv, NEW r \in request, r.kind = "register", Url!CreateProfile(r)
  PROVE  PathsInv'
<1> DEFINE u == r.by
<1>0. /\ Shaped(r) /\ u \in User /\ r.target = <<"user", u>> /\ r.target \in Url!Target /\ r.data \in Url!Path
      /\ Len(r.paths) > 0
  BY TargetsAre DEF PathsInv, RequestsFit, Shaped
<1>1. PICK p \in Url!Pid :
        /\ (p \in Url!Profiles /\ profile[p].target = r.target) \/ p = last + 1
        /\ user[u] = None /\ Url!Fits(r, {}) /\ Url!Insert(p, u, r.target, r.data)
        /\ user' = [user EXCEPT ![u] = [profile |-> p, name |-> r.data, is_active |-> TRUE]]
        /\ Url!Write(r, <<"profile", p>>, {}) /\ request' = request \ {r}
        /\ UNCHANGED <<organization, page, overlapped>>
  <2> DEFINE had == {q \in Url!Profiles : profile[q].target = r.target}
             p == IF had = {} THEN last + 1 ELSE CHOOSE q \in had : TRUE
  <2>1. p \in had \/ p = last + 1
    OBVIOUS
  <2>2. /\ user[u] = None /\ p \in Url!Pid /\ Url!Fits(r, {}) /\ Url!Insert(p, u, r.target, r.data)
        /\ user' = [user EXCEPT ![u] = [profile |-> p, name |-> r.data, is_active |-> TRUE]]
        /\ Url!Write(r, <<"profile", p>>, {}) /\ request' = request \ {r}
        /\ UNCHANGED <<organization, page, overlapped>>
    BY DEF Url!CreateProfile, Url!End
  <2> HIDE DEF p
  <2> QED BY <2>1, <2>2
<1> DEFINE w == [profile |-> p, name |-> r.data, is_active |-> TRUE]
<1>2. w \in Url!UserRow /\ w.profile = p /\ w.name = r.data /\ w.is_active = TRUE 
  BY <1>0, <1>1 DEF Url!UserRow
<1>3. p <= last + 1 /\ last \in Nat
  <2>1. p \in Nat /\ last \in Nat
    BY PathAssumption DEF Url!Pid, PathsInv, PathsTyped
  <2>2. p \in Url!Profiles => p <= last
    BY Loaded DEF PathsInv
  <2> QED BY <2>1, <2>2, <1>1
<1>4. PICK x \in Url!ProfileRow : /\ x.owner = u /\ x.target = r.target /\ x.name = r.data
                         /\ profile' = [profile EXCEPT ![p] = x]
                         /\ last' \in 0..MaxProfile /\ last <= last' /\ p <= last'
                         /\ profile' \in [Url!Pid -> Url!ProfileRow \cup {None}]
                         /\ \A q \in Url!Pid : profile'[q] # None => q <= last'
  BY <1>0, <1>1, <1>3, Inserted DEF PathsInv
\* No other user and no organization links to it.
<1>5. /\ \A v \in User : v # u /\ user[v] # None => user[v].profile # p
      /\ \A o \in Organization : organization[o] # None => organization[o].profile # p
  <2>1. CASE p = last + 1
    BY <2>1, <1>1, NumberFree
  <2>2. CASE p \in Url!Profiles /\ profile[p].target = r.target
    <3>1. p # None
      BY <1>1, NoneAssumption DEF Url!Pid
    <3>2. \A v : v # u => <<"user", v>> # r.target
      BY <1>0
    <3>3. \A o : <<"organization", o>> # r.target
      BY <1>0
    <3> QED BY <2>2, <3>1, <3>2, <3>3 DEF PathsInv, Url!LinksMutual
  <2> QED BY <1>1, <2>1, <2>2
<1>6. UrlsFit' /\ Url!PathsLead' /\ Url!ProfilesReachable'
  BY <1>0, <1>1, <1>4, Placed
<1>7. /\ \A q \in Url!Pid : profile'[q] = IF q = p THEN x ELSE profile[q]
      /\ \A v \in User : user'[v] = IF v = u THEN w ELSE user[v]
  BY <1>0, <1>1, <1>4 DEF PathsInv, PathsTyped
<1>8. user' = [user EXCEPT ![u] = w] /\ user[u] = None
  BY <1>1
<1>9. r.target[1] = "user"
  BY <1>0
<1> HIDE DEF u, w
<1>10. PathsTyped'
  <2>1. user' \in [User -> Url!UserRow \cup {None}]
    BY <1>0, <1>2, <1>8 DEF PathsInv, PathsTyped
  <2>2. organization' \in [Organization -> Url!OrganizationRow \cup {None}] /\ page' \in [Page -> User \cup {None}]
    BY <1>1 DEF PathsInv, PathsTyped
  <2> QED BY <2>1, <2>2, <1>4 DEF PathsTyped
<1>11. RequestsFit'
  <2> SUFFICES ASSUME NEW s \in request, Shaped(s), Timely(s) PROVE Timely(s)'
    BY <1>1, Ends DEF PathsInv
  <2>1. s.kind = "update" => s.target[2] \in Url!Pid
    BY DEF Shaped
  <2>2. s.kind = "update" => s.target[2] <= last'
    <3>1. s.kind = "update" => s.target[2] \in Nat /\ s.target[2] <= last
      BY <2>1, PathAssumption DEF Timely, Url!Pid
    <3>2. last' \in Nat
      BY <1>4, PathAssumption
    <3> QED BY <3>1, <3>2, <1>3, <1>4
  <2>3. s.kind = "update" /\ profile'[s.target[2]] # None => Agree(s.data, profile'[s.target[2]])
    <3> SUFFICES ASSUME s.kind = "update", profile'[s.target[2]] # None
                 PROVE  Agree(s.data, profile'[s.target[2]])
      OBVIOUS
    <3>1. CASE s.target[2] # p
      <4>1. profile'[s.target[2]] = profile[s.target[2]]
        BY <3>1, <2>1, <1>7
      <4> QED BY <4>1 DEF Timely
    <3>2. CASE s.target[2] = p
      <4>1. p # last + 1
        BY <3>2, <1>3 DEF Timely
      <4>2. p \in Url!Profiles /\ profile[p].target = r.target
        BY <4>1, <1>1
      <4>3. Agree(s.data, profile[p])
        BY <4>2, <3>2 DEF Timely, Url!Profiles
      <4>4. s.data.target = r.target
        BY <4>2, <4>3 DEF Agree
      <4>5. Agree(s.data, x)
        BY <4>4, <1>4, <1>9 DEF Agree
      <4> QED BY <4>5, <3>2, <1>7
    <3> QED BY <3>1, <3>2
  <2>4. s.kind = "delete" => \A q \in s.data.profiles :
          q <= last' /\ \A i \in Organization : organization'[i] = None \/ organization'[i].profile # q
    <3> SUFFICES ASSUME s.kind = "delete", NEW q \in s.data.profiles
                 PROVE  q <= last' /\ \A i \in Organization : organization'[i] = None \/ organization'[i].profile # q
      OBVIOUS
    <3>1. q \in Nat /\ last \in Nat /\ last' \in Nat /\ q <= last
      BY <1>3, <1>4, PathAssumption DEF Shaped, Timely, Url!Pid, PathsInv, PathsTyped
    <3>2. q <= last'
      BY <3>1, <1>4
    <3>3. \A i \in Organization : organization'[i] = None \/ organization'[i].profile # q
      BY <1>1 DEF Timely
    <3> QED BY <3>2, <3>3
  <2>5. s.kind = "organization" =>
          user'[s.by] # None /\ (user'[s.by].is_active = TRUE \/ <<"owner", s.by>> \in overlapped')
    BY <1>1, <1>7, <1>8 DEF Timely, Shaped
  <2>6. s.kind = "delete" => \A v \in s.data.users : user'[v] # None /\ user'[v].is_active = FALSE
    BY <1>7, <1>8 DEF Timely, Shaped
  <2> QED BY <2>2, <2>3, <2>4, <2>5, <2>6 DEF Timely
<1>12. \A q \in Url!Pid : profile[q] # None /\ q # p => profile'[q] = profile[q] /\ q \in Url!Profiles'
  BY <1>7 DEF Url!Profiles
<1>13. p \in Url!Profiles'
  BY <1>1, <1>7, PathAssumption DEF Url!Profiles
<1>14. Url!LinksMutual'
  <2>1. ASSUME NEW v \in User, user'[v] # None, user'[v].profile # None
        PROVE  /\ user'[v].profile \in Url!Profiles' /\ profile'[user'[v].profile].target = <<"user", v>>
               /\ (profile'[user'[v].profile].owner = v \/ <<"owned", user'[v].profile>> \in overlapped')
    <3>1. CASE v = u
      <4>1. user'[v].profile = p
        BY <3>1, <1>2, <1>7
      <4>2. r.target = <<"user", v>>
        BY <3>1, <1>0 DEF u
      <4> QED BY <3>1, <4>1, <4>2, <1>4, <1>7, <1>13
    <3>2. CASE v # u
      <4>1. user'[v] = user[v] /\ overlapped' = overlapped
        BY <3>2, <1>1, <1>7
      <4>2. PICK q : q = user[v].profile
        OBVIOUS
      <4>3. /\ q \in Url!Profiles /\ profile[q].target = <<"user", v>>
            /\ (profile[q].owner = v \/ <<"owned", q>> \in overlapped)
        BY <2>1, <4>1, <4>2 DEF PathsInv, Url!LinksMutual
      <4>4. q # p
        BY <2>1, <3>2, <4>1, <4>2, <1>5
      <4>5. profile'[q] = profile[q] /\ q \in Url!Profiles'
        BY <4>3, <4>4, <1>12 DEF Url!Profiles
      <4> QED BY <4>1, <4>2, <4>3, <4>5
    <3> QED BY <3>1, <3>2
  <2>2. ASSUME NEW o \in Organization, organization'[o] # None, organization'[o].profile # None
        PROVE  organization'[o].profile \in Url!Profiles' /\ profile'[organization'[o].profile].target = <<"organization", o>>
    BY <2>2, <1>1, <1>5, <1>12 DEF PathsInv, Url!LinksMutual, Url!Profiles
  <2> QED BY <2>1, <2>2 DEF Url!LinksMutual
<1>15. Url!NamesInSync'
  <2> SUFFICES ASSUME NEW v \in User, user'[v] # None, user'[v].profile # None
               PROVE  \/ profile'[user'[v].profile].name = user'[v].name
                      \/ <<"name", user'[v].profile>> \in overlapped'
    BY DEF Url!NamesInSync
  <2>1. CASE v = u
    BY <2>1, <1>2, <1>4, <1>7
  <2>2. CASE v # u
    <3>1. user'[v] = user[v] /\ overlapped' = overlapped
      BY <2>2, <1>1, <1>7
    <3>2. PICK q : q = user[v].profile
      OBVIOUS
    <3>3. q \in Url!Profiles /\ (profile[q].name = user[v].name \/ <<"name", q>> \in overlapped)
      BY <3>1, <3>2 DEF PathsInv, Url!LinksMutual, Url!NamesInSync
    <3>4. q # p
      BY <2>2, <3>1, <3>2, <1>5
    <3>5. profile'[q] = profile[q]
      BY <3>3, <3>4, <1>12 DEF Url!Profiles
    <3> QED BY <3>1, <3>2, <3>3, <3>5
  <2> QED BY <2>1, <2>2
<1>16. OwnersKept'
  <2> SUFFICES ASSUME NEW v \in User, NEW q \in Url!Pid, NEW o \in Organization,
                      user'[v] # None, user'[v].is_active = FALSE, profile'[q] # None, profile'[q].owner = v,
                      organization'[o] # None, organization'[o].profile = q
               PROVE  <<"owner", v>> \in overlapped'
    BY DEF OwnersKept
  <2>1. v # u
    BY <1>2, <1>7
  <2>2. q # p
    BY <1>1, <1>5
  <2> QED BY <2>1, <2>2, <1>1, <1>7 DEF PathsInv, OwnersKept
<1> QED BY <1>6, <1>10, <1>11, <1>14, <1>15, <1>16 DEF PathsInv

\* A row that an update had loaded and saves
LEMMA ProfileUpdateSaveStep ==
  ASSUME PathsInv, NEW r \in request, r.kind = "update", NEW n \in Url!Path, Url!ProfileUpdate_save(r, n)
  PROVE  PathsInv'
<1>0. PICK p \in Url!Pid : r.target = <<"profile", p>>
  BY DEF PathsInv, RequestsFit, Shaped
<1>1. r.target[1] = "profile" /\ r.target[2] = p
  BY <1>0
<1>2. Shaped(r) /\ r.data \in Url!ProfileRow /\ (r.paths = <<>> \/ Len(r.paths) > 0) /\ \A y \in r.old : y[2] = r.target
  BY DEF PathsInv, RequestsFit, Shaped
<1> DEFINE x == [r.data EXCEPT !.name = n]
<1>3. x \in Url!ProfileRow /\ x.owner = r.data.owner /\ x.target = r.data.target /\ x.name = n
  BY <1>2 DEF Url!ProfileRow
<1>4. PICK gone :
        /\ IF r.paths = <<>> THEN gone = {} ELSE gone = r.old \/ gone = Url!PathsOf(r.target)
        /\ Url!Fits(r, gone) /\ Url!Write(r, r.target, gone) /\ profile' = [profile EXCEPT ![p] = x]
        /\ overlapped' = overlapped \cup
             {z \in {<<"name", p>>} : p \in Url!Profiles /\ n # profile[p].name} \cup
             {z \in {<<"owned", p>>} : p \in Url!Profiles /\ x.owner # profile[p].owner} \cup
             {z \in {<<"gone", p>>} : p \notin Url!Profiles}
        /\ request' = request \ {r} /\ UNCHANGED <<user, organization, page, last>>
  BY <1>1 DEF Url!ProfileUpdate_save, Url!End
<1> HIDE DEF x
<1>5. /\ overlapped \subseteq overlapped'
      /\ p \in Url!Profiles /\ n # profile[p].name => <<"name", p>> \in overlapped'
      /\ p \in Url!Profiles /\ x.owner # profile[p].owner => <<"owned", p>> \in overlapped'
      /\ p \notin Url!Profiles => <<"gone", p>> \in overlapped'
  BY <1>4
<1>6. \A y \in gone : y[2] = <<"profile", p>>
  BY <1>0, <1>2, <1>4 DEF Url!PathsOf
<1>7. Url!Write(r, <<"profile", p>>, gone) /\ page' = page
  BY <1>0, <1>4
<1>8. Len(r.paths) > 0 \/ (gone = {} /\ (p \in Url!Profiles \/ <<"gone", p>> \in overlapped'))
  BY <1>2, <1>4, <1>5
<1>9. UrlsFit' /\ Url!PathsLead' /\ Url!ProfilesReachable'
  BY <1>2, <1>3, <1>4, <1>5, <1>6, <1>7, <1>8, Placed
<1>10. \A q \in Url!Pid : profile'[q] = IF q = p THEN x ELSE profile[q]
  BY <1>4 DEF PathsInv, PathsTyped
<1>11. p <= last /\ (profile[p] # None => Agree(r.data, profile[p]))
  BY <1>1 DEF PathsInv, RequestsFit, Timely
<1>12. PathsTyped'
  <2>1. profile' \in [Url!Pid -> Url!ProfileRow \cup {None}]
    BY <1>3, <1>4 DEF PathsInv, PathsTyped
  <2>2. \A q \in Url!Pid : profile'[q] # None => q <= last'
    BY <1>4, <1>10, <1>11 DEF PathsInv, PathsTyped
  <2> QED BY <2>1, <2>2, <1>4 DEF PathsInv, PathsTyped
<1>13. RequestsFit'
  <2> SUFFICES ASSUME NEW s \in request, Shaped(s), Timely(s) PROVE Timely(s)'
    BY <1>4, Ends DEF PathsInv
  <2>1. s.kind = "update" /\ profile'[s.target[2]] # None => Agree(s.data, profile'[s.target[2]])
    <3> SUFFICES ASSUME s.kind = "update", profile'[s.target[2]] # None
                 PROVE  Agree(s.data, profile'[s.target[2]])
      OBVIOUS
    <3>1. PICK q \in Url!Pid : s.target = <<"profile", q>>
      BY DEF Shaped
    <3>2. s.target[2] = q
      BY <3>1
    <3>3. CASE q # p
      <4>1. profile'[s.target[2]] = profile[s.target[2]]
        BY <3>2, <3>3, <1>10
      <4> QED BY <4>1 DEF Timely
    <3>4. CASE q = p
      <4>1. s.target = r.target
        BY <3>1, <3>4, <1>0
      <4>2. Agree(s.data, r.data)
        BY <4>1 DEF PathsInv, RequestsFit
      <4>3. Agree(s.data, x)
        BY <4>2, <1>3 DEF Agree
      <4> QED BY <4>3, <3>2, <3>4, <1>10
    <3> QED BY <3>3, <3>4
  <2>2. UNCHANGED <<user, organization, last>>
    BY <1>4
  <2> QED BY <2>1, <2>2, <1>5 DEF Timely
<1>14. x # None /\ p \in Url!Profiles'
  BY <1>3, <1>10, PathAssumption DEF Url!Profiles
<1>15. \A q \in Url!Profiles :
         /\ q \in Url!Profiles' /\ profile'[q].target = profile[q].target
         /\ profile'[q].owner = profile[q].owner \/ <<"owned", q>> \in overlapped'
         /\ profile'[q].name = profile[q].name \/ <<"name", q>> \in overlapped'
         /\ profile[q].target[1] = "organization" => profile'[q].owner = profile[q].owner
  <2> SUFFICES ASSUME NEW q \in Url!Profiles
               PROVE /\ q \in Url!Profiles' /\ profile'[q].target = profile[q].target
                     /\ profile'[q].owner = profile[q].owner \/ <<"owned", q>> \in overlapped'
                     /\ profile'[q].name = profile[q].name \/ <<"name", q>> \in overlapped'
                     /\ profile[q].target[1] = "organization" => profile'[q].owner = profile[q].owner
    OBVIOUS
  <2>1. q \in Url!Pid /\ profile[q] # None
    BY DEF Url!Profiles
  <2>2. CASE q # p
    <3>1. profile'[q] = profile[q]
      BY <2>1, <2>2, <1>10
    <3> QED BY <3>1, <2>1 DEF Url!Profiles
  <2>3. CASE q = p
    <3>1. profile'[q] = x
      BY <2>3, <1>10
    <3>2. /\ profile[q].target = x.target
          /\ profile[q].target[1] = "organization" => x.owner = profile[q].owner
      BY <2>1, <2>3, <1>3, <1>11 DEF Agree
    <3> QED BY <3>1, <3>2, <2>3, <1>3, <1>5, <1>14
  <2> QED BY <2>2, <2>3
<1>16. Url!LinksMutual'
  <2>1. ASSUME NEW v \in User, user'[v] # None, user'[v].profile # None
        PROVE  /\ user'[v].profile \in Url!Profiles' /\ profile'[user'[v].profile].target = <<"user", v>>
               /\ (profile'[user'[v].profile].owner = v \/ <<"owned", user'[v].profile>> \in overlapped')
    <3>1. PICK q : q = user[v].profile /\ q = user'[v].profile
      BY <1>4
    <3>2. /\ q \in Url!Profiles /\ profile[q].target = <<"user", v>>
          /\ (profile[q].owner = v \/ <<"owned", q>> \in overlapped)
      BY <2>1, <3>1, <1>4 DEF PathsInv, Url!LinksMutual
    <3> QED BY <3>1, <3>2, <1>5, <1>15
  <2>2. ASSUME NEW o \in Organization, organization'[o] # None, organization'[o].profile # None
        PROVE  organization'[o].profile \in Url!Profiles' /\ profile'[organization'[o].profile].target = <<"organization", o>>
    BY <2>2, <1>4, <1>15 DEF PathsInv, Url!LinksMutual
  <2> QED BY <2>1, <2>2 DEF Url!LinksMutual
<1>17. Url!NamesInSync'
  <2> SUFFICES ASSUME NEW v \in User, user'[v] # None, user'[v].profile # None
               PROVE  \/ profile'[user'[v].profile].name = user'[v].name
                      \/ <<"name", user'[v].profile>> \in overlapped'
    BY DEF Url!NamesInSync
  <2>1. PICK q : q = user[v].profile /\ q = user'[v].profile /\ user'[v].name = user[v].name
    BY <1>4
  <2>2. q \in Url!Profiles /\ (profile[q].name = user[v].name \/ <<"name", q>> \in overlapped)
    BY <2>1, <1>4 DEF PathsInv, Url!LinksMutual, Url!NamesInSync
  <2> QED BY <2>1, <2>2, <1>5, <1>15
<1>18. OwnersKept'
  <2> SUFFICES ASSUME NEW v \in User, NEW q \in Url!Pid, NEW o \in Organization,
                      user[v] # None, user[v].is_active = FALSE, profile'[q] # None, profile'[q].owner = v,
                      organization[o] # None, organization[o].profile = q
               PROVE  <<"owner", v>> \in overlapped
    BY <1>4, <1>5 DEF OwnersKept
  <2>1. q # None
    BY NoneAssumption DEF Url!Pid
  <2>2. q \in Url!Profiles /\ profile[q].target = <<"organization", o>>
    BY <2>1 DEF PathsInv, Url!LinksMutual
  <2>3. profile[q].target[1] = "organization" /\ profile[q] # None
    BY <2>2 DEF Url!Profiles
  <2>4. profile[q].owner = v
    BY <2>2, <2>3, <1>15
  <2> QED BY <2>3, <2>4 DEF PathsInv, OwnersKept
<1> QED BY <1>9, <1>12, <1>13, <1>16, <1>17, <1>18 DEF PathsInv

LEMMA PageSaveSaveStep ==
  ASSUME PathsInv, NEW r \in request, r.kind = "page", Url!PageSave_save(r)
  PROVE  PathsInv'
<1>0. PICK g \in Page : r.target = <<"page", g>>
  BY DEF PathsInv, RequestsFit, Shaped
<1>1. r.target[1] = "page" /\ r.target[2] = g
  BY <1>0
<1> DEFINE owner == IF r.data = None THEN r.by ELSE r.data
<1>2. /\ Url!Fits(r, {}) /\ page' = [page EXCEPT ![g] = owner] /\ Url!Write(r, r.target, {})
      /\ request' = request \ {r} /\ UNCHANGED <<user, organization, profile, last, overlapped>>
  BY <1>1 DEF Url!PageSave_save, Url!End
<1>12. owner \in User /\ owner # None
  BY PathAssumption DEF PathsInv, RequestsFit, Shaped
<1> HIDE DEF owner
<1>13. \A h \in Page : page'[h] = IF h = g THEN owner ELSE page[h]
  BY <1>2 DEF PathsInv, PathsTyped
<1>3. Shaped(r)
  BY DEF PathsInv, RequestsFit
<1>4. /\ UrlsFit' /\ \A x \in url' : x \in url \/ x[2] = r.target
      /\ \A x \in url : x \in url'
  BY <1>0, <1>2, <1>3, Written DEF PathsInv
<1>5. Url!Profiles' = Url!Profiles
  BY <1>2 DEF Url!Profiles
<1>6. PathsTyped'
  BY <1>2, <1>12 DEF PathsInv, PathsTyped
<1>7. \A s \in request : Timely(s) => Timely(s)'
  BY <1>2 DEF Timely
<1>8. RequestsFit'
  BY <1>2, <1>7, Ends DEF PathsInv
<1>9. Url!PathsLead'
  <2> SUFFICES ASSUME NEW x \in url'
               PROVE  \/ x[2][1] = "page" /\ page'[x[2][2]] # None
                      \/ x[2][1] = "profile" /\ x[2][2] \in Url!Profiles'
                      \/ <<"path", x[2]>> \in overlapped'
    BY DEF Url!PathsLead
  <2>1. CASE x[2] = r.target
    BY <2>1, <1>1, <1>12, <1>13
  <2>2. CASE x \in url
    <3>1. PathRow(x)
      BY <2>2 DEF PathsInv, UrlsFit
    <3>2. x[2][1] = "page" => x[2][2] \in Page
      BY <3>1 DEF PathRow
    <3>3. \A h \in Page : page[h] # None => page'[h] # None
      BY <1>12, <1>13
    <3> QED BY <2>2, <3>2, <3>3, <1>2, <1>5 DEF PathsInv, Url!PathsLead
  <2> QED BY <2>1, <2>2, <1>4
<1>10. Url!ProfilesReachable'
  <2>1. \A t : Url!PathsOf(t) \subseteq Url!PathsOf(t)'
    BY <1>4 DEF Url!PathsOf
  <2> QED BY <2>1, <1>2, <1>5 DEF PathsInv, Url!ProfilesReachable
<1>11. Url!LinksMutual' /\ Url!NamesInSync' /\ OwnersKept'
  BY <1>2, <1>5 DEF PathsInv, Url!LinksMutual, Url!NamesInSync, OwnersKept
<1> QED BY <1>4, <1>6, <1>8, <1>9, <1>10, <1>11 DEF PathsInv

LEMMA RenameStep ==
  ASSUME PathsInv, NEW u \in User, NEW n \in Base \X {0}, Url!Rename(u, n)
  PROVE  PathsInv'
<1> DEFINE w == [user[u] EXCEPT !.name = n]
<1>0. n \in Url!Path
  BY BasesArePaths
<1>1. /\ user[u] # None /\ user' = [user EXCEPT ![u] = w]
      /\ overlapped' = overlapped \ {<<"name", user[u].profile>>}
      /\ UNCHANGED <<organization, page, url, request, last>>
  BY DEF Url!Rename
<1>2. user[u] \in Url!UserRow
  BY <1>1 DEF PathsInv, PathsTyped
<1>3. w \in Url!UserRow /\ w.profile = user[u].profile /\ w.name = n /\ w.is_active = user[u].is_active
  BY <1>0, <1>2 DEF Url!UserRow
<1> HIDE DEF w
<1>4. w # None
  BY <1>3, PathAssumption
<1>5. \A v \in User : /\ v # u => user'[v] = user[v]
                      /\ v = u => user'[v] = w
  BY <1>1 DEF PathsInv, PathsTyped
<1>6. /\ \A z \in overlapped : z # <<"name", user[u].profile>> => z \in overlapped'
      /\ \A v : /\ <<"owner", v>> \in overlapped => <<"owner", v>> \in overlapped'
                /\ <<"path", v>> \in overlapped => <<"path", v>> \in overlapped'
                /\ <<"owned", v>> \in overlapped => <<"owned", v>> \in overlapped'
                /\ <<"gone", v>> \in overlapped => <<"gone", v>> \in overlapped'
                /\ v # user[u].profile /\ <<"name", v>> \in overlapped => <<"name", v>> \in overlapped'
  BY <1>1
\* Every profile keeps all but its name, which changes for u's.
<1>7. /\ profile' \in [Url!Pid -> Url!ProfileRow \cup {None}]
      /\ \A q \in Url!Pid : /\ profile[q] = None <=> profile'[q] = None
                            /\ profile[q] # None => /\ profile'[q].target = profile[q].target
                                                    /\ profile'[q].owner = profile[q].owner
                                                    /\ q # user[u].profile => profile'[q] = profile[q]
                                                    /\ q = user[u].profile => profile'[q].name = n
  <2>1. CASE user[u].profile = None
    <3>1. profile' = profile
      BY <2>1 DEF Url!Rename
    <3>2. \A q \in Url!Pid : q # None
      BY NoneAssumption DEF Url!Pid
    <3> QED BY <3>1, <3>2, <2>1 DEF PathsInv, PathsTyped
  <2>2. CASE user[u].profile # None
    <3>1. PICK p \in Url!Profiles : p = user[u].profile
      BY <2>2, <1>1 DEF PathsInv, Url!LinksMutual
    <3>2. p \in Url!Pid /\ profile[p] # None /\ profile[p] \in Url!ProfileRow
      BY Loaded DEF PathsInv
    <3> DEFINE x == [profile[p] EXCEPT !.name = n]
    <3>3. profile' = [profile EXCEPT ![p] = x]
      BY <2>2, <3>1 DEF Url!Rename
    <3>4. x \in Url!ProfileRow /\ x.target = profile[p].target /\ x.owner = profile[p].owner /\ x.name = n
      BY <3>2, <1>0 DEF Url!ProfileRow
    <3> HIDE DEF x
    <3>5. x # None
      BY <3>4, PathAssumption
    <3>6. profile' \in [Url!Pid -> Url!ProfileRow \cup {None}]
      BY <3>3, <3>4 DEF PathsInv, PathsTyped
    <3>7. \A q \in Url!Pid : profile'[q] = IF q = p THEN x ELSE profile[q]
      BY <3>3 DEF PathsInv, PathsTyped
    <3> QED BY <3>1, <3>2, <3>4, <3>5, <3>6, <3>7
  <2> QED BY <2>1, <2>2
<1>8. PathsTyped'
  <2>1. user' \in [User -> Url!UserRow \cup {None}]
    BY <1>1, <1>3 DEF PathsInv, PathsTyped
  <2> QED BY <2>1, <1>1, <1>7 DEF PathsInv, PathsTyped
<1>9. UrlsFit'
  BY <1>1 DEF PathsInv, UrlsFit
<1>10. RequestsFit'
  <2>1. ASSUME NEW s \in request, Shaped(s), Timely(s) PROVE Timely(s)'
    <3>1. s.kind = "update" => s.target[2] \in Url!Pid
      BY <2>1 DEF Shaped
    <3>2. s.kind = "update" /\ profile'[s.target[2]] # None => Agree(s.data, profile'[s.target[2]])
      BY <2>1, <3>1, <1>7 DEF Timely, Agree
    <3>3. s.kind = "organization" =>
            user'[s.by] # None /\ (user'[s.by].is_active = TRUE \/ <<"owner", s.by>> \in overlapped')
      BY <2>1, <1>1, <1>3, <1>4, <1>5, <1>6 DEF Timely, Shaped
    <3>4. s.kind = "delete" => \A v \in s.data.users : user'[v] # None /\ user'[v].is_active = FALSE
      BY <2>1, <1>3, <1>4, <1>5 DEF Timely, Shaped
    <3> QED BY <2>1, <3>2, <3>3, <3>4, <1>1 DEF Timely
  <2> QED BY <2>1, <1>1 DEF PathsInv, RequestsFit
<1>11. Url!Profiles' = Url!Profiles /\ \A t : Url!PathsOf(t)' = Url!PathsOf(t)
  BY <1>1, <1>7 DEF Url!Profiles, Url!PathsOf
<1>12. Url!PathsLead'
  BY <1>1, <1>6, <1>11 DEF PathsInv, Url!PathsLead
<1>13. Url!ProfilesReachable'
  BY <1>6, <1>11 DEF PathsInv, Url!ProfilesReachable
<1>14. \A v \in User : v # u /\ user[v] # None /\ user[v].profile # None => user[v].profile # user[u].profile
  <2>1. \A v \in User : v # u => <<"user", v>> # <<"user", u>>
    OBVIOUS
  <2> QED BY <2>1, <1>1 DEF PathsInv, Url!LinksMutual
<1>15. Url!LinksMutual'
  <2>1. ASSUME NEW v \in User, user'[v] # None, user'[v].profile # None
        PROVE  /\ user'[v].profile \in Url!Profiles' /\ profile'[user'[v].profile].target = <<"user", v>>
               /\ (profile'[user'[v].profile].owner = v \/ <<"owned", user'[v].profile>> \in overlapped')
    <3>1. PICK q : q = user[v].profile /\ q = user'[v].profile
      BY <1>3, <1>5
    <3>2. user[v] # None /\ user[v].profile # None
      BY <2>1, <3>1, <1>1, <1>5
    <3>3. /\ q \in Url!Profiles /\ profile[q].target = <<"user", v>>
          /\ (profile[q].owner = v \/ <<"owned", q>> \in overlapped)
      BY <3>1, <3>2 DEF PathsInv, Url!LinksMutual
    <3>4. profile'[q].target = profile[q].target /\ profile'[q].owner = profile[q].owner
      BY <3>3, <1>7 DEF Url!Profiles
    <3> QED BY <3>1, <3>3, <3>4, <1>6, <1>11
  <2>2. ASSUME NEW o \in Organization, organization'[o] # None, organization'[o].profile # None
        PROVE  organization'[o].profile \in Url!Profiles' /\ profile'[organization'[o].profile].target = <<"organization", o>>
    BY <2>2, <1>1, <1>7, <1>11 DEF PathsInv, Url!LinksMutual, Url!Profiles
  <2> QED BY <2>1, <2>2 DEF Url!LinksMutual
<1>16. Url!NamesInSync'
  <2> SUFFICES ASSUME NEW v \in User, user'[v] # None, user'[v].profile # None
               PROVE  \/ profile'[user'[v].profile].name = user'[v].name
                      \/ <<"name", user'[v].profile>> \in overlapped'
    BY DEF Url!NamesInSync
  <2>1. PICK q : q = user[v].profile /\ q = user'[v].profile
    BY <1>3, <1>5
  <2>2. user[v] # None /\ user[v].profile # None
    BY <2>1, <1>1, <1>5
  <2>3. q \in Url!Pid /\ profile[q] # None /\ (profile[q].name = user[v].name \/ <<"name", q>> \in overlapped)
    BY <2>1, <2>2 DEF PathsInv, Url!LinksMutual, Url!NamesInSync, Url!Profiles
  <2>4. CASE v = u
    BY <2>1, <2>3, <2>4, <1>3, <1>5, <1>7
  <2>5. CASE v # u
    <3>1. q # user[u].profile
      BY <2>1, <2>2, <2>5, <1>14
    <3>2. profile'[q] = profile[q] /\ user'[v] = user[v]
      BY <3>1, <2>3, <2>5, <1>5, <1>7
    <3> QED BY <3>1, <3>2, <2>1, <2>3, <1>6
  <2> QED BY <2>4, <2>5
<1>17. OwnersKept'
  <2> SUFFICES ASSUME NEW v \in User, NEW q \in Url!Pid, NEW o \in Organization,
                      user'[v] # None, user'[v].is_active = FALSE, profile'[q] # None, profile'[q].owner = v,
                      organization[o] # None, organization[o].profile = q
               PROVE  <<"owner", v>> \in overlapped
    BY <1>1, <1>6 DEF OwnersKept
  <2>1. user[v] # None /\ user[v].is_active = FALSE
    BY <1>1, <1>3, <1>5
  <2>2. profile[q] # None /\ profile[q].owner = v
    BY <1>7
  <2> QED BY <2>1, <2>2 DEF PathsInv, OwnersKept
<1> QED BY <1>8, <1>9, <1>10, <1>12, <1>13, <1>15, <1>16, <1>17 DEF PathsInv

LEMMA Owned ==
  ASSUME OwnersKept, UNCHANGED organization, overlapped \subseteq overlapped',
         \A u \in User : user'[u] # None /\ user'[u].is_active = FALSE =>
                           user[u] # None /\ user[u].is_active = FALSE,
         \A p \in Url!Pid : profile'[p] # None => profile'[p] = profile[p]
  PROVE  OwnersKept'
  BY DEF OwnersKept

\* What deletions of profiles that no organization has leave of the rows: the users who had
\* one of them have none, and one of them (an account that goes) may not be there any more.
LEMMA Unlinked ==
  ASSUME PathsInv, NEW G, UNCHANGED <<organization, last>>,
         profile' = [p \in Url!Pid |-> IF p \in G THEN None ELSE profile[p]],
         DOMAIN user' = User, user' = [u \in User |-> user'[u]],
         \A u \in User :
           \/ user'[u] = None
           \/ /\ user[u] # None
              /\ user'[u] = IF user[u].profile \in G THEN [user[u] EXCEPT !.profile = None] ELSE user[u],
         page' \in [Page -> User \cup {None}], overlapped \subseteq overlapped',
         \A o \in Organization : organization[o] = None \/ organization[o].profile \notin G,
         \A r \in request' : r \in request /\ (r.kind = "organization" => user'[r.by] # None),
         \A r \in request' : r.kind = "delete" => \A v \in r.data.users : user'[v] # None
  PROVE  /\ PathsTyped' /\ Url!LinksMutual' /\ Url!NamesInSync' /\ OwnersKept'
         /\ \A r \in request' : Timely(r)'
         /\ \A p : p \in Url!Profiles' <=> (p \in Url!Profiles /\ p \notin G)
<1>1. \A p \in Url!Pid : profile'[p] = IF p \in G THEN None ELSE profile[p]
  OBVIOUS
<1>2. \A u \in User : user'[u] # None =>
        /\ user[u] # None /\ user[u] \in Url!UserRow /\ user'[u] \in Url!UserRow
        /\ user'[u].profile = IF user[u].profile \in G THEN None ELSE user[u].profile
        /\ user'[u].name = user[u].name /\ user'[u].is_active = user[u].is_active
  <2> SUFFICES ASSUME NEW u \in User, user'[u] # None
               PROVE /\ user[u] # None /\ user[u] \in Url!UserRow /\ user'[u] \in Url!UserRow
                     /\ user'[u].profile = IF user[u].profile \in G THEN None ELSE user[u].profile
                     /\ user'[u].name = user[u].name /\ user'[u].is_active = user[u].is_active
    OBVIOUS
  <2>1. user[u] # None /\ user[u] \in Url!UserRow
    BY DEF PathsInv, PathsTyped
  <2>2. user'[u] = IF user[u].profile \in G THEN [user[u] EXCEPT !.profile = None] ELSE user[u]
    OBVIOUS
  <2> QED BY <2>1, <2>2 DEF Url!UserRow
<1>3. \A p : p \in Url!Profiles' <=> (p \in Url!Profiles /\ p \notin G)
  BY <1>1 DEF Url!Profiles
<1>4. PathsTyped'
  <2>1. user' \in [User -> Url!UserRow \cup {None}]
    BY <1>2
  <2>2. profile' \in [Url!Pid -> Url!ProfileRow \cup {None}]
    BY DEF PathsInv, PathsTyped
  <2>3. \A p \in Url!Pid : profile'[p] # None => p <= last'
    BY <1>1 DEF PathsInv, PathsTyped
  <2> QED BY <2>1, <2>2, <2>3 DEF PathsInv, PathsTyped
<1>5. ASSUME NEW r \in request' PROVE Timely(r)'
  <2>1. Shaped(r) /\ Timely(r) /\ r \in request
    BY <1>5 DEF PathsInv, RequestsFit
  <2>2. r.kind = "update" => r.target[2] \in Url!Pid
    BY <2>1 DEF Shaped
  <2>3. r.kind = "update" /\ profile'[r.target[2]] # None => Agree(r.data, profile'[r.target[2]])
    BY <2>1, <2>2, <1>1 DEF Timely
  <2>4. r.kind = "organization" =>
          user'[r.by] # None /\ (user'[r.by].is_active = TRUE \/ <<"owner", r.by>> \in overlapped')
    BY <2>1, <1>2, <1>5 DEF Timely, Shaped
  <2>5. r.kind = "delete" => \A v \in r.data.users : user'[v] # None /\ user'[v].is_active = FALSE
    <3> SUFFICES ASSUME r.kind = "delete", NEW v \in r.data.users
                 PROVE  user'[v] # None /\ user'[v].is_active = FALSE
      OBVIOUS
    <3>1. v \in User /\ user[v].is_active = FALSE
      BY <2>1 DEF Timely, Shaped
    <3> QED BY <3>1, <1>2, <1>5
  <2>6. r.kind = "delete" => \A p \in r.data.profiles :
          p <= last' /\ \A o \in Organization : organization'[o] = None \/ organization'[o].profile # p
    BY <2>1 DEF Timely
  <2>7. r.kind = "update" => r.target[2] <= last'
    BY <2>1 DEF Timely
  <2> QED BY <2>3, <2>4, <2>5, <2>6, <2>7 DEF Timely
<1>6. Url!LinksMutual'
  <2>1. ASSUME NEW v \in User, user'[v] # None, user'[v].profile # None
        PROVE  /\ user'[v].profile \in Url!Profiles' /\ profile'[user'[v].profile].target = <<"user", v>>
               /\ (profile'[user'[v].profile].owner = v \/ <<"owned", user'[v].profile>> \in overlapped')
    <3>1. PICK q : q = user'[v].profile /\ q = user[v].profile /\ q \notin G
      BY <2>1, <1>2
    <3>2. /\ q \in Url!Profiles /\ profile[q].target = <<"user", v>>
          /\ (profile[q].owner = v \/ <<"owned", q>> \in overlapped)
      BY <2>1, <3>1, <1>2 DEF PathsInv, Url!LinksMutual
    <3>3. q \in Url!Profiles' /\ profile'[q] = profile[q]
      BY <3>1, <3>2, <1>1, <1>3 DEF Url!Profiles
    <3> QED BY <3>1, <3>2, <3>3
  <2>2. ASSUME NEW o \in Organization, organization'[o] # None, organization'[o].profile # None
        PROVE  organization'[o].profile \in Url!Profiles' /\ profile'[organization'[o].profile].target = <<"organization", o>>
    <3>1. PICK q : q = organization'[o].profile /\ q = organization[o].profile /\ q \notin G
      BY <2>2
    <3>2. q \in Url!Profiles /\ profile[q].target = <<"organization", o>>
      BY <2>2, <3>1 DEF PathsInv, Url!LinksMutual
    <3>3. q \in Url!Profiles' /\ profile'[q] = profile[q]
      BY <3>1, <3>2, <1>1, <1>3 DEF Url!Profiles
    <3> QED BY <3>1, <3>2, <3>3
  <2> QED BY <2>1, <2>2 DEF Url!LinksMutual
<1>7. Url!NamesInSync'
  <2> SUFFICES ASSUME NEW v \in User, user'[v] # None, user'[v].profile # None
               PROVE  \/ profile'[user'[v].profile].name = user'[v].name
                      \/ <<"name", user'[v].profile>> \in overlapped'
    BY DEF Url!NamesInSync
  <2>1. PICK q : q = user'[v].profile /\ q = user[v].profile /\ q \notin G
    BY <1>2
  <2>2. q \in Url!Profiles /\ (profile[q].name = user[v].name \/ <<"name", q>> \in overlapped)
    <3>1. user[v] # None /\ user[v].profile # None
      BY <2>1, <1>2
    <3> QED BY <2>1, <3>1 DEF PathsInv, Url!LinksMutual, Url!NamesInSync
  <2>3. profile'[q] = profile[q]
    BY <2>1, <2>2, <1>1 DEF Url!Profiles
  <2> QED BY <2>1, <2>2, <2>3, <1>2
<1>8. OwnersKept'
  <2>1. \A u \in User : user'[u] # None /\ user'[u].is_active = FALSE =>
          user[u] # None /\ user[u].is_active = FALSE
    BY <1>2
  <2>2. \A p \in Url!Pid : profile'[p] # None => profile'[p] = profile[p]
    BY <1>1
  <2> QED BY <2>1, <2>2, Owned DEF PathsInv
<1> QED BY <1>3, <1>4, <1>5, <1>6, <1>7, <1>8

LEMMA GoesAre ==
  ASSUME NEW d
  PROVE  /\ \A p : Url!Goes(<<"profile", p>>, d) <=> p \in d.profiles
         /\ \A g : Url!Goes(<<"page", g>>, d) <=> g \in d.pages
  BY DEF Url!Goes

LEMMA DeleteStep ==
  ASSUME PathsInv, NEW r \in request, r.kind = "delete", Url!Delete(r)
  PROVE  PathsInv'
<1>1. PICK d, G, U : d = r.data /\ G = d.profiles /\ U = d.users
  OBVIOUS
<1>2. /\ profile' = [q \in Url!Pid |-> IF q \in G THEN None ELSE profile[q]]
      /\ user' = [v \in User |-> IF v \in U THEN None
                                 ELSE IF user[v] # None /\ user[v].profile \in G
                                 THEN [user[v] EXCEPT !.profile = None] ELSE user[v]]
      /\ page' = [g \in Page |-> IF g \in d.pages THEN None ELSE page[g]]
  BY <1>1 DEF Url!Delete, Url!Unlink
<1>3. /\ url' = url \ r.old /\ request' = request \ {r}
      /\ overlapped' = overlapped \cup {<<"path", x[2]>> : x \in {y \in url \ r.old : Url!Goes(y[2], d)}}
      /\ UNCHANGED <<organization, last>>
  BY <1>1 DEF Url!Delete, Url!End
<1>4. /\ overlapped \subseteq overlapped'
      /\ \A x \in url : Url!Goes(x[2], d) /\ x \notin r.old => <<"path", x[2]>> \in overlapped'
  BY <1>3
<1>5. /\ \A x \in r.old : Url!Goes(x[2], d)
      /\ \A o \in Organization : organization[o] = None \/ organization[o].profile \notin G
  BY <1>1 DEF PathsInv, RequestsFit, Shaped, Timely
<1>6. DOMAIN user' = User /\ user' = [v \in User |-> user'[v]]
  BY <1>2
<1>7. \A v \in User :
        /\ v \notin U /\ user[v] # None => user'[v] # None
        /\ \/ user'[v] = None
           \/ /\ user[v] # None
              /\ user'[v] = IF user[v].profile \in G THEN [user[v] EXCEPT !.profile = None] ELSE user[v]
  <2> SUFFICES ASSUME NEW v \in User
               PROVE /\ v \notin U /\ user[v] # None => user'[v] # None
                     /\ \/ user'[v] = None
                        \/ /\ user[v] # None
                           /\ user'[v] = IF user[v].profile \in G THEN [user[v] EXCEPT !.profile = None] ELSE user[v]
    OBVIOUS
  <2>1. user[v] # None => user[v] \in Url!UserRow
    BY DEF PathsInv, PathsTyped
  <2>2. user[v] # None => [user[v] EXCEPT !.profile = None] \in Url!UserRow
    BY <2>1 DEF Url!UserRow
  <2>3. user[v] # None => [user[v] EXCEPT !.profile = None] # None
    BY <2>2, PathAssumption
  <2> QED BY <2>3, <1>2
<1>8. \A s \in request' : /\ s \in request /\ Shaped(s) /\ Timely(s) /\ s.by \in User /\ s.by \notin U
  BY <1>1, <1>3 DEF PathsInv, RequestsFit, Shaped
<1>9. \A s \in request' : s \in request /\ (s.kind = "organization" => user'[s.by] # None)
  BY <1>7, <1>8 DEF Timely
<1>10. \A s \in request' : s.kind = "delete" => \A v \in s.data.users : user'[v] # None
  <2> SUFFICES ASSUME NEW s \in request', s.kind = "delete", NEW v \in s.data.users
               PROVE  user'[v] # None
    OBVIOUS
  <2>1. v = s.by /\ user[v] # None
    BY <1>8 DEF Shaped, Timely
  <2> QED BY <2>1, <1>7, <1>8
<1>11. page' \in [Page -> User \cup {None}]
  BY <1>2 DEF PathsInv, PathsTyped
<1>12. /\ PathsTyped' /\ Url!LinksMutual' /\ Url!NamesInSync' /\ OwnersKept'
       /\ \A s \in request' : Timely(s)'
       /\ \A q : q \in Url!Profiles' <=> (q \in Url!Profiles /\ q \notin G)
  BY <1>2, <1>3, <1>4, <1>5, <1>6, <1>7, <1>9, <1>10, <1>11, Unlinked
<1>13. UrlsFit'
  BY <1>3 DEF PathsInv, UrlsFit
<1>14. RequestsFit'
  BY <1>3, <1>12, Ends DEF PathsInv
<1>15. Url!PathsLead'
  <2> SUFFICES ASSUME NEW x \in url'
               PROVE  \/ x[2][1] = "page" /\ page'[x[2][2]] # None
                      \/ x[2][1] = "profile" /\ x[2][2] \in Url!Profiles'
                      \/ <<"path", x[2]>> \in overlapped'
    BY DEF Url!PathsLead
  <2>1. x \in url /\ x \notin r.old /\ PathRow(x)
    BY <1>3 DEF PathsInv, UrlsFit
  <2>2. CASE Url!Goes(x[2], d)
    BY <2>1, <2>2, <1>4
  <2>3. CASE ~Url!Goes(x[2], d)
    <3>1. /\ x[2][1] = "profile" => x[2][2] \notin G
          /\ x[2][1] = "page" => x[2][2] \in Page /\ x[2][2] \notin d.pages
      BY <2>1, <2>3, <1>1, GoesAre DEF PathRow
    <3>2. \/ x[2][1] = "page" /\ page[x[2][2]] # None
          \/ x[2][1] = "profile" /\ x[2][2] \in Url!Profiles
          \/ <<"path", x[2]>> \in overlapped
      BY <2>1 DEF PathsInv, Url!PathsLead
    <3> QED BY <3>1, <3>2, <1>2, <1>4, <1>12
  <2> QED BY <2>2, <2>3
<1>16. Url!ProfilesReachable'
  <2> SUFFICES ASSUME NEW q \in Url!Profiles'
               PROVE  (\E y \in url' : y[2] = <<"profile", q>>) \/ <<"gone", q>> \in overlapped'
    BY DEF Url!ProfilesReachable, Url!PathsOf
  <2>1. q \in Url!Profiles /\ q \notin G
    BY <1>12
  <2>2. ~Url!Goes(<<"profile", q>>, d)
    BY <2>1, <1>1, GoesAre
  <2>3. (\E y \in url : y[2] = <<"profile", q>>) \/ <<"gone", q>> \in overlapped
    BY <2>1 DEF PathsInv, Url!ProfilesReachable, Url!PathsOf
  <2> QED BY <2>2, <2>3, <1>3, <1>4, <1>5
<1> QED BY <1>12, <1>13, <1>14, <1>15, <1>16 DEF PathsInv

LEMMA DeleteAccountStep ==
  ASSUME PathsInv, NEW u \in User, Url!delete_account(u)
  PROVE  PathsInv'
<1> DEFINE w == [user[u] EXCEPT !.is_active = FALSE]
<1>1. /\ user[u] # None /\ ~Url!user_owns_organization(u) /\ user' = [user EXCEPT ![u] = w]
      /\ overlapped \subseteq overlapped'
      /\ \A r \in request : r.kind = "organization" /\ r.by = u => <<"owner", u>> \in overlapped'
      /\ UNCHANGED <<organization, page, profile, url, request, last>>
  BY DEF Url!delete_account, Url!Active
<1>2. user[u] \in Url!UserRow
  BY <1>1 DEF PathsInv, PathsTyped
<1>3. w \in Url!UserRow /\ w.profile = user[u].profile /\ w.name = user[u].name /\ w.is_active = FALSE
  BY <1>2 DEF Url!UserRow
<1> HIDE DEF w
<1>4. w # None
  BY <1>3, PathAssumption
<1>5. \A v \in User : user'[v] = IF v = u THEN w ELSE user[v]
  BY <1>1 DEF PathsInv, PathsTyped
<1>6. PathsTyped' /\ UrlsFit'
  BY <1>1, <1>3 DEF PathsInv, PathsTyped, UrlsFit
<1>7. ASSUME NEW s \in request, Shaped(s), Timely(s) PROVE Timely(s)'
  <2>1. s.kind = "organization" =>
          user'[s.by] # None /\ (user'[s.by].is_active = TRUE \/ <<"owner", s.by>> \in overlapped')
    BY <1>1, <1>4, <1>5, <1>7 DEF Timely, Shaped
  <2>2. s.kind = "delete" => \A v \in s.data.users : user'[v] # None /\ user'[v].is_active = FALSE
    BY <1>3, <1>4, <1>5, <1>7 DEF Timely, Shaped
  <2> QED BY <2>1, <2>2, <1>1, <1>7 DEF Timely
<1>8. RequestsFit'
  BY <1>1, <1>7 DEF PathsInv, RequestsFit
<1>9. Url!Profiles' = Url!Profiles /\ \A t : Url!PathsOf(t)' = Url!PathsOf(t)
  BY <1>1 DEF Url!Profiles, Url!PathsOf
<1>10. Url!PathsLead' /\ Url!ProfilesReachable'
  BY <1>1, <1>9 DEF PathsInv, Url!PathsLead, Url!ProfilesReachable
<1>11. \A v \in User : user'[v] # None =>
         user[v] # None /\ user'[v].profile = user[v].profile /\ user'[v].name = user[v].name
  BY <1>1, <1>3, <1>5
<1>12. Url!LinksMutual' /\ Url!NamesInSync'
  BY <1>1, <1>9, <1>11 DEF PathsInv, Url!LinksMutual, Url!NamesInSync
<1>13. OwnersKept'
  <2> SUFFICES ASSUME NEW v \in User, NEW q \in Url!Pid, NEW o \in Organization,
                      user'[v] # None, user'[v].is_active = FALSE, profile[q] # None, profile[q].owner = v,
                      organization[o] # None, organization[o].profile = q
               PROVE  <<"owner", v>> \in overlapped'
    BY <1>1 DEF OwnersKept
  <2>1. v # u
    BY <1>1 DEF Url!user_owns_organization, Url!Linked, Url!Profiles
  <2> QED BY <2>1, <1>1, <1>5 DEF PathsInv, OwnersKept
<1> QED BY <1>6, <1>8, <1>10, <1>12, <1>13 DEF PathsInv

-----------------------------------------------------------------------------
LEMMA PathsInit ==
  ASSUME Url!Init
  PROVE  PathsInv
<1>1. /\ user = [u \in User |-> None] /\ organization = [o \in Organization |-> None]
      /\ page = [g \in Page |-> None] /\ profile = [p \in Url!Pid |-> None] /\ url = {}
      /\ request = {} /\ last = 0 /\ overlapped = {}
  BY DEF Url!Init
<1>2. PathsTyped
  BY <1>1, PathAssumption DEF PathsTyped
<1>3. RequestsFit
  BY <1>1, FS_EmptySet, PathAssumption DEF RequestsFit
<1>4. Url!Profiles = {}
  BY <1>1 DEF Url!Profiles
<1> QED BY <1>1, <1>2, <1>3, <1>4
     DEF PathsInv, UrlsFit, Url!PathsLead, Url!ProfilesReachable, Url!LinksMutual, Url!NamesInSync, OwnersKept

LEMMA CommitStep ==
  ASSUME PathsInv, NEW r \in request, Url!Commit(r)
  PROVE  PathsInv'
<1>1. CASE r.kind = "register" /\ Url!CreateProfile(r)
  BY <1>1, CreateProfileStep
<1>2. CASE r.kind = "organization" /\ Url!CreateOrganization(r)
  BY <1>2, CreateOrganizationStep
<1>3. CASE r.kind = "profile" /\ Url!ProfileCreate_save(r)
  BY <1>3, ProfileCreateSaveStep
<1>4. CASE r.kind = "update" /\ \E n \in {r.data.name} \cup (Base \X {0}) : Url!ProfileUpdate_save(r, n)
  <2>1. PICK n \in {r.data.name} \cup (Base \X {0}) : Url!ProfileUpdate_save(r, n)
    BY <1>4
  <2>2. r.data.name \in Url!Path
    BY <1>4 DEF PathsInv, RequestsFit, Shaped, Url!ProfileRow
  <2>3. n \in Url!Path
    BY <2>2, BasesArePaths
  <2> QED BY <2>1, <2>3, <1>4, ProfileUpdateSaveStep
<1>5. CASE r.kind = "delete" /\ Url!Delete(r)
  BY <1>5, DeleteStep
<1>6. CASE r.kind = "page" /\ Url!PageSave_save(r)
  BY <1>6, PageSaveSaveStep
<1>7. CASE Url!Fail(r)
  BY <1>7, FailStep
<1> QED BY <1>1, <1>2, <1>3, <1>4, <1>5, <1>6, <1>7 DEF Url!Commit

LEMMA PathsStep ==
  ASSUME PathsInv, [Url!Next]_(Url!vars)
  PROVE  PathsInv'
<1>1. CASE UNCHANGED Url!vars
  <2>1. UNCHANGED AllRows /\ request' = request
    BY <1>1 DEF Url!vars, AllRows
  <2>2. RequestsFit'
    BY <2>1, TimelyKept DEF PathsInv, RequestsFit
  <2> QED BY <2>1, <2>2, AllRowsKept
<1>2. ASSUME NEW u \in User, NEW n \in Base \X {0}, Url!Register(u, n) \/ Url!Rename(u, n)
      PROVE  PathsInv'
  BY <1>2, RegisterStep, RenameStep
<1>3. ASSUME NEW u \in User, NEW n \in Base \X {0}, NEW asked, NEW o \in Organization,
             Url!OrganizationCreate(u, o, n, asked)
      PROVE  PathsInv'
  BY <1>3, OrganizationCreateStep
<1>4. ASSUME NEW u \in User, NEW n \in Base \X {0}, NEW asked,
             NEW t \in {Url!Nothing} \cup {<<"user", v>> : v \in User}, Url!ProfileCreate(u, t, n, asked)
      PROVE  PathsInv'
  BY <1>4, ProfileCreateStep
<1>5. ASSUME NEW u \in User, NEW p \in Url!Profiles,
             Url!ProfileDelete(u, p) \/ \E asked \in Url!Path \cup {None} : Url!ProfileUpdate(u, p, asked)
      PROVE  PathsInv'
  BY <1>5, ProfileDeleteStep, ProfileUpdateStep
<1>6. ASSUME NEW u \in User, Url!delete_account(u) \/ Url!anonymize_and_delete_user_task(u)
      PROVE  PathsInv'
  BY <1>6, DeleteAccountStep, AnonymizeStep
<1>7. ASSUME NEW u \in User, NEW g \in Page, NEW q \in Url!Path, Url!PageSave(u, g, q) \/ Url!DeleteNode(u, g)
      PROVE  PathsInv'
  BY <1>7, PageSaveStep, DeleteNodeStep
<1>8. ASSUME NEW r \in request, Url!Commit(r)
      PROVE  PathsInv'
  BY <1>8, CommitStep
<1> QED BY <1>1, <1>2, <1>3, <1>4, <1>5, <1>6, <1>7, <1>8 DEF Url!Next

LEMMA PathsFollow ==
  ASSUME PathsInv
  PROVE  Url!TypeOK /\ Url!PathsConsistent
<1>1. PathsTyped /\ UrlsFit /\ RequestsFit
  BY DEF PathsInv
<1>3. \A x \in url : x[1] \in Url!Path /\ x[2][1] \in {"profile", "page"}
  BY <1>1 DEF UrlsFit, PathRow
<1>4. Url!Cardinality(request) <= MaxRequest
  BY <1>1, SameCardinality DEF RequestsFit
<1>7. Url!TypeOK
  BY <1>1, <1>3, <1>4 DEF Url!TypeOK, PathsTyped, UrlsFit
<1>8. Url!OwnersStay
  BY <1>1 DEF PathsInv, PathsTyped, Url!UserRow, OwnersKept, Url!OwnersStay, Url!user_owns_organization, Url!Linked,
              Url!Profiles
<1> QED BY <1>7, <1>8 DEF PathsInv, Url!PathsConsistent

-----------------------------------------------------------------------------
(* Payments. *)

Subscribed == 1..Len(subscriptions)

\* Events, rows and requests are about customers and subscriptions that Stripe has made.
EventsKnown ==
  \A e \in events :
    /\ e[1] \in {"customer.created", "customer.deleted"} => e[2] \in 1..Len(customers)
    /\ e[1] \in {"subscription.created", "subscription.deleted"} => e[2] \in Subscribed
RowsKnown ==
  /\ \A x \in Customer : x[2] \in 1..Len(customers)
  /\ \A x \in creating : x[2] \in 1..Len(customers) /\ customers[x[2]].email = x[1]
  /\ \A x \in Subscription : x[2] \in Subscribed /\ x[1] = subscriptions[x[2]].customer

\* Between validate() and create() there is no subscription to the product yet, and nobody
\* else is about to make one, unless two requests overlapped.
Promised ==
  \A r \in Request : validated[r] # <<>> /\ validated[r] \notin overlapped =>
    /\ \A s \in Subscribed : subscriptions[s].active => <<subscriptions[s].customer, subscriptions[s].product>> # validated[r]
    /\ \A q \in Request : validated[q] = validated[r] => q = r
OnlyOne ==
  \A s, t \in Subscribed :
    /\ s # t /\ subscriptions[s].active /\ subscriptions[t].active
    /\ subscriptions[s].customer = subscriptions[t].customer
    /\ subscriptions[s].product = subscriptions[t].product
    => <<subscriptions[s].customer, subscriptions[s].product>> \in overlapped

\* What the rows do not say yet, an event will: or the history says why it will not.
Mirrored ==
  /\ \A s \in Subscribed :
       IF subscriptions[s].active
       THEN /\ \/ <<"subscription.created", s>> \in events
               \/ <<subscriptions[s].customer, s>> \in Subscription
               \/ s \in removed
            /\ <<"subscription.deleted", s>> \notin events
       ELSE <<"subscription.deleted", s>> \in events \/ s \in cancelled
  /\ \A x \in Subscription : x[2] \in cancelled => x[2] \in late

PaymentsInv ==
  /\ Pay!TypeOK /\ EventsKnown /\ RowsKnown
  /\ Promised /\ OnlyOne /\ Mirrored /\ Pay!CustomersLinked

ClientRecord == [email : User, live : BOOLEAN, cards : SUBSET Card, default : Card \cup {None}]
PlanRecord == [customer : Pay!Cid, product : Product, active : BOOLEAN, card : Card \cup {None}]

LEMMA RemoteTyped ==
  ASSUME Pay!TypeOK
  PROVE  /\ customers \in Seq(ClientRecord) /\ \A c \in 1..Len(customers) : customers[c] \in ClientRecord
         /\ subscriptions \in Seq(PlanRecord) /\ \A s \in Subscribed : subscriptions[s] \in PlanRecord
<1>1. customers \in Seq(ClientRecord) /\ subscriptions \in Seq(PlanRecord)
  BY DEF Pay!TypeOK, ClientRecord, PlanRecord
<1> QED BY <1>1 DEF Subscribed

\* Nobody's address changes and no customer is forgotten.
ClientsKept(new) ==
  /\ new \in Seq(ClientRecord) /\ Len(customers) <= Len(new) /\ Len(new) <= MaxCustomers
  /\ \A c \in 1..Len(customers) : new[c].email = customers[c].email

LEMMA ClientPut ==
  ASSUME Pay!TypeOK, NEW c \in 1..Len(customers), NEW x \in ClientRecord,
         x.email = customers[c].email
  PROVE  ClientsKept([customers EXCEPT ![c] = x])
  BY DEF Pay!TypeOK, ClientRecord, ClientsKept

LEMMA ClientAdded ==
  ASSUME Pay!TypeOK, NEW x \in ClientRecord, Len(customers) < MaxCustomers
  PROVE  ClientsKept(Append(customers, x))
  BY PaymentAssumption DEF Pay!TypeOK, ClientRecord, ClientsKept

\* Steps about customers and their cards.
LEMMA ClientsOnly ==
  ASSUME PaymentsInv, ClientsKept(customers'), UNCHANGED <<subscriptions, Pay!rows, validated, Pay!history>>,
         events \subseteq events',
         \A e \in events' \ events : \E k \in {"customer.created", "customer.deleted"} :
                                     \E c \in 1..Len(customers') : e = <<k, c>>,
         \A x \in creating' \ creating : \E c \in 1..Len(customers') :
                                     customers'[c].email \in User /\ x = <<customers'[c].email, c>>
  PROVE  PaymentsInv'
<1> USE PaymentAssumption
<1>1. Pay!TypeOK /\ EventsKnown /\ RowsKnown
  BY DEF PaymentsInv
<1>a. /\ customers \in Seq(ClientRecord) /\ customers' \in Seq(ClientRecord)
      /\ Len(customers) <= Len(customers') /\ Len(customers') <= MaxCustomers
      /\ \A c \in 1..Len(customers) : customers'[c].email = customers[c].email
  BY <1>1 DEF Pay!TypeOK, ClientsKept, ClientRecord
<1>b. /\ UNCHANGED <<subscriptions, Customer, Subscription, validated>>
      /\ UNCHANGED <<removed, cancelled, late, overlapped>>
  BY DEF Pay!rows, Pay!history
<1>2. Pay!TypeOK'
  <2>1. events' \subseteq {"customer.created", "customer.deleted", "subscription.created", "subscription.deleted"} \X Nat
    BY <1>1, <1>a DEF Pay!TypeOK
  <2>2. creating' \subseteq User \X Pay!Cid
    <3> SUFFICES ASSUME NEW x \in creating' PROVE x \in User \X Pay!Cid
      OBVIOUS
    <3>1. CASE x \in creating
      BY <1>1, <3>1 DEF Pay!TypeOK
    <3>2. CASE x \notin creating
      <4>1. PICK c \in 1..Len(customers') : customers'[c].email \in User /\ x = <<customers'[c].email, c>>
        BY <3>2
      <4>2. c \in Pay!Cid
        BY <1>a DEF Pay!Cid
      <4> QED BY <4>1, <4>2
    <3> QED BY <3>1, <3>2
  <2> QED BY <1>1, <1>a, <1>b, <2>1, <2>2 DEF Pay!TypeOK, ClientRecord
<1>3. EventsKnown' /\ RowsKnown'
  <2>1. EventsKnown'
    BY <1>1, <1>a, <1>b DEF EventsKnown, Subscribed
  <2>2. RowsKnown'
    <3>1. ASSUME NEW x \in creating'
          PROVE  x[2] \in 1..Len(customers') /\ customers'[x[2]].email = x[1]
      <4>1. CASE x \in creating
        BY <1>1, <1>a, <4>1 DEF RowsKnown
      <4>2. CASE x \notin creating
        <5>1. PICK c \in 1..Len(customers') : x = <<customers'[c].email, c>>
          BY <4>2
        <5> QED BY <5>1
      <4> QED BY <4>1, <4>2
    <3> QED BY <1>1, <1>a, <1>b, <3>1 DEF RowsKnown, Subscribed
  <2> QED BY <2>1, <2>2
<1>4. Promised' /\ OnlyOne' /\ Mirrored'
  <2>1. Promised' /\ OnlyOne'
    BY <1>b DEF PaymentsInv, Promised, OnlyOne, Subscribed
  <2>2. \A s : /\ <<"subscription.created", s>> \in events' <=> <<"subscription.created", s>> \in events
               /\ <<"subscription.deleted", s>> \in events' <=> <<"subscription.deleted", s>> \in events
    OBVIOUS
  <2>3. Mirrored'
    BY <1>b, <2>2 DEF PaymentsInv, Mirrored, Subscribed
  <2> QED BY <2>1, <2>3
<1>5. Pay!CustomersLinked'
  BY <1>1 DEF PaymentsInv, Pay!CustomersLinked, Pay!Owner, RowsKnown, ClientsKept, Pay!rows
<1> QED BY <1>2, <1>3, <1>4, <1>5 DEF PaymentsInv

\* Steps about the rows of customers.
LEMMA LinksOnly ==
  ASSUME PaymentsInv, UNCHANGED <<Pay!remote, Subscription, validated, Pay!history>>,
         creating' \subseteq creating, events' \subseteq events,
         \A e \in events \ events' : e[1] \in {"customer.created", "customer.deleted"},
         \/ Customer' \subseteq Customer
         \/ \E c \in 1..Len(customers) : /\ ~Pay!HasRow(Pay!Owner(c))
                                        /\ Customer' = Customer \cup {<<Pay!Owner(c), c>>}
  PROVE  PaymentsInv'
<1> USE PaymentAssumption
<1>1. Pay!TypeOK /\ EventsKnown /\ RowsKnown /\ Pay!CustomersLinked
  BY DEF PaymentsInv
<1>a. UNCHANGED <<customers, subscriptions, Subscription, validated>>
  BY DEF Pay!remote
<1>b. UNCHANGED <<removed, cancelled, late, overlapped>>
  BY DEF Pay!history
<1>2. /\ Customer' \subseteq Nat \X Pay!Cid
      /\ \A x \in Customer' : x[2] \in 1..Len(customers) /\ x[1] = Pay!Owner(x[2])
      /\ \A x, y \in Customer' : x[1] = y[1] => x = y
  <2>1. CASE Customer' \subseteq Customer
    BY <1>1, <2>1 DEF Pay!TypeOK, RowsKnown, Pay!CustomersLinked
  <2>2. CASE \E c \in 1..Len(customers) : /\ ~Pay!HasRow(Pay!Owner(c))
                                         /\ Customer' = Customer \cup {<<Pay!Owner(c), c>>}
    <3>1. PICK c \in 1..Len(customers) : /\ ~Pay!HasRow(Pay!Owner(c))
                                         /\ Customer' = Customer \cup {<<Pay!Owner(c), c>>}
      BY <2>2
    <3>2. c \in Pay!Cid
      BY <1>1 DEF Pay!TypeOK, Pay!Cid
    <3>3. customers[c].email \in User
      BY <1>1, RemoteTyped DEF ClientRecord
    <3>4. Pay!Owner(c) \in Nat
      BY <3>3 DEF Pay!Owner
    <3>5. \A x \in Customer : x[1] # Pay!Owner(c)
      BY <3>1 DEF Pay!HasRow
    <3> HIDE DEF Pay!Owner
    <3>6. Customer' \subseteq Nat \X Pay!Cid
      BY <1>1, <3>1, <3>2, <3>4 DEF Pay!TypeOK
    <3>7. \A x \in Customer' : x[2] \in 1..Len(customers) /\ x[1] = Pay!Owner(x[2])
      BY <1>1, <3>1 DEF RowsKnown, Pay!CustomersLinked
    <3>8. \A x, y \in Customer' : x[1] = y[1] => x = y
      BY <1>1, <3>1, <3>5 DEF Pay!CustomersLinked
    <3> QED BY <3>6, <3>7, <3>8
  <2> QED BY <2>1, <2>2
<1>3. Pay!TypeOK'
  BY <1>1, <1>a, <1>b, <1>2 DEF Pay!TypeOK
<1>4. EventsKnown' /\ RowsKnown'
  BY <1>1, <1>a, <1>2 DEF EventsKnown, RowsKnown, Subscribed
<1>5. Promised' /\ OnlyOne'
  BY <1>a, <1>b DEF PaymentsInv, Promised, OnlyOne, Subscribed
<1>6. \A s : /\ <<"subscription.created", s>> \in events' <=> <<"subscription.created", s>> \in events
             /\ <<"subscription.deleted", s>> \in events' <=> <<"subscription.deleted", s>> \in events
  OBVIOUS
<1>7. Mirrored'
  BY <1>a, <1>b, <1>6 DEF PaymentsInv, Mirrored, Subscribed
<1>8. Pay!CustomersLinked'
  BY <1>a, <1>2 DEF Pay!CustomersLinked, Pay!Owner
<1> QED BY <1>3, <1>4, <1>5, <1>7, <1>8 DEF PaymentsInv

\* Nothing about customers changes.
LEMMA LinksKept ==
  ASSUME PaymentsInv, UNCHANGED <<customers, Customer, creating>>
  PROVE  /\ Pay!CustomersLinked'
         /\ \A x \in Customer' : x[2] \in 1..Len(customers')
         /\ \A x \in creating' : x[2] \in 1..Len(customers') /\ customers'[x[2]].email = x[1]
  BY DEF PaymentsInv, RowsKnown, Pay!CustomersLinked, Pay!Owner

LEMMA ValidateKeeps ==
  ASSUME PaymentsInv, NEW r \in Request, NEW u \in User, NEW c \in Pay!Cid, NEW p \in Product,
         Pay!validate(r, u, c, p)
  PROVE  PaymentsInv'
<1>1. UNCHANGED <<customers, subscriptions, Customer, Subscription, creating, events, removed, cancelled, late>>
  BY DEF Pay!validate, Pay!remote, Pay!rows
<1>2. /\ validated[r] = <<>> /\ validated' = [validated EXCEPT ![r] = <<c, p>>]
      /\ Pay!Active(c, p) = {}
      /\ overlapped' = IF \E q \in Request : validated[q] = <<c, p>>
                       THEN overlapped \cup {<<c, p>>} ELSE overlapped
  BY DEF Pay!validate, Pay!Valid
<1>3. Pay!TypeOK /\ Promised
  BY DEF PaymentsInv
<1>4. overlapped \subseteq overlapped' /\ overlapped' \subseteq overlapped \cup {<<c, p>>}
  BY <1>2
<1>5. validated' \in [Request -> (Pay!Cid \X Product) \cup {<<>>}]
  BY <1>2, <1>3 DEF Pay!TypeOK
<1>6. Pay!TypeOK'
  BY <1>1, <1>3, <1>4, <1>5 DEF Pay!TypeOK
<1>7. EventsKnown' /\ RowsKnown' /\ Mirrored'
  BY <1>1 DEF PaymentsInv, EventsKnown, RowsKnown, Mirrored, Subscribed
<1>8. OnlyOne'
  BY <1>1, <1>4 DEF PaymentsInv, OnlyOne, Subscribed
<1>9. Promised'
  <2> SUFFICES ASSUME NEW k \in Request, validated'[k] # <<>>, validated'[k] \notin overlapped'
               PROVE  /\ \A s \in Subscribed : subscriptions[s].active =>
                             <<subscriptions[s].customer, subscriptions[s].product>> # validated'[k]
                      /\ \A q \in Request : validated'[q] = validated'[k] => q = k
    BY <1>1 DEF Promised, Subscribed
  <2>1. CASE k = r
    <3>1. validated'[k] = <<c, p>> /\ \A q \in Request : validated[q] # <<c, p>>
      BY <1>2, <1>3, <2>1 DEF Pay!TypeOK
    <3>2. \A q \in Request : q # r => validated'[q] = validated[q]
      BY <1>2, <1>3 DEF Pay!TypeOK
    <3>3. \A s \in Subscribed : subscriptions[s].active =>
              subscriptions[s].customer # c \/ subscriptions[s].product # p
      BY <1>2 DEF Pay!Active, Subscribed
    <3> QED BY <2>1, <3>1, <3>2, <3>3
  <2>2. CASE k # r
    <3>1. validated'[k] = validated[k] /\ validated[k] \notin overlapped
      BY <1>2, <1>3, <1>4, <2>2 DEF Pay!TypeOK
    <3>2. validated[k] # <<c, p>>
      <4>1. (\E q \in Request : validated[q] = <<c, p>>) => <<c, p>> \in overlapped'
        BY <1>2
      <4> QED BY <3>1, <4>1
    <3>3. \A q \in Request : validated'[q] = IF q = r THEN <<c, p>> ELSE validated[q]
      BY <1>2, <1>3 DEF Pay!TypeOK
    <3> QED BY <1>3, <3>1, <3>2, <3>3 DEF Promised
  <2> QED BY <2>1, <2>2
<1> QED BY <1>1, <1>6, <1>7, <1>8, <1>9, LinksKept DEF PaymentsInv

\* A request makes the subscription that it has validated, or fails.
LEMMA SubscribeKeeps ==
  ASSUME PaymentsInv, NEW r \in Request, Pay!create_subscription(r)
  PROVE  PaymentsInv'
<1> USE PaymentAssumption
<1>1. UNCHANGED <<customers, Customer, Subscription, creating, removed, cancelled, late, overlapped>>
  BY DEF Pay!create_subscription, Pay!rows, Pay!history
<1>2. validated[r] # <<>> /\ validated' = [validated EXCEPT ![r] = <<>>]
  BY DEF Pay!create_subscription
<1>3. Pay!TypeOK /\ EventsKnown /\ RowsKnown /\ Promised /\ OnlyOne /\ Mirrored
  BY DEF PaymentsInv
<1>4. /\ validated' \in [Request -> (Pay!Cid \X Product) \cup {<<>>}]
      /\ \A k \in Request : validated'[k] = IF k = r THEN <<>> ELSE validated[k]
  BY <1>2, <1>3 DEF Pay!TypeOK
<1>5. CASE UNCHANGED <<subscriptions, events>>
  <2>1. Pay!TypeOK'
    BY <1>1, <1>3, <1>4, <1>5 DEF Pay!TypeOK
  <2>2. EventsKnown' /\ RowsKnown' /\ OnlyOne' /\ Mirrored'
    BY <1>1, <1>3, <1>5 DEF EventsKnown, RowsKnown, OnlyOne, Mirrored, Subscribed
  <2>3. Promised'
    BY <1>1, <1>3, <1>4, <1>5 DEF Promised, Subscribed
  <2> QED BY <1>1, <2>1, <2>2, <2>3, LinksKept DEF PaymentsInv
<1>6. CASE /\ Len(subscriptions) < MaxSubscriptions
           /\ subscriptions' = Append(subscriptions, [customer |-> validated[r][1], product |-> validated[r][2],
                                                    active |-> TRUE, card |-> None])
           /\ events' = events \cup {<<"subscription.created", Len(subscriptions) + 1>>}
  <2> DEFINE n == Len(subscriptions) + 1
  <2>1. validated[r] \in Pay!Cid \X Product
    BY <1>2, <1>3 DEF Pay!TypeOK
  <2>2. PICK c \in Pay!Cid, p \in Product : validated[r] = <<c, p>>
    BY <2>1
  <2>3. subscriptions \in Seq(PlanRecord) /\ Len(subscriptions) \in Nat
    BY <1>3 DEF Pay!TypeOK, PlanRecord
  <2>4. /\ subscriptions' \in Seq(PlanRecord) /\ Len(subscriptions') = n
        /\ \A s \in Subscribed : subscriptions'[s] = subscriptions[s]
        /\ subscriptions'[n].customer = c /\ subscriptions'[n].product = p
        /\ subscriptions'[n].active = TRUE
    BY <1>6, <2>2, <2>3 DEF PlanRecord, Subscribed
  <2>5. n \in Nat /\ n \notin Subscribed /\ Subscribed' = Subscribed \cup {n} /\ n <= MaxSubscriptions
    BY <1>6, <2>3, <2>4 DEF Subscribed
  <2>6. events' = events \cup {<<"subscription.created", n>>}
    BY <1>6
  <2> HIDE DEF n
  <2>7. Pay!TypeOK'
    <3>1. events' \subseteq {"customer.created", "customer.deleted", "subscription.created", "subscription.deleted"} \X Nat
      BY <1>3, <2>5, <2>6 DEF Pay!TypeOK
    <3> QED BY <1>1, <1>3, <1>4, <2>4, <2>5, <3>1 DEF Pay!TypeOK, PlanRecord
  <2>8. EventsKnown' /\ RowsKnown'
    <3>1. EventsKnown'
      BY <1>1, <1>3, <2>5, <2>6 DEF EventsKnown
    <3>2. RowsKnown'
      BY <1>1, <1>3, <2>4, <2>5 DEF RowsKnown
    <3> QED BY <3>1, <3>2
  <2>9. Promised'
    <3> SUFFICES ASSUME NEW k \in Request, validated'[k] # <<>>, validated'[k] \notin overlapped
                 PROVE  /\ \A s \in Subscribed' : subscriptions'[s].active =>
                             <<subscriptions'[s].customer, subscriptions'[s].product>> # validated'[k]
                        /\ \A q \in Request : validated'[q] = validated'[k] => q = k
      BY <1>1 DEF Promised
    <3>1. k # r /\ validated'[k] = validated[k]
      BY <1>4
    <3>2. validated[k] # <<c, p>>
      BY <1>3, <2>2, <3>1 DEF Promised
    <3>3. \A s \in Subscribed : subscriptions'[s].active =>
               <<subscriptions'[s].customer, subscriptions'[s].product>> # validated'[k]
      BY <1>3, <2>4, <3>1 DEF Promised
    <3>4. \A q \in Request : validated'[q] = validated'[k] => q = k
      BY <1>3, <1>4, <3>1 DEF Promised
    <3> QED BY <2>4, <2>5, <3>1, <3>2, <3>3, <3>4
  <2>10. OnlyOne'
    <3>1. \A s \in Subscribed : subscriptions[s].active /\ subscriptions[s].customer = c
                               /\ subscriptions[s].product = p => <<c, p>> \in overlapped
      BY <1>2, <1>3, <2>2 DEF Promised
    <3> SUFFICES ASSUME NEW s \in Subscribed', NEW t \in Subscribed', s # t,
                        subscriptions'[s].active, subscriptions'[t].active,
                        subscriptions'[s].customer = subscriptions'[t].customer,
                        subscriptions'[s].product = subscriptions'[t].product
                 PROVE  <<subscriptions'[s].customer, subscriptions'[s].product>> \in overlapped
      BY <1>1 DEF OnlyOne
    <3>2. CASE s \in Subscribed /\ t \in Subscribed
      BY <1>3, <2>4, <3>2 DEF OnlyOne
    <3>3. CASE s = n /\ t \in Subscribed
      BY <2>4, <3>1, <3>3
    <3>4. CASE t = n /\ s \in Subscribed
      BY <2>4, <3>1, <3>4
    <3> QED BY <2>5, <3>2, <3>3, <3>4
  <2>11. Mirrored'
    <3>1. <<"subscription.deleted", n>> \notin events'
      BY <1>3, <2>5, <2>6 DEF EventsKnown
    <3>2. \A s \in Subscribed :
            /\ <<"subscription.created", s>> \in events' <=> <<"subscription.created", s>> \in events
            /\ <<"subscription.deleted", s>> \in events' <=> <<"subscription.deleted", s>> \in events
      BY <2>5, <2>6
    <3> QED BY <1>1, <1>3, <2>4, <2>5, <2>6, <3>1, <3>2 DEF Mirrored
  <2> QED BY <1>1, <2>7, <2>8, <2>9, <2>10, <2>11, LinksKept DEF PaymentsInv
<1> QED BY <1>5, <1>6 DEF Pay!create_subscription

\* Subscriptions keep their customer and their product, and none becomes active again.
Faded ==
  /\ subscriptions' \in Seq(PlanRecord) /\ Len(subscriptions') = Len(subscriptions)
  /\ \A s \in Subscribed : /\ subscriptions'[s].customer = subscriptions[s].customer
                            /\ subscriptions'[s].product = subscriptions[s].product
                            /\ (subscriptions'[s].active = TRUE => subscriptions[s].active = TRUE)

LEMMA PlanPut ==
  ASSUME Pay!TypeOK, NEW s \in Subscribed, NEW x \in PlanRecord,
         x.customer = subscriptions[s].customer, x.product = subscriptions[s].product,
         x.active = TRUE => subscriptions[s].active = TRUE, subscriptions' = [subscriptions EXCEPT ![s] = x]
  PROVE  Faded
  BY DEF Pay!TypeOK, PlanRecord, Faded, Subscribed

LEMMA FadedKeeps ==
  ASSUME PaymentsInv, Faded, UNCHANGED <<customers, Customer, creating, validated, overlapped>>,
         \A e \in events' : e \in events \/ \E s \in Subscribed : e = <<"subscription.deleted", s>>,
         \A x \in Subscription' : x \in Subscription \/
           \E s \in Subscribed : x = <<subscriptions[s].customer, s>>,
         (removed' \cup cancelled' \cup late') \subseteq removed \cup cancelled \cup late \cup Subscribed,
         Mirrored'
  PROVE  PaymentsInv'
<1> USE PaymentAssumption
<1>1. Pay!TypeOK /\ EventsKnown /\ RowsKnown /\ Promised /\ OnlyOne
  BY DEF PaymentsInv
<1>2. Subscribed' = Subscribed /\ Subscribed \subseteq Pay!Sid
  BY <1>1 DEF Faded, Subscribed, Pay!TypeOK, Pay!Sid
<1>3. \A s \in Subscribed : subscriptions[s].customer \in Pay!Cid
  BY <1>1, RemoteTyped DEF PlanRecord
<1>4. Pay!TypeOK'
  <2>1. events' \subseteq {"customer.created", "customer.deleted", "subscription.created", "subscription.deleted"} \X Nat
    BY <1>1, <1>2 DEF Pay!TypeOK, Subscribed
  <2>2. Subscription' \subseteq Pay!Cid \X Pay!Sid
    BY <1>1, <1>2, <1>3 DEF Pay!TypeOK
  <2>3. (removed' \cup cancelled' \cup late') \subseteq Pay!Sid
    BY <1>1, <1>2 DEF Pay!TypeOK
  <2>4. subscriptions' \in Seq(PlanRecord) /\ Len(subscriptions') <= MaxSubscriptions
    BY <1>1 DEF Faded, Pay!TypeOK
  <2> QED BY <1>1, <2>1, <2>2, <2>3, <2>4 DEF Pay!TypeOK, PlanRecord
<1>5. EventsKnown'
  <2> SUFFICES ASSUME NEW e \in events'
               PROVE  /\ e[1] \in {"customer.created", "customer.deleted"} => e[2] \in 1..Len(customers)
                      /\ e[1] \in {"subscription.created", "subscription.deleted"} => e[2] \in Subscribed
    BY <1>2 DEF EventsKnown
  <2>1. CASE e \in events
    BY <1>1, <2>1 DEF EventsKnown
  <2>2. CASE \E s \in Subscribed : e = <<"subscription.deleted", s>>
    BY <2>2
  <2> QED BY <2>1, <2>2
<1>6. RowsKnown'
  <2>1. \A x \in Subscription' : x[2] \in Subscribed /\ x[1] = subscriptions[x[2]].customer
    BY <1>1 DEF RowsKnown
  <2>2. \A s \in Subscribed : subscriptions'[s].customer = subscriptions[s].customer
    BY DEF Faded
  <2>3. \A x \in Subscription' : x[2] \in Subscribed' /\ x[1] = subscriptions'[x[2]].customer
    BY <1>2, <2>1, <2>2
  <2> QED BY <2>3, LinksKept DEF RowsKnown
<1>7. Promised' /\ OnlyOne'
  <2>1. /\ validated' = validated /\ overlapped' = overlapped
        /\ \A s \in Subscribed : /\ subscriptions'[s].customer = subscriptions[s].customer
                                 /\ subscriptions'[s].product = subscriptions[s].product
                                 /\ (subscriptions'[s].active = TRUE => subscriptions[s].active = TRUE)
    BY DEF Faded
  <2>2. Promised'
    BY <1>1, <1>2, <2>1 DEF Promised
  <2>3. OnlyOne'
    BY <1>1, <1>2, <2>1 DEF OnlyOne
  <2> QED BY <2>2, <2>3
<1> QED BY <1>4, <1>5, <1>6, <1>7, LinksKept DEF PaymentsInv

\* A cancelled subscription's row goes with it, or when its event arrives.
LEMMA CancelKeeps ==
  ASSUME PaymentsInv, NEW s \in Subscribed, Pay!Cancel(s),
         UNCHANGED <<customers, Customer, creating, validated, Pay!history>>,
         Subscription' \subseteq Subscription,
         \A x \in Subscription \ Subscription' : x[2] = s
  PROVE  PaymentsInv'
<1>1. Pay!TypeOK /\ Mirrored
  BY DEF PaymentsInv
<1>2. UNCHANGED <<removed, cancelled, late, overlapped>>
  BY DEF Pay!history
<1>3. subscriptions \in Seq(PlanRecord) /\ subscriptions[s] \in PlanRecord
  BY <1>1, RemoteTyped
<1>4. subscriptions' = [subscriptions EXCEPT ![s] = [subscriptions[s] EXCEPT !.active = FALSE]]
  BY <1>3 DEF Pay!Cancel
<1>5. Faded
  BY <1>1, <1>3, <1>4, PlanPut DEF PlanRecord
<1>6. /\ subscriptions'[s].active = FALSE
      /\ \A t \in Subscribed : /\ t # s => subscriptions'[t] = subscriptions[t]
                               /\ subscriptions'[t].customer = subscriptions[t].customer
  BY <1>3, <1>4 DEF Subscribed, PlanRecord
<1>7. /\ events' = IF subscriptions[s].active THEN events \cup {<<"subscription.deleted", s>>} ELSE events
  BY DEF Pay!Cancel
<1>8. /\ events \subseteq events' /\ events' \subseteq events \cup {<<"subscription.deleted", s>>}
      /\ <<"subscription.deleted", s>> \in events' \/ ~subscriptions[s].active
  BY <1>7
<1>9. Subscribed' = Subscribed
  BY <1>5 DEF Faded, Subscribed
<1>10. Mirrored'
  <2>1. ASSUME NEW t \in Subscribed, t # s, subscriptions'[t].active
        PROVE  /\ \/ <<"subscription.created", t>> \in events'
                  \/ <<subscriptions'[t].customer, t>> \in Subscription'
                  \/ t \in removed'
               /\ <<"subscription.deleted", t>> \notin events'
    <3>1. /\ \/ <<"subscription.created", t>> \in events
             \/ <<subscriptions[t].customer, t>> \in Subscription
             \/ t \in removed
          /\ <<"subscription.deleted", t>> \notin events
      BY <1>1, <1>6, <2>1 DEF Mirrored
    <3>2. <<subscriptions[t].customer, t>> \in Subscription => <<subscriptions[t].customer, t>> \in Subscription'
      BY <2>1
    <3> QED BY <1>2, <1>6, <1>8, <2>1, <3>1, <3>2
  <2>2. ASSUME NEW t \in Subscribed, ~subscriptions'[t].active
        PROVE  <<"subscription.deleted", t>> \in events' \/ t \in cancelled'
    BY <1>1, <1>2, <1>6, <1>8, <2>2 DEF Mirrored
  <2>3. \A x \in Subscription' : x[2] \in cancelled' => x[2] \in late'
    BY <1>1, <1>2 DEF Mirrored
  <2> QED BY <1>6, <1>9, <2>1, <2>2, <2>3 DEF Mirrored
<1> QED BY <1>2, <1>5, <1>8, <1>10, FadedKeeps

\* A card changes.
LEMMA CardKeeps ==
  ASSUME PaymentsInv, NEW u, NEW c, NEW s \in Subscribed, NEW d \in Card, Pay!partial_update(u, c, s, d)
  PROVE  PaymentsInv'
<1>1. Pay!TypeOK /\ Mirrored
  BY DEF PaymentsInv
<1>2. UNCHANGED <<customers, Customer, Subscription, creating, validated, events, removed, cancelled, late, overlapped>>
  BY DEF Pay!partial_update, Pay!rows, Pay!history
<1>3. subscriptions \in Seq(PlanRecord) /\ subscriptions[s] \in PlanRecord
  BY <1>1, RemoteTyped
<1>4. subscriptions' = [subscriptions EXCEPT ![s] = [subscriptions[s] EXCEPT !.card = d]]
  BY <1>3 DEF Pay!partial_update
<1>5. Faded
  BY <1>1, <1>3, <1>4, PlanPut DEF PlanRecord
<1>6. \A t \in Subscribed : /\ subscriptions'[t].customer = subscriptions[t].customer
                            /\ subscriptions'[t].active = subscriptions[t].active
  BY <1>3, <1>4 DEF Subscribed, PlanRecord
<1>7. Subscribed' = Subscribed
  BY <1>5 DEF Faded, Subscribed
<1>8. Mirrored'
  BY <1>1, <1>2, <1>6, <1>7 DEF Mirrored
<1> QED BY <1>2, <1>5, <1>8, FadedKeeps

\* The subscriptions at Stripe stay as they are.
LEMMA SameFaded ==
  ASSUME Pay!TypeOK, subscriptions' = subscriptions
  PROVE  Faded /\ Subscribed' = Subscribed
<1>1. subscriptions \in Seq(PlanRecord)
  BY DEF Pay!TypeOK, PlanRecord
<1> QED BY <1>1 DEF Faded, Subscribed

LEMMA DestroyKeeps ==
  ASSUME PaymentsInv, NEW x \in Subscription, Pay!destroy(x[1], x[2])
  PROVE  PaymentsInv'
<1>1. Pay!TypeOK /\ Mirrored /\ RowsKnown
  BY DEF PaymentsInv
<1>2. x[2] \in Subscribed
  BY <1>1 DEF RowsKnown
<1>3. PICK c, s : <<c, s>> = <<x[1], x[2]>>
  OBVIOUS
<1>4. /\ UNCHANGED <<customers, subscriptions, Customer, creating, validated, events, cancelled, late, overlapped>>
      /\ Subscription' = Subscription \ {<<c, s>>} /\ removed' = removed \cup {s} /\ s \in Subscribed
  BY <1>2, <1>3 DEF Pay!destroy, Pay!remote
<1>5. Mirrored'
  BY <1>1, <1>4, SameFaded DEF Mirrored
<1> QED BY <1>1, <1>4, <1>5, SameFaded, FadedKeeps

\* Events of subscriptions.
LEMMA CreatedKeeps ==
  ASSUME PaymentsInv, NEW s, NEW again \in BOOLEAN, <<"subscription.created", s>> \in events,
         Pay!subscription_created(s), UNCHANGED <<Pay!remote, creating, validated>>,
         events' = IF again THEN events ELSE events \ {<<"subscription.created", s>>}
  PROVE  PaymentsInv'
<1>1. Pay!TypeOK /\ Mirrored /\ RowsKnown /\ EventsKnown
  BY DEF PaymentsInv
<1>2. s \in Subscribed
  BY <1>1 DEF EventsKnown
<1>3. /\ UNCHANGED <<customers, subscriptions, Customer, creating, validated, removed, cancelled, overlapped>>
      /\ Subscription' = IF \E x \in Subscription : x[2] = s THEN Subscription
                         ELSE Subscription \cup {<<subscriptions[s].customer, s>>}
      /\ late' = IF s \in cancelled THEN late \cup {s} ELSE late
  BY DEF Pay!subscription_created, Pay!remote
<1>4. /\ Subscription \subseteq Subscription' /\ <<subscriptions[s].customer, s>> \in Subscription'
      /\ \A x \in Subscription' : x \in Subscription \/ x = <<subscriptions[s].customer, s>>
  <2>1. CASE \E x \in Subscription : x[2] = s
    <3>1. PICK x \in Subscription : x[2] = s
      BY <2>1
    <3>2. x = <<x[1], x[2]>>
      BY <1>1 DEF Pay!TypeOK
    <3>3. x[1] = subscriptions[s].customer
      BY <1>1, <3>1 DEF RowsKnown
    <3> QED BY <1>3, <2>1, <3>1, <3>2, <3>3
  <2>2. CASE ~\E x \in Subscription : x[2] = s
    BY <1>3, <2>2
  <2> QED BY <2>1, <2>2
<1>5. /\ events' \subseteq events
      /\ \A e \in events : e = <<"subscription.created", s>> \/ e \in events'
  OBVIOUS
<1>6. late' \subseteq late \cup {s} /\ late \subseteq late' /\ (s \in cancelled => s \in late')
  BY <1>3
<1>7. Mirrored'
  <2>1. ASSUME NEW t \in Subscribed, subscriptions[t].active
        PROVE  /\ \/ <<"subscription.created", t>> \in events'
                  \/ <<subscriptions[t].customer, t>> \in Subscription'
                  \/ t \in removed'
               /\ <<"subscription.deleted", t>> \notin events'
    BY <1>1, <1>3, <1>4, <1>5, <2>1 DEF Mirrored
  <2>2. ASSUME NEW t \in Subscribed, ~subscriptions[t].active
        PROVE  <<"subscription.deleted", t>> \in events' \/ t \in cancelled'
    BY <1>1, <1>3, <1>5, <2>2 DEF Mirrored
  <2>3. \A x \in Subscription' : x[2] \in cancelled' => x[2] \in late'
    BY <1>1, <1>3, <1>4, <1>6 DEF Mirrored
  <2> QED BY <1>1, <1>3, <2>1, <2>2, <2>3, SameFaded DEF Mirrored
<1> QED BY <1>1, <1>2, <1>3, <1>4, <1>5, <1>6, <1>7, SameFaded, FadedKeeps

LEMMA DeletedKeeps ==
  ASSUME PaymentsInv, NEW s, NEW again \in BOOLEAN, <<"subscription.deleted", s>> \in events,
         Pay!subscription_deleted(s), UNCHANGED <<Pay!remote, creating, validated>>,
         events' = IF again THEN events ELSE events \ {<<"subscription.deleted", s>>}
  PROVE  PaymentsInv'
<1>1. Pay!TypeOK /\ Mirrored /\ RowsKnown /\ EventsKnown
  BY DEF PaymentsInv
<1>2. s \in Subscribed
  BY <1>1 DEF EventsKnown
<1>3. /\ UNCHANGED <<customers, subscriptions, Customer, creating, validated, removed, late, overlapped>>
      /\ Subscription' = {x \in Subscription : x[2] # s} /\ cancelled' = cancelled \cup {s}
  BY DEF Pay!subscription_deleted, Pay!remote
<1>4. ~subscriptions[s].active
  BY <1>1, <1>2 DEF Mirrored
<1>5. /\ events' \subseteq events
      /\ \A e \in events : e = <<"subscription.deleted", s>> \/ e \in events'
  OBVIOUS
<1>6. Mirrored'
  <2>1. ASSUME NEW t \in Subscribed, subscriptions[t].active
        PROVE  /\ \/ <<"subscription.created", t>> \in events'
                  \/ <<subscriptions[t].customer, t>> \in Subscription'
                  \/ t \in removed'
               /\ <<"subscription.deleted", t>> \notin events'
    BY <1>1, <1>3, <1>4, <1>5, <2>1 DEF Mirrored
  <2>2. ASSUME NEW t \in Subscribed, ~subscriptions[t].active
        PROVE  <<"subscription.deleted", t>> \in events' \/ t \in cancelled'
    BY <1>1, <1>3, <1>5, <2>2 DEF Mirrored
  <2>3. \A x \in Subscription' : x[2] \in cancelled' => x[2] \in late'
    BY <1>1, <1>3 DEF Mirrored
  <2> QED BY <1>1, <1>3, <2>1, <2>2, <2>3, SameFaded DEF Mirrored
<1> QED BY <1>1, <1>2, <1>3, <1>5, <1>6, SameFaded, FadedKeeps

LEMMA PaymentsInit == Pay!Init => PaymentsInv
  BY PaymentAssumption
  DEF Pay!Init, PaymentsInv, Pay!TypeOK, EventsKnown, RowsKnown, Promised, OnlyOne, Mirrored,
      Pay!CustomersLinked, Subscribed

\* Stripe's events are delivered in any order and any number of times.
LEMMA WebhookKeeps ==
  ASSUME PaymentsInv, NEW e \in events, NEW again \in BOOLEAN, Pay!webhook_handler(e, again)
  PROVE  PaymentsInv'
<1>1. Pay!TypeOK /\ EventsKnown
  BY DEF PaymentsInv
<1>2. e = <<e[1], e[2]>>
  BY <1>1 DEF Pay!TypeOK
<1>3. /\ events' = IF again THEN events ELSE events \ {e}
      /\ UNCHANGED <<Pay!remote, creating, validated>>
  BY DEF Pay!webhook_handler
<1>4. CASE e[1] = "customer.created" /\ Pay!customer_created(e[2], again)
  <2>1. e[2] \in 1..Len(customers)
    BY <1>1, <1>4 DEF EventsKnown
  <2>2. UNCHANGED <<Subscription, Pay!history>>
    BY <1>4 DEF Pay!customer_created
  <2>3. \/ Customer' = Customer
        \/ ~Pay!HasRow(Pay!Owner(e[2])) /\ Customer' = Customer \cup {<<Pay!Owner(e[2]), e[2]>>}
    BY <1>4 DEF Pay!customer_created
  <2> QED BY <1>3, <1>4, <2>1, <2>2, <2>3, LinksOnly
<1>5. CASE e[1] = "customer.deleted" /\ Pay!customer_deleted(e[2])
  <2>1. UNCHANGED <<Subscription, Pay!history>> /\ Customer' \subseteq Customer
    BY <1>5 DEF Pay!customer_deleted
  <2> QED BY <1>3, <1>5, <2>1, LinksOnly
<1>6. CASE e[1] = "subscription.created" /\ Pay!subscription_created(e[2])
  BY <1>2, <1>3, <1>6, CreatedKeeps
<1>7. CASE e[1] = "subscription.deleted" /\ Pay!subscription_deleted(e[2])
  BY <1>2, <1>3, <1>7, DeletedKeeps
<1> QED BY <1>4, <1>5, <1>6, <1>7 DEF Pay!webhook_handler

\* What people and Stripe do with customers and their cards.
LEMMA CustomerSteps ==
  ASSUME PaymentsInv, NEW u \in User,
         \/ Pay!create_customer(u) \/ Pay!retrieve_me(u)
         \/ \E c \in 1..Len(customers), d \in Card :
              \/ Pay!create_setup_intent(u, c, d) \/ Pay!update_payment_method(u, c, d)
              \/ \E b, detached \in BOOLEAN : Pay!delete_payment_method(u, c, d, b, detached)
  PROVE  PaymentsInv'
<1>1. Pay!TypeOK /\ RowsKnown /\ Pay!CustomersLinked
  BY DEF PaymentsInv
<1>2. customers \in Seq(ClientRecord) /\ \A c \in 1..Len(customers) : customers[c] \in ClientRecord
  BY <1>1, RemoteTyped
<1>3. CASE Pay!create_customer(u)
  <2> DEFINE x == [email |-> u, live |-> TRUE, cards |-> {}, default |-> None]
             n == Len(customers) + 1
  <2>1. x \in ClientRecord
    BY DEF ClientRecord
  <2>2. /\ Len(customers) < MaxCustomers /\ customers' = Append(customers, x)
        /\ creating' = creating \cup {<<u, n>>}
        /\ events' = events \cup {<<"customer.created", n>>}
        /\ UNCHANGED <<subscriptions, Pay!rows, validated, Pay!history>>
    BY <1>3 DEF Pay!create_customer
  <2>3. n \in 1..Len(customers') /\ customers'[n].email = u
    BY <1>2, <2>1, <2>2
  <2>4. ClientsKept(customers')
    BY <1>1, <2>1, <2>2, ClientAdded
  <2> HIDE DEF x, n
  <2> QED BY <2>2, <2>3, <2>4, ClientsOnly
<1>4. CASE Pay!retrieve_me(u)
  <2>1. PICK c \in 1..Len(customers) : customers[c].email = u /\ Customer' = Customer \cup {<<ProfileOf[u], c>>}
    BY <1>4 DEF Pay!retrieve_me
  <2>2. /\ ~Pay!HasRow(Pay!Owner(c)) /\ Customer' = Customer \cup {<<Pay!Owner(c), c>>}
        /\ UNCHANGED <<Pay!remote, Subscription, creating, validated, events, Pay!history>>
    BY <1>4, <2>1 DEF Pay!retrieve_me, Pay!Owner
  <2> QED BY <2>2, LinksOnly
<1>5. ASSUME NEW c \in 1..Len(customers), NEW d \in Card,
             \/ Pay!create_setup_intent(u, c, d) \/ Pay!update_payment_method(u, c, d)
             \/ \E b, detached \in BOOLEAN : Pay!delete_payment_method(u, c, d, b, detached)
      PROVE  PaymentsInv'
  <2>1. UNCHANGED <<subscriptions, Pay!rows, creating, validated, events, Pay!history>>
    BY <1>5 DEF Pay!create_setup_intent, Pay!update_payment_method, Pay!delete_payment_method
  <2>2. \E x \in ClientRecord : x.email = customers[c].email /\ customers' = [customers EXCEPT ![c] = x]
    <3>1. customers[c] \in ClientRecord
      BY <1>2
    <3>2. CASE Pay!create_setup_intent(u, c, d)
      <4> DEFINE x == [customers[c] EXCEPT !.cards = customers[c].cards \cup {d}]
      <4>1. x \in ClientRecord /\ x.email = customers[c].email
        BY <3>1 DEF ClientRecord
      <4>2. customers' = [customers EXCEPT ![c] = x]
        BY <3>2 DEF Pay!create_setup_intent
      <4> QED BY <4>1, <4>2
    <3>3. CASE Pay!update_payment_method(u, c, d)
      <4> DEFINE x == [customers[c] EXCEPT !.default = d]
      <4>1. x \in ClientRecord /\ x.email = customers[c].email
        BY <3>1 DEF ClientRecord
      <4>2. customers' = [customers EXCEPT ![c] = x]
        BY <3>3 DEF Pay!update_payment_method
      <4> QED BY <4>1, <4>2
    <3>4. CASE \E b, detached \in BOOLEAN : Pay!delete_payment_method(u, c, d, b, detached)
      <4>1. PICK b \in BOOLEAN, detached \in BOOLEAN : Pay!delete_payment_method(u, c, d, b, detached)
        BY <3>4
      <4> DEFINE cards == IF detached THEN customers[c].cards \ {d} ELSE customers[c].cards
                 default == IF b \/ customers[c].default = d THEN None ELSE customers[c].default
                 x == [customers[c] EXCEPT !.cards = cards, !.default = default]
      <4>2. x \in ClientRecord /\ x.email = customers[c].email
        BY <3>1 DEF ClientRecord
      <4>3. customers' = [customers EXCEPT ![c] = x]
        BY <4>1, <3>1, <1>2 DEF Pay!delete_payment_method, ClientRecord
      <4> QED BY <4>2, <4>3
    <3> QED BY <1>5, <3>2, <3>3, <3>4
  <2>3. ClientsKept(customers')
    BY <1>1, <2>2, ClientPut
  <2> QED BY <2>1, <2>3, ClientsOnly
<1> QED BY <1>3, <1>4, <1>5

LEMMA PaymentsStep == ASSUME PaymentsInv, [Pay!Next]_(Pay!vars) PROVE PaymentsInv'
<1>1. Pay!TypeOK /\ RowsKnown
  BY DEF PaymentsInv
<1>2. CASE UNCHANGED Pay!vars
  BY <1>2 DEF Pay!vars, Pay!remote, Pay!rows, Pay!history, PaymentsInv, Pay!TypeOK, EventsKnown, RowsKnown,
              Promised, OnlyOne, Mirrored, Pay!CustomersLinked, Pay!Owner, Subscribed
<1>3. ASSUME NEW x \in creating, Pay!CreateRow(x[1], x[2])
      PROVE  PaymentsInv'
  <2>1. x[2] \in 1..Len(customers) /\ customers[x[2]].email = x[1]
    BY <1>1 DEF RowsKnown
  <2>2. PICK u, c : u = x[1] /\ c = x[2]
    OBVIOUS
  <2>3. Pay!Owner(c) = ProfileOf[u]
    BY <2>1, <2>2 DEF Pay!Owner
  <2>4. /\ UNCHANGED <<Pay!remote, Subscription, validated, events, Pay!history>>
        /\ creating' = creating \ {<<u, c>>}
        /\ \/ ~Pay!HasRow(Pay!Owner(c)) /\ Customer' = Customer \cup {<<Pay!Owner(c), c>>}
           \/ Customer' = Customer
    BY <1>3, <2>2, <2>3 DEF Pay!CreateRow
  <2> QED BY <2>1, <2>2, <2>4, LinksOnly
<1>4. ASSUME NEW c \in 1..Len(customers), Pay!StripeDeletes(c)
      PROVE  PaymentsInv'
  <2> DEFINE x == [customers[c] EXCEPT !.live = FALSE]
  <2>1. customers[c] \in ClientRecord
    BY <1>1, RemoteTyped
  <2>2. x \in ClientRecord /\ x.email = customers[c].email
    BY <2>1 DEF ClientRecord
  <2>3. /\ customers' = [customers EXCEPT ![c] = x]
        /\ events' = events \cup {<<"customer.deleted", c>>}
        /\ UNCHANGED <<subscriptions, Pay!rows, creating, validated, Pay!history>>
    BY <1>4 DEF Pay!StripeDeletes
  <2>4. ClientsKept(customers')
    BY <1>1, <2>2, <2>3, ClientPut
  <2>5. c \in 1..Len(customers')
    BY <2>4 DEF ClientsKept
  <2> HIDE DEF x
  <2> QED BY <2>3, <2>4, <2>5, ClientsOnly
<1>5. ASSUME NEW s \in 1..Len(subscriptions), Pay!StripeCancels(s)
      PROVE  PaymentsInv'
  <2>1. /\ Pay!Cancel(s) /\ s \in Subscribed
        /\ UNCHANGED <<customers, Customer, Subscription, creating, validated, Pay!history>>
    BY <1>5 DEF Pay!StripeCancels, Pay!rows, Subscribed
  <2> QED BY <2>1, CancelKeeps
<1>6. ASSUME NEW x \in Subscription, NEW u \in User, Pay!delete_subscription(u, x[1], x[2])
      PROVE  PaymentsInv'
  <2>1. PICK c, s : c = x[1] /\ s = x[2]
    OBVIOUS
  <2>2. /\ Pay!Cancel(s) /\ s \in Subscribed
        /\ UNCHANGED <<customers, Customer, creating, validated, Pay!history>>
        /\ Subscription' = Subscription \ {<<c, s>>} \/ Subscription' = Subscription
    BY <1>1, <1>6, <2>1 DEF Pay!delete_subscription, RowsKnown
  <2> QED BY <2>2, CancelKeeps
<1>7. ASSUME NEW u \in User, NEW c \in 1..Len(customers), NEW d \in Card, NEW s \in 1..Len(subscriptions),
             Pay!partial_update(u, c, s, d)
      PROVE  PaymentsInv'
  BY <1>7, CardKeeps DEF Subscribed
<1> QED BY <1>2, <1>3, <1>4, <1>5, <1>6, <1>7, CustomerSteps, SubscribeKeeps, ValidateKeeps,
           DestroyKeeps, WebhookKeeps
        DEF Pay!Next

\* One row at a customer and a product, and rows that mirror what Stripe has delivered.
LEMMA PaymentsFollow ==
  ASSUME PaymentsInv
  PROVE  Pay!TypeOK /\ Pay!PaymentsConsistent
<1>1. Pay!TypeOK /\ OnlyOne /\ Mirrored /\ Pay!CustomersLinked
  BY DEF PaymentsInv
<1>2. ASSUME NEW c \in Pay!Cid, NEW p \in Product, Pay!Cardinality(Pay!Active(c, p)) > 1
      PROVE  <<c, p>> \in overlapped
  <2> DEFINE S == Pay!Active(c, p)
  <2>1. S \subseteq Subscribed
    BY DEF Pay!Active, Subscribed
  <2>2. IsFiniteSet(Subscribed)
    BY <1>1, FS_Interval DEF Subscribed, Pay!TypeOK
  <2>3. IsFiniteSet(S)
    BY <2>1, <2>2, FS_Subset
  <2>4. \E s, t \in S : s # t
    <3>1. CASE S = {}
      BY <1>2, <3>1, SameCardinality, FS_EmptySet
    <3>2. CASE S # {}
      <4>1. PICK s \in S : TRUE
        BY <3>2
      <4>2. Cardinality(S) > 1 /\ Cardinality({s}) = 1
        BY <1>2, FS_Singleton, SameCardinality
      <4> HIDE DEF S
      <4>3. S # {s}
        BY <4>2
      <4> QED BY <4>1, <4>3
    <3> QED BY <3>1, <3>2
  <2>5. PICK s \in S, t \in S : s # t
    BY <2>4
  <2> QED BY <1>1, <2>1, <2>5 DEF OnlyOne, Pay!Active
<1>3. Pay!OneEachUnlessOverlapped
  BY <1>2 DEF Pay!OneEachUnlessOverlapped
<1>4. Pay!SubscriptionsMirrored
  <2> SUFFICES ASSUME NEW s \in Subscribed,
                      \A e \in events : e[1] \in {"subscription.created", "subscription.deleted"} => e[2] # s
               PROVE  LET mirrored == <<subscriptions[s].customer, s>> \in Subscription
                      IN /\ subscriptions[s].active /\ s \notin removed => mirrored
                         /\ ~subscriptions[s].active /\ s \notin late => ~mirrored
    BY DEF Pay!SubscriptionsMirrored, Subscribed
  <2>1. /\ <<"subscription.created", s>> \notin events
        /\ <<"subscription.deleted", s>> \notin events
    OBVIOUS
  <2> QED BY <1>1, <2>1 DEF Mirrored
<1> QED BY <1>1, <1>3, <1>4 DEF Pay!PaymentsConsistent

-----------------------------------------------------------------------------
Inv ==
  /\ part = "ids" => IdsInv
  /\ part = "follows" => FollowsInv
  /\ part = "targets" => TargetsInv
  /\ part = "accounts" => AccountsInv
  /\ part = "paths" => PathsInv
  /\ part = "payments" => PaymentsInv

LEMMA InitHolds == Init => Inv
<1> SUFFICES ASSUME Init PROVE Inv
  OBVIOUS
<1>1. CASE InitPersons
  <2>1. \/ part = "accounts" /\ Acc!Init
        \/ part = "paths" /\ Url!Init
        \/ part = "payments" /\ Pay!Init
    BY <1>1 DEF InitPersons
  <2> QED BY <2>1, AccountsInit, PathsInit, PaymentsInit DEF Inv
<1>2. CASE InitDocuments
  <2>1. \/ part = "targets" /\ T!Init
        \/ part = "follows" /\ F!Init
        \/ part = "ids" /\ P!Init
    BY <1>2 DEF InitDocuments
  <2> QED BY <2>1, IdsInit, FollowsStart, TargetsStart DEF Inv
<1> QED BY <1>1, <1>2 DEF Init

\* A step is one of the part that the behaviour is of.
LEMMA Steps ==
  ASSUME [Next]_vars
  PROVE  /\ part' = part
         /\ \/ part = "accounts" /\ Acc!Next
            \/ part = "paths" /\ Url!Next
            \/ part = "payments" /\ Pay!Next
            \/ part = "targets" /\ T!Next
            \/ part = "follows" /\ F!Next
            \/ part = "ids" /\ P!Next
            \/ UNCHANGED vars
<1>1. CASE UNCHANGED vars
  <2>1. UNCHANGED part
    BY <1>1 DEF vars, view
  <2> QED BY <1>1, <2>1
<1>2. CASE UNCHANGED part /\ NextOfPersons
  BY <1>2 DEF NextOfPersons
<1>3. CASE UNCHANGED part /\ NextOfDocuments
  BY <1>3 DEF NextOfDocuments
<1> QED BY <1>1, <1>2, <1>3 DEF Next

LEMMA InvHolds == Spec => []Inv
<1>1. Inv /\ [Next]_vars => Inv'
  <2> SUFFICES ASSUME Inv, [Next]_vars PROVE Inv'
    OBVIOUS
  <2>1. CASE part = "ids" /\ P!Next /\ part' = part
    BY <2>1, IdsStep DEF Inv
  <2>2. CASE part = "follows" /\ F!Next /\ part' = part
    BY <2>2, FollowsStep DEF Inv
  <2>3. CASE part = "targets" /\ T!Next /\ part' = part
    BY <2>3, TargetsStep DEF Inv
  <2>4. CASE part = "accounts" /\ Acc!Next /\ part' = part
    BY <2>4, AccountsStep DEF Inv
  <2>5. CASE part = "paths" /\ Url!Next /\ part' = part
    BY <2>5, PathsStep DEF Inv
  <2>6. CASE part = "payments" /\ Pay!Next /\ part' = part
    BY <2>6, PaymentsStep DEF Inv
  <2>7. CASE UNCHANGED vars
    <3>1. UNCHANGED <<part, accounts, paths, payments, overlapped, docs, migrating, targets, follows, ids>>
      BY <2>7 DEF vars, view, persons, documents, migrating
    <3>2. UNCHANGED Acc!vars /\ UNCHANGED Url!vars /\ UNCHANGED Pay!vars
      <4>1. UNCHANGED Acc!vars
        <5>1. UNCHANGED accounts
          BY <3>1
        <5> QED BY <5>1 DEF accounts, Acc!vars
      <4>2. UNCHANGED Url!vars
        <5>1. UNCHANGED <<paths, overlapped>>
          BY <3>1
        <5> QED BY <5>1 DEF paths, Url!vars
      <4>3. UNCHANGED Pay!vars
        <5>1. UNCHANGED <<payments, overlapped>>
          BY <3>1
        <5> QED BY <5>1 DEF payments, Pay!vars, Pay!remote, Pay!rows, Pay!history
      <4> QED BY <4>1, <4>2, <4>3
    <3>3. /\ part = "accounts" => AccountsInv'
          /\ part = "paths" => PathsInv'
          /\ part = "payments" => PaymentsInv'
      BY <3>2, AccountsStep, PathsStep, PaymentsStep DEF Inv
    <3>4. /\ part = "ids" => IdsInv'
          /\ part = "follows" => FollowsInv'
          /\ part = "targets" => TargetsInv'
      BY <3>1, IdsQuiet, FollowsQuiet, TargetsQuiet DEF Inv
    <3> QED BY <3>1, <3>3, <3>4 DEF Inv
  <2> QED BY <2>1, <2>2, <2>3, <2>4, <2>5, <2>6, <2>7, Steps
<1> QED BY <1>1, InitHolds, PTL DEF Spec

\* Whatever stale rows requests save over newer ones, a verified account is at an address
\* that answered a token, and its password is from the day that the row says.
THEOREM AccountsAlwaysConsistent == Spec => []AccountsConsistent
<1>1. Inv => AccountsConsistent
  BY AccountsFollow DEF Inv, AccountsConsistent
<1> QED BY <1>1, InvHolds, PTL

\* However requests for profiles, organizations and pages overlap: paths lead to what exists,
\* profiles have a path, links go both ways, names are the same on both sides, and nobody
\* about to be deleted owns an organization, but for the exceptions the history names.
THEOREM PathsAlwaysConsistent == Spec => []PathsConsistent
<1>1. Inv => PathsConsistent
  BY PathsFollow DEF Inv, PathsConsistent
<1> QED BY <1>1, InvHolds, PTL

\* However late, often and in whatever order webhooks come: local rows follow Stripe's, and
\* two subscriptions to one product are of overlapping requests.
THEOREM PaymentsAlwaysConsistent == Spec => []PaymentsConsistent
<1>1. Inv => PaymentsConsistent
  BY PaymentsFollow DEF Inv, PaymentsConsistent
<1> QED BY <1>1, InvHolds, PTL

\* An id that a client was given keeps naming its object, whatever the triggers, the command
\* and the setting do meanwhile.
THEOREM IdsAlwaysKeepNaming == Spec => []IdsKeepNaming
<1>1. Inv => IdsKeepNaming
  BY NamingHolds DEF Inv, IdsKeepNaming
<1> QED BY <1>1, InvHolds, PTL

\* A command that ends without a logged failure has documented what it found and still exists.
THEOREM BackfillAlwaysComplete == Spec => []BackfillComplete
<1>1. Inv => BackfillComplete
  BY CompleteHolds DEF Inv, BackfillComplete
<1> QED BY <1>1, InvHolds, PTL

\* A follow joins the two objects it joined, and seeded counters stay those of the rows,
\* however often the project goes up and down.
THEOREM FollowsAlwaysKept == Spec => []FollowsKept
<1>1. Inv => FollowsKept
  BY FollowsHold DEF Inv, FollowsKept
<1> QED BY <1>1, InvHolds, PTL

\* A row, and an event of a comment, is about the object it was about, whichever of its columns
\* names it, however often the project goes up and down with the application running.
THEOREM TargetsAlwaysKept == Spec => []TargetsKept
<1>1. Inv => TargetsKept
  BY TargetsHold DEF Inv, TargetsKept
<1> QED BY <1>1, InvHolds, PTL

\* Only the migrations of the packages with targets move legacy counters, ...
LEMMA LegacyStays ==
  ASSUME Inv, [Next]_vars, part # "targets" \/ UNCHANGED vars
  PROVE  ("legacy" \in T!Applied) <=> ("legacy" \in T!Applied')
<1>1. CASE done' = done
  BY <1>1 DEF T!Applied, T!ToSet
<1>2. CASE part = "follows" /\ F!Next
  <2>1. FollowsInv /\ FollowsInv'
    BY <1>2, FollowsStep DEF Inv
  <2>2. /\ done \in {<<>>, <<"convert">>, <<"convert", "seed">>}
        /\ done' \in {<<>>, <<"convert">>, <<"convert", "seed">>}
    BY <2>1 DEF FollowsInv, FollowsTyped
  <2> QED BY <2>2 DEF T!Applied, T!ToSet
<1>3. CASE UNCHANGED vars
  BY <1>3, <1>1 DEF vars, view, documents, migrating
<1>4. CASE NextOfPersons /\ UNCHANGED documents
  BY <1>4, <1>1 DEF documents, migrating
<1>5. CASE part = "ids" /\ NextOfDocuments
  BY <1>5, <1>1 DEF NextOfDocuments
<1>6. CASE part = "follows" /\ NextOfDocuments
  BY <1>6, <1>2 DEF NextOfDocuments
<1>7. CASE part = "targets" /\ NextOfDocuments
  BY <1>3, <1>7
<1> QED BY <1>3, <1>4, <1>5, <1>6, <1>7 DEF Next, NextOfDocuments

\* ... and they change no counter and no flag that had a value.
THEOREM CountersAlwaysCarried == Spec => CountersCarried
<1>1. Inv /\ [Next]_vars => [Carried]_(T!vars)
  <2> SUFFICES ASSUME Inv, [Next]_vars PROVE Carried
    OBVIOUS
  <2>1. CASE part = "targets" /\ T!Next
    BY <2>1, TargetsStep DEF Inv
  <2>2. CASE part # "targets" \/ UNCHANGED vars
    BY <2>2, LegacyStays DEF Carried
  <2> QED BY <2>1, <2>2, Steps
<1>2. Spec => [][Carried]_(T!vars)
  BY <1>1, InvHolds, PTL DEF Spec
<1> QED BY <1>2 DEF CountersCarried, T!CountersCarried, Carried
===============================================================================
