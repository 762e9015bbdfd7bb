------------------------------ MODULE MCRecords ------------------------------
(* Model checking of what the rows of persons, pages and documents promise.  A behaviour is  *)
(* of one part.  Three parts are about persons: the account (Accounts), the profiles and     *)
(* paths (UrlPaths), and what is paid for (Payments); they end after Bound[part] steps,      *)
(* which no view shows.  Three are about documents: PublicIds, and the migrations to them    *)
(* (TargetMigrations, FollowMigrations), which end by themselves.  The variables of the      *)
(* other parts stay empty.                                                                   *)
EXTENDS Integers, FiniteSets, TLC

CONSTANTS Parts, None, Bound,
          User, Email, Password, Member, Superuser, Interval, Delay, Slack, Lifetime, MaxNow, MaxMail,
          Organization, Page, Holder, Base, Short, MaxSuffix, MaxProfile, MaxRequest,
          ProfileOf, Product, Card, Request, MaxCustomers, MaxSubscriptions,
          Object, RowId, Adult, BaseType, SubType, OwnType, MaxSteps,
          Pks, Pages,
          Model, Documentable, Autoincrement, LegacyPk, BatchSize, MaxPk, MaxUuid,
          m1, m2

ASSUME ModelAssumption == Documentable \subseteq Model /\ MaxPk \in [Model -> Nat]
ASSUME FiniteAssumption == IsFiniteSet(RowId) /\ IsFiniteSet(Object) /\ IsFiniteSet(Pks) /\ IsFiniteSet(Pages)
ASSUME NoneAssumption ==
  /\ None \notin Nat \cup (Model \X Nat)
  /\ None \notin [actor : Nat, target : Nat] \cup [followers : Nat, following : Nat]
  /\ None \notin [target : Object \cup {None}, document : Nat,
                  type : BaseType \cup SubType \cup OwnType \cup {Adult, None}]
  /\ None \notin [{"blockers", "blocking"} -> Nat] \cup [{"count"} -> Nat] \cup [{"count", "enabled"} -> Nat]

VARIABLES part, steps,
          account, mail, session, slow, task, now, clicked, chosen,
          user, organization, page, profile, url, request, last,
          customers, subscriptions, Customer, Subscription, creating, validated, events,
          removed, cancelled, late,
          overlapped,
          docs, done, meta, truth,
          kind, row, history, column, types,
          follow, skipped,
          live, next, drawn, triggers, enabled, handed, command

Acc == INSTANCE Accounts
Url == INSTANCE UrlPaths
Pay == INSTANCE Payments
T == INSTANCE TargetMigrations
F == INSTANCE FollowMigrations
P == INSTANCE PublicIds

ASSUME AccountAssumption ==
  /\ Member \subseteq User /\ MaxNow \in Nat /\ Delay \in Nat /\ Interval \in Int /\ Slack \in Int
  /\ {"change-email", "verify-email", "confirm_email", "pre_auth", "expired", "reset"} \subseteq DOMAIN Lifetime
  /\ None \notin Email \cup Acc!Row \cup [user : User, row : Acc!Row, session : BOOLEAN]
ASSUME PathAssumption ==
  /\ MaxSuffix \in Nat /\ MaxProfile \in Nat /\ MaxRequest \in Nat
  /\ None \notin User \cup Url!UserRow \cup Url!OrganizationRow \cup Url!ProfileRow
ASSUME PaymentAssumption == MaxCustomers \in Nat /\ MaxSubscriptions \in Nat /\ ProfileOf \in [User -> Nat]

-----------------------------------------------------------------------------
(* Values for the constants. *)

Persons == {"accounts", "paths", "payments"}
Documents == {"targets", "follows", "ids"}
MCBound == [accounts |-> 7, paths |-> 10, payments |-> 10]
MCLifetime == [kinds \in {"change-email", "verify-email", "confirm_email", "reset"} |-> 1]
              @@ [kinds \in {"expired", "pre_auth"} |-> 0]
MCProfileOf == (1 :> 2) @@ (2 :> 1)
MCMaxPk == (m1 :> 2) @@ (m2 :> 1)
Symmetry == Permutations(Email) \cup Permutations(Password)

-----------------------------------------------------------------------------
(* The variables of each part; two names are in two of them. *)

accounts == <<account, mail, session, slow, task, now, clicked, chosen>>
paths == <<user, organization, page, profile, url, request, last>>
payments == <<customers, subscriptions, Customer, Subscription, creating, validated, events,
              removed, cancelled, late>>
migrating == <<docs, done, meta, truth>>
targets == <<kind, row, history, column, types>>
follows == <<follow, skipped>>
ids == <<live, next, drawn, triggers, enabled, handed, command>>
persons == <<accounts, paths, payments, overlapped>>
documents == <<migrating, targets, follows, ids>>
view == <<part, persons, documents>>
vars == <<view, steps>>

NoAccounts == account = <<>> /\ mail = <<>> /\ session = <<>> /\ slow = <<>> /\ task = <<>>
              /\ now = <<>> /\ clicked = <<>> /\ chosen = <<>>
NoPaths == user = <<>> /\ organization = <<>> /\ page = <<>> /\ profile = <<>> /\ url = <<>>
           /\ request = <<>> /\ last = <<>>
NoPayments == customers = <<>> /\ subscriptions = <<>> /\ Customer = <<>> /\ Subscription = <<>>
              /\ creating = <<>> /\ validated = <<>> /\ events = <<>> /\ removed = <<>>
              /\ cancelled = <<>> /\ late = <<>>
NoMigrating == done = <<>> /\ meta = <<>> /\ truth = <<>>
NoTargets == kind = <<>> /\ row = <<>> /\ history = <<>> /\ column = <<>> /\ types = <<>>
NoFollows == follow = <<>> /\ skipped = <<>>
NoIds == live = <<>> /\ next = <<>> /\ drawn = <<>> /\ triggers = <<>> /\ enabled = <<>> /\ handed = <<>> /\ command = <<>>
NoPersons == NoAccounts /\ NoPaths /\ NoPayments /\ overlapped = <<>>
NoDocuments == docs = <<>> /\ NoMigrating /\ NoTargets /\ NoFollows /\ NoIds

-----------------------------------------------------------------------------
InitPersons ==
  \/ part = "accounts" /\ Acc!Init /\ NoPaths /\ NoPayments /\ overlapped = <<>>
  \/ part = "paths" /\ Url!Init /\ NoAccounts /\ NoPayments
  \/ part = "payments" /\ Pay!Init /\ NoAccounts /\ NoPaths

InitDocuments ==
  \/ part = "targets" /\ T!Init /\ NoFollows /\ NoIds
  \/ part = "follows" /\ F!Init /\ NoTargets /\ NoIds
  \/ part = "ids" /\ P!Init /\ steps = 0 /\ NoMigrating /\ NoTargets /\ NoFollows

Init ==
  /\ part \in Parts
  /\ \/ InitPersons /\ steps = 0 /\ NoDocuments
     \/ InitDocuments /\ NoPersons

NextOfPersons ==
  /\ part \in Persons /\ steps < Bound[part] /\ steps' = steps + 1
  /\ \/ part = "accounts" /\ Acc!Next /\ UNCHANGED <<paths, payments, overlapped>>
     \/ part = "paths" /\ Url!Next /\ UNCHANGED <<accounts, payments>>
     \/ part = "payments" /\ Pay!Next /\ UNCHANGED <<accounts, paths>>

NextOfDocuments ==
  \/ part = "targets" /\ T!Next /\ UNCHANGED <<follows, ids>>
  \/ part = "follows" /\ F!Next /\ UNCHANGED <<targets, ids>>
  \/ part = "ids" /\ P!Next /\ UNCHANGED <<steps, done, meta, truth, targets, follows>>

Next ==
  /\ UNCHANGED part
  /\ \/ NextOfPersons /\ UNCHANGED documents
     \/ NextOfDocuments /\ UNCHANGED persons

Spec == Init /\ [][Next]_vars

-----------------------------------------------------------------------------
\* The properties of the six modules, each about the behaviours of its own.
AccountsConsistent == part = "accounts" => Acc!TypeOK /\ Acc!VerifiedProven /\ Acc!PasswordDated
PathsConsistent == part = "paths" => Url!TypeOK /\ Url!PathsConsistent
PaymentsConsistent == part = "payments" => Pay!TypeOK /\ Pay!PaymentsConsistent
TargetsKept == part = "targets" => T!TypeOK /\ T!TargetsKept
CountersCarried == T!CountersCarried
FollowsKept == part = "follows" => F!FollowsKept /\ F!SeededCountsExact
IdsKeepNaming == part = "ids" => P!IdsKeepNaming
BackfillComplete == part = "ids" => P!BackfillComplete
==============================================================================
