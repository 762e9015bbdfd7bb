------------------------------- MODULE Follows -------------------------------
(***************************************************************************)
(* Following (baseapp_follows): FollowToggle, the counters it adjusts on   *)
(* FollowableMetadata and the target_is_following_back flags.              *)
(*                                                                         *)
(* Each toggle is one transaction (ATOMIC_REQUESTS) at READ COMMITTED.     *)
(* A statement that writes a row takes its lock and keeps it until the     *)
(* transaction ends; a statement that reads sees what is committed, and    *)
(* its own writes.  PostgreSQL ends one of the transactions that wait for  *)
(* each other.                                                             *)
(***************************************************************************)
EXTENDS Integers, FiniteSets

CONSTANTS
  Doc,           \* DocumentIds that can be followed
  Profile,       \* those of profiles: only a profile can be the actor
  Request,       \* FollowToggle requests in flight
  Absent,        \* no FollowableMetadata row
  Idle,          \* a request slot that is not in use
  Free,          \* a row lock nobody holds
  Concurrency,   \* how many toggles may be in flight at once
  MaxToggles,    \* bound: toggles
  MaxRecounts    \* bound: runs of the reconciliation helpers

ASSUME ProfileAssumption == Profile \subseteq Doc
ASSUME LockAssumption == Free \notin Request
ASSUME DocAssumption == IsFiniteSet(Doc)
ASSUME BoundAssumption == MaxToggles \in Nat /\ MaxRecounts \in Nat

VARIABLES
  follow,      \* follow[e]: primary key of the Follow row of edge e, or 0
  back,        \* edges whose row has target_is_following_back
  meta,        \* meta[d]: the FollowableMetadata row of d, or Absent
  rowLock,     \* rowLock[e]: who has written the row of e and not yet ended
  metaLock,    \* metaLock[d]: who has written the metadata of d
  tx,          \* tx[q]: the transaction of request q
  toggles, recounts,   \* how many have begun
  overlapped   \* history: two toggles have been in flight at once

vars == <<follow, back, meta, rowLock, metaLock, tx, toggles, recounts, overlapped>>

Edge == Profile \X Doc
Actor(e) == e[1]
Target(e) == e[2]
ProfileToProfile(e) == Target(e) \in Profile
Reverse(e) == <<Target(e), Actor(e)>>

Counts == [followers_count : Nat, following_count : Nat]
Zero == [followers_count |-> 0, following_count |-> 0]

\* The next statement of a transaction.
Statements == {"delete", "target", "seed_target", "actor", "seed_actor",
               "flag", "flag_reverse", "commit"}

\* draft and flags: the metadata rows and flags the transaction has written.
Tx == [edge : Edge, pk : Nat, delta : {1, -1}, next : Statements,
       draft : [Doc -> Counts \cup {Absent}], flags : [Edge -> {"set", "cleared", "kept"}]]

ASSUME NameAssumption == Absent \notin Counts /\ Idle \notin Tx

TypeOK ==
  /\ follow \in [Edge -> 0..MaxToggles] /\ back \in SUBSET Edge
  /\ meta \in [Doc -> Counts \cup {Absent}]
  /\ rowLock \in [Edge -> Request \cup {Free}]
  /\ metaLock \in [Doc -> Request \cup {Free}]
  /\ \A q \in Request : tx[q] # Idle => tx[q] \in Tx
  /\ toggles \in 0..MaxToggles /\ recounts \in 0..MaxRecounts
  /\ overlapped \in BOOLEAN
  /\ \A q \in Request : tx[q] = Idle => q \notin {rowLock[e] : e \in Edge} \cup {metaLock[d] : d \in Doc}

-----------------------------------------------------------------------------
Exists(e) == follow[e] # 0
Followers(d) == {e \in Edge : Exists(e) /\ Target(e) = d}
Following(d) == {e \in Edge : Exists(e) /\ Actor(e) = d}

\* The metadata of d as transaction q sees it when it writes it.
Own(q, d) == IF tx[q].draft[d] # Absent THEN tx[q].draft[d] ELSE meta[d]

CanLock(lock, q) == lock \in {Free, q}

-----------------------------------------------------------------------------
\* get_or_create: a row that is there is to be deleted, or else one is inserted (after
\* whoever is inserting or deleting it has ended).
Toggle(q, e) ==
  /\ toggles < MaxToggles
  /\ tx[q] = Idle
  /\ Cardinality({o \in Request : tx[o] # Idle}) < Concurrency
  /\ Exists(e) \/ rowLock[e] = Free
  /\ LET new == [edge |-> e, pk |-> IF Exists(e) THEN follow[e] ELSE toggles + 1,
                 delta |-> IF Exists(e) THEN -1 ELSE 1,
                 next |-> IF Exists(e) THEN "delete" ELSE "target",
                 draft |-> [d \in Doc |-> Absent], flags |-> [f \in Edge |-> "kept"]]
     IN tx' = [tx EXCEPT ![q] = new]
  /\ rowLock' = IF Exists(e) THEN rowLock ELSE [rowLock EXCEPT ![e] = q]
  /\ toggles' = toggles + 1
  /\ overlapped' = (overlapped \/ \E o \in Request : tx[o] # Idle)
  /\ UNCHANGED <<follow, back, meta, metaLock, recounts>>

\* A statement of q other than the first and the last.
Goto(q, stmt) == tx' = [tx EXCEPT ![q].next = stmt]
Rest == UNCHANGED <<follow, back, meta, toggles, recounts, overlapped>>

\* Model.delete() by primary key: a row that is gone by now is no error.
DeleteRow(q) ==
  /\ tx[q] # Idle /\ tx[q].next = "delete"
  /\ LET e == tx[q].edge IN
       /\ follow[e] = tx[q].pk => CanLock(rowLock[e], q)
       /\ rowLock' = IF follow[e] = tx[q].pk THEN [rowLock EXCEPT ![e] = q] ELSE rowLock
  /\ Goto(q, "target")
  /\ UNCHANGED metaLock /\ Rest

-----------------------------------------------------------------------------
(* _adjust_followable_metadata: UPDATE ... SET field = field + delta, and  *)
(* an insert when there was no row to update.                              *)

\* What follows the adjustment of the target's, and of the actor's, metadata.
After(q, stmt) ==
  IF stmt \in {"target", "seed_target"} THEN "actor"
  ELSE IF ProfileToProfile(tx[q].edge) THEN "flag" ELSE "commit"
Seeding(stmt) == IF stmt = "target" THEN "seed_target" ELSE "seed_actor"
SideSwapped(q, stmt) == IF stmt \in {"target", "seed_target"} THEN Actor(tx[q].edge) ELSE Target(tx[q].edge)
Side(q, stmt) == IF stmt \in {"target", "seed_target"} THEN Target(tx[q].edge) ELSE Actor(tx[q].edge)
Field(stmt) == IF stmt \in {"target", "seed_target"} THEN "followers_count" ELSE "following_count"

Write(q, d, counts, stmt) ==
  /\ CanLock(metaLock[d], q)
  /\ metaLock' = [metaLock EXCEPT ![d] = q]
  /\ tx' = [tx EXCEPT ![q].draft[d] = counts, ![q].next = stmt]
  /\ UNCHANGED rowLock /\ Rest

AdjustedUpwards(counts, field, delta) == [counts EXCEPT ![field] = @ + 1]
Adjusted(counts, field, delta) == [counts EXCEPT ![field] = @ + delta]

Adjust(q, stmt) ==
  /\ tx[q] # Idle /\ tx[q].next = stmt
  /\ LET d == Side(q, stmt)
         new == Adjusted(Own(q, d), Field(stmt), tx[q].delta)
     IN /\ Own(q, d) # Absent
        /\ new[Field(stmt)] >= 0
        /\ Write(q, d, new, After(q, stmt))

NoRowToAdjust(q, stmt) ==
  /\ tx[q] # Idle /\ tx[q].next = stmt
  /\ Own(q, Side(q, stmt)) = Absent
  /\ Goto(q, IF tx[q].delta > 0 THEN Seeding(stmt) ELSE After(q, stmt))
  /\ UNCHANGED <<rowLock, metaLock>> /\ Rest

\* update_or_create: the field is set to delta, in a row that somebody else may have
\* inserted since the UPDATE found none.
Seeded(counts, field, delta) ==
  IF counts = Absent THEN [Zero EXCEPT ![field] = delta] ELSE [counts EXCEPT ![field] = delta]

Seed(q, stmt) ==
  /\ tx[q] # Idle /\ tx[q].next = Seeding(stmt)
  /\ LET d == Side(q, stmt) IN
       Write(q, d, Seeded(Own(q, d), Field(stmt), tx[q].delta), After(q, stmt))

-----------------------------------------------------------------------------
(* target_is_following_back. *)

\* The reverse row as transaction q sees it: a row that q deleted is gone.
ReverseExists(q) ==
  LET e == tx[q].edge r == Reverse(e) IN
  IF r = e THEN tx[q].delta > 0 ELSE Exists(r)

\* _sync_target_is_following_back_on_create, up to the update of the own row (which, done
\* by save(), would run the synchronisation again).
FlagOwnBySaving(q) ==
  /\ tx[q] # Idle /\ tx[q].next = "flag" /\ tx[q].delta > 0
  /\ tx' = IF ReverseExists(q)
           THEN [tx EXCEPT ![q].flags[tx[q].edge] = "set", ![q].next = "flag"]
           ELSE [tx EXCEPT ![q].next = "commit"]
  /\ UNCHANGED <<rowLock, metaLock>> /\ Rest

FlagOwn(q) ==
  /\ tx[q] # Idle /\ tx[q].next = "flag" /\ tx[q].delta > 0
  /\ tx' = IF ReverseExists(q)
           THEN [tx EXCEPT ![q].flags[tx[q].edge] = "set", ![q].next = "flag_reverse"]
           ELSE [tx EXCEPT ![q].next = "commit"]
  /\ UNCHANGED <<rowLock, metaLock>> /\ Rest

\* The update of the reverse row, which either function ends with.
FlagReverse(q) ==
  /\ tx[q] # Idle
  /\ tx[q].next = "flag_reverse" \/ (tx[q].next = "flag" /\ tx[q].delta < 0)
  /\ LET r == Reverse(tx[q].edge)
         flag == IF tx[q].delta > 0 THEN "set" ELSE "cleared"
     IN IF ReverseExists(q)
        THEN /\ CanLock(rowLock[r], q)
             /\ rowLock' = [rowLock EXCEPT ![r] = q]
             /\ tx' = [tx EXCEPT ![q].flags[r] = flag, ![q].next = "commit"]
        ELSE Goto(q, "commit") /\ UNCHANGED rowLock
  /\ UNCHANGED metaLock /\ Rest

-----------------------------------------------------------------------------
\* The end of a transaction releases its locks.
Release(q) ==
  /\ tx' = [tx EXCEPT ![q] = Idle]
  /\ rowLock' = [e \in Edge |-> IF rowLock[e] = q THEN Free ELSE rowLock[e]]
  /\ metaLock' = [d \in Doc |-> IF metaLock[d] = q THEN Free ELSE metaLock[d]]
  /\ UNCHANGED <<toggles, recounts, overlapped>>

Commit(q) ==
  /\ tx[q] # Idle /\ tx[q].next = "commit"
  /\ LET t == tx[q]
         gone == t.delta < 0 /\ follow[t.edge] = t.pk
         set == {e \in Edge : t.flags[e] = "set"}
         cleared == {e \in Edge : t.flags[e] = "cleared"}
     IN /\ follow' = CASE t.delta > 0 -> [follow EXCEPT ![t.edge] = t.pk]
                       [] gone -> [follow EXCEPT ![t.edge] = 0]
                       [] OTHER -> follow
        /\ back' = (back \ (cleared \cup IF gone THEN {t.edge} ELSE {})) \cup set
        /\ meta' = [d \in Doc |-> Own(q, d)]
  /\ Release(q)

\* PositiveIntegerField: the database refuses a negative counter and the toggle fails.
Refused(q, stmt) ==
  /\ tx[q] # Idle /\ tx[q].next = stmt
  /\ Own(q, Side(q, stmt)) # Absent /\ CanLock(metaLock[Side(q, stmt)], q)
  /\ Own(q, Side(q, stmt))[Field(stmt)] + tx[q].delta < 0
  /\ Release(q)
  /\ UNCHANGED <<follow, back, meta>>

\* The transaction q's next statement waits for, if any.
WaitsFor(q) ==
  LET t == tx[q] IN
  CASE t = Idle -> Free
    [] t.next = "delete" /\ follow[t.edge] = t.pk -> rowLock[t.edge]
    [] t.next \in {"target", "actor"} /\ Own(q, Side(q, t.next)) # Absent -> metaLock[Side(q, t.next)]
    [] t.next \in {"seed_target", "seed_actor"} -> metaLock[Side(q, t.next)]
    [] (t.next = "flag_reverse" \/ (t.next = "flag" /\ t.delta < 0)) /\ ReverseExists(q)
         -> rowLock[Reverse(t.edge)]
    [] OTHER -> Free

\* PostgreSQL rolls back one of the transactions that wait for each other.
BreakDeadlock(q) ==
  /\ tx[q] # Idle
  /\ \E S \in SUBSET Request : q \in S /\ \A o \in S : WaitsFor(o) \in S \ {o}
  /\ Release(q)
  /\ UNCHANGED <<follow, back, meta>>

-----------------------------------------------------------------------------
\* recount_followers_count and recount_following_count: the row is locked before the
\* rows are counted.
Recount(d, field) ==
  /\ recounts < MaxRecounts
  /\ metaLock[d] = Free
  /\ LET old == IF meta[d] = Absent THEN Zero ELSE meta[d]
         n == Cardinality(IF field = "followers_count" THEN Followers(d) ELSE Following(d))
     IN meta' = [meta EXCEPT ![d] = [old EXCEPT ![field] = n]]
  /\ recounts' = recounts + 1
  /\ UNCHANGED <<follow, back, rowLock, metaLock, tx, toggles, overlapped>>

Init ==
  /\ follow = [e \in Edge |-> 0] /\ back = {}
  /\ meta = [d \in Doc |-> Absent]
  /\ rowLock = [e \in Edge |-> Free] /\ metaLock = [d \in Doc |-> Free]
  /\ tx = [q \in Request |-> Idle]
  /\ toggles = 0 /\ recounts = 0 /\ overlapped = FALSE

Statement(q) ==
  \/ DeleteRow(q)
  \/ \E stmt \in {"target", "actor"} :
       Adjust(q, stmt) \/ NoRowToAdjust(q, stmt) \/ Seed(q, stmt) \/ Refused(q, stmt)
  \/ FlagOwn(q) \/ FlagReverse(q)
  \/ Commit(q) \/ BreakDeadlock(q)

Next ==
  \/ \E q \in Request, e \in Edge : Toggle(q, e)
  \/ \E q \in Request : Statement(q)
  \/ \E d \in Doc, field \in {"followers_count", "following_count"} : Recount(d, field)

\* Lock queues are fair, and PostgreSQL looks for deadlocks.
Spec == Init /\ [][Next]_vars /\ \A q \in Request : SF_vars(Statement(q))

-----------------------------------------------------------------------------
(* What readers of followersCount and of the flags can count on. *)

CountOf(d, field) == IF meta[d] = Absent THEN 0 ELSE meta[d][field]

CountsExact == \A d \in Doc :
  /\ CountOf(d, "followers_count") = Cardinality(Followers(d))
  /\ CountOf(d, "following_count") = Cardinality(Following(d))

FlagsExact == \A e \in Edge :
  e \in back <=> Exists(e) /\ ProfileToProfile(e) /\ Exists(Reverse(e))

\* While toggles do not overlap, counters and flags are what the rows say, although
\* nothing recounts and a flag is stored in the row of the other direction.
SerialExact == ~overlapped => CountsExact /\ FlagsExact

\* Counters and flags are well formed, overlapping toggles included, and exact without overlap.
TypedAndExact == TypeOK /\ SerialExact

\* However toggles and recounts overlap, no profile or page is shown with more followers,
\* or as following more, than it has.
NeverOvercounts == \A d \in Doc :
  /\ CountOf(d, "followers_count") <= Cardinality(Followers(d))
  /\ CountOf(d, "following_count") <= Cardinality(Following(d))

\* Two profiles that follow each other lock each other's metadata in opposite orders;
\* every toggle ends all the same.
TogglesEnd == \A q \in Request : tx[q] # Idle ~> tx[q] = Idle
==============================================================================
