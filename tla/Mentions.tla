------------------------------- MODULE Mentions --------------------------------
(***************************************************************************)
(* The profiles mentioned in a target (a comment, a message, a post):       *)
(* MentionsService.update_mentions replaces the whole set, and tells what    *)
(* it added and removed once the caller's transaction has committed.        *)
(* Profiles may be deleted meanwhile.                                       *)
(***************************************************************************)
EXTENDS Integers, FiniteSets

CONSTANTS
  Profile, Target, Request, None,
  MaxCalls     \* calls of update_mentions

VARIABLES
  profiles,    \* Profile rows
  mentions,    \* Mention rows: <<target, profile>>, unique together
  req,         \* req[q]: the call request q is in
  calls,       \* calls begun
  asked,       \* history: asked[t]: the profiles the last committed call resolved
  balance      \* history: balance[t][p]: times reported as added less times reported as removed

vars == <<profiles, mentions, req, calls, asked, balance>>

Stages == {"resolved", "written", "committed"}
Call == [stage : Stages, target : Target,
         new : SUBSET Profile, added : SUBSET Profile, removed : SUBSET Profile]
TypeOK ==
  /\ profiles \subseteq Profile /\ mentions \subseteq Target \X profiles
  /\ calls \in 0..MaxCalls
  /\ req \in [Request -> Call \cup {None}]
  /\ asked \in [Target -> SUBSET Profile] /\ balance \in [Target -> [Profile -> Int]]

-----------------------------------------------------------------------------
MentionedIn(t) == {p \in Profile : <<t, p>> \in mentions}
At(stage) == {q \in Request : req[q] # None /\ req[q].stage = stage}

\* The DocumentId row of t is locked until the transaction that locked it ends.
NeverLocked(t) == FALSE
Locked(t) == \E q \in At("written") : req[q].target = t

\* Ids that resolve to no profile are dropped, and so is the author's own profile.
resolve_mentioned_profiles(ids, exclude_profile) == (ids \cap profiles) \ {exclude_profile}

\* update_mentions up to its lock.
Resolve(q, t, ids, exclude) ==
  /\ req[q] = None /\ calls < MaxCalls
  /\ req' = [req EXCEPT ![q] =
               [stage |-> "resolved", target |-> t,
                new |-> resolve_mentioned_profiles(ids, exclude), added |-> {}, removed |-> {}]]
  /\ calls' = calls + 1
  /\ UNCHANGED <<profiles, mentions, asked, balance>>

\* With the lock: the differences with the rows read under it.  What it writes is seen by
\* others when the caller commits.
update_mentions(q) ==
  /\ q \in At("resolved") /\ ~Locked(req[q].target)
  /\ LET existing == MentionedIn(req[q].target)
     IN  req' = [req EXCEPT ![q].stage = "written",
                            ![q].added = req[q].new \ existing,
                            ![q].removed = existing \ req[q].new]
  /\ UNCHANGED <<profiles, mentions, calls, asked, balance>>

\* The caller commits, which checks that the profiles exist; on_commit hooks are left to run.
Commit(q) ==
  /\ q \in At("written") /\ req[q].added \subseteq profiles
  /\ LET t == req[q].target
     IN  /\ mentions' = (mentions \ ({t} \X req[q].removed)) \cup ({t} \X req[q].added)
         /\ asked' = [asked EXCEPT ![t] = req[q].new]
  /\ req' = [req EXCEPT ![q].stage = "committed"]
  /\ UNCHANGED <<profiles, calls, balance>>

\* The caller fails, by a foreign key to a deleted profile or for a reason of its own.
RollBack(q) ==
  /\ q \in At("resolved") \cup At("written")
  /\ req' = [req EXCEPT ![q] = None]
  /\ UNCHANGED <<profiles, mentions, calls, asked, balance>>

\* mentions_changed: hooks of different requests run in any order.
mentions_changed(q) ==
  /\ q \in At("committed")
  /\ balance' = [balance EXCEPT ![req[q].target] = [p \in Profile |->
       @[p] + (IF p \in req[q].added THEN 1 ELSE 0) - (IF p \in req[q].removed THEN 1 ELSE 0)]]
  /\ req' = [req EXCEPT ![q] = None]
  /\ UNCHANGED <<profiles, mentions, calls, asked>>

\* The deletion of a profile takes its mentions with it; it waits for rows that a call in
\* progress deletes.
DeleteProfile(p) ==
  /\ p \in profiles /\ \A q \in At("written") : p \notin req[q].removed
  /\ profiles' = profiles \ {p}
  /\ mentions' = {m \in mentions : m[2] # p}
  /\ UNCHANGED <<req, calls, asked, balance>>

\* MentionsInterface.mentions, mentionsCount and isMentioningProfile of a target.
resolve_mentions(t) == MentionedIn(t)
get_mentions_count(t) == Cardinality({m \in mentions : m[1] = t})
resolve_is_mentioning_profile(t, p) == <<t, p>> \in mentions

-----------------------------------------------------------------------------
Init ==
  /\ profiles = Profile /\ mentions = {} /\ calls = 0
  /\ req = [q \in Request |-> None]
  /\ asked = [t \in Target |-> {}]
  /\ balance = [t \in Target |-> [p \in Profile |-> 0]]

Next ==
  \/ \E q \in Request, t \in Target, ids \in SUBSET Profile, exclude \in Profile :
       Resolve(q, t, ids, exclude)
  \/ \E q \in Request : update_mentions(q) \/ Commit(q) \/ RollBack(q) \/ mentions_changed(q)
  \/ \E p \in Profile : DeleteProfile(p)

Spec == Init /\ [][Next]_vars

-----------------------------------------------------------------------------
\* Calls replace the set, whatever overlapped: a target mentions exactly the profiles the
\* last committed call asked for that still exist.
LastCallReplaces == \A t \in Target : MentionedIn(t) = asked[t] \cap profiles

\* The three resolvers agree on what is mentioned.
ResolversAgree ==
  \A t \in Target :
    /\ get_mentions_count(t) = Cardinality(resolve_mentions(t))
    /\ {p \in Profile : resolve_is_mentioning_profile(t, p)} = resolve_mentions(t)

\* Once every signal is delivered, a receiver that adds and subtracts holds each profile
\* that still exists once when it is mentioned, and not at all otherwise.
DeltasAddUp ==
  \A t \in Target : (\A q \in At("committed") : req[q].target # t) =>
    \A p \in profiles : balance[t][p] = IF p \in MentionedIn(t) THEN 1 ELSE 0

MentionsConsistent == LastCallReplaces /\ ResolversAgree /\ DeltasAddUp
==============================================================================
