------------------------------ MODULE ActivityLog ------------------------------
(***************************************************************************)
(* The activity log: requests that write tracked rows under a history context *)
(* of their own, each in one transaction, and users who are anonymized        *)
(* meanwhile.                                                                 *)
(***************************************************************************)
EXTENDS Integers, Sequences, FiniteSets, Functions

CONSTANTS
  User,
  Own,       \* Own[u]: the profile of user u itself
  Uses,      \* Uses[u]: the profiles that user u may use
  Request, None,
  MaxFields, \* mutation fields of one request
  MaxLogs

VARIABLES
  req,   \* requests under way
  logs,  \* committed rows of pghistory_context, as v_activity_log shows them, with who acted,
         \* whether with two credentials, the fields, and who was anonymized while it ran
  gone   \* users anonymized and deleted

vars == <<req, logs, gone>>

Profiles == UNION {Uses[u] : u \in User}
Context == [user : User \cup {None}, profile : Profiles \cup {None}, public : BOOLEAN]

TypeOK ==
  /\ \A q \in Request : req[q] # None =>
       /\ req[q].context \in Context /\ req[q].row \in Context \cup {None}
       /\ Len(req[q].fields) <= MaxFields /\ req[q].late \subseteq gone
  /\ Len(logs) <= MaxLogs /\ gone \subseteq User

Running(q) == req[q] # None

-----------------------------------------------------------------------------
\* The profile middleware: a header counts only if the user may use the profile it names.
CurrentProfileMiddleware(u, header) ==
  IF u = None THEN None
  ELSE IF header = None THEN Own[u] ELSE IF header \in Uses[u] THEN header ELSE None

\* A request arrives with the session of user s or without one, and HistoryMiddleware opens
\* its context.
HistoryMiddleware(q, s, header) ==
  /\ ~Running(q) /\ s \in (User \ gone) \cup {None}
  /\ req' = [req EXCEPT ![q] =
       [context |-> [user |-> s, profile |-> CurrentProfileMiddleware(s, header), public |-> FALSE],
        row |-> None, session |-> s, actor |-> s, token |-> FALSE, fields |-> <<>>, late |-> {}]]
  /\ UNCHANGED <<logs, gone>>

\* DjangoRequest: setting request.user updates the context, which keeps its profile.
__setattr__(context, u) == [context EXCEPT !.user = u]

\* A token authenticates the request once, before the first field: as user u.
resolve(q, u) ==
  /\ Running(q) /\ ~req[q].token /\ req[q].fields = <<>> /\ u \in User \ gone
  /\ req' = [req EXCEPT ![q].context = __setattr__(@, u), ![q].actor = u, ![q].token = TRUE]
  /\ UNCHANGED <<logs, gone>>

\* The next mutation field; set_public_activity comes first, permissions and writes after it.
set_public_activity(context, public) == [context EXCEPT !.public = public \/ @]
mutate(q, public) ==
  /\ Running(q) /\ Len(req[q].fields) < MaxFields
  /\ req' = [req EXCEPT ![q].context = set_public_activity(@, public),
                        ![q].fields = Append(@, public)]
  /\ UNCHANGED <<logs, gone>>

\* A tracked row is written: the trigger stores the context, over what an earlier write of
\* the request stored.
Write(q) ==
  /\ Running(q) /\ req[q].fields # <<>> /\ req[q].row # req[q].context
  /\ req' = [req EXCEPT ![q].row = req[q].context]
  /\ UNCHANGED <<logs, gone>>

\* The request ends: committed, or rolled back for an error of any of its fields.
End(q) ==
  /\ Running(q) /\ req' = [req EXCEPT ![q] = None]
  /\ IF req[q].row = None THEN UNCHANGED logs
     ELSE \/ /\ Len(logs) < MaxLogs
             /\ logs' = Append(logs,
                  [user |-> req[q].row.user, profile |-> req[q].row.profile,
                   public |-> req[q].row.public, actor |-> req[q].actor,
                   mixed |-> req[q].session # None /\ req[q].session # req[q].actor,
                   fields |-> req[q].fields, late |-> req[q].late])
          \/ UNCHANGED logs
  /\ UNCHANGED gone

\* The task that anonymizes user u updates the rows that are committed.
anonymize_activitylog(u) ==
  /\ u \in User \ gone /\ gone' = gone \cup {u}
  /\ logs' = [i \in DOMAIN logs |->
       IF logs[i].user = u THEN [logs[i] EXCEPT !.user = None, !.profile = None] ELSE logs[i]]
  /\ req' = [q \in Request |-> IF Running(q) THEN [req[q] EXCEPT !.late = @ \cup {u}] ELSE None]

Init == req = [q \in Request |-> None] /\ logs = <<>> /\ gone = {}

Next ==
  \/ \E q \in Request, s \in User \cup {None}, header \in Profiles \cup {None} :
       HistoryMiddleware(q, s, header)
  \/ \E q \in Request : (\E u \in User : resolve(q, u)) \/ Write(q) \/ End(q)
  \/ \E q \in Request, public \in BOOLEAN : mutate(q, public)
  \/ \E u \in User : anonymize_activitylog(u)

Spec == Init /\ [][Next]_vars

-----------------------------------------------------------------------------
(* What is listed; get_queryset shows a superuser all of it. *)

get_queryset(super, rows) == {l \in rows : super \/ l.public}
resolve_user_logs(u, super) == get_queryset(super, {l \in Range(logs) : l.user = u})
resolve_profile_logs(p, super) == get_queryset(super, {l \in Range(logs) : l.profile = p})

\* The activity of a user lists what it did and nothing else, with whatever credential, and
\* the activity of a profile what was done by someone who may use it, unless the request had a
\* session of one user and a token of another.
LogsNameTheActor ==
  /\ \A u \in User : \A l \in resolve_user_logs(u, TRUE) : l.actor = u
  /\ \A p \in Profiles : \A l \in resolve_profile_logs(p, TRUE) :
       ~l.mixed => l.actor # None /\ p \in Uses[l.actor]
  /\ \A l \in Range(logs) : l.user = None => l.actor \in gone \cup {None}

\* Everyone is shown only what a mutation of the request asked to make public, and of a
\* request with one mutation exactly that.
PublicIfAsked ==
  \A l \in Range(logs) :
    /\ l.public => TRUE \in Range(l.fields)
    /\ Len(l.fields) = 1 => (l.public <=> l.fields[1])

\* "guaranteeing that no personal identifiers remain": an anonymized user has no activity
\* left but that of requests that were running when it was anonymized.
AnonymizedHaveNone == \A u \in gone : \A l \in resolve_user_logs(u, TRUE) : u \in l.late

LogsConsistent == LogsNameTheActor /\ PublicIfAsked /\ AnonymizedHaveNone
==============================================================================
