--------------------------- MODULE ViewPermissions ----------------------------
(***************************************************************************)
(* Permissions per action of a view: what DjangoActionPermissions requires,  *)
(* which a process learns as views are asked, and whether a user has it,     *)
(* directly or through a role with groups and exclusions.  A request checks   *)
(* twice, before and with the object; administrators edit in between.  All    *)
(* views are of one app, and requests come from users with a session.         *)
(***************************************************************************)
EXTENDS Integers, FiniteSets, TLC

CONSTANTS
  Worker,      \* processes
  User,        \* none of them a superuser, who has every permission
  Role, Group,
  View,        \* views; the model of a view is named after it
  Base,        \* Base[v]: permission_base of v, the app label without one
  OwnMap,      \* OwnMap[v]: perms_map_action of v, a function of some actions
  Strict,      \* views that include_model_default_method_permission
  Exempt,      \* Exempt[v]: permission_exclude_views of v
  OnlyWhitelisted, \* ALLOW_ONLY_WHITELISTED_IP
  Request,     \* slots for requests
  Check,       \* the callable of a map that looks at the object
  MaxChanges,  \* bound: edits of administrators and of addresses
  None

VARIABLES
  learned, \* learned[w]: what process w has added to perms_map_action, a class attribute
  role,    \* role[u]
  direct,  \* <<user, permission>>: what the user has without a role
  grants,  \* <<role or group, permission>>
  groups,  \* <<role, group>>
  excludes,\* <<user or role, permission>>
  ip,      \* the restriction of the clients' address: None, or [white, roles]
  req, changes

vars == <<learned, role, direct, grants, groups, excludes, ip, req, changes>>

Action == {"update", "partial_update", "archive"}
Learnable == {"archive"}
Verb == [a \in Action |-> IF a \in Learnable THEN "add" ELSE "change"]

\* A permission: an action or a verb, and the name of a model or of a base.
Permission == {<<"change", v>> : v \in View} \cup {<<"add", v>> : v \in Strict}
              \cup {<<a, b>> : a \in Learnable, b \in {Base[v] : v \in View}}

TypeOK ==
  /\ learned \in [Worker -> [Learnable -> {Base[v] : v \in View} \cup {None}]]
  /\ role \in [User -> Role \cup {None}]
  /\ direct \subseteq User \X Permission /\ grants \subseteq (Role \cup Group) \X Permission
  /\ groups \subseteq Role \X Group /\ excludes \subseteq (User \cup Role) \X Permission
  /\ \A q \in Request : req[q] = None \/ req[q].stage \in {"begun", "passed", "found", "refused"}

-----------------------------------------------------------------------------
(* What is required. *)

\* generate_perms_map_action: an action that the map does not know gets the permission of the
\* view that asked first, for every view of the process.
generate_perms_map_action(w, v, a) ==
  IF a \in Learnable /\ learned[w][a] = None /\ a \notin DOMAIN OwnMap[v]
  THEN [learned EXCEPT ![w][a] = Base[v]] ELSE learned

\* get_perms_list, of what the process has learned now.  A partial update finds nothing.
get_perms_list(now, w, v, a) ==
  IF a \in DOMAIN OwnMap[v] THEN OwnMap[v][a]
  ELSE IF a = "update" THEN {<<"change", v>>}
  ELSE IF a \in Learnable THEN {<<a, now[w][a]>>}
  ELSE {}

\* get_required_permissions of the method.
Default(v, a) == IF v \in Strict THEN {<<Verb[a], v>>} ELSE {}

-----------------------------------------------------------------------------
(* What a user has. *)

\* Role.get_permission_list: the exclusions of the user and of the role take from the role's
\* groups and from its own permissions alike.
Excluded(u, r) == {p \in Permission : <<u, p>> \in excludes \/ <<r, p>> \in excludes}
OfGroups(r) == {p \in Permission : \E g \in Group : <<r, g>> \in groups /\ <<g, p>> \in grants}
OwnOnly(u, r) == OfGroups(r) \cup ({p \in Permission : <<r, p>> \in grants} \ Excluded(u, r))
get_permission_list(u, r) ==
  (OfGroups(r) \cup {p \in Permission : <<r, p>> \in grants}) \ Excluded(u, r)

\* has_perm.
permission_list(u, r) ==
  {p \in Permission : <<u, p>> \in direct} \cup
  (IF r = None THEN {} ELSE get_permission_list(u, r))

\* client_ip_address_is_restricted.
Restricted(u) ==
  IF OnlyWhitelisted THEN ip = None \/ ~ip.white
  ELSE ip # None /\ ~ip.white /\ role[u] \notin ip.roles

-----------------------------------------------------------------------------
(* A request. *)

\* RestrictIpMiddleware, and authentication: the request holds the user's row as it is now.
Begin(q, w, u, v, a, owner) ==
  /\ req[q] = None
  /\ req' = [req EXCEPT ![q] = [worker |-> w, user |-> u, role |-> role[u], view |-> v, action |-> a,
                                owner |-> owner, list |-> {}, touched |-> FALSE,
                                stage |-> IF Restricted(u) THEN "refused" ELSE "begun"]]
  /\ UNCHANGED <<learned, role, direct, grants, groups, excludes, ip, changes>>

\* has_permission; what the user has is cached with the user's object.
has_permission(q) ==
  /\ req[q] # None /\ req[q].stage = "begun"
  /\ LET r == req[q]
         exempt == r.action \in Exempt[r.view]
         list == permission_list(r.user, r.role)
         default == Default(r.view, r.action) \subseteq list
         now == generate_perms_map_action(r.worker, r.view, r.action)
         required == get_perms_list(now, r.worker, r.view, r.action) \ {Check}
     IN  /\ learned' = IF exempt \/ ~default THEN learned ELSE now
         /\ req' = [req EXCEPT ![q].stage = IF exempt \/ (default /\ required \subseteq list)
                                            THEN "passed" ELSE "refused",
                               ![q].list = IF exempt THEN {None} ELSE list]
  /\ UNCHANGED <<role, direct, grants, groups, excludes, ip, changes>>

\* has_object_permission: of an action without a check before, this is the first.
has_object_permission(q) ==
  /\ req[q] # None /\ req[q].stage = "passed"
  /\ LET r == req[q]
         now == generate_perms_map_action(r.worker, r.view, r.action)
         list == IF r.list = {None} THEN permission_list(r.user, r.role) ELSE r.list
         required == get_perms_list(now, r.worker, r.view, r.action)
     IN  /\ learned' = now
         /\ req' = [req EXCEPT ![q].list = list,
                               ![q].stage = IF /\ required \ {Check} \subseteq list
                                               /\ Check \in required => r.owner = r.user
                                            THEN "found" ELSE "refused"]
  /\ UNCHANGED <<role, direct, grants, groups, excludes, ip, changes>>

End(q) ==
  /\ req[q] # None /\ req[q].stage \in {"passed", "found", "refused"}
  /\ req' = [req EXCEPT ![q] = None]
  /\ UNCHANGED <<learned, role, direct, grants, groups, excludes, ip, changes>>

-----------------------------------------------------------------------------
(* What administrators do; the requests under way are touched by it. *)

Change ==
  /\ changes < MaxChanges /\ changes' = changes + 1
  /\ req' = [q \in Request |-> IF req[q] = None THEN None ELSE [req[q] EXCEPT !.touched = TRUE]]
  /\ UNCHANGED learned

Flip(set, x) == IF x \in set THEN set \ {x} ELSE set \cup {x}

Assign(u, r) ==
  /\ Change /\ role' = [role EXCEPT ![u] = r]
  /\ UNCHANGED <<direct, grants, groups, excludes, ip>>

GrantDirectly(u, p) ==
  /\ Change /\ direct' = Flip(direct, <<u, p>>)
  /\ UNCHANGED <<role, grants, groups, excludes, ip>>

Grant(x, p) ==
  /\ Change /\ grants' = Flip(grants, <<x, p>>)
  /\ UNCHANGED <<role, direct, groups, excludes, ip>>

Join(r, g) ==
  /\ Change /\ groups' = Flip(groups, <<r, g>>)
  /\ UNCHANGED <<role, direct, grants, excludes, ip>>

Exclude(x, p) ==
  /\ Change /\ excludes' = Flip(excludes, <<x, p>>)
  /\ UNCHANGED <<role, direct, grants, groups, ip>>

Restrict(value) ==
  /\ Change /\ ip' = value
  /\ UNCHANGED <<role, direct, grants, groups, excludes>>

Init ==
  /\ learned = [w \in Worker |-> [a \in Learnable |-> None]]
  /\ role \in [User -> Role \cup {None}] /\ groups \in SUBSET (Role \X Group)
  /\ direct = {} /\ grants = {}
  /\ excludes = {} /\ ip = None /\ req = [q \in Request |-> None] /\ changes = 0

Next ==
  \/ \E q \in Request, w \in Worker, u \in User, owner \in User \cup {None}, v \in View, a \in Action :
       Begin(q, w, u, v, a, owner)
  \/ \E q \in Request : has_permission(q) \/ has_object_permission(q) \/ End(q)
  \/ \E u \in User, r \in Role \cup {None} : Assign(u, r)
  \/ \E p \in Permission :
       \/ \E u \in User : GrantDirectly(u, p)
       \/ \E x \in Role \cup Group : Grant(x, p)
       \/ \E x \in User \cup Role : Exclude(x, p)
  \/ \E r \in Role, g \in Group : Join(r, g)
  \/ \E value \in [white : BOOLEAN, roles : SUBSET Role] \cup {None} : Restrict(value)

Spec == Init /\ [][Next]_vars

-----------------------------------------------------------------------------
\* What a user has by the documentation: the permissions of its own, and those of its role or
\* of a group of its role that neither excludes.
Entitled(u, p) ==
  \/ <<u, p>> \in direct
  \/ /\ role[u] # None /\ <<u, p>> \notin excludes /\ <<role[u], p>> \notin excludes
     /\ \E x \in {role[u]} \cup {g \in Group : <<role[u], g>> \in groups} : <<x, p>> \in grants

\* The permissions an action of a view is documented to require, where the process cannot have
\* learned another: the action has an entry, or every view that learns it has the same base.
Own(v, a) ==
  IF a \in DOMAIN OwnMap[v] THEN OwnMap[v][a] \ {Check}
  ELSE IF a \in Learnable THEN {<<a, Base[v]>>} ELSE {<<"change", v>>}
Settled(v, a) ==
  \/ a = "update" \/ a \in DOMAIN OwnMap[v]
  \/ a \in Learnable /\ \A x \in View : a \notin DOMAIN OwnMap[x] => Base[x] = Base[v]

\* Of a request that no administrator crossed, the first decision is the documented one: it
\* goes on if and only if the user has what the action requires, whatever other views and
\* users asked the process before, and whatever was granted and taken away before.
DecidedRight ==
  \A q \in Request :
    LET r == req[q]
    IN  r # None /\ ~r.touched /\ Settled(r.view, r.action) /\ ~Restricted(r.user)
          /\ r.action \notin Exempt[r.view] =>
          LET entitled == \A p \in Own(r.view, r.action) \cup Default(r.view, r.action) :
                            Entitled(r.user, p)
          IN  /\ r.stage \in {"passed", "found"} => entitled
              /\ r.stage = "refused" => ~entitled \/ r.owner # r.user

\* The second decision of a request never takes back the first, even if an administrator has
\* changed the permissions in between: it refuses only for the object.
NotTakenBack ==
  \A q \in Request :
    LET r == req[q]
    IN  r # None /\ r.stage = "passed" /\ r.action \notin Exempt[r.view] =>
          (get_perms_list(learned, r.worker, r.view, r.action) \ {Check}) \subseteq r.list

ViewPermissionsConsistent == DecidedRight /\ NotTakenBack
==============================================================================
