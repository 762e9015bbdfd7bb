-------------------------------- MODULE Reads ---------------------------------
(***************************************************************************)
(* Who sees what: the permission backends, the lists the GraphQL object types *)
(* resolve and the nodes they open by id, for every viewer and every state    *)
(* that people reach by posting, deleting, hiding, blocking and granting.     *)
(***************************************************************************)
EXTENDS Integers, FiniteSets, TLC

CONSTANTS
  User, Superuser,
  Profile,       \* Owner[p]: the owner of profile p
  Owner,
  Own,           \* Own[u]: the profile of user u itself, User.profile
  Row,           \* rows of one kind: comments, pages, reports and rates
  Nobody,        \* the anonymous user
  None,
  AnonymousReads, \* BASEAPP_..._CAN_ANONYMOUS_VIEW_...
  MaxWrites

VARIABLES
  private,   \* profiles that are not public
  members,   \* <<user, profile>>: the rows of ProfileUserRole, whatever their status
  blocks,    \* <<actor, target, user>>: user set the block
  enabled,   \* comments, ratings and reactions are enabled on the target
  granted,   \* <<user, permission>>: permissions of a user that no object is needed for
  comment, page, report,
  writes

vars == <<private, members, blocks, enabled, granted, comment, page, report, writes>>

Permissions == {"change_comment", "change_page", "view_report", "view_all_comments"}
Comment == [author : Profile, user : User, status : {"published", "deleted"}]
Page == [user : User, status : {"published", "draft"}]
Written == [user : User]

TypeOK ==
  /\ private \subseteq Profile /\ members \subseteq User \X Profile
  /\ blocks \subseteq Profile \X Profile \X User /\ enabled \in BOOLEAN
  /\ granted \subseteq User \X Permissions
  /\ comment \in [Row -> Comment \cup {None}] /\ page \in [Row -> Page \cup {None}]
  /\ report \in [Row -> Written \cup {None}]

There(rows) == {r \in Row : rows[r] # None}
Super(u) == u \in Superuser
Granted(u, perm) == Super(u) \/ <<u, perm>> \in granted

-----------------------------------------------------------------------------
(* The permission backends.  A superuser has every permission. *)

Member(u, p) == Owner[p] = u \/ <<u, p>> \in members

use_profile(u, p) == Super(u) \/ Member(u, p)
view_profile(u, p) == Super(u) \/ p \notin private \/ Member(u, p)

change_comment(u, c) ==
  \/ Super(u)
  \/ enabled /\ u # Nobody /\ (comment[c].user = u \/ Granted(u, "change_comment"))
view_comment(u, c) == comment[c].status = "published" \/ change_comment(u, c)
add_comment(u, p) == u # Nobody /\ enabled /\ use_profile(u, p)

change_page(u, g) == u # Nobody /\ (page[g].user = u \/ Granted(u, "change_page"))
view_page(u, g) == page[g].status = "published" \/ change_page(u, g)

view_report(u, r) == Granted(u, "view_report") \/ report[r].user = u
add_block_with_profile(u, p) == use_profile(u, p)

-----------------------------------------------------------------------------
(* A viewer: a user and its current profile. *)

\* CurrentProfileMiddleware of an HTTP request, without a header or with one.
FromRequest(u) ==
  {[user |-> u, profile |-> p] : p \in IF u = Nobody THEN {None}
                                       ELSE {Own[u], None} \cup {p \in Profile : use_profile(u, p)}}

\* on_connect of a socket gives a profile only to a header that names one to use.
FromSocket(u) ==
  {[user |-> u, profile |-> None]} \cup
  {[user |-> u, profile |-> p] : p \in {p \in Profile : u # Nobody /\ use_profile(u, p)}}

Viewers == UNION {FromRequest(u) \cup FromSocket(u) : u \in User \cup {Nobody}}

\* exclude_blocked_from_foreign_queryset: whose rows the viewer is not shown.
blocked_profile_ids(ps) == {b[2] : b \in {b \in blocks : b[1] \in ps}}
blocker_profile_ids(ps) == {b[1] : b \in {b \in blocks : b[2] \in ps}}
exclude_blocked(v) ==
  LET ps == IF v.user = Nobody THEN {}
            ELSE IF v.profile # None THEN {v.profile} ELSE {p \in Profile : Owner[p] = v.user}
  IN  blocked_profile_ids(ps) \cup blocker_profile_ids(ps)

-----------------------------------------------------------------------------
(* What is listed, and what opens. *)

\* CommentQuerySet.visible.
EveryStatus == There(comment)
visible == {c \in There(comment) : comment[c].status # "deleted"}

resolve_comments(v) ==
  IF enabled /\ (AnonymousReads \/ v.user # Nobody)
  THEN {c \in visible : comment[c].author \notin exclude_blocked(v)} ELSE {}

\* The list of all comments is not limited to visible ones.
resolve_all_comments(v) ==
  IF Granted(v.user, "view_all_comments")
  THEN {c \in There(comment) : comment[c].author \notin exclude_blocked(v)} ELSE {}

OpensComment(v, c) == view_comment(v.user, c) /\ comment[c].author \notin exclude_blocked(v)

\* BasePageObjectType.get_queryset and get_node.
all_pages(v) ==
  {g \in There(page) : Super(v.user) \/ page[g].status = "published" \/ page[g].user = v.user}
OpensPage(v, g) == g \in all_pages(v) /\ view_page(v.user, g)

\* URLPathNode.resolve_target.
resolve_target(v, g) == view_page(v.user, g)

\* BaseProfileObjectType.get_queryset and get_node; ProfilesInterface.resolve_profiles.
profiles_queryset(v) == {p \in Profile : Super(v.user) \/ p \notin private \/ Owner[p] = v.user}
resolve_profiles(v) ==
  IF v.user = Nobody THEN {} ELSE {p \in profiles_queryset(v) : Member(v.user, p)}
OpensProfile(v, p) == p \in profiles_queryset(v) /\ view_profile(v.user, p)

resolve_reports(v) == IF Granted(v.user, "view_report") THEN There(report) ELSE {}
resolve_my_report(v) == {r \in There(report) : v.user # Nobody /\ report[r].user = v.user}
OpensReport(v, r) == view_report(v.user, r)

-----------------------------------------------------------------------------
(* What people do. *)

Wrote == writes < MaxWrites /\ writes' = writes + 1
others == <<private, members, blocks, enabled, granted>>

CommentCreate(u, p, c) ==
  /\ Wrote /\ comment[c] = None /\ add_comment(u, p)
  /\ comment' = [comment EXCEPT ![c] = [author |-> p, user |-> u, status |-> "published"]]
  /\ UNCHANGED <<others, page, report>>

CommentDelete(u, c) ==
  /\ Wrote /\ c \in There(comment) /\ change_comment(u, c)
  /\ comment' = [comment EXCEPT ![c].status = "deleted"]
  /\ UNCHANGED <<others, page, report>>

PageSave(u, g, status) ==
  /\ Wrote /\ u # Nobody
  /\ IF page[g] = None THEN page' = [page EXCEPT ![g] = [user |-> u, status |-> status]]
     ELSE change_page(u, g) /\ page' = [page EXCEPT ![g].status = status]
  /\ UNCHANGED <<others, comment, report>>

ReportCreate(u, r) ==
  /\ Wrote /\ report[r] = None /\ u # Nobody
  /\ report' = [report EXCEPT ![r] = [user |-> u]]
  /\ UNCHANGED <<others, comment, page>>

\* A block of the two that another user set is not found, and cannot be set again.
BlockToggle(u, p, q) ==
  /\ Wrote /\ u # Nobody /\ p # q /\ add_block_with_profile(u, p)
  /\ \A b \in blocks : b[1] = p /\ b[2] = q => b[3] = u
  /\ blocks' = IF <<p, q, u>> \in blocks THEN blocks \ {<<p, q, u>>} ELSE blocks \cup {<<p, q, u>>}
  /\ UNCHANGED <<private, members, enabled, granted, comment, page, report>>

\* Members come and go, profiles are hidden and shown, an operator grants permissions and
\* switches the interactions of the target on and off.
Change(u, p, perm) ==
  /\ Wrote
  /\ \/ /\ members' = IF <<u, p>> \in members THEN members \ {<<u, p>>} ELSE members \cup {<<u, p>>}
        /\ UNCHANGED <<private, enabled, granted>>
     \/ /\ private' = IF p \in private THEN private \ {p} ELSE private \cup {p}
        /\ UNCHANGED <<members, enabled, granted>>
     \/ granted' = granted \cup {<<u, perm>>} /\ UNCHANGED <<private, members, enabled>>
     \/ enabled' = ~enabled /\ UNCHANGED <<private, members, granted>>
  /\ UNCHANGED <<blocks, comment, page, report>>

Init ==
  /\ private = {} /\ members = {} /\ blocks = {} /\ enabled = TRUE /\ granted = {}
  /\ comment = [r \in Row |-> None] /\ page = [r \in Row |-> None]
  /\ report = [r \in Row |-> None] /\ writes = 0

Next ==
  \/ \E u \in User, p \in Profile, r \in Row : CommentCreate(u, p, r)
  \/ \E u \in User, r \in Row : CommentDelete(u, r) \/ ReportCreate(u, r)
  \/ \E u \in User, r \in Row, s \in {"published", "draft"} : PageSave(u, r, s)
  \/ \E u \in User, p, q \in Profile : BlockToggle(u, p, q)
  \/ \E u \in User, p \in Profile, perm \in Permissions : Change(u, p, perm)

Spec == Init /\ [][Next]_vars

-----------------------------------------------------------------------------
\* Whatever a list shows a viewer, it can open by id, the next request as the same viewer
\* included: no list and no node of the same type disagree about who may see a row, in
\* whatever order people post, delete, hide, block and grant.
ListedOpens ==
  \A v \in Viewers :
    /\ \A c \in resolve_comments(v) : OpensComment(v, c)
    /\ \A g \in all_pages(v) : OpensPage(v, g) /\ resolve_target(v, g)
    /\ \A p \in resolve_profiles(v) \cup profiles_queryset(v) : OpensProfile(v, p)
    /\ \A r \in resolve_reports(v) \cup resolve_my_report(v) : OpensReport(v, r)

\* Blocking works both ways and on nobody else: of two profiles with a block between them
\* neither is shown the other's comments, whoever set the block and whoever uses the profile;
\* of two without one, each is shown what the other published.
BlocksHideBothWays ==
  \A v \in Viewers : v.profile # None =>
    \A c \in There(comment) :
      LET q == comment[c].author
          apart == \E b \in blocks : {b[1], b[2]} = {v.profile, q}
      IN  /\ apart => c \notin resolve_comments(v) \cup resolve_all_comments(v) /\ ~OpensComment(v, c)
          /\ ~apart /\ enabled /\ c \in visible => c \in resolve_comments(v)

ReadsConsistent == ListedOpens /\ BlocksHideBothWays
==============================================================================
