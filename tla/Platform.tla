------------------------------- MODULE Platform -------------------------------
(* What the other components stand on, in one specification: ApiKeys, SignIns,                 *)
(* ViewPermissions, ShortLinks, Videos, Reads, RoomViews, ActivityLog and ProfileInvitations.  *)
(* A behaviour is of one part and ends after MaxSteps[part] steps; the variables of the other  *)
(* parts stay empty.  Variables of one name in two parts belong to whichever of them the       *)
(* behaviour is of.                                                                            *)
EXTENDS Integers, Sequences, FiniteSets

CONSTANTS Parts, MaxSteps, None, Gone,
          Secret, Holder, EncryptionKey, MaxEdits,
          Email, Account, Gives, Trusted, Code, Of, MaxDeletes,
          Server, Visitor, Role, Team, View, Base, OwnMap, Strict, Exempt, OnlyWhitelisted, Call,
          Check, MaxChanges,
          FullUrl, Http, Worker, MaxLinks,
          MaxVideos, MaxRetries, MaxForms, Slot, Trim, Downloadable,
          User, Superuser, Nobody, Profile, Owner, OwnProfile, ReadRow, AnonymousReads, MaxWrites,
          Room, Group, Founders, Updates, MaxEvents,
          Uses, Request, MaxFields, MaxLogs,
          People, ProfileOwner, Pk, Token, Absent, Idle, AtomicRequests

VARIABLES part, steps,
          rows, active, setting, rotation, form, edits, rotated, crossed,
          atomic, spent, cache, users, social, referrals, req, asked, made, brought, deletes,
          learned, role, direct, grants, groups, excludes, ip, changes,
          links, keys, saving, given,
          cloud, field, task, forms, lost,
          private, members, blocks, enabled, granted, comment, page, report, writes,
          people, msgs, count, marked, clock, left, given_up,
          gone, logs,
          row, used, minted, late, accounts, consent, raced

-----------------------------------------------------------------------------
(* The parts, and what is assumed of their constants. *)

K == INSTANCE ApiKeys WITH User <- Holder
I == INSTANCE SignIns
C == INSTANCE ViewPermissions WITH Worker <- Server, User <- Visitor, Group <- Team, Request <- Call
L == INSTANCE ShortLinks
V == INSTANCE Videos
R == INSTANCE Reads WITH Own <- OwnProfile, Row <- ReadRow
G == INSTANCE RoomViews WITH Own <- OwnProfile
A == INSTANCE ActivityLog WITH Own <- OwnProfile
M == INSTANCE ProfileInvitations WITH Person <- People, Owner <- ProfileOwner

ASSUME KeyAssumption == MaxEdits \in Nat /\ None \notin K!KeyRow \cup {Gone}
ASSUME SignInAssumption ==
  /\ MaxDeletes \in Nat /\ Of \in [Code -> Account] /\ Gives \in [Account -> Email \cup {None}]
  /\ Gone \notin Email \cup {None}
ASSUME ViewAssumption ==
  /\ {Check, None} \cap C!Permission = {} /\ \A v \in View : Base[v] # None
  /\ \A v \in View : \A a \in DOMAIN OwnMap[v] : OwnMap[v][a] \subseteq C!Permission \cup {Check}
ASSUME LinkAssumption == MaxLinks \in Nat
\* What Videos keeps: videos at Cloudflare, what a field holds of one, tasks and forms.
Uploaded == [state : V!States, from : V!Video \cup {None}, whole : BOOLEAN, url : BOOLEAN]
Streamed == [uid : V!Video, state : V!States, clipped : BOOLEAN, url : BOOLEAN]
StreamTask ==
  [kind : {"refresh", "download", "original", "delete"}, uid : 0..MaxVideos, old : 0..MaxVideos,
   retries : 1..MaxRetries, at : {"queued", "running", "clip", "send", "meta", "write"},
   read : Streamed \cup {None, Gone}, value : Streamed \cup {None}]
ShownForm ==
  [uid : V!Video, upload : BOOLEAN, value : Streamed \cup {None}, sent : BOOLEAN]
ASSUME VideoAssumption ==
  /\ {MaxVideos, MaxRetries, MaxForms} \subseteq Nat /\ MaxRetries > 0 /\ None # Gone
  /\ {None, Gone} \cap (Uploaded \cup Streamed \cup StreamTask \cup ShownForm \cup V!Video) = {}
ASSUME ReadAssumption ==
  /\ Superuser \subseteq User /\ Nobody \notin User
  /\ None \notin R!Comment \cup R!Page \cup R!Written
ASSUME RoomAssumption ==
  /\ MaxEvents \in Nat /\ Updates \subseteq (SUBSET Profile) \X (SUBSET Profile)
  /\ Group \subseteq Room /\ \A r \in Room : Founders[r] \subseteq Profile
  /\ \A u \in User : OwnProfile[u] \in Profile /\ Owner[OwnProfile[u]] = u
  /\ None \notin Profile \cup G!Person \cup 0..MaxEvents
ASSUME LogAssumption ==
  /\ {MaxFields, MaxLogs} \subseteq Nat /\ \A u \in User : OwnProfile[u] \in Uses[u]
  /\ None \notin User \cup A!Profiles \cup A!Context
ASSUME MemberAssumption ==
  /\ ProfileOwner \in People /\ None \notin People \cup Token /\ Absent \notin M!Row
  /\ Idle \notin [op : M!Ops, pk : Pk, copy : M!Row]

-----------------------------------------------------------------------------
(* The variables of each part; three names are in several of them. *)

keyVars == <<rows, active, setting, rotation, edits, rotated, crossed>>
signInVars == <<atomic, spent, cache, users, social, referrals, asked, made, brought, deletes>>
permissionVars == <<learned, role, direct, grants, groups, excludes, ip, changes>>
linkVars == <<links, keys, saving, given>>
videoVars == <<cloud, field, task, forms, lost>>
readVars == <<private, members, blocks, enabled, granted, comment, page, report, writes>>
roomVars == <<people, msgs, count, marked, clock, left, given_up>>
logVars == <<logs, gone>>
memberVars == <<row, used, minted, late, accounts, consent, raced>>
seen == <<part, keyVars, signInVars, permissionVars,
          linkVars, videoVars, readVars, roomVars, logVars,
          memberVars, form, req>>
vars == <<seen, steps>>

NoKeys == rows = <<>> /\ active = <<>> /\ setting = <<>> /\ rotation = <<>> /\ edits = <<>>
          /\ rotated = <<>> /\ crossed = <<>>
NoSignIns == atomic = <<>> /\ spent = <<>> /\ cache = <<>> /\ users = <<>> /\ social = <<>>
             /\ referrals = <<>> /\ asked = <<>> /\ made = <<>> /\ brought = <<>>
             /\ deletes = <<>>
NoPermissions == learned = <<>> /\ role = <<>> /\ direct = <<>> /\ grants = <<>> /\ groups = <<>>
                 /\ excludes = <<>> /\ ip = <<>> /\ changes = <<>>
NoLinks == links = <<>> /\ keys = <<>> /\ saving = <<>> /\ given = <<>>
NoVideos == cloud = <<>> /\ field = <<>> /\ task = <<>> /\ forms = <<>> /\ lost = <<>>
NoReads == private = <<>> /\ members = <<>> /\ blocks = <<>> /\ enabled = <<>> /\ granted = <<>>
           /\ comment = <<>> /\ page = <<>> /\ report = <<>> /\ writes = <<>>
NoRooms == people = <<>> /\ msgs = <<>> /\ count = <<>> /\ marked = <<>> /\ clock = <<>>
           /\ left = <<>> /\ given_up = <<>>
NoMembers == row = [k \in Pk |-> Absent] /\ used = <<>> /\ minted = <<>> /\ late = <<>>
             /\ accounts = <<>> /\ consent = <<>> /\ raced = <<>>

Init ==
  /\ steps = 0 /\ part \in Parts
  /\ IF part = "keys" THEN K!Init ELSE NoKeys
  /\ IF part = "sign-ins" THEN I!Init ELSE NoSignIns
  /\ IF part = "views" THEN C!Init ELSE NoPermissions
  /\ IF part = "links" THEN L!Init ELSE NoLinks
  /\ IF part = "videos" THEN V!Init ELSE NoVideos
  /\ IF part = "reads" THEN R!Init ELSE NoReads
  /\ IF part = "rooms" THEN G!Init ELSE NoRooms
  /\ IF part = "logs" THEN A!Init ELSE logs = <<>> /\ gone = <<>>
  /\ IF part = "members" THEN M!Init ELSE NoMembers
  /\ part \notin {"keys", "videos"} => form = <<>>
  /\ part \notin {"sign-ins", "views", "logs", "members"} => req = <<>>

Next ==
  /\ steps < MaxSteps[part] /\ steps' = steps + 1 /\ UNCHANGED part
  /\ IF part = "keys" THEN K!Next ELSE UNCHANGED keyVars
  /\ IF part = "sign-ins" THEN I!Next ELSE UNCHANGED signInVars
  /\ IF part = "views" THEN C!Next ELSE UNCHANGED permissionVars
  /\ IF part = "links" THEN L!Next ELSE UNCHANGED linkVars
  /\ IF part = "videos" THEN V!Next ELSE UNCHANGED videoVars
  /\ IF part = "reads" THEN R!Next ELSE UNCHANGED readVars
  /\ IF part = "rooms" THEN G!Next ELSE UNCHANGED roomVars
  /\ IF part = "logs" THEN A!Next ELSE UNCHANGED logVars
  /\ IF part = "members" THEN M!Next ELSE UNCHANGED memberVars
  /\ part \notin {"keys", "videos"} => UNCHANGED form
  /\ part \notin {"sign-ins", "views", "logs", "members"} => UNCHANGED req

Spec == Init /\ [][Next]_vars

\* The properties of the modules, each about the behaviours of its own part.
\* Whom a request comes from: API keys under rotation, social sign-ins, the permissions that
\* views ask for, and the links that were handed out.
CredentialsConsistent ==
  /\ part = "keys" => K!TypeOK /\ K!KeysConsistent
  /\ part = "sign-ins" => I!TypeOK /\ I!SignInsConsistent
  /\ part = "views" => C!TypeOK /\ C!ViewPermissionsConsistent
  /\ part = "links" => L!TypeOK /\ L!LinksConsistent
\* The videos at Cloudflare against what the fields of rows say of them.
VideosConsistent == part = "videos" => V!TypeOK /\ V!VideosConsistent
\* What a reader is shown: lists against single nodes, rooms through every way, activity logs.
ViewsConsistent ==
  /\ part = "reads" => R!TypeOK /\ R!ReadsConsistent
  /\ part = "rooms" => G!TypeOK /\ G!RoomViewsConsistent
  /\ part = "logs" => A!TypeOK /\ A!LogsConsistent
\* The rows of members are well formed, and nobody is active who has not accepted an invitation
\* addressed to it.
MembersConsistent == part = "members" => M!TypeOK /\ M!ActiveByConsent
\* Unless requests overlap, a row of a member goes through its statuses as documented.
StatusMachine == M!StatusMachine
=============================================================================
