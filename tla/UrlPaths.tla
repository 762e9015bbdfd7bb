------------------------------ MODULE UrlPaths ------------------------------
(* baseapp_profiles, baseapp_organizations and baseapp_pages: users, organizations and pages, *)
(* the profiles that stand for the first two, and the URL paths, unique over all of them.     *)
(* A request that writes a path first reads which ones are free; it is under way (request)    *)
(* from there to its commit.  A path is a handle and its number, a name is the handle it      *)
(* folds to.  Languages are left out: paths are unique whatever their language.               *)
EXTENDS Naturals, Sequences, FiniteSets

CONSTANTS User, Organization, Page, None,
          Holder,            \* users who hold the global permissions on profiles and pages
          Base, Short,       \* handles, and those of less than 8 characters
          MaxSuffix, MaxProfile, MaxRequest   \* bounds: numbers, profiles, requests under way

VARIABLES user,          \* rows: profile, name, is_active
          organization,  \* rows: profile
          page,          \* rows: user, who made it
          profile,       \* rows: owner, target, name
          url,           \* URLPath rows: path and target
          request,       \* requests under way
          last,          \* the profile id the sequence gave out last
          overlapped     \* history: <<what, whom>> an overlap or an explicit name made an exception of

vars == <<user, organization, page, profile, url, request, last, overlapped>>

Path == Base \X (0..MaxSuffix)
Pid == 1..MaxProfile
Nothing == <<"nothing", None>>
Target == {Nothing} \cup ({"user"} \X User) \cup ({"organization"} \X Organization)
UserRow == [profile: Pid \cup {None}, name: Path, is_active: BOOLEAN]
OrganizationRow == [profile: Pid \cup {None}]
ProfileRow == [owner: User, target: Target, name: Path]
TypeOK ==
  /\ user \in [User -> UserRow \cup {None}]
  /\ organization \in [Organization -> OrganizationRow \cup {None}]
  /\ page \in [Page -> User \cup {None}] /\ last \in 0..MaxProfile
  /\ profile \in [Pid -> ProfileRow \cup {None}]
  /\ \A x \in url : x[1] \in Path /\ x[2][1] \in {"profile", "page"}
  /\ \A x, y \in url : x[1] = y[1] => x = y
  /\ Cardinality(request) <= MaxRequest

Init ==
  /\ user = [u \in User |-> None] /\ organization = [o \in Organization |-> None]
  /\ page = [g \in Page |-> None] /\ profile = [p \in Pid |-> None] /\ url = {}
  /\ request = {} /\ last = 0 /\ overlapped = {}

Profiles == {p \in Pid : profile[p] # None}
Active(u) == user[u] # None /\ user[u].is_active
PathsOf(t) == {x \in url : x[2] = t}
May(u, owner) == Active(u) /\ (u = owner \/ u \in Holder)
Linked(p) == \E o \in Organization : organization[o] # None /\ organization[o].profile = p

----------------------------------------------------------------------------
\* Paths

Taken(rows) == {x[1] : x \in rows}

\* Handles of less than 8 characters are padded with random digits.
generate_url_path(name) == IF name[1] \in Short THEN {name[1]} \X (0..MaxSuffix) ELSE {name}

\* URLPathService.generate_url_path_str: the first number from there on that is free
generate_url_path_str(path, rows) ==
  {q \in Path \ Taken(rows) : /\ q[1] = path[1] /\ q[2] >= path[2]
                              /\ \A n \in path[2]..(q[2] - 1) : <<path[1], n>> \in Taken(rows)}

\* what AbstractProfile.create_url_path may settle on; validate_url_path accepts only a path
\* that is free, the profile's own included
create_url_path(name, rows) == UNION {generate_url_path_str(h, rows) : h \in generate_url_path(name)}
validate_url_path(path) == generate_url_path_str(path, url) = {path}

\* the path for the name, then the one asked for if there is one
Choices(name, asked) ==
  {<<p>> : p \in IF asked = None THEN create_url_path(name, url) ELSE {}} \cup
  IF asked = None THEN {}
  ELSE UNION {{<<p, q>> : q \in create_url_path(asked, url \cup {<<p, Nothing>>})} : p \in create_url_path(name, url)}

\* data is the name or the row that is saved; old are the path rows that are deleted.
Begin(kind, by, target, data, paths, old) ==
  /\ Cardinality(request) < MaxRequest
  /\ request' = request \cup {[kind |-> kind, by |-> by, target |-> target, data |-> data,
                               paths |-> paths, old |-> old]}
  /\ UNCHANGED <<user, organization, page, profile, url, last, overlapped>>

End(r) == request' = request \ {r}

\* IntegrityError or any other failure: the whole request is rolled back.
Fail(r) == End(r) /\ UNCHANGED <<user, organization, page, profile, url, last, overlapped>>
Fits(r, gone) == \A i \in 1..Len(r.paths) : r.paths[i] \notin Taken(url \ gone)
Write(r, t, gone) == url' = (url \ gone) \cup {<<r.paths[i], t>> : i \in 1..Len(r.paths)}

----------------------------------------------------------------------------
\* Creation of users, organizations and profiles

\* The triggers of the users' table; post_save finds the profile they made.
Register(u, name) ==
  /\ user[u] = None
  /\ \E paths \in Choices(name, None) : Begin("register", u, <<"user", u>>, name, paths, {})

Insert(p, owner, target, name) ==
  /\ profile' = [profile EXCEPT ![p] = [owner |-> owner, target |-> target, name |-> name]]
  /\ last' = IF p > last THEN p ELSE last

\* CreateProfileFunc: a profile that the target already has is taken over
CreateProfile(r) ==
  LET had == {p \in Profiles : profile[p].target = r.target}
      p == IF had = {} THEN last + 1 ELSE CHOOSE q \in had : TRUE
  IN /\ user[r.by] = None /\ p \in Pid /\ Fits(r, {})
     /\ Insert(p, r.by, r.target, r.data)
     /\ user' = [user EXCEPT ![r.by] = [profile |-> p, name |-> r.data, is_active |-> TRUE]]
     /\ Write(r, <<"profile", p>>, {}) /\ End(r)
     /\ UNCHANGED <<organization, page, overlapped>>

\* OrganizationCreate saves the organization before it validates the profile: what is wrong
\* with the path, or that there is none, leaves an organization without profile behind.
OrganizationCreate(u, o, name, asked) ==
  /\ Active(u) /\ organization[o] = None
  /\ IF asked # None /\ validate_url_path(asked)
     THEN \E paths \in Choices(name, asked) : Begin("organization", u, <<"organization", o>>, name, paths, {})
     ELSE /\ organization' = [organization EXCEPT ![o] = [profile |-> None]]
          /\ UNCHANGED <<user, page, profile, url, request, last, overlapped>>

CreateOrganization(r) ==
  /\ organization[r.target[2]] = None /\ last + 1 \in Pid /\ Fits(r, {})
  /\ Insert(last + 1, r.by, r.target, r.data)
  /\ organization' = [organization EXCEPT ![r.target[2]] = [profile |-> last + 1]]
  /\ Write(r, <<"profile", last + 1>>, {}) /\ End(r)
  /\ UNCHANGED <<user, page, overlapped>>

\* ProfileCreate: for no target, or for one that has no profile; nobody is linked to it.
ProfileCreate(u, t, name, asked) ==
  /\ Active(u) /\ (t # Nothing => \A p \in Profiles : profile[p].target # t)
  /\ (asked # None => validate_url_path(asked))
  /\ \E paths \in Choices(name, asked) : Begin("profile", u, t, name, paths, {})

ProfileCreate_save(r) ==
  /\ (r.target # Nothing => \A p \in Profiles : profile[p].target # r.target)
  /\ last + 1 \in Pid /\ Fits(r, {})
  /\ Insert(last + 1, r.by, r.target, r.data)
  /\ Write(r, <<"profile", last + 1>>, {}) /\ End(r)
  /\ UNCHANGED <<user, organization, page, overlapped>>

----------------------------------------------------------------------------
\* Changes of a profile

\* ProfileUpdate loads the row; without a path asked for it leaves the paths alone.
ProfileUpdate(u, p, asked) ==
  /\ p \in Profiles /\ May(u, profile[p].owner)
  /\ (asked # None => validate_url_path(asked))
  /\ LET t == <<"profile", p>>
         old == IF asked = None THEN {} ELSE PathsOf(t)
     IN \E paths \in IF asked = None THEN {<<>>}
                     ELSE {<<q>> : q \in create_url_path(asked, url \ old)} :
          Begin("update", u, t, profile[p], paths, old)

\* It saves all of the row, which inserts it again if it is gone, name included (its own or
\* the one it has loaded), and deletes the paths it finds, others' after it looked or not; a
\* foreign key keeps the owner of a row from being gone.
ProfileUpdate_save(r, name) ==
  LET p == r.target[2]
      row == [r.data EXCEPT !.name = name]
  IN \E gone \in IF r.paths = <<>> THEN {{}} ELSE {r.old, PathsOf(r.target)} :
     /\ user[row.owner] # None /\ Fits(r, gone) /\ Write(r, r.target, gone)
     /\ profile' = [profile EXCEPT ![p] = row]
     /\ overlapped' = overlapped \cup
          {x \in {<<"name", p>>} : p \in Profiles /\ name # profile[p].name} \cup
          {x \in {<<"owned", p>>} : p \in Profiles /\ row.owner # profile[p].owner} \cup
          {x \in {<<"gone", p>>} : p \notin Profiles}
     /\ End(r) /\ UNCHANGED <<user, organization, page, last>>

\* UpdateProfileNameFunc
Rename(u, name) ==
  /\ user[u] # None /\ user' = [user EXCEPT ![u].name = name]
  /\ profile' = IF user[u].profile = None THEN profile ELSE [profile EXCEPT ![user[u].profile].name = name]
  /\ overlapped' = overlapped \ {<<"name", user[u].profile>>}
  /\ UNCHANGED <<organization, page, url, request, last>>

----------------------------------------------------------------------------
\* Deletions collect what goes with a row, its paths included, and delete that afterwards

Goes(t, d) == t \in ({"profile"} \X d.profiles) \cup ({"page"} \X d.pages)

\* An organization protects its profile.
Collect(by, t, d) ==
  /\ \A p \in d.profiles : ~Linked(p)
  /\ Begin("delete", by, t, d, <<>>, {x \in url : Goes(x[2], d)})

ProfileDelete(u, p) ==
  /\ p \in Profiles /\ May(u, profile[p].owner)
  /\ Collect(u, <<"profile", p>>, [users |-> {}, profiles |-> {p}, pages |-> {}])

DeleteNode(u, g) ==
  /\ page[g] # None /\ May(u, page[g])
  /\ Collect(u, <<"page", g>>, [users |-> {}, profiles |-> {}, pages |-> {g}])

\* Days later, after every request of u's: the cascade takes the profiles and pages u owns.
anonymize_and_delete_user_task(u) ==
  /\ user[u] # None /\ ~user[u].is_active /\ \A r \in request : r.by # u
  /\ Collect(u, <<"user", u>>, [users |-> {u}, profiles |-> {p \in Profiles : profile[p].owner = u},
                               pages |-> {g \in Page : page[g] = u}])

KeepLinks(gone, users) == user' = [u \in User |-> IF u \in users THEN None ELSE user[u]]
Unlink(gone, users) ==
  user' = [u \in User |-> IF u \in users THEN None
                          ELSE IF user[u] # None /\ user[u].profile \in gone
                          THEN [user[u] EXCEPT !.profile = None] ELSE user[u]]

\* A profile or page that a user who goes has got since then makes it fail.
Delete(r) ==
  LET d == r.data
  IN /\ \A p \in Profiles \ d.profiles : profile[p].owner \notin d.users
     /\ \A g \in Page \ d.pages : page[g] \notin d.users
     /\ profile' = [p \in Pid |-> IF p \in d.profiles THEN None ELSE profile[p]]
     /\ page' = [g \in Page |-> IF g \in d.pages THEN None ELSE page[g]]
     /\ Unlink(d.profiles, d.users) /\ url' = url \ r.old /\ End(r)
     /\ overlapped' = overlapped \cup {<<"path", x[2]>> : x \in {y \in url \ r.old : Goes(y[2], d)}}
     /\ UNCHANGED <<organization, last>>

----------------------------------------------------------------------------
\* Accounts: OrganizationAccountService vetoes the deletion of an organization's owner

user_owns_organization(u) == \E p \in Profiles : Linked(p) /\ profile[p].owner = u

delete_account(u) ==
  /\ Active(u) /\ ~user_owns_organization(u)
  /\ user' = [user EXCEPT ![u].is_active = FALSE]
  /\ overlapped' = overlapped \cup
       {x \in {<<"owner", u>>} : \E r \in request : r.kind = "organization" /\ r.by = u}
  /\ UNCHANGED <<organization, page, profile, url, request, last>>

----------------------------------------------------------------------------
\* Pages: PageCreate and PageEdit add a path to what the page has; validation excludes the
\* page's own paths, which the unique constraint then refuses.

PageSave(u, g, path) ==
  /\ May(u, page[g]) /\ \A x \in url : x[1] = path => x[2] = <<"page", g>>
  /\ Begin("page", u, <<"page", g>>, page[g], <<path>>, {})

\* PageSerializer.save; an edited row that is gone is inserted again
PageSave_save(r) ==
  LET g == r.target[2]
      owner == IF r.data = None THEN r.by ELSE r.data
  IN /\ Fits(r, {}) /\ user[owner] # None /\ (page[g] # None => r.data # None)
     /\ page' = [page EXCEPT ![g] = owner] /\ Write(r, r.target, {}) /\ End(r)
     /\ UNCHANGED <<user, organization, profile, last, overlapped>>

----------------------------------------------------------------------------
Commit(r) ==
  \/ r.kind = "register" /\ CreateProfile(r)
  \/ r.kind = "organization" /\ CreateOrganization(r)
  \/ r.kind = "profile" /\ ProfileCreate_save(r)
  \/ r.kind = "update" /\ \E name \in {r.data.name} \cup (Base \X {0}) : ProfileUpdate_save(r, name)
  \/ r.kind = "delete" /\ Delete(r)
  \/ r.kind = "page" /\ PageSave_save(r)
  \/ Fail(r)

Next ==
  \/ \E u \in User, name \in Base \X {0} :
       \/ Register(u, name) \/ Rename(u, name)
       \/ \E asked \in Path \cup {None} :
            \/ \E o \in Organization : OrganizationCreate(u, o, name, asked)
            \/ \E t \in {Nothing} \cup {<<"user", v>> : v \in User} : ProfileCreate(u, t, name, asked)
  \/ \E u \in User, p \in Profiles : ProfileDelete(u, p) \/ \E asked \in Path \cup {None} : ProfileUpdate(u, p, asked)
  \/ \E u \in User : delete_account(u) \/ anonymize_and_delete_user_task(u)
  \/ \E u \in User, g \in Page, path \in Path : PageSave(u, g, path) \/ DeleteNode(u, g)
  \/ \E r \in request : Commit(r)

Spec == Init /\ [][Next]_vars

----------------------------------------------------------------------------
\* A path leads to something that exists, unless a deletion had collected the paths of its
\* target before another request added one.
PathsLead ==
  \A x \in url : \/ x[2][1] = "page" /\ page[x[2][2]] # None
                 \/ x[2][1] = "profile" /\ x[2][2] \in Profiles
                 \/ <<"path", x[2]>> \in overlapped

\* A profile has a path from the commit that makes it on, whatever overlapping updates delete
\* and create, unless saving it brought it back after its deletion.
ProfilesReachable ==
  \A p \in Profiles : PathsOf(<<"profile", p>>) # {} \/ <<"gone", p>> \in overlapped

\* The profile a user or an organization links to stands for it, and a user owns his own,
\* unless an update saved the owner that the profile had before the user registered.
LinksMutual ==
  /\ \A u \in User : user[u] # None /\ user[u].profile # None =>
         /\ user[u].profile \in Profiles /\ profile[user[u].profile].target = <<"user", u>>
         /\ (profile[user[u].profile].owner = u \/ <<"owned", user[u].profile>> \in overlapped)
  /\ \A o \in Organization : organization[o] # None /\ organization[o].profile # None =>
       organization[o].profile \in Profiles /\ profile[organization[o].profile].target = <<"organization", o>>

\* The triggers keep the profile's name the user's, unless an update of the profile gave it
\* another one or saved the one it had loaded before the user was renamed.
NamesInSync ==
  \A u \in User : user[u] # None /\ user[u].profile # None =>
    \/ profile[user[u].profile].name = user[u].name
    \/ <<"name", user[u].profile>> \in overlapped

\* Nobody whose account is about to be deleted owns an organization, which would make the
\* deletion fail for good, unless he was creating it just then.
OwnersStay ==
  \A u \in User : user[u] # None /\ ~user[u].is_active /\ user_owns_organization(u) =>
    <<"owner", u>> \in overlapped

PathsConsistent == PathsLead /\ ProfilesReachable /\ LinksMutual /\ NamesInSync /\ OwnersStay
==============================================================================
