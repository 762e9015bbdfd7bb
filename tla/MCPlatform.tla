------------------------------ MODULE MCPlatform ------------------------------
(* Model checking of Platform, with two more parts: the start of a project (Plugins) with      *)
(* made-up packages and with those of Packages.  No view shows the number of steps.            *)
EXTENDS Platform, TLC

CONSTANTS u1, u2, p1, p2, p3, staff, team, v1, v2, group, pair,
          ann, bob, google, github, apple, facebook, c1, c2, c3, c4,
          core, mail, chat, wiki, x1, x2, t1, t2, t3, Key, Name, Model

VARIABLES installed, plugins, initialized, contributed, settings, apps, started, registry,
          captured, tracks, loaded, applied, phase

-----------------------------------------------------------------------------
(* Values for the constants. *)

MCMaxSteps == ("made" :> 16) @@ ("shipped" :> 40) @@ ("keys" :> 9) @@ ("sign-ins" :> 8)
              @@ ("views" :> 6) @@ ("links" :> 12) @@ ("videos" :> 100) @@ ("reads" :> 4)
              @@ ("rooms" :> 4) @@ ("logs" :> 9) @@ ("members" :> 1000)
\* Request slots, task slots, primary keys and tokens are interchangeable.
Symmetry == Permutations(Request) \cup Permutations(Slot) \cup Permutations(Pk) \cup Permutations(Token)

MCGives == (google :> ann) @@ (github :> ann) @@ (apple :> None) @@ (facebook :> None)
MCOf == (c1 :> google) @@ (c2 :> github) @@ (c3 :> apple) @@ (c4 :> facebook)
MCBase == (v1 :> "one") @@ (v2 :> "two")
MCOwnMap == (v1 :> [a \in {} |-> {}]) @@ (v2 :> ("archive" :> {<<"archive", "two">>, Check}))
MCExempt == (v1 :> {"update"}) @@ (v2 :> {})
MCOwner == (p1 :> u1) @@ (p2 :> u2) @@ (p3 :> u2)
MCOwnProfile == (u1 :> p1) @@ (u2 :> p2)
MCFounders == (group :> {p1}) @@ (pair :> {p1, p2})
\* One is added or removed, one for another, two go, or the acting one comes back.
MCUpdates ==
  ({{}, {p1}, {p2}, {p3}} \X {{}, {p1}, {p2}, {p3}}) \cup ({{}} \X {{p1, p2}, {p1, p3}})
MCUses == (u1 :> {p1}) @@ (u2 :> {p1, p2})

Made == <<core, mail, chat, wiki>>
Orders(S) == {s \in UNION {[1..n -> S] : n \in 0..Cardinality(S)} :
                \A i, k \in DOMAIN s : i # k => s[i] # s[k]}
Given(f, S, else) == [x \in S |-> IF x \in DOMAIN f THEN f[x] ELSE else]

P == INSTANCE Plugins WITH
  Package <- {core, mail, chat, wiki}, Extensions <- Made,
  Installable <- Orders({core, mail, chat, wiki}),
  Requires <- Given((mail :> {core}) @@ (wiki :> {mail}), {core, mail, chat, wiki}, {}),
  Adds <- Given(chat :> <<wiki>>, {core, mail, chat, wiki}, <<>>),
  Extra <- Given((core :> {1, 2}) @@ (mail :> {1}), {core, mail, chat, wiki}, {}),
  Project <- {}, Slots <- {core, chat}, Fills <- [p \in {core, mail, chat, wiki} |-> {p, core}],
  Provides <- Given((core :> {1}) @@ (mail :> {2}) @@ (chat :> {1}), {core, mail, chat, wiki}, {}),
  Consumer <- {x1, x2}, Looks <- (x1 :> <<1, 2>>) @@ (x2 :> <<2, 1>>),
  Tracker <- {t1, t2, t3},
  Tracks <- (t1 :> {1, 2}) @@ (t2 :> {1}) @@ (t3 :> {1, 2}), Override <- {t2}

S == INSTANCE Packages
Each(what(_)) == [p \in S!Package |-> what(p)]
All(f) == UNION {f[p] : p \in S!Package}
Requires == Each(LAMBDA p : S!described[p].requires)
Fills == Each(LAMBDA p : S!described[p].fills)
Extra == Each(LAMBDA p : S!described[p].extra)
Shares == Each(LAMBDA p : S!described[p].shares)
NoneAdded == Each(LAMBDA p : <<>>)
\* The project, and the project without one of its packages.
Installable == {SelectSeq(S!INSTALLED_APPS, LAMBDA p : p # out) : out \in S!Package \cup {""}}
Extensions == S!Extensions

Q == INSTANCE Plugins WITH
  Package <- S!Package, Key <- All(Extra), Project <- S!Own, Slots <- S!Asked,
  Adds <- NoneAdded, Name <- All(Shares), Provides <- Shares, Consumer <- DOMAIN S!Lookups,
  Looks <- S!Lookups, Model <- {}, Tracker <- {}, Tracks <- <<>>, Override <- {}

-----------------------------------------------------------------------------
startVars == <<installed, plugins, initialized, contributed, settings, apps, started, registry,
               captured, tracks, loaded, applied, phase>>
Starts == {"made", "shipped"}
NoStart == installed = <<>> /\ plugins = <<>> /\ initialized = <<>> /\ contributed = <<>>
           /\ settings = <<>> /\ apps = <<>> /\ started = <<>> /\ registry = <<>>
           /\ captured = <<>> /\ tracks = <<>> /\ loaded = <<>> /\ applied = <<>> /\ phase = <<>>
view == <<seen, startVars>>
\* Nothing more is said of videos once a task is lost or the row is gone.
Unspoilt == part = "videos" => ~lost /\ field # Gone

\* To Platform, a behaviour of a start is one in which only the steps are counted.
MCInit ==
  /\ Init
  /\ part = "made" => P!Init
  /\ part = "shipped" => Q!Init
  /\ part \notin Starts => NoStart

MCNext ==
  /\ Next
  /\ \/ part = "made" /\ P!Next
     \/ part = "shipped" /\ Q!Next
     \/ part \notin Starts /\ UNCHANGED startVars

MCSpec == MCInit /\ [][MCNext]_<<vars, startVars>>

\* Every backend that a running package brings to decide about permissions is one the project
\* asks for, its own test package excepted: without it nobody would have them.
BackendsEnabled ==
  \A p \in S!Package \ {"testproject.plugin_test_app"} :
    {slot \in Fills[p] : slot[1] = "AUTHENTICATION_BACKENDS"} \subseteq S!Asked

\* Whatever is installed, a project that has started has what its plugins contribute.
StartConsistent ==
  /\ part = "made" => P!TypeOK /\ P!PluginsConsistent
  /\ part = "shipped" => Q!TypeOK /\ Q!PluginsConsistent /\ BackendsEnabled
=============================================================================
