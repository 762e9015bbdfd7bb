------------------------------- MODULE Plugins --------------------------------
(***************************************************************************)
(* How one process puts the installed packages together: the settings are   *)
(* assembled from the plugins, the applications register what they share in  *)
(* ready(), and consumers capture what is registered.                        *)
(***************************************************************************)
EXTENDS Integers, Sequences, FiniteSets, TLC
LOCAL INSTANCE SequencesExt

CONSTANTS
  Package,     \* packages, with a plugin or without one
  Installable, \* the INSTALLED_APPS a project may list
  Extensions,  \* the packages that have a plugin, in the order in which it is discovered
  Requires,    \* Requires[p]: packages that p names as required
  Adds,        \* Adds[p]: packages that p contributes to INSTALLED_APPS
  Key,         \* extra settings
  Extra,       \* Extra[p]: the extra settings p has a value for
  Project,     \* settings the project defines itself
  Slots,       \* the slots of settings that the project asks the registry for
  Fills,       \* Fills[p]: the slots p contributes to
  Name,        \* names of shared services, serializers and GraphQL interfaces
  Provides,    \* Provides[p]: the names p registers
  Consumer,    \* modules that look names up when they are imported
  Looks,       \* Looks[x]: the names consumer x looks up, in order
  Model,       \* models whose history is tracked
  Tracker,     \* modules that register a track when they are loaded
  Tracks,      \* Tracks[t]: the models t registers
  Override,    \* those of them that decorate the model, the others register a default
  None

VARIABLES
  installed,   \* INSTALLED_APPS as the settings module lists them
  plugins,     \* _plugins, in the order of insertion
  initialized,
  contributed, \* contributed[slot]: the packages whose entries the settings took from the slot
  settings,    \* settings[k]: the package whose value setting k has
  apps,        \* INSTALLED_APPS of the running settings
  started,     \* applications whose ready() has run
  registry,    \* registry[n]: the package that registered n last
  captured,    \* captured[x]: the providers that consumer x was given
  tracks,      \* tracks[m]: the module whose track is registered for m
  loaded,      \* trackers loaded, in order
  applied,     \* applied[m]: the track that history is kept with
  phase

vars == <<installed, plugins, initialized, contributed, settings, apps, started, registry,
          captured, tracks, loaded, applied, phase>>

track == <<tracks, loaded, applied>>

TypeOK ==
  /\ installed \in Installable /\ plugins \in Seq(Package) /\ initialized \in BOOLEAN
  /\ Range(settings) \subseteq Package \cup {"project", None}
  /\ registry \in [Name -> Package \cup {None}]
  /\ tracks \in [Model -> Tracker \cup {None}] /\ applied \in [Model -> Tracker \cup {None}]
  /\ phase \in {"settings", "models", "ready", "running", "failed"}

-----------------------------------------------------------------------------
(* The plugin registry. *)

_is_app_installed(p) == p \in Range(installed)

\* BaseAppPlugin.validate.
validate(p) == \A r \in Requires[p] : _is_app_installed(r)

\* The packages whose plugin load_from_installed_apps stores, up to the first that fails.
Wanted(s) == SelectSeq(s, _is_app_installed)
Stored(s) ==
  LET good == Wanted(s)
      bad == {i \in DOMAIN good : ~validate(good[i])}
  IN  IF bad = {} THEN good
      ELSE SubSeq(good, 1, (CHOOSE i \in bad : \A k \in bad : i <= k) - 1)

\* A dictionary: a name that is stored again keeps its place.
Insert(s, p) == IF p \in Range(s) THEN s ELSE Append(s, p)

\* get(key, slot): the contributions to one slot.
get(slot, s) == SelectSeq(s, LAMBDA p : slot \in Fills[p])

\* _merge_dict_attr: of two plugins that set a key, the later one in discovery order wins.
_merge_dict_attr(k, s) ==
  LET who == {i \in DOMAIN s : k \in Extra[s[i]]}
  IN  IF who = {} THEN None ELSE s[CHOOSE i \in who : \A j \in who : j <= i]

-----------------------------------------------------------------------------
(* The start of the process. *)

\* The settings module lists its applications and loads the plugins.  With a requirement
\* missing the import fails; what was stored before stays stored.
load_from_installed_apps ==
  /\ phase = "settings" /\ ~initialized
  /\ plugins' = FoldLeft(Insert, plugins, Stored(Extensions))
  /\ IF Stored(Extensions) = Wanted(Extensions)
     THEN initialized' = TRUE /\ UNCHANGED phase
     ELSE phase' = "failed" /\ UNCHANGED initialized
  /\ UNCHANGED <<installed, contributed, settings, apps, started, registry, captured, track>>

\* The rest of the settings module.  Extra settings yield to the project's own; packages
\* that plugins add to INSTALLED_APPS come last, and their own plugins are not loaded; Django
\* refuses an application that is listed twice.
Assemble ==
  /\ phase = "settings" /\ initialized
  /\ apps' = FoldLeft(LAMBDA s, p : s \o Adds[p], installed, plugins)
  /\ contributed' = [slot \in Slots |-> get(slot, plugins)]
  /\ settings' = [k \in Key |-> IF k \in Project THEN "project" ELSE _merge_dict_attr(k, plugins)]
  /\ phase' = IF IsInjective(apps') THEN "models" ELSE "failed"
  /\ UNCHANGED <<installed, plugins, initialized, started, registry, captured, track>>

\* pghistory and pgtrigger keep a registry each, by the same rules.  A decorator replaces
\* what is registered for its models, a default only what no decorator registered.
is_override(m) == tracks[m] # None /\ tracks[m] \in Override

register_track(t) ==
  /\ phase = "models" /\ t \in Override \ Range(loaded)
  /\ loaded' = Append(loaded, t)
  /\ tracks' = [m \in Model |-> IF m \in Tracks[t] THEN t ELSE tracks[m]]
  /\ UNCHANGED <<installed, plugins, initialized, contributed, settings, apps, started, registry,
                 captured, applied, phase>>

register_default_track(t) ==
  /\ phase = "models" /\ t \notin Override \cup Range(loaded)
  /\ loaded' = Append(loaded, t)
  /\ tracks' = [m \in Model |-> IF m \in Tracks[t] /\ ~is_override(m) THEN t ELSE tracks[m]]
  /\ UNCHANGED <<installed, plugins, initialized, contributed, settings, apps, started, registry,
                 captured, applied, phase>>

\* With all models loaded the ready() of baseapp_core applies what is registered, once.
Applied(m) == IF applied[m] = None THEN tracks[m] ELSE applied[m]

apply_tracks ==
  /\ phase = "models" /\ Range(loaded) = Tracker
  /\ applied' = [m \in Model |-> Applied(m)]
  /\ phase' = "ready"
  /\ UNCHANGED <<installed, plugins, initialized, contributed, settings, apps, started, registry,
                 captured, tracks, loaded>>

\* What a registry holds once application p has registered its services, serializers and
\* interfaces: p, over what another one registered under the same name.
register(p) == [n \in Name |-> IF n \in Provides[p] THEN p ELSE registry[n]]

\* BaseAppConfig.ready of the next application.
ready ==
  /\ phase = "ready" /\ started < Len(apps)
  /\ started' = started + 1
  /\ registry' = register(apps[started + 1])
  /\ UNCHANGED <<installed, plugins, initialized, contributed, settings, apps, captured,
                 track, phase>>

Run ==
  /\ phase = "ready" /\ started = Len(apps)
  /\ phase' = "running"
  /\ UNCHANGED <<installed, plugins, initialized, contributed, settings, apps, started, registry,
                 captured, track>>

\* require_django_ready: the registries answer nobody before every ready() has run.
NotRequired == TRUE
require_django_ready == phase = "running"

\* get: the providers of some names, in order; a name nobody registered is skipped.
get_interfaces(names) ==
  SelectSeq([i \in DOMAIN names |-> registry[names[i]]], LAMBDA p : p # None)

\* Consumer x is imported, by another module or by an application's ready(), and captures
\* the providers of the names it looks up.
Import(x) ==
  /\ captured[x] = None /\ phase \in {"models", "ready", "running"}
  /\ IF require_django_ready
     THEN captured' = [captured EXCEPT ![x] = get_interfaces(Looks[x])] /\ UNCHANGED phase
     ELSE phase' = "failed" /\ UNCHANGED captured
  /\ UNCHANGED <<installed, plugins, initialized, contributed, settings, apps, started, registry,
                 track>>

-----------------------------------------------------------------------------
Init ==
  /\ installed \in Installable
  /\ plugins = <<>> /\ initialized = FALSE
  /\ contributed = <<>> /\ settings = [k \in Key |-> None] /\ apps = <<>> /\ started = 0
  /\ registry = [n \in Name |-> None] /\ captured = [x \in Consumer |-> None]
  /\ tracks = [m \in Model |-> None] /\ loaded = <<>> /\ applied = [m \in Model |-> None]
  /\ phase = "settings"

Next ==
  \/ \E t \in Tracker : register_track(t) \/ register_default_track(t)
  \/ apply_tracks
  \/ load_from_installed_apps \/ Assemble \/ ready \/ Run
  \/ \E x \in Consumer : Import(x)

Spec == Init /\ [][Next]_vars

\* What a consumer was given is what the registry holds in the end: of two applications
\* that share under one name it never has the one that was replaced, and it lacks no name
\* that some application provides, however early it was imported.
CapturesAreFinal ==
  \A x \in Consumer : captured[x] # None =>
    captured[x] = SelectSeq([i \in DOMAIN Looks[x] |->
                     LET who == {k \in DOMAIN apps : Looks[x][i] \in Provides[apps[k]]}
                     IN  IF who = {} THEN None ELSE apps[CHOOSE k \in who : \A l \in who : l <= k]],
                   LAMBDA p : p # None)

\* A process that runs has exactly the plugins of the packages its settings list, in the
\* order of discovery; what each of them requires is running too; a slot has the entries of
\* each of them once; and each setting has the project's value or that of the last plugin
\* that gives one.
RunsWhatIsListed ==
  phase = "running" =>
    /\ Range(plugins) = Range(installed) \cap Range(Extensions) /\ IsInjective(plugins)
    /\ \A i, k \in DOMAIN Extensions :
         i < k /\ {Extensions[i], Extensions[k]} \subseteq Range(plugins) =>
           \E l, m \in DOMAIN plugins :
             l < m /\ plugins[l] = Extensions[i] /\ plugins[m] = Extensions[k]
    /\ \A p \in Range(plugins) : Requires[p] \cup Range(Adds[p]) \subseteq Range(apps)
    /\ \A slot \in Slots :
         /\ Range(contributed[slot]) = {p \in Range(plugins) : slot \in Fills[p]}
         /\ IsInjective(contributed[slot])
    /\ \A k \in Key \ Project :
         LET who == {p \in Range(plugins) : k \in Extra[p]}
         IN  IF who = {} THEN settings[k] = None
             ELSE settings[k] \in who /\ \A i, l \in DOMAIN Extensions :
                    Extensions[i] = settings[k] /\ Extensions[l] \in who => l <= i

\* "This will override any default tracks ..., even if the decorator is used before the
\* default is registered": in whatever order the modules are loaded, a decorated model is
\* tracked as its decorator says, and a model with any track at all is tracked.
OverridesWin ==
  phase = "running" =>
    \A m \in Model :
      LET who == {t \in Tracker : m \in Tracks[t]}
      IN  /\ who # {} => applied[m] \in who
          /\ who \cap Override # {} => applied[m] \in Override

PluginsConsistent == CapturesAreFinal /\ RunsWhatIsListed /\ OverridesWin
==============================================================================
