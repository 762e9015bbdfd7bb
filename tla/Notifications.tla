---------------------------- MODULE Notifications ------------------------------
(***************************************************************************)
(* The notifications of one user: the settings that allow them, the worker  *)
(* that delivers them on three channels, and the sockets that are told of   *)
(* them.  Comments and reactions schedule their notification from a signal,  *)
(* before their transaction commits; chats push from inside theirs.          *)
(***************************************************************************)
EXTENDS Integers, Sequences, FiniteSets

CONSTANTS
  Verb,        \* groups of verbs
  AllVerbs,    \* the verb "_ALL_", one of them
  Event,       \* comments, reactions and chat messages about which the user is told
  Chat,        \* the chat messages among them
  VerbOf,      \* VerbOf[e]: the group of the verb e is told with
  Request, Client, None,
  MaxRows, MaxToggles

VARIABLES
  settings,    \* NotificationSetting rows of the user, in the order of their ids
  req,         \* req[q]: the toggle request q is in
  toggles,     \* toggles begun
  off,         \* history: <<verb, channel>> whose own last toggle answered "inactive"
  answer,      \* history: the last toggle that committed, while no other overlapped it
  event,       \* event[e]: "none", "open", "committed", "failed" or "deleted"
  task,        \* task[e]: where the worker is with e
  notes,       \* notes[e]: the Notification row about e
  sent,        \* sent[e]: channels e went out on
  late,        \* history: <<event, channel>> turned off after the delivery had asked
  unwanted,    \* history: events that went out on a channel that was off when they asked
  held,        \* held[c]: the notifications client c shows
  deleting,    \* notifications an administrator's request is deleting
  missed       \* history: notifications deleted, or not deleted after all, under a broadcast

vars == <<settings, req, toggles, off, answer, event, task, notes, sent, late, unwanted,
          held, deleting, missed>>
settingVars == <<settings, req, toggles, off, answer>>
clientVars == <<held, deleting, missed>>

Single == {"email", "push", "in_app"}
Channel == Single \cup {"all"}
Setting == [verb : Verb, channel : Channel, active : BOOLEAN]
Note == [unread : BOOLEAN, emailed : BOOLEAN]

TypeOK ==
  /\ settings \in Seq(Setting) /\ Len(settings) <= MaxRows
  /\ off \subseteq Verb \X Single /\ late \subseteq Event \X Single
  /\ \A e \in Event : /\ event[e] \in {"none", "open", "committed", "failed", "deleted"}
                      /\ notes[e] \in Note \cup {None} /\ sent[e] \subseteq Single
  /\ \A c \in Client : DOMAIN held[c] \subseteq Event

-----------------------------------------------------------------------------
(* Settings. *)

Rows(V, C) == {i \in DOMAIN settings : settings[i].verb \in V /\ settings[i].channel \in C}

\* can_user_receive_notification: the first row of those that apply, inactive ones first.
can_user_receive_notification(verb, channel) ==
  \A i \in Rows({verb, AllVerbs}, {channel, "all"}) : settings[i].active

Writing == {q \in Request : req[q] # None /\ req[q].stage = "written"}
Locked(i) == \E q \in Writing : i = req[q].row \/ i \in req[q].others

\* NotificationSettingToggle: get_or_create finds one row or none; with two it fails.
Toggle(q, verb, channel) ==
  LET rows == Rows({verb}, {channel})
      row == IF rows = {} THEN 0 ELSE CHOOSE i \in rows : TRUE
  IN  /\ req[q] = None /\ toggles < MaxToggles /\ Cardinality(rows) <= 1
      /\ toggles' = toggles + 1
      /\ req' = [k \in Request |->
           IF k = q THEN [stage |-> "read", verb |-> verb, channel |-> channel, row |-> row,
                          active |-> row # 0 /\ ~settings[row].active, others |-> {},
                          alone |-> \A x \in Request : req[x] = None]
           ELSE IF req[k] = None THEN None ELSE [req[k] EXCEPT !.alone = FALSE]]
      /\ UNCHANGED <<settings, off, answer, event, task, notes, sent, late, unwanted, clientVars>>

\* The other rows a toggle writes: all of the verb, or the one for all channels.
Others(verb, channel) == Rows({verb}, IF channel = "all" THEN Channel ELSE {"all"})

\* Its updates, each waiting for rows that another toggle has written.
Write(q) ==
  /\ req[q] # None /\ req[q].stage = "read"
  /\ LET others == Others(req[q].verb, req[q].channel)
     IN  /\ \A i \in others \cup {req[q].row} : ~Locked(i)
         /\ req' = [req EXCEPT ![q].stage = "written", ![q].others = others]
  /\ UNCHANGED <<settings, toggles, off, answer, event, task, notes, sent, late, unwanted, clientVars>>

\* Where a delivery has asked about a channel and has yet to go out on it.
Asked == {<<"noting", "in_app">>, <<"mailing", "email">>, <<"pushing", "push">>}

\* The commit: what it wrote, and the new row if it made one.
Commit(q) ==
  /\ q \in Writing /\ (req[q].row = 0 => Len(settings) < MaxRows)
  /\ LET t == req[q]
         written == [i \in DOMAIN settings |->
           IF i \in t.others \cup {t.row} THEN [settings[i] EXCEPT !.active = t.active]
           ELSE settings[i]]
         own == IF t.channel = "all" THEN {t.verb} \X Single ELSE {<<t.verb, t.channel>>}
     IN  /\ settings' = IF t.row = 0
                        THEN Append(written, [verb |-> t.verb, channel |-> t.channel,
                                              active |-> t.active])
                        ELSE written
         /\ off' = IF t.active THEN off \ own
                   ELSE IF t.channel = "all" THEN off ELSE off \cup own
         /\ late' = IF t.active \/ t.channel = "all" THEN late
                    ELSE late \cup {p \in Event \X {t.channel} :
                                      /\ <<task[p[1]], p[2]>> \in Asked
                                      /\ t.verb \in {VerbOf[p[1]], AllVerbs}}
         /\ answer' = IF t.alone THEN [own |-> own, active |-> t.active] ELSE None
  /\ req' = [req EXCEPT ![q] = None]
  /\ UNCHANGED <<toggles, event, task, notes, sent, unwanted, clientVars>>

\* The database aborts one of two toggles that wait for each other.
RollBack(q) ==
  /\ req[q] # None
  /\ req' = [req EXCEPT ![q] = None]
  /\ UNCHANGED <<settings, toggles, off, answer, event, task, notes, sent, late, unwanted, clientVars>>

-----------------------------------------------------------------------------
(* Deliveries. *)

\* A comment or a reaction is inserted and its task queued; a chat message is inserted, and
\* its request has one channel to ask about, the push.
notify_on_created(e) ==
  /\ event[e] = "none"
  /\ event' = [event EXCEPT ![e] = "open"]
  /\ task' = [task EXCEPT ![e] = IF e \in Chat THEN "mailed" ELSE "queued"]
  /\ UNCHANGED <<settingVars, notes, sent, late, unwanted, clientVars>>

\* The request commits or fails, a chat's after its push; what it made may be deleted later.
Settle(e, fate) ==
  /\ <<event[e], fate>> \in {<<"open", "committed">>, <<"open", "failed">>,
                             <<"committed", "deleted">>}
  /\ e \in Chat => task[e] = "done"
  /\ event' = [event EXCEPT ![e] = fate]
  /\ UNCHANGED <<settingVars, task, notes, sent, late, unwanted, clientVars>>

\* The task loads its comment or reaction, and ends when it finds none.
Found(e) == event[e] = "committed"
Load(e) ==
  /\ task[e] = "queued"
  /\ task' = [task EXCEPT ![e] = IF Found(e) THEN "loaded" ELSE "lost"]
  /\ UNCHANGED <<settingVars, event, notes, sent, late, unwanted, clientVars>>

\* send_notification, channel by channel: it asks the settings, and goes out on the channel
\* in a later statement, whatever is toggled in between.
Ask(e, channel, asking, delivering, next) ==
  /\ task[e] = asking
  /\ task' = [task EXCEPT ![e] =
                IF can_user_receive_notification(VerbOf[e], channel) THEN delivering ELSE next]
  /\ UNCHANGED <<settingVars, event, notes, sent, late, unwanted, clientVars>>

AskInApp(e) == Ask(e, "in_app", "loaded", "noting", "noted")
AskEmail(e) == Ask(e, "email", "noted", "mailing", "mailed")
AskPush(e) == Ask(e, "push", "mailed", "pushing", "done")

Send(e, channel) ==
  /\ sent' = [sent EXCEPT ![e] = @ \cup {channel}]
  /\ unwanted' = IF {VerbOf[e], AllVerbs} \X {channel} \cap off # {} /\ <<e, channel>> \notin late
                 THEN unwanted \cup {e} ELSE unwanted

\* The worker has no transaction: each row it saves is there at once, and the hook that
\* broadcasts it runs next.
InApp(e) ==
  /\ task[e] = "noting"
  /\ notes' = [notes EXCEPT ![e] = [unread |-> TRUE, emailed |-> FALSE]]
  /\ Send(e, "in_app")
  /\ task' = [task EXCEPT ![e] = "created"]
  /\ UNCHANGED <<settingVars, event, late, clientVars>>

\* The e-mail goes out; then the notification, if there is one, is to be saved.
Email(e) ==
  /\ task[e] = "mailing"
  /\ Send(e, "email")
  /\ task' = [task EXCEPT ![e] = IF "in_app" \in sent[e] THEN "stamping" ELSE "mailed"]
  /\ UNCHANGED <<settingVars, event, notes, late, clientVars>>

\* save(update_fields=["emailed"]): the task dies when the row is no longer there.
Stamp(e) ==
  /\ task[e] = "stamping" /\ e \notin deleting
  /\ IF notes[e] = None
     THEN task' = [task EXCEPT ![e] = "died"] /\ UNCHANGED notes
     ELSE /\ notes' = [notes EXCEPT ![e].emailed = TRUE]
          /\ task' = [task EXCEPT ![e] = "updated"]
  /\ UNCHANGED <<settingVars, event, sent, late, unwanted, clientVars>>

Push(e) ==
  /\ task[e] = "pushing"
  /\ Send(e, "push")
  /\ task' = [task EXCEPT ![e] = "done"]
  /\ UNCHANGED <<settingVars, event, notes, late, clientVars>>

-----------------------------------------------------------------------------
(* What the clients are told. *)

\* AbstractNotification.save: the hook tells of a new row or of a changed one, as it is read
\* then.  A client has no place for a change to a notification it does not show.
AlwaysUpdated(e) == FALSE
created(e) == task[e] = "created"

With(f, e, n) == [x \in DOMAIN f \cup {e} |-> IF x = e THEN n ELSE f[x]]

Broadcast(e) ==
  /\ task[e] \in {"created", "updated"}
  /\ held' = IF notes[e] = None THEN held
             ELSE [c \in Client |->
                     IF created(e) \/ e \in DOMAIN held[c] THEN With(held[c], e, notes[e])
                     ELSE held[c]]
  /\ missed' = IF e \in deleting THEN missed \cup {e} ELSE missed
  /\ task' = [task EXCEPT ![e] = IF @ = "created" THEN "noted" ELSE "mailed"]
  /\ UNCHANGED <<settingVars, event, notes, sent, late, unwanted, deleting>>

Without(f, e) == [x \in DOMAIN f \ {e} |-> f[x]]

\* AbstractNotification.delete tells of the deletion before the request commits it.
Delete(e) ==
  /\ notes[e] # None /\ e \notin deleting
  /\ deleting' = deleting \cup {e}
  /\ held' = [c \in Client |-> Without(held[c], e)]
  /\ UNCHANGED <<settingVars, event, task, notes, sent, late, unwanted, missed>>

DeleteEnds(e, fails) ==
  /\ e \in deleting
  /\ deleting' = deleting \ {e}
  /\ notes' = IF fails THEN notes ELSE [notes EXCEPT ![e] = None]
  /\ missed' = IF fails THEN missed \cup {e} ELSE missed
  /\ UNCHANGED <<settingVars, event, task, sent, late, unwanted, held>>

\* NotificationsMarkAsRead of some notifications, or of all: an update, which broadcasts
\* nothing.  The answer shows them to the client that asked.
MarkAsRead(c, S, read) ==
  /\ S # {} /\ S \subseteq {e \in Event : notes[e] # None} \ deleting
  /\ notes' = [e \in Event |-> IF e \in S THEN [notes[e] EXCEPT !.unread = ~read] ELSE notes[e]]
  /\ held' = [held EXCEPT ![c] = [e \in DOMAIN @ |-> IF e \in S THEN notes'[e] ELSE @[e]]]
  /\ UNCHANGED <<settingVars, event, task, sent, late, unwanted, deleting, missed>>

\* notifications and notificationsUnreadCount, asked again.
Refresh(c) ==
  /\ held' = [held EXCEPT ![c] = [e \in {x \in Event : notes[x] # None} |-> notes[e]]]
  /\ missed' = missed \cup deleting
  /\ UNCHANGED <<settingVars, event, task, notes, sent, late, unwanted, deleting>>

-----------------------------------------------------------------------------
Init ==
  /\ settings = <<>> /\ req = [q \in Request |-> None] /\ toggles = 0
  /\ off = {} /\ answer = None
  /\ event = [e \in Event |-> "none"] /\ task = [e \in Event |-> "none"]
  /\ notes = [e \in Event |-> None]
  /\ sent = [e \in Event |-> {}] /\ late = {} /\ unwanted = {}
  /\ held = [c \in Client |-> <<>>] /\ deleting = {} /\ missed = {}

Next ==
  \/ \E q \in Request : \/ \E v \in Verb, c \in Channel : Toggle(q, v, c)
                        \/ Write(q) \/ Commit(q) \/ RollBack(q)
  \/ \E e \in Event :
       \/ notify_on_created(e) \/ Load(e) \/ Broadcast(e) \/ Delete(e)
       \/ AskInApp(e) \/ InApp(e) \/ AskEmail(e) \/ Email(e) \/ Stamp(e)
       \/ AskPush(e) \/ Push(e)
       \/ \E fate \in {"committed", "failed", "deleted"} : Settle(e, fate)
       \/ \E fails \in BOOLEAN : DeleteEnds(e, fails)
  \/ \E c \in Client : \/ Refresh(c)
                       \/ \E S \in SUBSET Event, read \in BOOLEAN : MarkAsRead(c, S, read)

-----------------------------------------------------------------------------
\* Nothing goes out on a channel that was off, for its verb or for all of them, when the
\* delivery asked: whatever other settings were toggled, and however the toggles overlapped
\* each other and the delivery.  What is turned off between the question and the delivery
\* (late) does go out.
OffMeansOff == unwanted = {}

\* What the last toggle answered is what the next delivery meets, unless another toggle
\* overlapped it or a setting for every verb turns the channel off.
AnswersHold ==
  answer # None => \A p \in answer.own :
    IF answer.active
    THEN (\A i \in Rows({AllVerbs}, {p[2], "all"}) : settings[i].active)
           => can_user_receive_notification(p[1], p[2])
    ELSE ~can_user_receive_notification(p[1], p[2])

\* Nothing is sent, and nothing listed, about a comment or a reaction that was not committed.
OnlyReal ==
  \A e \in Event \ Chat : event[e] \in {"none", "open", "failed"} => sent[e] = {} /\ notes[e] = None

\* When nothing is being delivered or deleted, clients show the notifications there are, as
\* they were saved, unless a broadcast or a query met a deletion.
ClientsTold ==
  \A e \in Event \ (missed \cup deleting) : task[e] \notin {"created", "updated"} =>
    \A c \in Client :
      /\ notes[e] # None <=> e \in DOMAIN held[c]
      /\ notes[e] # None => held[c][e].emailed = notes[e].emailed

NoticesConsistent == OffMeansOff /\ AnswersHold /\ OnlyReal /\ ClientsTold
==============================================================================
