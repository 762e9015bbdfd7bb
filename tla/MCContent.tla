------------------------------ MODULE MCContent ------------------------------
(* Model checking of what people write to each other: Messages, Mentions and Notifications.   *)
(* A behaviour is of one part, the variables of the others stay empty, and it ends after      *)
(* MaxSteps[part] steps, which no view shows.  Messages has three parts: "opening" starts     *)
(* without rooms, "talking" in a one-to-one room and "joining" in a group; each leaves out    *)
(* the steps that another one is about (Focus); once settings were toggled, one event and no   *)
(* deletion are looked at.                                                                     *)
EXTENDS Integers, Sequences, FiniteSets, TLC

CONSTANTS a, b, c, None, Request, MaxSteps,
          Profile, UserOf, Text, Gone, Creations, SystemMessages, MaxRooms, MaxMessages,
          Target, MaxCalls,
          v, AllVerbs, Verb, e1, e2, Event, Chat, VerbOf, Client, MaxRows, MaxToggles

VARIABLES part, steps, req,
          rooms, msgs, blocks, subs, seen, overlapped, raced, buried, stale, lingering,
          profiles, mentions, calls, asked, balance,
          settings, toggles, off, answer, event, task, notes, sent, late, unwanted, held,
          deleting, missed

M == INSTANCE Messages
T == INSTANCE Mentions
N == INSTANCE Notifications

\* Profiles and requests are finitely many, None is no request and no notification, and the
\* inputs of ChatRoomCreate are well formed.
ASSUME FiniteAssumption == IsFiniteSet(Profile) /\ IsFiniteSet(Request)
ASSUME NoneAssumption == None \notin T!Call \cup N!Note \cup M!Work
ASSUME BoundAssumption == /\ MaxCalls \in Nat /\ MaxRows \in Nat
                          /\ MaxMessages \in Nat /\ MaxRooms \in Nat \ {0}
ASSUME InputAssumption == /\ a \in Profile /\ b \in Profile
                          /\ \A x \in Creations : /\ x.guests \in Seq(Profile)
                                                  /\ x.group \in BOOLEAN

MCUserOf == (a :> 1) @@ (b :> 2) @@ (c :> 2)
MCCreations == {[guests |-> <<b>>, group |-> FALSE, titled |-> FALSE],
                [guests |-> <<a>>, group |-> FALSE, titled |-> FALSE],
                [guests |-> <<b>>, group |-> TRUE, titled |-> TRUE]}
MCVerbOf == (e1 :> v) @@ (e2 :> v)
MCMaxSteps == [opening |-> 6, talking |-> 8, joining |-> 7, mentions |-> 10, notices |-> 12]
Symmetry == Permutations(Text) \cup Permutations(Request) \cup Permutations(Client)

Talks == {"opening", "talking", "joining"}
messageVars == <<rooms, msgs, blocks, subs, seen, overlapped, raced, buried, stale, lingering>>
mentionVars == <<profiles, mentions, calls, asked, balance>>
noticeVars == <<settings, toggles, off, answer, event, task, notes, sent, late, unwanted,
                held, deleting, missed>>
view == <<part, req, messageVars, mentionVars, noticeVars>>
vars == <<view, steps>>

NoMessages == rooms = <<>> /\ msgs = <<>> /\ blocks = <<>> /\ subs = <<>> /\ seen = <<>>
              /\ overlapped = <<>> /\ raced = <<>> /\ buried = <<>> /\ stale = <<>>
              /\ lingering = <<>>
NoMentions == profiles = <<>> /\ mentions = <<>> /\ calls = <<>> /\ asked = <<>>
              /\ balance = <<>>
NoNotices == settings = <<>> /\ toggles = <<>> /\ off = <<>> /\ answer = <<>> /\ event = <<>>
             /\ task = <<>> /\ notes = <<>> /\ sent = <<>> /\ late = <<>> /\ unwanted = <<>>
             /\ held = <<>> /\ deleting = <<>> /\ missed = <<>>

\* A room of a and b, which a opened.
Opened(group) ==
  [group |-> group, host |-> a, last |-> 0,
   people |-> [p \in {a, b} |-> <<[since |-> 0, archived |-> FALSE]>>]]

Ops == {req[q].op : q \in {k \in Request : req[k] # None}}
Archived == {r \in DOMAIN rooms : \E p \in M!Members(r) :
                                          rooms[r].people[p][1].archived}
Focus ==
  /\ part = "opening" => subs' = {}
  /\ part \in {"talking", "joining"} => UNCHANGED blocks /\ Archived' = {}
  /\ part = "talking" => seen'[<<c, 1>>] = <<>> /\ "create" \notin Ops'
  /\ part = "joining" => Ops' \subseteq {"erase"}
  /\ part = "notices" => \/ toggles' = 0
                         \/ UNCHANGED deleting /\ \E e \in Event : event'[e] = "none"

Init ==
  /\ steps = 0
  /\ \/ part = "opening" /\ M!Init /\ NoMentions /\ NoNotices
     \/ part = "talking" /\ M!InitWith(<<Opened(FALSE)>>) /\ NoMentions /\ NoNotices
     \/ part = "joining" /\ M!InitWith(<<Opened(TRUE)>>) /\ NoMentions /\ NoNotices
     \/ part = "mentions" /\ T!Init /\ NoMessages /\ NoNotices
     \/ part = "notices" /\ N!Init /\ NoMessages /\ NoMentions

Next ==
  /\ steps < MaxSteps[part] /\ steps' = steps + 1 /\ UNCHANGED part
  /\ \/ part \in Talks /\ M!Next /\ Focus /\ UNCHANGED <<mentionVars, noticeVars>>
     \/ part = "mentions" /\ T!Next /\ UNCHANGED <<messageVars, noticeVars>>
     \/ part = "notices" /\ N!Next /\ Focus /\ UNCHANGED <<messageVars, mentionVars>>

Spec == Init /\ [][Next]_vars

\* The properties of the three modules, each about the behaviours of its own.
MessagesConsistent == part \in Talks => M!TypeOK /\ M!MessagesConsistent
MentionsConsistent == part = "mentions" => T!TypeOK /\ T!MentionsConsistent
NoticesConsistent == part = "notices" => N!TypeOK /\ N!NoticesConsistent
==============================================================================
