------------------------------- MODULE RoomViews -------------------------------
(***************************************************************************)
(* What the fields and filters of chat rooms tell a viewer about rooms that   *)
(* people join, leave, administer, archive and write in.  Requests do not     *)
(* overlap here; how they do is in ChatRooms, ChatUnread and Messages.        *)
(***************************************************************************)
EXTENDS Integers, Sequences, FiniteSets

CONSTANTS
  User, Profile,
  Owner,     \* Owner[p]: the user that owns profile p
  Own,       \* Own[u]: the profile of user u itself
  Room, Group,
  Founders,  \* Founders[r]: the participants that r begins with, in a group as admins
  Updates,   \* <<add, remove>> pairs that ChatRoomUpdate is called with
  None, MaxEvents

VARIABLES
  people,  \* people[r][p]: the participant row of p in room r, or None
  msgs,    \* messages, in order
  count,   \* count[r][p]: UnreadMessageCount.count, None without a row
  marked,  \* <<r, p>>: marked_unread
  clock,
  left,    \* history: <<r, p>>: p has left r
  given_up \* history: groups whose admins were removed by one of them, with no one to take over

vars == <<people, msgs, count, marked, clock, left, given_up>>

Person == [admin : BOOLEAN, archived : BOOLEAN, since : 0..MaxEvents]
Message == [room : Room, author : Profile, at : 0..MaxEvents, deleted : BOOLEAN,
            status : [Profile -> {"none", "unread", "read"}]]

TypeOK ==
  /\ people \in [Room -> [Profile -> Person \cup {None}]]
  /\ \A m \in DOMAIN msgs : msgs[m] \in Message
  /\ \A r \in Room, p \in Profile : count[r][p] \in 0..MaxEvents \cup {None}
  /\ marked \subseteq Room \X Profile /\ clock \in 0..MaxEvents /\ left \subseteq Room \X Profile
  /\ given_up \subseteq Group

Members(r) == {p \in Profile : people[r][p] # None}
Admins(r) == {p \in Members(r) : people[r][p].admin}
filter_user_profiles(u) == {p \in Profile : Owner[p] = u}
get_if_member(p, u) == p \in filter_user_profiles(u)

-----------------------------------------------------------------------------
(* Fields.  A viewer is a user with the current profile of its request; it has none if the    *)
(* header names one that it may not use.                                                       *)

Viewers == {[user |-> u, profile |-> p] : u \in User, p \in Profile \cup {None}}
Valid(v) == v.profile = None \/ get_if_member(v.profile, v.user)

\* Message fields: of the profile named, which must be the viewer's, else of the current one.
get_profile_pk(v, named) ==
  IF named # None THEN (IF get_if_member(named, v.user) THEN named ELSE None)
  ELSE IF v.profile # None THEN v.profile ELSE Own[v.user]

resolve_content(v, named, m) ==
  LET p == get_profile_pk(v, named)
  IN  IF p = None THEN "nothing"
      ELSE IF ~msgs[m].deleted THEN "content"
      ELSE IF p = msgs[m].author THEN "You deleted" ELSE "was deleted"
resolve_is_read(v, named, m) ==
  LET p == get_profile_pk(v, named)
  IN  IF p = None THEN "none" ELSE msgs[m].status[p]

\* Room fields.
get_other_participant(v, r) == IF v.profile = None THEN {} ELSE Members(r) \ {v.profile}

In(r) == {m \in DOMAIN msgs : msgs[m].room = r}
resolve_all_messages(v, r) ==
  IF r \in Group /\ v.profile \in Members(r)
  THEN {m \in In(r) : msgs[m].at >= people[r][v.profile].since} ELSE In(r)

IsArchived(p, r) == p \in Members(r) /\ people[r][p].archived
resolve_is_archived(v, named, r) ==
  LET p == get_profile_pk(v, named) IN p # None /\ IsArchived(p, r)

\* resolve_unread_messages checks the profile named and answers for the current one.
resolve_unread_messages(v, named, r) ==
  IF named # None /\ ~get_if_member(named, v.user) THEN [count |-> None, marked |-> FALSE]
  ELSE [count |-> count[r][v.profile], marked |-> <<r, v.profile>> \in marked]

resolve_is_sole_admin(v, r) ==
  /\ r \in Group /\ v.profile # None /\ v.profile \in Members(r)
  /\ people[r][v.profile].admin /\ Cardinality(Admins(r)) = 1

resolve_participant_ids(r) == Members(r)
resolve_is_participant(r, p) == people[r][p] # None

-----------------------------------------------------------------------------
(* Filters of the list of rooms of the current profile. *)

filter_profile_id(p) == {r \in Room : p \in Members(r)}
Unread(p) == {r \in Room : count[r][p] \in 1..MaxEvents \/ <<r, p>> \in marked}
filter_unread_messages(v, named) == Unread(IF named # None THEN named ELSE v.profile)
filter_archived(v, value) ==
  {r \in filter_profile_id(v.profile) : people[r][v.profile].archived = value}
filter_manageable(v) ==
  {r \in Group : v.profile # None /\ v.profile \in Members(r) /\ people[r][v.profile].admin}

-----------------------------------------------------------------------------
(* Mutations. *)

\* An admin may do anything, and any participant may do no more than leave.
can_modify_chatroom(p, r, only_leaves) ==
  r \in Group /\ p \in Members(r) /\ (only_leaves \/ people[r][p].admin)

Tick == clock < MaxEvents /\ clock' = clock + 1
Joined(since) == [admin |-> FALSE, archived |-> FALSE, since |-> since]

is_sole_admin(p, r) == p \in Admins(r) /\ Cardinality(Admins(r)) = 1
Oldest(r, some) == {h \in some : \A o \in some : people[r][h].since <= people[r][o].since}

\* The participants of r without those of remove, with h as an admin and then those of add.
Updated(r, add, remove, h) ==
  [p \in Profile |->
     IF p \in Members(r) \ remove
     THEN IF p = h THEN [people[r][p] EXCEPT !.admin = TRUE] ELSE people[r][p]
     ELSE IF p \in add THEN Joined(clock) ELSE None]

\* ChatRoomUpdate.  Only when the sole admin removes itself and nobody else does the participant
\* who has been in the room longest take over, if there is one before the others are added.
ChatRoomUpdate(by, r, add, remove) ==
  LET leaving == remove = {by}
      rest == Members(r) \ remove
      handed == leaving /\ is_sole_admin(by, r) /\ rest # {}
  IN  /\ Tick /\ add \cup remove # {} /\ can_modify_chatroom(by, r, leaving /\ add = {})
      /\ \E h \in IF handed THEN Oldest(r, rest) ELSE {None} :
           people' = [people EXCEPT ![r] = Updated(r, add, remove, h)]
      /\ left' = left \cup {<<r, p>> : p \in Members(r) \cap remove}
      /\ given_up' = IF by \in remove /\ Admins(r) \subseteq remove /\ (~leaving \/ rest = {})
                     THEN given_up \cup {r} ELSE given_up
      /\ UNCHANGED <<msgs, count, marked>>

ToggleAdmin(by, r, p) ==
  /\ Tick /\ can_modify_chatroom(by, r, FALSE) /\ p \in Members(r)
  /\ people[r][p].admin => Cardinality(Admins(r)) > 1
  /\ people' = [people EXCEPT ![r][p].admin = ~@]
  /\ UNCHANGED <<msgs, count, marked, left, given_up>>

\* Archive applies to the participant row, whatever happens in the room afterwards.
Archive(r, p, value) ==
  /\ Tick /\ p \in Members(r) /\ people[r][p].archived # value
  /\ people' = [people EXCEPT ![r][p].archived = value]
  /\ UNCHANGED <<msgs, count, marked, left, given_up>>

\* p reads the whole room: the statuses, and the badge by the triggers.
ReadBy(ms, r, p) ==
  [m \in DOMAIN ms |-> IF ms[m].room = r /\ ms[m].status[p] = "unread"
                       THEN [ms[m] EXCEPT !.status[p] = "read"] ELSE ms[m]]

\* The author of a message has read the room, its badge is the triggers' affair.
SendMessage(r, p) ==
  /\ Tick /\ p \in Members(r)
  /\ msgs' = ReadBy(Append(msgs,
       [room |-> r, author |-> p, at |-> clock, deleted |-> FALSE,
        status |-> [o \in Profile |-> IF o \notin Members(r) THEN "none"
                                      ELSE IF o = p THEN "read" ELSE "unread"]]), r, p)
  /\ count' = [count EXCEPT ![r] = [o \in Profile |->
       IF o \in Members(r) \ {p} THEN (IF count[r][o] = None THEN 1 ELSE count[r][o] + 1)
       ELSE IF o = p /\ count[r][o] # None THEN 0 ELSE count[r][o]]]
  /\ UNCHANGED <<people, marked, left, given_up>>

ReadMessages(r, p) ==
  /\ Tick /\ p \in Members(r)
  /\ msgs' = ReadBy(msgs, r, p)
  /\ count' = [count EXCEPT ![r][p] = 0] /\ marked' = marked \ {<<r, p>>}
  /\ UNCHANGED <<people, left, given_up>>

MarkUnread(r, p) ==
  /\ Tick /\ p \in Members(r) /\ marked' = marked \cup {<<r, p>>}
  /\ count' = [count EXCEPT ![r][p] = IF @ = None THEN 0 ELSE @]
  /\ UNCHANGED <<people, msgs, left, given_up>>

DeleteMessage(m) ==
  /\ Tick /\ ~msgs[m].deleted /\ msgs' = [msgs EXCEPT ![m].deleted = TRUE]
  /\ UNCHANGED <<people, count, marked, left, given_up>>

Init ==
  /\ people = [r \in Room |-> [p \in Profile |->
       IF p \in Founders[r] THEN [Joined(0) EXCEPT !.admin = r \in Group] ELSE None]]
  /\ msgs = <<>> /\ count = [r \in Room |-> [p \in Profile |-> None]]
  /\ marked = {} /\ clock = 0 /\ left = {} /\ given_up = {}

Next ==
  \/ \E r \in Room, by \in Profile, e \in Updates : ChatRoomUpdate(by, r, e[1], e[2])
  \/ \E r \in Room, by, p \in Profile : ToggleAdmin(by, r, p)
  \/ \E r \in Room, p \in Profile :
       SendMessage(r, p) \/ ReadMessages(r, p) \/ MarkUnread(r, p)
  \/ \E r \in Room, p \in Profile, value \in BOOLEAN : Archive(r, p, value)
  \/ \E m \in DOMAIN msgs : DeleteMessage(m)

Spec == Init /\ [][Next]_vars

-----------------------------------------------------------------------------
Shown == {v \in Viewers : Valid(v) /\ v.profile # None}

\* Fields and the mutations behind them agree: exactly the admin that is told it is the only
\* one hands the group over when it leaves, the manageable groups are those the profile may
\* modify, and a group with participants keeps an admin who can, unless the last admins were
\* removed by one of them together with somebody else, or while adding to the emptied room.
AdminsKnow ==
  \A r \in Room :
    /\ \A v \in Shown :
         /\ resolve_is_sole_admin(v, r) <=> (r \in Group /\ is_sole_admin(v.profile, r))
         /\ r \in filter_manageable(v) <=> can_modify_chatroom(v.profile, r, FALSE)
    /\ r \in Group \ given_up /\ Members(r) # {} => Admins(r) # {}

\* Fields and filters agree, for the current profile and for one that is named: a room is
\* archived or it is not, it is listed as unread when its badge shows something, and every
\* message the viewer has not read is in such a room and, unless the profile left the room
\* once, among the messages the viewer is shown.
ListsAgree ==
  \A v \in Shown, r \in Room :
    /\ r \in filter_archived(v, TRUE) <=> resolve_is_archived(v, None, r)
    /\ r \in filter_archived(v, FALSE)
         <=> resolve_is_participant(r, v.profile) /\ ~resolve_is_archived(v, v.profile, r)
    /\ LET badge == resolve_unread_messages(v, None, r)
       IN  r \in filter_unread_messages(v, None)
             <=> badge.marked \/ (badge.count # None /\ badge.count > 0)
    /\ \A m \in In(r) : resolve_is_read(v, None, m) = "unread" =>
         /\ r \in filter_unread_messages(v, v.profile)
         /\ <<r, v.profile>> \notin left => m \in resolve_all_messages(v, r)

\* Nobody reads what was deleted, and of a pair each is shown the other, with whichever of its
\* profiles it looks.
NobodyReadsDeleted ==
  \A v \in Viewers : Valid(v) =>
    /\ \A m \in DOMAIN msgs, named \in Profile \cup {None} :
         /\ msgs[m].deleted => resolve_content(v, named, m) # "content"
         /\ resolve_content(v, named, m) = "You deleted" => Owner[msgs[m].author] = v.user
    /\ \A r \in Room \ Group : v.profile \in Members(r) =>
         get_other_participant(v, r) = resolve_participant_ids(r) \ {v.profile}

RoomViewsConsistent == AdminsKnow /\ ListsAgree /\ NobodyReadsDeleted
==============================================================================
