------------------------------- MODULE Messages --------------------------------
(***************************************************************************)
(* Chat rooms as their users see them: rooms are opened (one-to-one rooms   *)
(* are reused), archived and listed; messages are sent, edited, deleted by  *)
(* their author or erased by an operator; a socket that subscribed to a     *)
(* room is told of every change.                                            *)
(*                                                                          *)
(* A request loads its rows, then writes and broadcasts, then commits.      *)
(* Roles and participants_count are ChatRooms' business, badges ChatUnread's.*)
(***************************************************************************)
EXTENDS Integers, Sequences, FiniteSets, Functions

CONSTANTS
  Profile,
  UserOf,          \* UserOf[p]: the user who owns p
  Text,            \* contents of messages
  Request,         \* requests in flight
  None,            \* no request; the author of a system message
  Gone,            \* what a reader is shown of a deleted message
  Creations,       \* the inputs of ChatRoomCreate: [guests, group, titled]
  SystemMessages,  \* BASEAPP_CHATS_ENABLE_SYSTEM_MESSAGES
  MaxRooms, MaxMessages

VARIABLES
  rooms,       \* ChatRoom rows with their participant rows
  msgs,        \* Message rows; a row that was erased or rolled back is not live
  blocks,      \* Block rows: <<actor, target>>
  req,         \* req[q]: what request q has loaded and has still to do
  subs,        \* subscriptions: <<profile, room>>
  seen,        \* seen[c]: the messages client c holds
  overlapped,  \* history: pairs of profiles for which two ChatRoomCreate overlapped
  raced,       \* history: messages whose readers may have been told in the wrong order
  buried,      \* history: messages whose deletion was committed
  stale,       \* history: rooms an operator erased a message of while another was sent
  lingering    \* history: clients whose profile left or joined while they were open

vars == <<rooms, msgs, blocks, req, subs, seen, overlapped, raced, buried, stale, lingering>>

RoomId == 1..MaxRooms
Viewer == Profile \X RoomId
Person == [since : 0..MaxMessages, archived : BOOLEAN]
\* people[p]: the participant rows of p in the order of their ids, mostly one.
Room(people) == [group : BOOLEAN, host : Profile, people : [people -> Seq(Person)],
                 last : 0..MaxMessages]
Message == [room : RoomId, author : Profile \cup {None}, text : Text, deleted : BOOLEAN,
            live : BOOLEAN]

\* What a request does: it opens a room, changes a message that it loaded, has written one
\* and not committed it, or erases one.
MessageId == 1..MaxMessages
Creating == [op : {"create"}, host : Profile, people : Seq(Profile), group : BOOLEAN]
Changing == [op : {"edit", "delete"}, m : MessageId, text : Text, deleted : BOOLEAN]
Committing == [op : {"commit"}, m : MessageId, row : Message, buries : BOOLEAN]
Erasing == [op : {"erase"}, room : RoomId, m : MessageId, left : SUBSET MessageId]
Work == Creating \cup Changing \cup Committing \cup Erasing

-----------------------------------------------------------------------------
(* Rows and permissions. *)

Members(r) == DOMAIN rooms[r].people
Copies(r, p) == IF p \in Members(r) THEN Len(rooms[r].people[p]) ELSE 0
HasDuplicate(r) == \E p \in Members(r) : Copies(r, p) > 1
CountParticipants(r) ==
  Cardinality(UNION {{p} \X DOMAIN rooms[r].people[p] : p \in Members(r)})
In(r) == {m \in DOMAIN msgs : msgs[m].live /\ msgs[m].room = r}
Newest(S) == IF S = {} THEN 0 ELSE CHOOSE m \in S : \A k \in S : k <= m

\* The last message of a room that loses one, from the messages the trigger still sees.
Previous(S) == Newest(S)

TypeOK ==
  /\ \A r \in DOMAIN rooms : /\ Members(r) \subseteq Profile /\ rooms[r] \in Room(Members(r))
                              /\ \A p \in Members(r) : Copies(r, p) > 0
  /\ \A m \in DOMAIN msgs : msgs[m] \in Message /\ msgs[m].room \in DOMAIN rooms
  /\ req \in [Request -> Work \cup {None}]
  /\ blocks \subseteq Profile \X Profile
  /\ subs \subseteq Viewer /\ DOMAIN seen = Viewer
  /\ \A c \in Viewer : \A m \in DOMAIN seen[c] : seen[c][m] \in Text \cup {Gone}

has_block_between(A, B) == blocks \cap ((A \X B) \cup (B \X A)) # {}
can_add_chatroom(p, people) == Len(people) >= 2 /\ ~has_block_between({p}, Range(people))
filter_user_profiles(p) == {x \in Profile : UserOf[x] = UserOf[p]}
view_chatroom(p, r) ==
  /\ filter_user_profiles(p) \cap Members(r) # {}
  /\ ~has_block_between(filter_user_profiles(p), Members(r))
add_message(p, r) == p \in Members(r) /\ ~has_block_between({p}, Members(r))
change_message(p, m) == msgs[m].author = p

\* The one-to-one rooms ChatRoomCreate finds for a list of two.  Each entry joins the
\* participant rows once more, so the count is multiplied by the copies of the entry.
Existing(people) ==
  {r \in DOMAIN rooms : ~rooms[r].group
     /\ Len(people) = CountParticipants(r) * Copies(r, people[1]) * Copies(r, people[2])}

\* ChatRoomsInterface.chat_rooms of p, and the archived filter on it.
resolve_chat_rooms(p) ==
  {r \in DOMAIN rooms : p \in Members(r) /\ ~has_block_between({p}, Members(r))
                        /\ ~(~rooms[r].group /\ rooms[r].host # p /\ rooms[r].last = 0)}
filter_archived(p, value) ==
  {r \in DOMAIN rooms : p \in Members(r)
     /\ \E i \in DOMAIN rooms[r].people[p] : rooms[r].people[p][i].archived = value}

\* What a reader is shown of a message, and the messages a profile may read in a room.
resolve_content(text, deleted) == IF deleted THEN Gone ELSE text
resolve_all_messages(p, r) ==
  IF rooms[r].group /\ p \in Members(r)
  THEN {m \in In(r) : m > rooms[r].people[p][1].since} ELSE In(r)

-----------------------------------------------------------------------------
(* Broadcasts. *)

With(f, x, y) == [z \in DOMAIN f \cup {x} |-> IF z = x THEN y ELSE f[z]]
Without(f, x) == [z \in DOMAIN f \ {x} |-> f[z]]

\* ChatRoomOnMessage: the subscribers of r are given the instance of message m that the
\* sender has in memory, all but the author's own clients.
Broadcast(r, m, author, shown) ==
  [c \in Viewer |-> IF c \in subs /\ c[2] = r /\ c[1] # author
                    THEN With(seen[c], m, shown) ELSE seen[c]]

\* send_system_message, when it is enabled: room r gets a message without author, whose
\* wording says what happened.
Announce(r, rs) ==
  IF SystemMessages
  THEN LET m == Len(msgs) + 1
       IN  \E text \in Text :
             /\ m <= MaxMessages
             /\ msgs' = Append(msgs, [room |-> r, author |-> None, text |-> text,
                                      deleted |-> FALSE, live |-> TRUE])
             /\ rooms' = [rs EXCEPT ![r].last = m]
             /\ seen' = Broadcast(r, m, None, text)
  ELSE rooms' = rs /\ UNCHANGED <<msgs, seen>>

Doing(op) == {q \in Request : req[q] # None /\ req[q].op = op}
Free(q) == req[q] = None
Done(q) == req' = [req EXCEPT ![q] = None]

-----------------------------------------------------------------------------
(* Rooms. *)

\* ChatRoomCreate up to the look-up: without a usable room it goes on to make one.
ChatRoomCreate(q, p, c) ==
  LET people == Append(c.guests, p)
      group == c.group \/ Len(people) > 2
      same == {k \in Doing("create") : ~req[k].group /\ Range(req[k].people) = Range(people)}
  IN  /\ Free(q)
      /\ ~has_block_between({p}, Range(c.guests))
      /\ group => c.titled
      /\ can_add_chatroom(p, people)
      /\ group \/ Existing(people) = {}
      /\ req' = [req EXCEPT ![q] = [op |-> "create", host |-> p, people |-> people,
                                    group |-> group]]
      /\ overlapped' = IF ~group /\ same # {} THEN overlapped \cup {Range(people)} ELSE overlapped
      /\ UNCHANGED <<rooms, msgs, blocks, subs, seen, raced, buried, stale, lingering>>

\* The row of a participant who joins now.
Joining == [since |-> Len(msgs), archived |-> FALSE]

\* The rest of it: the room, its participants and, for a group, the system message.
OpenRoom(q) ==
  /\ q \in Doing("create") /\ Len(rooms) < MaxRooms
  /\ LET r == Len(rooms) + 1
         people == req[q].people
         copies(p) == Cardinality({i \in DOMAIN people : people[i] = p})
         room == [group |-> req[q].group, host |-> req[q].host, last |-> 0,
                  people |-> [p \in Range(people) |-> [i \in 1..copies(p) |-> Joining]]]
     IN  IF req[q].group THEN Announce(r, Append(rooms, room))
         ELSE rooms' = Append(rooms, room) /\ UNCHANGED <<msgs, seen>>
  /\ Done(q)
  /\ UNCHANGED <<blocks, subs, overlapped, raced, buried, stale, lingering>>

Touched(p, r) == IF <<p, r>> \in subs \/ seen[<<p, r>>] # <<>> THEN {<<p, r>>} ELSE {}

\* A member adds p to a group (ChatRoomUpdate, ChatRoomsAddParticipant).
AddParticipant(by, p, r) ==
  /\ rooms[r].group /\ by \in Members(r) /\ p \notin Members(r)
  /\ ~has_block_between({by}, {p})
  /\ Announce(r, [rooms EXCEPT ![r].people = With(@, p, <<Joining>>)])
  /\ lingering' = lingering \cup Touched(p, r)
  /\ UNCHANGED <<blocks, req, subs, overlapped, raced, buried, stale>>

\* p leaves a group or is removed from it; its sockets stay subscribed.
RemoveParticipant(p, r) ==
  /\ rooms[r].group /\ p \in Members(r)
  /\ Announce(r, [rooms EXCEPT ![r].people = Without(@, p)])
  /\ lingering' = lingering \cup Touched(p, r)
  /\ UNCHANGED <<blocks, req, subs, overlapped, raced, buried, stale>>

\* ChatRoomArchive: the first row of the profile, read again under its lock.
ChatRoomArchive(p, r, archive) ==
  /\ p \in Members(r)
  /\ rooms' = [rooms EXCEPT ![r].people[p][1].archived = archive]
  /\ UNCHANGED <<msgs, blocks, req, subs, seen, overlapped, raced, buried, stale, lingering>>

\* A profile blocks another one or withdraws the block (Recounts).
Block(p, x) ==
  /\ p # x
  /\ blocks' = IF <<p, x>> \in blocks THEN blocks \ {<<p, x>>} ELSE blocks \cup {<<p, x>>}
  /\ UNCHANGED <<rooms, msgs, req, subs, seen, overlapped, raced, buried, stale, lingering>>

-----------------------------------------------------------------------------
(* Messages. *)

\* ChatRoomSendMessage.  The broadcast goes out before the mentions, the notifications and
\* the commit; when one of them fails the row is rolled back.  With two rows of one profile
\* the status trigger refuses the insert.
ChatRoomSendMessage(p, r, text, fails) ==
  LET m == Len(msgs) + 1
  IN  /\ add_message(p, r) /\ ~HasDuplicate(r) /\ m <= MaxMessages
      /\ msgs' = Append(msgs, [room |-> r, author |-> p, text |-> text, deleted |-> FALSE,
                               live |-> ~fails])
      /\ rooms' = IF fails THEN rooms ELSE [rooms EXCEPT ![r].last = m]
      /\ seen' = Broadcast(r, m, p, text)
      /\ stale' = IF fails THEN stale
                  ELSE (stale \ {r}) \cup {req[q].room : q \in {k \in Doing("erase") : req[k].room = r}}
      /\ UNCHANGED <<blocks, req, subs, overlapped, raced, buried, lingering>>

\* ChatRoomEditMessage and ChatRoomDeleteMessage load the message; an edit does not ask
\* whether it was deleted.
ChatRoomEditMessage(q, p, m, text) ==
  /\ Free(q) /\ msgs[m].live /\ change_message(p, m)
  /\ req' = [req EXCEPT ![q] = [op |-> "edit", m |-> m, text |-> text,
                                deleted |-> msgs[m].deleted]]
  /\ UNCHANGED <<rooms, msgs, blocks, subs, seen, overlapped, raced, buried, stale, lingering>>

ChatRoomDeleteMessage(q, p, m) ==
  /\ Free(q) /\ msgs[m].live /\ ~msgs[m].deleted /\ change_message(p, m)
  /\ req' = [req EXCEPT ![q] = [op |-> "delete", m |-> m, text |-> msgs[m].text,
                                deleted |-> TRUE]]
  /\ UNCHANGED <<rooms, msgs, blocks, subs, seen, overlapped, raced, buried, stale, lingering>>

\* save(update_fields=[...]): the row takes the column that changed, and no other.
SaveAll(op, row, loaded) == [row EXCEPT !.text = loaded.text, !.deleted = loaded.deleted]
Save(op, row, loaded) ==
  IF op = "edit" THEN [row EXCEPT !.text = loaded.text] ELSE [row EXCEPT !.deleted = TRUE]

RowLocked(m) == \E q \in Doing("commit") : req[q].m = m

\* The update takes the row lock; the subscribers are told of the instance in memory.
Tell(q) ==
  /\ q \in Doing("edit") \cup Doing("delete")
  /\ LET m == req[q].m
     IN  /\ msgs[m].live /\ ~RowLocked(m)
         /\ seen' = Broadcast(msgs[m].room, m, msgs[m].author,
                              resolve_content(req[q].text, req[q].deleted))
         /\ req' = [req EXCEPT ![q] = [op |-> "commit", m |-> m,
                                       row |-> Save(req[q].op, msgs[m], req[q]),
                                       buries |-> req[q].op = "delete"]]
  /\ UNCHANGED <<rooms, msgs, blocks, subs, overlapped, raced, buried, stale, lingering>>

Commit(q) ==
  /\ q \in Doing("commit")
  /\ msgs' = [msgs EXCEPT ![req[q].m] = req[q].row]
  /\ LET m == req[q].m
     IN  /\ buried' = IF req[q].buries THEN buried \cup {m} ELSE buried
         /\ raced' = IF req[q].buries /\ \E k \in Doing("edit") : req[k].m = m
                     THEN raced \cup {m} ELSE raced
  /\ Done(q)
  /\ UNCHANGED <<rooms, blocks, subs, seen, overlapped, stale, lingering>>

\* The row was erased meanwhile: the update matches nothing and the request fails.
GiveUp(q) ==
  /\ q \in Doing("edit") \cup Doing("delete") /\ ~msgs[req[q].m].live
  /\ Done(q)
  /\ UNCHANGED <<rooms, msgs, blocks, subs, seen, overlapped, raced, buried, stale, lingering>>

\* An operator deletes a message.  The trigger's statement sees the messages of its start,
\* and may wait for the room row of a send that commits after that.
EraseRead(q, m) ==
  /\ Free(q) /\ msgs[m].live /\ ~RowLocked(m)
  /\ \A k \in Doing("erase") : req[k].room # msgs[m].room
  /\ req' = [req EXCEPT ![q] = [op |-> "erase", room |-> msgs[m].room, m |-> m,
                                left |-> In(msgs[m].room) \ {m}]]
  /\ UNCHANGED <<rooms, msgs, blocks, subs, seen, overlapped, raced, buried, stale, lingering>>

Erase(q) ==
  /\ q \in Doing("erase") /\ ~RowLocked(req[q].m)
  /\ msgs' = [msgs EXCEPT ![req[q].m].live = FALSE]
  /\ rooms' = [rooms EXCEPT ![req[q].room].last = Previous(req[q].left)]
  /\ Done(q)
  /\ UNCHANGED <<blocks, subs, seen, overlapped, raced, buried, stale, lingering>>

-----------------------------------------------------------------------------
(* Clients. *)

\* ChatRoomOnMessage.subscribe: membership and blocks are checked here and never again.
Subscribe(p, r) ==
  /\ p \in Members(r) /\ view_chatroom(p, r) /\ <<p, r>> \notin subs
  /\ subs' = subs \cup {<<p, r>>}
  /\ seen' = [seen EXCEPT ![<<p, r>>] = <<>>]
  /\ lingering' = lingering \ {<<p, r>>}
  /\ UNCHANGED <<rooms, msgs, blocks, req, overlapped, raced, buried, stale>>

Disconnect(c) ==
  /\ c \in subs
  /\ subs' = subs \ {c} /\ seen' = [seen EXCEPT ![c] = <<>>]
  /\ UNCHANGED <<rooms, msgs, blocks, req, overlapped, raced, buried, stale, lingering>>

\* A query of chatRoom.allMessages with current profile p.
Fetch(p, r) ==
  /\ view_chatroom(p, r)
  /\ seen' = [seen EXCEPT ![<<p, r>>] =
                [m \in resolve_all_messages(p, r) |-> resolve_content(msgs[m].text, msgs[m].deleted)]]
  /\ lingering' = lingering \ {<<p, r>>}
  /\ raced' = raced \cup {req[q].m : q \in Doing("commit")}
  /\ UNCHANGED <<rooms, msgs, blocks, req, subs, overlapped, buried, stale>>

-----------------------------------------------------------------------------
\* The database at the start: some rooms, without messages.
InitWith(opened) ==
  /\ rooms = opened /\ msgs = <<>> /\ blocks = {} /\ subs = {}
  /\ req = [q \in Request |-> None]
  /\ seen = [c \in Viewer |-> <<>>]
  /\ overlapped = {} /\ raced = {} /\ buried = {} /\ stale = {} /\ lingering = {}

Init == InitWith(<<>>)

Next ==
  \/ \E q \in Request, p \in Profile, c \in Creations : ChatRoomCreate(q, p, c)
  \/ \E q \in Request : OpenRoom(q) \/ Tell(q) \/ Commit(q) \/ GiveUp(q) \/ Erase(q)
  \/ \E by, p \in Profile, r \in DOMAIN rooms : AddParticipant(by, p, r)
  \/ \E p \in Profile, r \in DOMAIN rooms :
       \/ RemoveParticipant(p, r) \/ Subscribe(p, r) \/ Disconnect(<<p, r>>) \/ Fetch(p, r)
       \/ \E archive \in BOOLEAN : ChatRoomArchive(p, r, archive)
       \/ \E t \in Text, fails \in BOOLEAN : ChatRoomSendMessage(p, r, t, fails)
  \/ \E p, x \in Profile : Block(p, x)
  \/ \E q \in Request, m \in DOMAIN msgs :
       \/ EraseRead(q, m)
       \/ \E p \in Profile :
            \/ ChatRoomDeleteMessage(q, p, m)
            \/ \E t \in Text : ChatRoomEditMessage(q, p, m, t)

-----------------------------------------------------------------------------
(* Properties. *)

\* Two profiles share at most one one-to-one room, unless two requests to open it
\* overlapped: ChatRoomCreate looks for the room before it makes one.
PairRoomsUnique ==
  \A r, s \in DOMAIN rooms :
    r # s /\ ~rooms[r].group /\ ~rooms[s].group /\ Members(r) = Members(s)
    /\ Cardinality(Members(r)) = 2 => Members(r) \in overlapped

\* A message whose deletion was committed stays deleted, whatever edits were in flight.
DeletedStays == \A m \in buried : msgs[m].live => msgs[m].deleted

\* What a subscriber holds of somebody's message is what the database holds, unless the
\* message was deleted under an edit in flight, or fetched between broadcast and commit.
ClientsCurrent ==
  \A c \in subs : \A m \in DOMAIN seen[c] :
    msgs[m].live /\ m \notin raced /\ msgs[m].author # c[1] /\ ~RowLocked(m)
      => seen[c][m] = resolve_content(msgs[m].text, msgs[m].deleted)

\* A member's client that only queries holds no message of a group from before the member
\* joined, unless it was open while its profile joined or left.
HistoryCut ==
  \A c \in Viewer \ (lingering \cup subs) : c[2] \in DOMAIN rooms =>
    (rooms[c[2]].group /\ c[1] \in Members(c[2])
      => \A m \in DOMAIN seen[c] : m > rooms[c[2]].people[c[1]][1].since)

\* A conversation that has a message is in the list of everybody in it whom no block
\* hides it from, unless a send overlapped an operator's deletion; and each room of a
\* list is either archived or not.
ConversationsListed ==
  \A r \in DOMAIN rooms : \A p \in Members(r) :
    /\ In(r) # {} /\ r \notin stale /\ ~has_block_between({p}, Members(r))
         => r \in resolve_chat_rooms(p)
    /\ ~HasDuplicate(r) => (r \in filter_archived(p, TRUE)) # (r \in filter_archived(p, FALSE))

MessagesConsistent ==
  PairRoomsUnique /\ DeletedStays /\ ClientsCurrent /\ HistoryCut /\ ConversationsListed
==============================================================================
