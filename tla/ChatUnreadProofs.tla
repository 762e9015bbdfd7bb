--------------------------- MODULE ChatUnreadProofs --------------------------
(***************************************************************************)
(* Proofs about ChatUnread for every number of rooms, profiles, messages   *)
(* and concurrent requests.                                                *)
(*                                                                         *)
(* The argument: whatever a step does, for each room and profile the set   *)
(* of unread messages and the counter move together in one of four ways    *)
(* (Moved).  The two badge invariants follow from Moved by counting.       *)
(***************************************************************************)
EXTENDS ChatUnread, FiniteSetTheorems, TLAPS

\* A primary key that no message has used yet has no status rows.
NoStatusBeforeSend ==
  \A m \in MsgId : home[m] = Unsent => \A p \in Profile : status[m][p] = "none"

\* How one step may move the unread messages of p in r, and p's counter for r.
Moved(r, p) ==
  \/ /\ UnreadIn(r, p)' = UnreadIn(r, p)
     /\ count'[r][p] = count[r][p]
  \/ \E m \in MsgId \ UnreadIn(r, p) :
       /\ UnreadIn(r, p)' = UnreadIn(r, p) \cup {m}
       /\ count'[r][p] = count[r][p] + 1
  \/ \E seen \in SUBSET UnreadIn(r, p) :
       /\ UnreadIn(r, p)' = UnreadIn(r, p) \ seen
       /\ count'[r][p] = FloorMinus(count[r][p], Cardinality(seen))
  \/ /\ ~Intact'
     /\ UnreadIn(r, p)' \subseteq UnreadIn(r, p)
     /\ count'[r][p] = count[r][p]

-----------------------------------------------------------------------------
(* Counting. *)

\* Removing part of a finite set lowers its cardinality by the size of the part.
LEMMA CardMinus ==
  ASSUME NEW S, IsFiniteSet(S), NEW T \in SUBSET S
  PROVE  /\ Cardinality(S) \in Nat /\ Cardinality(T) \in Nat
         /\ Cardinality(T) <= Cardinality(S)
         /\ Cardinality(S \ T) = Cardinality(S) - Cardinality(T)
<1>1. IsFiniteSet(T) /\ IsFiniteSet(S \ T) /\ Cardinality(T) <= Cardinality(S)
  BY FS_Subset, S \ T \in SUBSET S
<1>2. /\ Cardinality(S) \in Nat /\ Cardinality(T) \in Nat
      /\ Cardinality(S \ T) \in Nat
  BY <1>1, FS_CardinalityType
<1>3. Cardinality(S) = Cardinality(S \ T) + Cardinality(T)
  <2>1. (S \ T) \cup T = S /\ (S \ T) \cap T = {}
    OBVIOUS
  <2>2. Cardinality((S \ T) \cup T)
          = Cardinality(S \ T) + Cardinality(T) - Cardinality((S \ T) \cap T)
    BY <1>1, FS_Union
  <2>3. Cardinality((S \ T) \cap T) = 0
    BY <2>1, FS_EmptySet
  <2>4. Cardinality(S) = Cardinality(S \ T) + Cardinality(T) - 0
    BY <2>1, <2>2, <2>3
  <2>. QED
    BY <2>4, <1>2
<1>. QED
  BY <1>1, <1>2, <1>3

\* The unread messages of a profile in a room are finitely many.
LEMMA UnreadFinite ==
  ASSUME NEW r, NEW p
  PROVE  IsFiniteSet(UnreadIn(r, p)) /\ Cardinality(UnreadIn(r, p)) \in Nat
<1>1. UnreadIn(r, p) \in SUBSET MsgId
  BY DEF UnreadIn
<1>. QED
  BY <1>1, FiniteAssumption, FS_Subset, FS_CardinalityType

\* FloorMinus is subtraction on naturals, floored at zero.
LEMMA FloorMinusType ==
  ASSUME NEW n \in Nat, NEW k \in Nat
  PROVE  /\ FloorMinus(n, k) \in Nat
         /\ FloorMinus(n, k) >= n - k
         /\ k <= n => FloorMinus(n, k) = n - k
BY DEF FloorMinus

-----------------------------------------------------------------------------
(* Type correctness. *)

\* The size of a part of the messages is a natural number.
LEMMA FlippedCount ==
  ASSUME NEW S \in SUBSET MsgId
  PROVE  Cardinality(S) \in Nat
BY FiniteAssumption, FS_Subset, FS_CardinalityType

\* decrement_unread_count keeps every counter a natural number.
LEMMA DecrementType ==
  ASSUME TypeOK, NEW p \in Profile, NEW S \in SUBSET MsgId
  PROVE  Decrement(count, p, S) \in [Room -> [Profile -> Nat]]
<1>. DEFINE k(r) == Cardinality({m \in S : home[m] = r})
<1>1. \A r \in Room : k(r) \in Nat
  <2>. SUFFICES ASSUME NEW r \in Room PROVE k(r) \in Nat
    OBVIOUS
  <2>1. {m \in S : home[m] = r} \in SUBSET MsgId
    OBVIOUS
  <2>. QED
    BY <2>1, FlippedCount
<1>2. \A r \in Room : FloorMinus(count[r][p], k(r)) \in Nat
  <2>. SUFFICES ASSUME NEW r \in Room PROVE FloorMinus(count[r][p], k(r)) \in Nat
    OBVIOUS
  <2>1. count[r][p] \in Nat
    BY DEF TypeOK
  <2>. HIDE DEF k
  <2>. QED
    BY <1>1, <2>1, FloorMinusType
<1>3. \A r \in Room : [count[r] EXCEPT ![p] = FloorMinus(count[r][p], k(r))] \in [Profile -> Nat]
  <2>. HIDE DEF k
  <2>. QED
    BY <1>2 DEF TypeOK
<1>. QED
  BY <1>3 DEF Decrement

\* increment_unread_count keeps every counter a natural number.
LEMMA IncrementType ==
  ASSUME TypeOK, NEW r \in Room, NEW ps
  PROVE  Increment(count, r, ps) \in [Room -> [Profile -> Nat]]
<1>1. \A q \in Room, p \in Profile : count[q][p] \in Nat /\ count[q][p] + 1 \in Nat
  BY DEF TypeOK
<1>. QED
  BY <1>1 DEF Increment, TypeOK

\* The initial state is well typed.
LEMMA InitType == Init => TypeOK
<1>. SUFFICES ASSUME Init PROVE TypeOK
  OBVIOUS
<1>1. /\ status \in [MsgId -> [Profile -> {"none", "unread", "read"}]]
      /\ count \in [Room -> [Profile -> Nat]]
  BY DEF Init
<1>2. /\ members \in [Room -> SUBSET Profile]
      /\ home \in [MsgId -> Room \cup {Unsent, Erased}]
      /\ marked \subseteq Room \X Profile
      /\ req \in [Request -> RequestState \cup {Idle}]
      /\ edited \in BOOLEAN
  BY DEF Init
<1>. QED
  BY <1>1, <1>2 DEF TypeOK

\* Every step keeps the types.
LEMMA TypeStep == TypeOK /\ [Next]_vars => TypeOK'
<1>. SUFFICES ASSUME TypeOK, [Next]_vars PROVE TypeOK'
  OBVIOUS
<1>. USE DEF TypeOK
<1>1. ASSUME NEW q \in Request, NEW m \in MsgId, NEW r \in Room, NEW p \in Profile,
             SendMessage(q, m, r, p)
      PROVE  TypeOK'
  <2>1. count' \in [Room -> [Profile -> Nat]]
    BY <1>1, IncrementType DEF SendMessage, CreateMessageStatus
  <2>2. status' \in [MsgId -> [Profile -> {"none", "unread", "read"}]]
    BY <1>1 DEF SendMessage, CreateMessageStatus
  <2>3. req' \in [Request -> RequestState \cup {Idle}]
    BY <1>1 DEF SendMessage, RequestState
  <2>. QED
    BY <1>1, <2>1, <2>2, <2>3 DEF SendMessage
<1>2. ASSUME NEW m \in MsgId, NEW r \in Room, SendSystemMessage(m, r)
      PROVE  TypeOK'
  BY <1>2 DEF SendSystemMessage
<1>3. ASSUME NEW q \in Request, ReadAfterSend(q)
      PROVE  TypeOK'
  <2>1. req[q] \in RequestState
    BY <1>3 DEF ReadAfterSend
  <2>2. UnreadIn(req[q].where, req[q].who) \in SUBSET MsgId
    BY DEF UnreadIn
  <2>3. req' \in [Request -> RequestState \cup {Idle}]
    BY <1>3, <2>1, <2>2 DEF ReadAfterSend, RequestState
  <2>. QED
    BY <1>3, <2>3 DEF ReadAfterSend
<1>4. ASSUME NEW q \in Request, SendFails(q)
      PROVE  TypeOK'
  BY <1>4 DEF SendFails
<1>5. ASSUME NEW q \in Request, FinishRead(q)
      PROVE  TypeOK'
  <2>1. req[q] \in RequestState
    BY <1>5 DEF FinishRead
  <2>2. req[q].who \in Profile /\ Flipped(q) \in SUBSET MsgId
    BY <2>1 DEF RequestState, Flipped
  <2>3. count' \in [Room -> [Profile -> Nat]]
    BY <1>5, <2>2, DecrementType DEF FinishRead
  <2>4. status' \in [MsgId -> [Profile -> {"none", "unread", "read"}]]
    BY <1>5, <2>2 DEF FinishRead
  <2>. QED
    BY <1>5, <2>3, <2>4 DEF FinishRead
<1>6. ASSUME NEW q \in Request, NEW r \in Room, NEW p \in Profile, NEW ids \in SUBSET MsgId,
             ReadMessages(q, r, p, ids)
      PROVE  TypeOK'
  <2>1. UnreadIn(r, p) \in SUBSET MsgId /\ {m \in ids : status[m][p] = "unread"} \in SUBSET MsgId
    BY DEF UnreadIn
  <2>2. req' \in [Request -> RequestState \cup {Idle}]
    BY <1>6, <2>1 DEF ReadMessages, RequestState
  <2>. QED
    BY <1>6, <2>2 DEF ReadMessages
<1>7. ASSUME NEW r \in Room, NEW p \in Profile, MarkUnread(r, p) \/ Join(r, p) \/ Leave(r, p)
      PROVE  TypeOK'
  BY <1>7 DEF MarkUnread, Join, Leave
<1>8. ASSUME NEW m \in MsgId, AdminDelete(m)
      PROVE  TypeOK'
  BY <1>8 DEF AdminDelete
<1>9. ASSUME NEW m \in MsgId, NEW p \in Profile, AdminRead(m, p) \/ AdminUnread(m, p)
      PROVE  TypeOK'
  <2>1. count' \in [Room -> [Profile -> Nat]]
    BY <1>9, DecrementType, {m} \in SUBSET MsgId DEF AdminRead, AdminUnread
  <2>2. \A v \in {"none", "unread", "read"} :
          [status EXCEPT ![m][p] = v] \in [MsgId -> [Profile -> {"none", "unread", "read"}]]
    OBVIOUS
  <2>3. status' = [status EXCEPT ![m][p] = "read"] \/ status' = [status EXCEPT ![m][p] = "unread"]
    BY <1>9 DEF AdminRead, AdminUnread
  <2>4. status' \in [MsgId -> [Profile -> {"none", "unread", "read"}]]
    BY <2>2, <2>3
  <2>5. UNCHANGED <<members, home, marked, req>> /\ edited' \in BOOLEAN
    BY <1>9 DEF AdminRead, AdminUnread
  <2>. QED
    BY <2>1, <2>4, <2>5
<1>10. CASE UNCHANGED vars
  BY <1>10 DEF vars
<1>. QED
  BY <1>1, <1>2, <1>3, <1>4, <1>5, <1>6, <1>7, <1>8, <1>9, <1>10 DEF Next

\* Every variable keeps its type: in particular the counters, which triggers
\* lower by whatever number of statuses flips, never go below zero.
THEOREM TypeCorrect == Spec => []TypeOK
<1>1. Init => TypeOK
  BY InitType
<1>. QED
  BY <1>1, TypeStep, PTL DEF Spec

-----------------------------------------------------------------------------
(* How each action moves the badges. *)

\* create_message_status inserts the statuses of a fresh message only.
LEMMA FreshMessage == NoStatusBeforeSend /\ TypeOK /\ [Next]_vars => NoStatusBeforeSend'
<1>. SUFFICES ASSUME NoStatusBeforeSend, TypeOK, [Next]_vars,
                     NEW m \in MsgId, home'[m] = Unsent, NEW p \in Profile
              PROVE  status'[m][p] = "none"
  BY DEF NoStatusBeforeSend
<1>0. home[m] = Unsent => status[m][p] = "none"
  BY DEF NoStatusBeforeSend
<1>1. ASSUME NEW q \in Request, NEW n \in MsgId, NEW r \in Room, NEW a \in Profile,
             SendMessage(q, n, r, a)
      PROVE  status'[m][p] = "none"
  BY <1>0, <1>1, HomeAssumption DEF SendMessage, CreateMessageStatus, TypeOK
<1>2. ASSUME NEW n \in MsgId, NEW r \in Room, SendSystemMessage(n, r)
      PROVE  status'[m][p] = "none"
  BY <1>0, <1>2, HomeAssumption DEF SendSystemMessage, TypeOK
<1>3. ASSUME NEW q \in Request, FinishRead(q)
      PROVE  status'[m][p] = "none"
  BY <1>0, <1>3 DEF FinishRead, Flipped, TypeOK
<1>4. ASSUME NEW n \in MsgId, AdminDelete(n)
      PROVE  status'[m][p] = "none"
  BY <1>0, <1>4, HomeAssumption DEF AdminDelete, TypeOK
<1>5. ASSUME NEW n \in MsgId, NEW a \in Profile, AdminRead(n, a) \/ AdminUnread(n, a)
      PROVE  status'[m][p] = "none"
  BY <1>0, <1>5 DEF AdminRead, AdminUnread, TypeOK
<1>6. CASE UNCHANGED <<home, status>>
  BY <1>0, <1>6
<1>. QED
  BY <1>1, <1>2, <1>3, <1>4, <1>5, <1>6
     DEF Next, ReadAfterSend, SendFails, ReadMessages, MarkUnread, Join, Leave, vars

\* A user message enters the unread set of each other participant and adds one
\* to that participant's counter; nobody else's moves.
LEMMA SendMoves ==
  ASSUME TypeOK, NEW q \in Request, NEW m \in MsgId, NEW a \in Profile, NEW s \in Room,
         SendMessage(q, m, s, a), NEW r \in Room, NEW p \in Profile
  PROVE  Moved(r, p)
<1>1. m \notin UnreadIn(r, p)
  BY HomeAssumption DEF SendMessage, UnreadIn
<1>2. CASE r = s /\ p \in members[s] \ {a}
  <2>1. UnreadIn(r, p)' = UnreadIn(r, p) \cup {m}
    BY <1>2 DEF SendMessage, CreateMessageStatus, UnreadIn, TypeOK
  <2>2. count'[r][p] = count[r][p] + 1
    BY <1>2 DEF SendMessage, CreateMessageStatus, Increment, TypeOK
  <2>. QED
    BY <1>1, <2>1, <2>2 DEF Moved
<1>3. CASE ~ (r = s /\ p \in members[s] \ {a})
  <2>1. UnreadIn(r, p)' = UnreadIn(r, p)
    BY <1>1, <1>3 DEF SendMessage, CreateMessageStatus, UnreadIn, TypeOK
  <2>2. count'[r][p] = count[r][p]
    BY <1>3 DEF SendMessage, CreateMessageStatus, Increment, TypeOK
  <2>. QED
    BY <2>1, <2>2 DEF Moved
<1>. QED
  BY <1>2, <1>3

\* Flipping statuses of w to read takes them out of w's unread sets, and lowers
\* w's counter of each room by the number that belonged to it.
LEMMA FlipMoves ==
  ASSUME TypeOK, NEW w \in Profile, NEW S \in SUBSET MsgId,
         \A m \in S : status[m][w] = "unread",
         home' = home, count' = Decrement(count, w, S),
         \A m \in MsgId, p \in Profile :
           status'[m][p] = IF m \in S /\ p = w THEN "read" ELSE status[m][p],
         NEW r \in Room, NEW p \in Profile
  PROVE  Moved(r, p)
<1>. DEFINE seen == {m \in S : home[m] = r}
<1>1. CASE p = w
  <2>1. seen \in SUBSET UnreadIn(r, p)
    BY <1>1 DEF UnreadIn
  <2>2. UnreadIn(r, p)' = UnreadIn(r, p) \ seen
    BY <1>1 DEF UnreadIn
  <2>3. count'[r][p] = FloorMinus(count[r][p], Cardinality(seen))
    BY <1>1 DEF Decrement, TypeOK
  <2>. QED
    BY <2>1, <2>2, <2>3 DEF Moved
<1>2. CASE p # w
  <2>1. UnreadIn(r, p)' = UnreadIn(r, p)
    BY <1>2 DEF UnreadIn
  <2>2. count'[r][p] = count[r][p]
    BY <1>2 DEF Decrement, TypeOK
  <2>. QED
    BY <2>1, <2>2 DEF Moved
<1>. QED
  BY <1>1, <1>2

\* Unless an operator clears is_read, every step moves every badge in one of the
\* four ways.
LEMMA EveryStepMoves ==
  ASSUME TypeOK, NoStatusBeforeSend, [Next]_vars, ~edited',
         NEW r \in Room, NEW p \in Profile
  PROVE  Moved(r, p)
<1>1. ASSUME NEW q \in Request, NEW m \in MsgId, NEW s \in Room, NEW a \in Profile,
             SendMessage(q, m, s, a)
      PROVE  Moved(r, p)
  BY <1>1, SendMoves
<1>2. ASSUME NEW m \in MsgId, NEW s \in Room, SendSystemMessage(m, s)
      PROVE  Moved(r, p)
  <2>1. UnreadIn(r, p)' = UnreadIn(r, p)
    BY <1>2, HomeAssumption DEF SendSystemMessage, UnreadIn, NoStatusBeforeSend, TypeOK
  <2>. QED
    BY <1>2, <2>1 DEF SendSystemMessage, Moved
<1>3. ASSUME NEW q \in Request, FinishRead(q)
      PROVE  Moved(r, p)
  <2>1. req[q].who \in Profile /\ Flipped(q) \in SUBSET MsgId
    BY <1>3 DEF FinishRead, Flipped, RequestState, TypeOK
  <2>2. \A m \in Flipped(q) : status[m][req[q].who] = "unread"
    BY DEF Flipped
  <2>3. \A m \in MsgId, pp \in Profile : status'[m][pp] =
          IF m \in Flipped(q) /\ pp = req[q].who THEN "read" ELSE status[m][pp]
    BY <1>3, <2>1 DEF FinishRead, TypeOK
  <2>4. home' = home /\ count' = Decrement(count, req[q].who, Flipped(q))
    BY <1>3 DEF FinishRead
  <2>. QED
    BY <2>1, <2>2, <2>3, <2>4, FlipMoves
<1>4. ASSUME NEW m \in MsgId, AdminDelete(m)
      PROVE  Moved(r, p)
  <2>1. UnreadIn(r, p)' \subseteq UnreadIn(r, p)
    BY <1>4, HomeAssumption DEF AdminDelete, UnreadIn, TypeOK
  <2>2. ~Intact'
    BY <1>4 DEF AdminDelete, Intact, TypeOK
  <2>. QED
    BY <1>4, <2>1, <2>2 DEF AdminDelete, Moved
<1>5. ASSUME NEW m \in MsgId, NEW a \in Profile, AdminRead(m, a)
      PROVE  Moved(r, p)
  <2>1. \A n \in {m} : status[n][a] = "unread"
    BY <1>5 DEF AdminRead
  <2>2. \A n \in MsgId, pp \in Profile : status'[n][pp] =
          IF n \in {m} /\ pp = a THEN "read" ELSE status[n][pp]
    BY <1>5 DEF AdminRead, TypeOK
  <2>3. home' = home /\ count' = Decrement(count, a, {m})
    BY <1>5 DEF AdminRead
  <2>. QED
    BY <2>1, <2>2, <2>3, FlipMoves, {m} \in SUBSET MsgId
<1>6. CASE UNCHANGED <<home, status, count>>
  BY <1>6 DEF UnreadIn, Moved
<1>7. ASSUME NEW m \in MsgId, NEW a \in Profile, AdminUnread(m, a)
      PROVE  Moved(r, p)
  BY <1>7 DEF AdminUnread
<1>. QED
  BY <1>1, <1>2, <1>3, <1>4, <1>5, <1>6, <1>7
     DEF Next, ReadAfterSend, SendFails, ReadMessages, MarkUnread, Join, Leave, vars

-----------------------------------------------------------------------------
(* The badge invariants. *)

\* A move keeps an exact badge exact, and never makes a badge an undercount.
LEMMA MoveCounts ==
  ASSUME TypeOK, NEW r \in Room, NEW p \in Profile, Moved(r, p),
         count[r][p] >= Cardinality(UnreadIn(r, p))
  PROVE  /\ count'[r][p] >= Cardinality(UnreadIn(r, p)')
         /\ Intact' /\ count[r][p] = Cardinality(UnreadIn(r, p))
              => count'[r][p] = Cardinality(UnreadIn(r, p)')
<1>. DEFINE U == UnreadIn(r, p)
            V == UnreadIn(r, p)'
<1>0. /\ IsFiniteSet(U) /\ Cardinality(U) \in Nat
      /\ count[r][p] \in Nat /\ count[r][p] >= Cardinality(U)
  BY UnreadFinite DEF TypeOK
<1>1. CASE V = U /\ count'[r][p] = count[r][p]
  BY <1>1
<1>2. ASSUME NEW m \in MsgId \ U, V = U \cup {m}, count'[r][p] = count[r][p] + 1
      PROVE  /\ count'[r][p] >= Cardinality(V)
             /\ count[r][p] = Cardinality(U) => count'[r][p] = Cardinality(V)
  <2>1. Cardinality(V) = Cardinality(U) + 1
    <3>. HIDE DEF U
    <3>. QED
      BY <1>0, <1>2, FS_AddElement
  <2>. HIDE DEF U, V
  <2>. QED
    BY <1>0, <1>2, <2>1 DEF U
<1>3. ASSUME NEW seen \in SUBSET U, V = U \ seen,
             count'[r][p] = FloorMinus(count[r][p], Cardinality(seen))
      PROVE  /\ count'[r][p] >= Cardinality(V)
             /\ count[r][p] = Cardinality(U) => count'[r][p] = Cardinality(V)
  <2>1. /\ Cardinality(seen) \in Nat /\ Cardinality(seen) <= Cardinality(U)
        /\ Cardinality(V) = Cardinality(U) - Cardinality(seen)
    <3>. HIDE DEF U
    <3>. QED
      BY <1>0, <1>3, CardMinus
  <2>2. count'[r][p] = count[r][p] - Cardinality(seen)
    <3>. HIDE DEF U, V
    <3>1. Cardinality(seen) <= count[r][p]
      BY <1>0, <2>1
    <3>. QED
      BY <1>0, <1>3, <2>1, <3>1, FloorMinusType
  <2>. HIDE DEF U, V
  <2>. QED
    BY <1>0, <2>1, <2>2
<1>4. CASE ~Intact' /\ V \subseteq U /\ count'[r][p] = count[r][p]
  <2>1. Cardinality(V) <= Cardinality(U) /\ Cardinality(V) \in Nat
    BY <1>0, <1>4, FS_Subset, FS_CardinalityType
  <2>. QED
    BY <1>0, <1>4, <2>1
<1>. QED
  BY <1>1, <1>2, <1>3, <1>4 DEF Moved

\* No badge and no status exists at the start.
LEMMA BadgeInit == Init => TypeOK /\ NoStatusBeforeSend /\ UnreadExact /\ UnreadNeverUndercounts
<1>. SUFFICES ASSUME Init
              PROVE  TypeOK /\ NoStatusBeforeSend /\ UnreadExact /\ UnreadNeverUndercounts
  OBVIOUS
<1>1. TypeOK /\ NoStatusBeforeSend
  BY InitType DEF Init, NoStatusBeforeSend
<1>2. \A r \in Room, p \in Profile :
        count[r][p] = Cardinality(UnreadIn(r, p)) /\ count[r][p] >= Cardinality(UnreadIn(r, p))
  <2>1. \A r \in Room, p \in Profile : UnreadIn(r, p) = {} /\ count[r][p] = 0
    BY HomeAssumption DEF Init, UnreadIn
  <2>. QED
    BY <2>1, FS_EmptySet
<1>. QED
  BY <1>1, <1>2 DEF UnreadExact, UnreadNeverUndercounts

\* What operators did is not undone by any step.
LEMMA IntactIsStable ==
  ASSUME TypeOK, [Next]_vars
  PROVE  (~edited' => ~edited) /\ (Intact' => Intact)
<1>1. ~edited' => ~edited
  BY DEF Next, SendMessage, SendSystemMessage, ReadAfterSend, SendFails, FinishRead, ReadMessages,
         MarkUnread, Join, Leave, AdminDelete, AdminRead, AdminUnread, vars
<1>2. \A m \in MsgId : home[m] = Erased => home'[m] = Erased
  BY HomeAssumption
     DEF Next, SendMessage, SendSystemMessage, ReadAfterSend, SendFails, FinishRead, ReadMessages,
         MarkUnread, Join, Leave, AdminDelete, AdminRead, AdminUnread, vars, TypeOK
<1>. QED
  BY <1>1, <1>2 DEF Intact

\* Deleting messages (which leaves counters alone) can only make a badge too high:
\* as long as no operator clears is_read, no unread message is ever hidden.
THEOREM NeverUndercounts == Spec => []UnreadNeverUndercounts
<1>. DEFINE IInv == TypeOK /\ NoStatusBeforeSend /\ UnreadNeverUndercounts
<1>1. Init => IInv
  BY BadgeInit
<1>2. IInv /\ [Next]_vars => IInv'
  <2>. SUFFICES ASSUME IInv, [Next]_vars PROVE IInv'
    OBVIOUS
  <2>1. TypeOK' /\ NoStatusBeforeSend'
    BY TypeStep, FreshMessage
  <2>2. ASSUME ~edited', NEW r \in Room, NEW p \in Profile
        PROVE  count'[r][p] >= Cardinality(UnreadIn(r, p)')
    BY <2>2, IntactIsStable, EveryStepMoves, MoveCounts DEF UnreadNeverUndercounts
  <2>. QED
    BY <2>1, <2>2 DEF UnreadNeverUndercounts
<1>3. IInv => UnreadNeverUndercounts
  OBVIOUS
<1>. QED
  BY <1>1, <1>2, <1>3, PTL DEF Spec

\* While no operator has been at work, every badge equals the number of unread
\* messages, whatever the interleaving of sends, overlapping reads, joins and leaves.
THEOREM BadgeExact == Spec => []UnreadExact
<1>. DEFINE IInv == TypeOK /\ NoStatusBeforeSend /\ UnreadExact
<1>1. Init => IInv
  BY BadgeInit
<1>2. IInv /\ [Next]_vars => IInv'
  <2>. SUFFICES ASSUME IInv, [Next]_vars PROVE IInv'
    OBVIOUS
  <2>1. TypeOK' /\ NoStatusBeforeSend'
    BY TypeStep, FreshMessage
  <2>2. ASSUME Intact', NEW r \in Room, NEW p \in Profile
        PROVE  count'[r][p] = Cardinality(UnreadIn(r, p)')
    <3>1. count[r][p] = Cardinality(UnreadIn(r, p)) /\ Cardinality(UnreadIn(r, p)) \in Nat
      BY <2>2, IntactIsStable, UnreadFinite DEF UnreadExact
    <3>2. count[r][p] >= Cardinality(UnreadIn(r, p))
      BY <3>1
    <3>3. ~edited'
      BY <2>2 DEF Intact
    <3>. QED
      BY <2>2, <3>1, <3>2, <3>3, EveryStepMoves, MoveCounts
  <2>. QED
    BY <2>1, <2>2 DEF UnreadExact
<1>3. IInv => UnreadExact
  OBVIOUS
<1>. QED
  BY <1>1, <1>2, <1>3, PTL DEF Spec

-----------------------------------------------------------------------------
(* ChatUnread implements UnreadBadge. *)

\* The instance of UnreadBadge counts with the same Cardinality.
LEMMA SameCardinality == \A S : Badge!Cardinality(S) = Cardinality(S)
BY Zenon DEF Badge!Cardinality, Cardinality

Sent == {m \in MsgId : home[m] # Unsent}
Unread == [r \in Room |-> [p \in Profile |-> UnreadIn(r, p)]]

\* When the badge is exact after a step, the abstract step's counter is count'.
LEMMA ExactIsAbstractBadge ==
  ASSUME TypeOK', UnreadExact', Intact'
  PROVE  count' = [r \in Room |-> [p \in Profile |-> Cardinality(Unread'[r][p])]]
<1>1. \A r \in Room, p \in Profile :
        count'[r][p] = Cardinality(UnreadIn(r, p)') /\ Unread'[r][p] = UnreadIn(r, p)'
  BY DEF UnreadExact, Unread
<1>2. count' \in [Room -> [Profile -> Nat]]
  BY DEF TypeOK
<1>3. \A r \in Room : count'[r] = [p \in Profile |-> Cardinality(Unread'[r][p])]
  <2>. SUFFICES ASSUME NEW r \in Room
                PROVE  count'[r] = [p \in Profile |-> Cardinality(Unread'[r][p])]
    OBVIOUS
  <2>1. count'[r] \in [Profile -> Nat]
    BY <1>2
  <2>. QED
    BY <1>1, <2>1
<1>. QED
  BY <1>2, <1>3

\* Sending is a delivery to an audience: the other participants, or nobody for a
\* system message.
LEMMA SendDelivers ==
  ASSUME TypeOK, NoStatusBeforeSend, NEW m \in MsgId, NEW r \in Room,
         \/ \E q \in Request, a \in Profile : SendMessage(q, m, r, a)
         \/ SendSystemMessage(m, r)
  PROVE  \E audience \in SUBSET Profile :
           /\ m \notin Sent /\ Sent' = Sent \cup {m}
           /\ Unread' = [Unread EXCEPT ![r] = [p \in Profile |->
                IF p \in audience THEN Unread[r][p] \cup {m} ELSE Unread[r][p]]]
<1>1. m \notin Sent /\ Sent' = Sent \cup {m}
  BY HomeAssumption DEF Sent, SendMessage, SendSystemMessage, TypeOK
<1>2. ASSUME NEW q \in Request, NEW a \in Profile, SendMessage(q, m, r, a)
      PROVE  \E audience \in SUBSET Profile : \A s \in Room, p \in Profile :
               UnreadIn(s, p)' = IF s = r /\ p \in audience
                                 THEN UnreadIn(s, p) \cup {m} ELSE UnreadIn(s, p)
  <2>. SUFFICES ASSUME NEW s \in Room, NEW p \in Profile
                PROVE  UnreadIn(s, p)' = IF s = r /\ p \in members[r] \ {a}
                                         THEN UnreadIn(s, p) \cup {m} ELSE UnreadIn(s, p)
    <3>1. members[r] \ {a} \in SUBSET Profile
      BY DEF TypeOK
    <3>. QED
      BY <3>1
  <2>1. m \notin UnreadIn(s, p)
    BY <1>2, HomeAssumption DEF SendMessage, UnreadIn
  <2>. QED
    BY <1>2, <2>1, HomeAssumption DEF SendMessage, CreateMessageStatus, UnreadIn, TypeOK
<1>3. ASSUME SendSystemMessage(m, r)
      PROVE  \A s \in Room, p \in Profile : UnreadIn(s, p)' = UnreadIn(s, p)
  BY <1>3, HomeAssumption DEF SendSystemMessage, UnreadIn, NoStatusBeforeSend, TypeOK
<1>4. ASSUME NEW audience \in SUBSET Profile,
             \A s \in Room, p \in Profile :
               UnreadIn(s, p)' = IF s = r /\ p \in audience
                                 THEN UnreadIn(s, p) \cup {m} ELSE UnreadIn(s, p)
      PROVE  Unread' = [Unread EXCEPT ![r] = [p \in Profile |->
                IF p \in audience THEN Unread[r][p] \cup {m} ELSE Unread[r][p]]]
  BY <1>4 DEF Unread
<1>5. {} \in SUBSET Profile /\ \A p : p \notin {}
  OBVIOUS
<1>. QED
  BY <1>1, <1>2, <1>3, <1>4, <1>5

\* Flipping statuses of w to read is w seeing those messages.
LEMMA FlipSees ==
  ASSUME TypeOK, TypeOK', NEW w \in Profile, NEW S \in SUBSET MsgId, home' = home,
         \A m \in MsgId, p \in Profile :
           status'[m][p] = IF m \in S /\ p = w THEN "read" ELSE status[m][p],
         UnreadExact', Intact'
  PROVE  Badge!Next
<1>1. Sent' = Sent
  BY DEF Sent
<1>2. \A r \in Room, p \in Profile :
        UnreadIn(r, p)' = IF p = w THEN UnreadIn(r, p) \ S ELSE UnreadIn(r, p)
  BY DEF UnreadIn
<1>3. Unread' = [r \in Room |-> [Unread[r] EXCEPT ![w] = Unread[r][w] \ S]]
  BY <1>2 DEF Unread
<1>4. Badge!See(w, S)
  BY <1>1, <1>3 DEF Badge!See, Sent, Unread
<1>5. \E p \in Profile, ms \in SUBSET MsgId : Badge!See(p, ms)
  BY <1>4
<1>6. count' = [r \in Room |-> [p \in Profile |-> Badge!Cardinality(Unread'[r][p])]]
  BY ExactIsAbstractBadge, SameCardinality
<1>. QED
  BY <1>5, <1>6, Zenon DEF Badge!Next, Unread

\* While no operator has been at work, the statuses, triggers and requests of baseapp_chats
\* implement the abstract badge: an audience once per message, a size, a way out.
THEOREM ImplementsUnreadBadge == Spec => ImplementsBadge
<1>. DEFINE IInv == TypeOK /\ NoStatusBeforeSend /\ UnreadExact
<1>1. Init => Badge!Init
  <2>. SUFFICES ASSUME Init PROVE Badge!Init
    OBVIOUS
  <2>1. \A r \in Room, p \in Profile : UnreadIn(r, p) = {}
    BY HomeAssumption DEF Init, UnreadIn
  <2>2. {m \in MsgId : home[m] # Unsent} = {}
    BY DEF Init
  <2>. QED
    BY <2>1, <2>2 DEF Badge!Init, Init
<1>2. IInv /\ IInv' /\ [Next]_vars => [Intact' => Badge!Next]_<<Sent, Unread, count>>
  <2>. SUFFICES ASSUME IInv, IInv', [Next]_vars, Intact'
                PROVE  Badge!Next \/ UNCHANGED <<Sent, Unread, count>>
    OBVIOUS
  <2>0. count' = [r \in Room |-> [p \in Profile |-> Badge!Cardinality(Unread'[r][p])]]
    BY ExactIsAbstractBadge, SameCardinality
  <2>1. ASSUME NEW m \in MsgId, NEW r \in Room,
               \/ \E q \in Request, a \in Profile : SendMessage(q, m, r, a)
               \/ SendSystemMessage(m, r)
        PROVE  Badge!Next
    <3>1. PICK audience \in SUBSET Profile :
           /\ m \notin Sent /\ Sent' = Sent \cup {m}
           /\ Unread' = [Unread EXCEPT ![r] = [p \in Profile |->
                IF p \in audience THEN Unread[r][p] \cup {m} ELSE Unread[r][p]]]
      BY <2>1, SendDelivers
    <3>2. Badge!Deliver(m, r, audience)
      BY <3>1 DEF Badge!Deliver, Sent, Unread
    <3>3. \E n \in MsgId, s \in Room, ps \in SUBSET Profile : Badge!Deliver(n, s, ps)
      BY <3>2
    <3>. QED
      BY <2>0, <3>3, Zenon DEF Badge!Next, Unread
  <2>2. ASSUME NEW q \in Request, FinishRead(q)
        PROVE  Badge!Next
    <3>1. req[q].who \in Profile /\ Flipped(q) \in SUBSET MsgId
      BY <2>2 DEF FinishRead, Flipped, RequestState, TypeOK
    <3>2. home' = home /\ \A m \in MsgId, p \in Profile : status'[m][p] =
            IF m \in Flipped(q) /\ p = req[q].who THEN "read" ELSE status[m][p]
      BY <2>2, <3>1 DEF FinishRead, TypeOK
    <3>3. PICK w \in Profile, seen \in SUBSET MsgId : w = req[q].who /\ seen = Flipped(q)
      BY <3>1
    <3>4. \A m \in MsgId, p \in Profile :
            status'[m][p] = IF m \in seen /\ p = w THEN "read" ELSE status[m][p]
      BY <3>2, <3>3
    <3>. QED
      BY <3>2, <3>4, FlipSees
  <2>4. ASSUME NEW m \in MsgId, NEW a \in Profile, AdminRead(m, a)
        PROVE  Badge!Next
    <3>1. home' = home /\ \A n \in MsgId, p \in Profile : status'[n][p] =
            IF n \in {m} /\ p = a THEN "read" ELSE status[n][p]
      BY <2>4 DEF AdminRead, TypeOK
    <3>. QED
      BY <3>1, FlipSees, {m} \in SUBSET MsgId
  <2>5. ASSUME NEW m \in MsgId, NEW a \in Profile, AdminUnread(m, a)
        PROVE  FALSE
    BY <2>5 DEF AdminUnread, Intact
  <2>3. CASE UNCHANGED <<home, status, count>>
    BY <2>3 DEF Sent, Unread, UnreadIn
  <2>6. ASSUME NEW m \in MsgId, AdminDelete(m)
        PROVE  FALSE
    BY <2>6 DEF AdminDelete, Intact, TypeOK
  <2>. QED
    BY <2>1, <2>2, <2>3, <2>4, <2>5, <2>6
       DEF Next, ReadAfterSend, SendFails, ReadMessages, MarkUnread, Join, Leave, vars
<1>3. Spec => []IInv
  <2>1. Spec => []UnreadExact
    BY BadgeExact
  <2>2. Spec => []NoStatusBeforeSend
    <3>1. Init => NoStatusBeforeSend
      BY BadgeInit
    <3>. QED
      BY <3>1, FreshMessage, TypeCorrect, PTL DEF Spec
  <2>. QED
    BY <2>1, <2>2, TypeCorrect, PTL
<1>5. [Intact' => Badge!Next]_<<Sent, Unread, count>> => [Intact' => Badge!Next]_BadgeVars
  BY DEF Sent, Unread, BadgeVars
<1>. QED
  BY <1>1, <1>2, <1>3, <1>5, PTL DEF Spec, ImplementsBadge
=============================================================================
