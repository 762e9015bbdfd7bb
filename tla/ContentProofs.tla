----------------------------- MODULE ContentProofs -----------------------------
(***************************************************************************)
(* Proofs about MCContent: what its parts promise, for every number of       *)
(* profiles, rooms, messages, requests, targets, verbs, events and clients,  *)
(* and with no bound on the steps.                                           *)
(*                                                                          *)
(* Mentions: a call that has written holds the lock of its target, so the    *)
(* difference it took is still the difference when it commits (Fits); and    *)
(* what is yet to be reported of a profile makes up exactly what a            *)
(* receiver's balance lacks (Owed).                                          *)
(*                                                                          *)
(* Notifications: what was turned off keeps a row that is off (OffRows),     *)
(* because a toggle that overwrites a row answers for it (CallRows); a       *)
(* toggle nothing overlapped has written every row that its answer depends   *)
(* on (AloneRows); what a delivery was allowed to go out on is on or was     *)
(* turned off since it asked (AskedOn); and what a client shows is said of   *)
(* the steps between a save and its broadcast, and between a deletion and    *)
(* its commit, too (NeverShown, Shown).                                      *)
(*                                                                          *)
(* Messages: a one-to-one room has two rows, so ChatRoomCreate finds it      *)
(* (PairRows); a request that has not found it has overlapped its maker      *)
(* (PairsAsked).  Who commits a message holds its row (Locks), an edit       *)
(* loaded it as it still is (EditsFit), and what subscribers were told is    *)
(* what is about to be committed (ToldAhead).  What an operator's deletion   *)
(* leaves of a conversation is all there is (LeftFits).                      *)
(***************************************************************************)
EXTENDS MCContent, FiniteSetTheorems, WellFoundedInduction, TLAPS

\* Cardinality is one operator, in whichever part.
LEMMA SameCardinality ==
  /\ \A S : T!Cardinality(S) = Cardinality(S)
  /\ \A S : N!Cardinality(S) = Cardinality(S)
  /\ \A S : M!Cardinality(S) = Cardinality(S)
<1>1. \A S : T!Cardinality(S) = Cardinality(S)
  BY DEF T!Cardinality, Cardinality
<1>2. \A S : N!Cardinality(S) = Cardinality(S)
  BY DEF N!Cardinality, Cardinality
<1>3. \A S : M!Cardinality(S) = Cardinality(S)
  BY DEF M!Cardinality, Cardinality
<1> QED BY <1>1, <1>2, <1>3

-----------------------------------------------------------------------------
(* Mentions. *)

\* The committed calls that have yet to report p as added to t, or as removed from it.
ToAdd(t, p) == {q \in T!At("committed") : req[q].target = t /\ p \in req[q].added}
ToRemove(t, p) == {q \in T!At("committed") : req[q].target = t /\ p \in req[q].removed}

\* Of a target at most one call has written and not committed.
OneWriter ==
  \A q, k \in T!At("written") : req[q].target = req[k].target => q = k

\* The difference that a call took applies to the mentions as they are.
Fits ==
  \A q \in T!At("written") :
    LET now == T!MentionedIn(req[q].target)
    IN  /\ req[q].added \cap now = {} /\ req[q].added \subseteq req[q].new
        /\ req[q].removed \subseteq now /\ req[q].removed \cap req[q].new = {}
        /\ req[q].new \cap profiles \subseteq now \cup req[q].added
        /\ now \ req[q].removed \subseteq req[q].new

\* What a receiver's balance lacks is under way.
Owed ==
  \A t \in Target, p \in profiles :
    balance[t][p] + Cardinality(ToAdd(t, p)) - Cardinality(ToRemove(t, p))
      = IF p \in T!MentionedIn(t) THEN 1 ELSE 0

MentionsInv == T!TypeOK /\ OneWriter /\ Fits /\ T!LastCallReplaces /\ Owed

-----------------------------------------------------------------------------
(* Facts used in every step. *)

\* A request is at a stage or idle, and what it holds has its type.
LEMMA CallTypes ==
  ASSUME T!TypeOK, NEW q \in Request, req[q] # None
  PROVE  /\ req[q] \in T!Call /\ req[q].target \in Target /\ req[q].stage \in T!Stages
         /\ req[q].new \subseteq Profile /\ req[q].added \subseteq Profile
         /\ req[q].removed \subseteq Profile
<1>1. req[q] \in T!Call
  BY DEF T!TypeOK
<1>. QED
  BY <1>1 DEF T!Call

\* The calls with something to report are finitely many.
LEMMA PendingFinite ==
  ASSUME NEW t, NEW p
  PROVE  /\ IsFiniteSet(ToAdd(t, p)) /\ IsFiniteSet(ToRemove(t, p))
         /\ Cardinality(ToAdd(t, p)) \in Nat /\ Cardinality(ToRemove(t, p)) \in Nat
<1>1. ToAdd(t, p) \in SUBSET Request /\ ToRemove(t, p) \in SUBSET Request
  BY DEF ToAdd, ToRemove, T!At
<1>2. IsFiniteSet(ToAdd(t, p)) /\ IsFiniteSet(ToRemove(t, p))
  BY <1>1, FS_Subset, FiniteAssumption
<1>. QED
  BY <1>2, FS_CardinalityType

\* The invariant holds at first.
LEMMA MentionsInit == ASSUME T!Init PROVE MentionsInv
<1>1. \A s : T!At(s) = {}
  BY DEF T!Init, T!At
<1>2. T!TypeOK
  BY BoundAssumption DEF T!Init, T!TypeOK
<1>3. OneWriter /\ Fits
  BY <1>1 DEF OneWriter, Fits
<1>4. T!LastCallReplaces
  BY DEF T!Init, T!LastCallReplaces, T!MentionedIn
<1>5. Owed
  <2>1. SUFFICES ASSUME NEW t \in Target, NEW p \in profiles
                 PROVE  balance[t][p] + Cardinality(ToAdd(t, p)) - Cardinality(ToRemove(t, p))
                          = IF p \in T!MentionedIn(t) THEN 1 ELSE 0
    BY DEF Owed
  <2>2. ToAdd(t, p) = {} /\ ToRemove(t, p) = {}
    BY <1>1 DEF ToAdd, ToRemove
  <2>3. Cardinality(ToAdd(t, p)) = 0 /\ Cardinality(ToRemove(t, p)) = 0
    BY <2>2, FS_EmptySet
  <2>4. balance[t][p] = 0 /\ p \notin T!MentionedIn(t)
    BY DEF T!Init, T!MentionedIn
  <2>. QED
    BY <2>3, <2>4
<1>. QED
  BY <1>2, <1>3, <1>4, <1>5 DEF MentionsInv

-----------------------------------------------------------------------------
(* Steps that move one request from a stage to another and change no rows. *)

\* A step that changes only calls that have not committed leaves what is owed alone.
LEMMA SameOwed ==
  ASSUME Owed, UNCHANGED <<profiles, mentions, balance>>,
         T!At("committed")' = T!At("committed"),
         \A q \in T!At("committed") : req'[q] = req[q]
  PROVE  Owed'
<1>1. \A t, p : ToAdd(t, p)' = ToAdd(t, p) /\ ToRemove(t, p)' = ToRemove(t, p)
  BY DEF ToAdd, ToRemove
<1>2. \A t : T!MentionedIn(t)' = T!MentionedIn(t)
  BY DEF T!MentionedIn
<1>. QED
  BY <1>1, <1>2 DEF Owed

LEMMA ResolveKeeps ==
  ASSUME MentionsInv, NEW q \in Request, NEW t \in Target, NEW ids \in SUBSET Profile,
         NEW exclude \in Profile, T!Resolve(q, t, ids, exclude)
  PROVE  MentionsInv'
<1>. DEFINE call == [stage |-> "resolved", target |-> t,
                  new |-> T!resolve_mentioned_profiles(ids, exclude),
                  added |-> {}, removed |-> {}]
<1>. USE DEF MentionsInv
<1>1. call \in T!Call /\ call # None
  BY NoneAssumption DEF T!Call, T!Stages, T!resolve_mentioned_profiles
<1>2. req' = [req EXCEPT ![q] = call] /\ req[q] = None
  BY DEF T!Resolve
<1>3. T!TypeOK'
  BY <1>1, <1>2, BoundAssumption DEF T!TypeOK, T!Resolve
<1>4. /\ \A k \in Request : k # q => req'[k] = req[k]
      /\ req'[q] = call /\ call.stage = "resolved"
  BY <1>2 DEF T!TypeOK
<1>. HIDE DEF call
<1>5. /\ T!At("written")' = T!At("written") /\ T!At("committed")' = T!At("committed")
      /\ \A k \in T!At("written") \cup T!At("committed") : req'[k] = req[k]
  BY <1>1, <1>2, <1>4 DEF T!At
<1>6. \A x : T!MentionedIn(x)' = T!MentionedIn(x)
  BY DEF T!Resolve, T!MentionedIn
<1>7. OneWriter' /\ Fits'
  BY <1>5, <1>6 DEF OneWriter, Fits, T!Resolve
<1>8. T!LastCallReplaces'
  BY <1>6 DEF T!LastCallReplaces, T!Resolve
<1>9. Owed'
  BY <1>5, SameOwed DEF T!Resolve
<1>. QED
  BY <1>3, <1>7, <1>8, <1>9

LEMMA WriteKeeps ==
  ASSUME MentionsInv, NEW q \in Request, T!update_mentions(q)
  PROVE  MentionsInv'
<1>. DEFINE t == req[q].target
            now == T!MentionedIn(t)
            call == [req[q] EXCEPT !.stage = "written", !.added = req[q].new \ now,
                                !.removed = now \ req[q].new]
<1>. USE DEF MentionsInv
<1>1. /\ req[q] # None /\ req[q].stage = "resolved"
      /\ \A k \in T!At("written") : req[k].target # t
  BY DEF T!update_mentions, T!At, T!Locked
<1>2. req[q] \in T!Call /\ t \in Target /\ req[q].new \subseteq Profile /\ now \subseteq Profile
  BY <1>1, CallTypes DEF T!MentionedIn
<1>3. call \in T!Call /\ call # None
  BY <1>2, NoneAssumption DEF T!Call, T!Stages
<1>4. /\ call.stage = "written" /\ call.target = t /\ call.new = req[q].new
      /\ call.added = req[q].new \ now /\ call.removed = now \ req[q].new
  BY <1>2 DEF T!Call
<1>5. req' = [req EXCEPT ![q] = call]
  BY DEF T!update_mentions
<1>6. T!TypeOK'
  BY <1>3, <1>5 DEF T!TypeOK, T!update_mentions
<1>7. /\ \A k \in Request : k # q => req'[k] = req[k]
      /\ req'[q] = call
  BY <1>5 DEF T!TypeOK
<1>. HIDE DEF call
<1>8. /\ T!At("written")' = T!At("written") \cup {q} /\ T!At("committed")' = T!At("committed")
      /\ q \notin T!At("written") /\ q \notin T!At("committed")
      /\ \A k \in T!At("written") \cup T!At("committed") : req'[k] = req[k]
  BY <1>1, <1>3, <1>4, <1>7 DEF T!At
<1>9. \A x : T!MentionedIn(x)' = T!MentionedIn(x)
  BY DEF T!update_mentions, T!MentionedIn
<1>10. OneWriter'
  BY <1>1, <1>4, <1>7, <1>8 DEF OneWriter
<1>11. Fits'
  <2>1. SUFFICES ASSUME NEW k \in T!At("written")'
                 PROVE  LET rows == T!MentionedIn(req'[k].target)
                        IN  /\ req'[k].added \cap rows = {} /\ req'[k].added \subseteq req'[k].new
                            /\ req'[k].removed \subseteq rows /\ req'[k].removed \cap req'[k].new = {}
                            /\ req'[k].new \cap profiles \subseteq rows \cup req'[k].added
                            /\ rows \ req'[k].removed \subseteq req'[k].new
    BY <1>9 DEF Fits, T!update_mentions
  <2>2. CASE k = q
    BY <2>2, <1>4, <1>7
  <2>3. CASE k # q
    BY <2>3, <1>8 DEF Fits
  <2>. QED
    BY <2>2, <2>3
<1>12. T!LastCallReplaces'
  BY <1>9 DEF T!LastCallReplaces, T!update_mentions
<1>13. Owed'
  BY <1>8, SameOwed DEF T!update_mentions
<1>. QED
  BY <1>6, <1>10, <1>11, <1>12, <1>13

LEMMA RollBackKeeps ==
  ASSUME MentionsInv, NEW q \in Request, T!RollBack(q)
  PROVE  MentionsInv'
<1>. USE DEF MentionsInv
<1>1. /\ q \notin T!At("committed")
      /\ req' = [req EXCEPT ![q] = None]
  BY DEF T!RollBack, T!At
<1>2. T!TypeOK'
  BY <1>1 DEF T!TypeOK, T!RollBack
<1>3. /\ \A k \in Request : k # q => req'[k] = req[k]
      /\ req'[q] = None
  BY <1>1 DEF T!TypeOK
<1>4. /\ T!At("written")' \subseteq T!At("written") /\ T!At("committed")' = T!At("committed")
      /\ \A k \in T!At("written")' \cup T!At("committed") : req'[k] = req[k]
  BY <1>1, <1>3 DEF T!At
<1>5. \A x : T!MentionedIn(x)' = T!MentionedIn(x)
  BY DEF T!RollBack, T!MentionedIn
<1>6. OneWriter' /\ Fits'
  BY <1>4, <1>5 DEF OneWriter, Fits, T!RollBack
<1>7. T!LastCallReplaces'
  BY <1>5 DEF T!LastCallReplaces, T!RollBack
<1>8. Owed'
  BY <1>4, SameOwed DEF T!RollBack
<1>. QED
  BY <1>2, <1>6, <1>7, <1>8

-----------------------------------------------------------------------------
(* Steps that change rows or report. *)

LEMMA CommitKeeps ==
  ASSUME MentionsInv, NEW q \in Request, T!Commit(q)
  PROVE  MentionsInv'
<1>. DEFINE call == [req[q] EXCEPT !.stage = "committed"]
<1>. USE DEF MentionsInv
<1>1. /\ q \in T!At("written") /\ req[q] # None /\ req[q].stage = "written"
      /\ req[q].added \subseteq profiles
  BY DEF T!Commit, T!At
<1>2. PICK t \in Target : t = req[q].target
  BY <1>1, CallTypes
<1>2a. req[q] \in T!Call /\ req[q].new \in SUBSET Profile
  BY <1>1, CallTypes
<1>3. call \in T!Call /\ call # None
  BY <1>2a, NoneAssumption DEF T!Call, T!Stages
<1>4. /\ call.stage = "committed" /\ call.target = t
      /\ call.added = req[q].added /\ call.removed = req[q].removed
  BY <1>2, <1>2a DEF T!Call
<1>5. req' = [req EXCEPT ![q] = call]
  BY DEF T!Commit
<1>6. T!TypeOK'
  <2>1. mentions' \subseteq Target \X profiles
    BY <1>1, <1>2 DEF T!Commit, T!TypeOK
  <2>2. asked' \in [Target -> SUBSET Profile]
    BY <1>2, <1>2a DEF T!Commit, T!TypeOK
  <2>3. req' \in [Request -> T!Call \cup {None}]
    BY <1>3, <1>5 DEF T!TypeOK
  <2>. QED
    BY <2>1, <2>2, <2>3 DEF T!Commit, T!TypeOK
<1>7. /\ \A k \in Request : k # q => req'[k] = req[k]
      /\ req'[q] = call
  BY <1>5 DEF T!TypeOK
<1>. HIDE DEF call
<1>8. /\ T!At("written")' = T!At("written") \ {q} /\ T!At("committed")' = T!At("committed") \cup {q}
      /\ q \notin T!At("committed")
      /\ \A k \in T!At("written") : k # q => req'[k] = req[k] /\ req[k].target # t
      /\ \A k \in T!At("committed") : req'[k] = req[k]
  BY <1>1, <1>2, <1>3, <1>4, <1>7 DEF T!At, OneWriter
<1>9. /\ \A x : x # t => T!MentionedIn(x)' = T!MentionedIn(x)
      /\ T!MentionedIn(t)' = (T!MentionedIn(t) \ req[q].removed) \cup req[q].added
  <2>1. mentions' = (mentions \ ({t} \X req[q].removed)) \cup ({t} \X req[q].added)
    BY <1>2 DEF T!Commit
  <2>2. req[q].added \subseteq Profile
    BY <1>1, CallTypes
  <2>. QED
    BY <2>1, <2>2 DEF T!MentionedIn
<1>10. OneWriter'
  BY <1>8 DEF OneWriter
<1>11. Fits'
  BY <1>8, <1>9 DEF Fits, T!Commit
<1>12. T!LastCallReplaces'
  <2>1. /\ \A x \in Target : asked'[x] = IF x = t THEN req[q].new ELSE asked[x]
        /\ profiles' = profiles
    BY <1>2 DEF T!Commit, T!TypeOK
  <2>2. T!MentionedIn(t) \subseteq profiles
    BY DEF T!TypeOK, T!MentionedIn
  <2>3. (T!MentionedIn(t) \ req[q].removed) \cup req[q].added = req[q].new \cap profiles
    BY <1>1, <1>2, <2>2 DEF Fits
  <2>. QED
    BY <1>2, <1>9, <2>1, <2>3 DEF T!LastCallReplaces
<1>13. Owed'
  <2>1. SUFFICES ASSUME NEW x \in Target, NEW p \in profiles
                 PROVE  balance[x][p] + Cardinality(ToAdd(x, p)') - Cardinality(ToRemove(x, p)')
                          = IF p \in T!MentionedIn(x)' THEN 1 ELSE 0
    BY DEF Owed, T!Commit
  <2>2. /\ balance[x][p] \in Int
        /\ balance[x][p] + Cardinality(ToAdd(x, p)) - Cardinality(ToRemove(x, p))
             = IF p \in T!MentionedIn(x) THEN 1 ELSE 0
    BY DEF Owed, T!TypeOK
  <2>3. /\ ToAdd(x, p)' = ToAdd(x, p) \cup
                            (IF x = t /\ p \in req[q].added THEN {q} ELSE {})
        /\ ToRemove(x, p)' = ToRemove(x, p) \cup
                            (IF x = t /\ p \in req[q].removed THEN {q} ELSE {})
        /\ q \notin ToAdd(x, p) /\ q \notin ToRemove(x, p)
    BY <1>4, <1>7, <1>8 DEF ToAdd, ToRemove
  <2>4. /\ IsFiniteSet(ToAdd(x, p)) /\ IsFiniteSet(ToRemove(x, p))
        /\ Cardinality(ToAdd(x, p)) \in Nat /\ Cardinality(ToRemove(x, p)) \in Nat
    BY PendingFinite
  <2>5. /\ Cardinality(ToAdd(x, p) \cup {q}) = Cardinality(ToAdd(x, p)) + 1
        /\ Cardinality(ToRemove(x, p) \cup {q}) = Cardinality(ToRemove(x, p)) + 1
    BY <2>3, <2>4, FS_AddElement
  <2>6. CASE x = t
    <3>1. /\ req[q].added \cap T!MentionedIn(t) = {} /\ req[q].removed \subseteq T!MentionedIn(t)
      BY <1>1, <1>2 DEF Fits
    <3>2. CASE p \in req[q].added
      <4>1. p \notin req[q].removed /\ p \notin T!MentionedIn(x) /\ p \in T!MentionedIn(x)'
        BY <3>1, <3>2, <2>6, <1>9
      <4>2. ToAdd(x, p)' = ToAdd(x, p) \cup {q} /\ ToRemove(x, p)' = ToRemove(x, p)
        BY <4>1, <3>2, <2>3, <2>6
      <4>. QED
        BY <4>1, <4>2, <2>2, <2>4, <2>5
    <3>3. CASE p \in req[q].removed
      <4>1. p \notin req[q].added /\ p \in T!MentionedIn(x) /\ p \notin T!MentionedIn(x)'
        BY <3>1, <3>3, <2>6, <1>9
      <4>2. ToAdd(x, p)' = ToAdd(x, p) /\ ToRemove(x, p)' = ToRemove(x, p) \cup {q}
        BY <4>1, <3>3, <2>3, <2>6
      <4>. QED
        BY <4>1, <4>2, <2>2, <2>4, <2>5
    <3>4. CASE p \notin req[q].added \cup req[q].removed
      <4>1. p \in T!MentionedIn(x)' <=> p \in T!MentionedIn(x)
        BY <3>4, <2>6, <1>9
      <4>2. ToAdd(x, p)' = ToAdd(x, p) /\ ToRemove(x, p)' = ToRemove(x, p)
        BY <3>4, <2>3
      <4>. QED
        BY <4>1, <4>2, <2>2
    <3>. QED
      BY <3>2, <3>3, <3>4
  <2>7. CASE x # t
    <3>1. ToAdd(x, p)' = ToAdd(x, p) /\ ToRemove(x, p)' = ToRemove(x, p)
      BY <2>7, <2>3
    <3>. QED
      BY <3>1, <2>2, <2>7, <1>9
  <2>. QED
    BY <2>6, <2>7
<1>. QED
  BY <1>6, <1>10, <1>11, <1>12, <1>13

LEMMA ReportKeeps ==
  ASSUME MentionsInv, NEW q \in Request, T!mentions_changed(q)
  PROVE  MentionsInv'
<1>. USE DEF MentionsInv
<1>1. /\ q \in T!At("committed") /\ req[q] # None /\ req[q].stage = "committed"
      /\ req' = [req EXCEPT ![q] = None]
  BY DEF T!mentions_changed, T!At
<1>2. PICK t \in Target : t = req[q].target
  BY <1>1, CallTypes
<1>3. /\ \A x \in Target : x # t => balance'[x] = balance[x]
      /\ \A p \in Profile : balance'[t][p] = balance[t][p]
           + (IF p \in req[q].added THEN 1 ELSE 0) - (IF p \in req[q].removed THEN 1 ELSE 0)
      /\ balance' \in [Target -> [Profile -> Int]]
  BY <1>2 DEF T!mentions_changed, T!TypeOK
<1>4. T!TypeOK'
  BY <1>1, <1>3 DEF T!TypeOK, T!mentions_changed
<1>5. /\ \A k \in Request : k # q => req'[k] = req[k]
      /\ req'[q] = None
  BY <1>1 DEF T!TypeOK
<1>6. /\ T!At("written")' = T!At("written") /\ T!At("committed")' = T!At("committed") \ {q}
      /\ \A k \in T!At("written") \cup T!At("committed") : k # q => req'[k] = req[k]
      /\ q \notin T!At("written")
  BY <1>1, <1>5 DEF T!At
<1>7. \A x : T!MentionedIn(x)' = T!MentionedIn(x)
  BY DEF T!mentions_changed, T!MentionedIn
<1>8. OneWriter' /\ Fits'
  BY <1>5, <1>6, <1>7 DEF OneWriter, Fits, T!mentions_changed, T!At
<1>9. T!LastCallReplaces'
  BY <1>7 DEF T!LastCallReplaces, T!mentions_changed
<1>10. Owed'
  <2>1. SUFFICES ASSUME NEW x \in Target, NEW p \in profiles
                 PROVE  balance'[x][p] + Cardinality(ToAdd(x, p)') - Cardinality(ToRemove(x, p)')
                          = IF p \in T!MentionedIn(x) THEN 1 ELSE 0
    BY <1>7 DEF Owed, T!mentions_changed
  <2>2. /\ balance[x][p] \in Int /\ p \in Profile
        /\ balance[x][p] + Cardinality(ToAdd(x, p)) - Cardinality(ToRemove(x, p))
             = IF p \in T!MentionedIn(x) THEN 1 ELSE 0
    BY DEF Owed, T!TypeOK
  <2>3. /\ ToAdd(x, p)' = ToAdd(x, p) \ {q} /\ ToRemove(x, p)' = ToRemove(x, p) \ {q}
        /\ q \in ToAdd(x, p) <=> x = t /\ p \in req[q].added
        /\ q \in ToRemove(x, p) <=> x = t /\ p \in req[q].removed
    BY <1>1, <1>2, <1>5, <1>6 DEF ToAdd, ToRemove, T!At
  <2>4. /\ IsFiniteSet(ToAdd(x, p)) /\ IsFiniteSet(ToRemove(x, p))
        /\ Cardinality(ToAdd(x, p)) \in Nat /\ Cardinality(ToRemove(x, p)) \in Nat
    BY PendingFinite
  <2>5. /\ Cardinality(ToAdd(x, p)') = Cardinality(ToAdd(x, p))
             - (IF x = t /\ p \in req[q].added THEN 1 ELSE 0)
        /\ Cardinality(ToRemove(x, p)') = Cardinality(ToRemove(x, p))
             - (IF x = t /\ p \in req[q].removed THEN 1 ELSE 0)
    <3>1. /\ Cardinality(ToAdd(x, p) \ {q})
               = IF q \in ToAdd(x, p) THEN Cardinality(ToAdd(x, p)) - 1
                 ELSE Cardinality(ToAdd(x, p))
          /\ Cardinality(ToRemove(x, p) \ {q})
               = IF q \in ToRemove(x, p) THEN Cardinality(ToRemove(x, p)) - 1
                 ELSE Cardinality(ToRemove(x, p))
      BY <2>4, FS_RemoveElement
    <3>. QED
      BY <2>3, <2>4, <3>1
  <2>6. balance'[x][p] = balance[x][p]
          + (IF x = t /\ p \in req[q].added THEN 1 ELSE 0)
          - (IF x = t /\ p \in req[q].removed THEN 1 ELSE 0)
    BY <1>3, <2>2
  <2>. QED
    BY <2>2, <2>4, <2>5, <2>6
<1>. QED
  BY <1>4, <1>8, <1>9, <1>10

LEMMA DeletionKeeps ==
  ASSUME MentionsInv, NEW p \in Profile, T!DeleteProfile(p)
  PROVE  MentionsInv'
<1>. USE DEF MentionsInv
<1>1. /\ profiles' = profiles \ {p} /\ mentions' = {m \in mentions : m[2] # p}
      /\ \A q \in T!At("written") : p \notin req[q].removed
      /\ UNCHANGED <<req, calls, asked, balance>>
  BY DEF T!DeleteProfile
<1>2. T!TypeOK'
  BY <1>1 DEF T!TypeOK
<1>3. \A s : T!At(s)' = T!At(s)
  BY <1>1 DEF T!At
<1>4. \A x : T!MentionedIn(x)' = T!MentionedIn(x) \ {p}
  BY <1>1 DEF T!MentionedIn
<1>5. OneWriter'
  BY <1>1, <1>3 DEF OneWriter
<1>6. Fits'
  BY <1>1, <1>3, <1>4 DEF Fits
<1>7. T!LastCallReplaces'
  BY <1>1, <1>4 DEF T!LastCallReplaces
<1>8. Owed'
  <2>1. \A x, y : ToAdd(x, y)' = ToAdd(x, y) /\ ToRemove(x, y)' = ToRemove(x, y)
    BY <1>1, <1>3 DEF ToAdd, ToRemove
  <2>2. \A y \in profiles' : y \in profiles /\ y # p
    BY <1>1
  <2>. QED
    BY <1>1, <1>4, <2>1, <2>2 DEF Owed
<1>. QED
  BY <1>2, <1>5, <1>6, <1>7, <1>8

LEMMA MentionsStep == ASSUME MentionsInv, [T!Next]_(T!vars) PROVE MentionsInv'
<1>1. CASE UNCHANGED T!vars
  BY <1>1 DEF T!vars, MentionsInv, T!TypeOK, OneWriter, Fits, T!LastCallReplaces, Owed, ToAdd, ToRemove,
              T!MentionedIn, T!At
<1>2. CASE T!Next
  BY <1>2, ResolveKeeps, WriteKeeps, CommitKeeps, RollBackKeeps, ReportKeeps, DeletionKeeps
  DEF T!Next
<1>. QED
  BY <1>1, <1>2

-----------------------------------------------------------------------------
(* What the invariant says of the properties. *)

\* The resolvers agree whenever the rows are well formed: each row of a target is a profile.
LEMMA ResolversAlwaysAgree == ASSUME T!TypeOK PROVE T!ResolversAgree
<1>1. SUFFICES ASSUME NEW t \in Target
               PROVE  /\ T!get_mentions_count(t) = T!Cardinality(T!resolve_mentions(t))
                      /\ {p \in Profile : T!resolve_is_mentioning_profile(t, p)}
                           = T!resolve_mentions(t)
  BY DEF T!ResolversAgree
<1>. DEFINE R == {m \in mentions : m[1] = t}
            row == [p \in T!MentionedIn(t) |-> <<t, p>>]
<1>2. \A m \in R : m = <<t, m[2]>> /\ m[2] \in Profile
  BY DEF T!TypeOK
<1>3. row \in Bijection(T!MentionedIn(t), R)
  <2>1. row \in [T!MentionedIn(t) -> R]
    BY DEF T!MentionedIn
  <2>2. \A p, r \in T!MentionedIn(t) : row[p] = row[r] => p = r
    OBVIOUS
  <2>3. \A m \in R : m[2] \in T!MentionedIn(t) /\ row[m[2]] = m
    BY <1>2 DEF T!MentionedIn
  <2>. QED
    BY <2>1, <2>2, <2>3 DEF Bijection, Injection, Surjection, IsInjective
<1>4. Cardinality(R) = Cardinality(T!MentionedIn(t))
  <2>1. IsFiniteSet(T!MentionedIn(t))
    BY FS_Subset, FiniteAssumption, T!MentionedIn(t) \in SUBSET Profile DEF T!MentionedIn
  <2>2. ExistsBijection(T!MentionedIn(t), R)
    BY <1>3 DEF ExistsBijection
  <2>. QED
    BY <2>1, <2>2, FS_Bijection
<1>. QED
  BY <1>4, SameCardinality DEF T!get_mentions_count, T!resolve_mentions, T!resolve_is_mentioning_profile, T!MentionedIn

\* With nothing left to report, a balance is what the rows say.
LEMMA NothingOwed == ASSUME MentionsInv PROVE T!DeltasAddUp
<1>1. SUFFICES ASSUME NEW t \in Target, \A q \in T!At("committed") : req[q].target # t,
                      NEW p \in profiles
               PROVE  balance[t][p] = IF p \in T!MentionedIn(t) THEN 1 ELSE 0
  BY DEF T!DeltasAddUp
<1>2. ToAdd(t, p) = {} /\ ToRemove(t, p) = {}
  BY <1>1 DEF ToAdd, ToRemove
<1>3. Cardinality(ToAdd(t, p)) = 0 /\ Cardinality(ToRemove(t, p)) = 0
  BY <1>2, FS_EmptySet
<1>4. balance[t][p] \in Int
  BY DEF MentionsInv, T!TypeOK
<1>5. balance[t][p] + Cardinality(ToAdd(t, p)) - Cardinality(ToRemove(t, p))
        = IF p \in T!MentionedIn(t) THEN 1 ELSE 0
  BY DEF MentionsInv, Owed
<1>. QED
  BY <1>3, <1>4, <1>5


-----------------------------------------------------------------------------
(* Notifications: the invariant. *)

ToggleCall == [stage : {"read", "written"}, verb : Verb, channel : N!Channel, row : Nat,
               active : BOOLEAN, others : SUBSET Nat, alone : BOOLEAN]
TaskStates == {"none", "queued", "lost", "loaded", "noting", "created", "noted", "mailing",
               "stamping", "updated", "mailed", "pushing", "died", "done"}

NoticeTypes ==
  /\ N!TypeOK
  /\ req \in [Request -> ToggleCall \cup {None}]
  /\ event \in [Event -> {"none", "open", "committed", "failed", "deleted"}]
  /\ task \in [Event -> TaskStates]
  /\ notes \in [Event -> N!Note \cup {None}]
  /\ sent \in [Event -> SUBSET N!Single]
  /\ held = [x \in Client |-> held[x]]

\* A toggle holds its own row, and apart from it rows of its verb that are for all channels,
\* or, when it is for all of them itself, any of its verb.
CallRows ==
  \A q \in Request : req[q] # None =>
    /\ req[q].row # 0 => /\ req[q].row \in DOMAIN settings
                         /\ settings[req[q].row].verb = req[q].verb
                         /\ settings[req[q].row].channel = req[q].channel
    /\ req[q].row = 0 => ~req[q].active
    /\ \A i \in req[q].others :
         /\ i \in DOMAIN settings /\ settings[i].verb = req[q].verb
         /\ req[q].channel # "all" => settings[i].channel = "all"

\* A toggle that nothing overlapped is the only one, it holds the one row of its verb and
\* channel, and it has written every other row that it answers for.
AloneRows ==
  \A q \in Request : req[q] # None /\ req[q].alone =>
    /\ \A k \in Request : k # q => req[k] = None
    /\ N!Rows({req[q].verb}, {req[q].channel}) \subseteq {req[q].row}
    /\ req[q].stage = "written" => req[q].others = N!Others(req[q].verb, req[q].channel)

\* What was turned off has its row, turned off.
OffRows ==
  \A p \in off : \E i \in DOMAIN settings :
    settings[i].verb = p[1] /\ settings[i].channel = p[2] /\ ~settings[i].active

\* The worker gets past its load only with what was committed.
LoadedIsReal ==
  \A e \in Event \ Chat : task[e] \notin {"none", "queued", "lost"}
                            => event[e] \in {"committed", "deleted"}

\* Of a chat message, only the push is asked about.
ChatTasks ==
  \A e \in Event : e \in Chat => /\ task[e] \in {"none", "mailed", "pushing", "done"}
                                 /\ (event[e] = "none" => task[e] = "none")

\* What a delivery was allowed to go out on is on, or was turned off since.
AskedOn ==
  \A p \in Event \X N!Single :
    <<task[p[1]], p[2]>> \in N!Asked /\ {VerbOf[p[1]], AllVerbs} \X {p[2]} \cap off # {}
      => p \in late

\* What a client shows, between the steps of a delivery too.
NeverShown == \A e \in Event \ missed : notes[e] = None \/ e \in deleting =>
                \A x \in Client : e \notin DOMAIN held[x]
Shown == \A e \in Event \ (missed \cup deleting) : notes[e] # None /\ task[e] # "created" =>
           \A x \in Client : /\ e \in DOMAIN held[x]
                             /\ task[e] # "updated" => held[x][e].emailed = notes[e].emailed

NoticesInv == /\ NoticeTypes /\ CallRows /\ AloneRows /\ OffRows /\ AskedOn
              /\ ChatTasks /\ N!OffMeansOff /\ N!AnswersHold /\ LoadedIsReal /\ N!OnlyReal
              /\ NeverShown /\ Shown

-----------------------------------------------------------------------------
(* Notifications: what each step keeps. *)

\* The settings, the toggles and what they answered: the part of the invariant that
\* deliveries and clients leave alone.
SettingsPart == /\ settings \in Seq(N!Setting) /\ Len(settings) <= MaxRows
                /\ off \subseteq Verb \X N!Single
                /\ req \in [Request -> ToggleCall \cup {None}]
                /\ CallRows /\ AloneRows /\ OffRows /\ N!AnswersHold
DeliveryPart == /\ event \in [Event -> {"none", "open", "committed", "failed", "deleted"}]
                /\ task \in [Event -> TaskStates]
                /\ notes \in [Event -> N!Note \cup {None}]
                /\ sent \in [Event -> SUBSET N!Single]
                /\ held = [x \in Client |-> held[x]]
                /\ \A x \in Client : DOMAIN held[x] \subseteq Event
                /\ LoadedIsReal /\ ChatTasks /\ N!OnlyReal /\ NeverShown /\ Shown

\* What is allowed, and what was sent although it was not.
WantedPart == late \subseteq Event \X N!Single /\ AskedOn /\ N!OffMeansOff

LEMMA NoticesParts == NoticesInv <=> SettingsPart /\ DeliveryPart /\ WantedPart
  BY DEF NoticesInv, NoticeTypes, SettingsPart, DeliveryPart, WantedPart, N!TypeOK

LEMMA SettingsKept ==
  ASSUME SettingsPart, UNCHANGED N!settingVars
  PROVE  SettingsPart'
<1>1. settings' = settings /\ req' = req /\ off' = off /\ answer' = answer
  BY DEF N!settingVars
<1>2. /\ \A V, C : N!Rows(V, C)' = N!Rows(V, C)
      /\ \A u, h : N!Others(u, h)' = N!Others(u, h)
      /\ \A u, h : N!can_user_receive_notification(u, h)' = N!can_user_receive_notification(u, h)
  BY <1>1 DEF N!Rows, N!Others, N!can_user_receive_notification
<1>3. CallRows' /\ OffRows'
  BY <1>1 DEF SettingsPart, CallRows, OffRows
<1>4. AloneRows'
  BY <1>1, <1>2 DEF SettingsPart, AloneRows
<1>5. N!AnswersHold'
  BY <1>1, <1>2 DEF SettingsPart, N!AnswersHold
<1> QED BY <1>1, <1>3, <1>4, <1>5 DEF SettingsPart

LEMMA DeliveryKept ==
  ASSUME DeliveryPart, UNCHANGED <<event, task, notes, sent, held, deleting, missed>>
  PROVE  DeliveryPart'
  BY DEF DeliveryPart, LoadedIsReal, ChatTasks, N!OnlyReal, NeverShown, Shown

\* Whatever may be received on a channel was not turned off there.
LEMMA ReceivedIsOn ==
  ASSUME SettingsPart, NEW u, NEW h \in N!Single, N!can_user_receive_notification(u, h)
  PROVE  {u, AllVerbs} \X {h} \cap off = {}
  BY DEF SettingsPart, OffRows, N!can_user_receive_notification, N!Rows

\* The rows of a verb and channel, and their number.
LEMMA RowsFinite ==
  ASSUME SettingsPart, NEW V, NEW C
  PROVE  /\ N!Rows(V, C) \subseteq 1..Len(settings) /\ IsFiniteSet(N!Rows(V, C))
         /\ N!Cardinality(N!Rows(V, C)) = Cardinality(N!Rows(V, C))
         /\ \A i \in N!Rows(V, C) : i \in Nat /\ i # 0
<1>1. settings \in Seq(N!Setting) /\ Len(settings) \in Nat
  BY DEF SettingsPart
<1>2. DOMAIN settings = 1..Len(settings)
  BY <1>1
<1>3. N!Rows(V, C) \subseteq 1..Len(settings)
  BY <1>2 DEF N!Rows
<1>4. IsFiniteSet(1..Len(settings))
  BY <1>1, FS_Interval
<1>5. IsFiniteSet(N!Rows(V, C))
  BY <1>3, <1>4, FS_Subset
<1>6. N!Cardinality(N!Rows(V, C)) = Cardinality(N!Rows(V, C))
  BY SameCardinality
<1>7. \A i \in N!Rows(V, C) : i \in Nat /\ i # 0
  BY <1>1, <1>3
<1> QED BY <1>3, <1>5, <1>6, <1>7

-----------------------------------------------------------------------------
(* Notifications: toggles. *)

\* The new call of Toggle.
Begun(verb, channel) ==
  LET rows == N!Rows({verb}, {channel})
      row == IF rows = {} THEN 0 ELSE CHOOSE i \in rows : TRUE
  IN  [stage |-> "read", verb |-> verb, channel |-> channel, row |-> row,
       active |-> row # 0 /\ ~settings[row].active, others |-> {},
       alone |-> \A x \in Request : req[x] = None]

Fresh(t, verb, channel) ==
  /\ t \in ToggleCall /\ t.stage = "read" /\ t.verb = verb /\ t.channel = channel
  /\ t.others = {}
  /\ t.row = 0 => ~t.active
  /\ t.row # 0 => /\ t.row \in DOMAIN settings
                  /\ settings[t.row].verb = verb /\ settings[t.row].channel = channel
  /\ N!Rows({verb}, {channel}) \subseteq {t.row}
  /\ t.alone => \A x \in Request : req[x] = None

\* get_or_create finds the one row there is, or none.
LEMMA BegunFits ==
  ASSUME SettingsPart, NEW verb \in Verb, NEW channel \in N!Channel,
         N!Cardinality(N!Rows({verb}, {channel})) <= 1
  PROVE  Fresh(Begun(verb, channel), verb, channel)
<1> DEFINE rows == N!Rows({verb}, {channel})
           row == IF rows = {} THEN 0 ELSE CHOOSE i \in rows : TRUE
<1>1. /\ rows \subseteq 1..Len(settings) /\ IsFiniteSet(rows)
      /\ N!Cardinality(rows) = Cardinality(rows) /\ \A i \in rows : i \in Nat /\ i # 0
  BY RowsFinite
<1>2. Cardinality(rows) \in Nat /\ Cardinality(rows) <= 1
  BY <1>1, FS_CardinalityType
<1>3. rows # {} => row \in rows
  OBVIOUS
<1>4. \A i, j \in rows : i = j
  <2>1. SUFFICES ASSUME NEW i \in rows, NEW j \in rows, i # j PROVE FALSE
    OBVIOUS
  <2> HIDE DEF rows
  <2>2. Cardinality(rows \ {i}) = Cardinality(rows) - 1 /\ IsFiniteSet(rows \ {i})
    BY <1>1, <2>1, FS_RemoveElement
  <2>3. Cardinality(rows \ {i}) \in Nat
    BY <2>2, FS_CardinalityType
  <2>4. rows \ {i} = {}
    BY <1>2, <2>2, <2>3, FS_EmptySet
  <2> QED BY <2>1, <2>4
<1>5. rows \subseteq {row} /\ row \in Nat /\ (row = 0 => rows = {})
  BY <1>1, <1>3, <1>4
<1>6. row # 0 => row \in DOMAIN settings /\ settings[row].verb = verb
                 /\ settings[row].channel = channel
  BY <1>3 DEF N!Rows
<1>7. Begun(verb, channel) = [stage |-> "read", verb |-> verb, channel |-> channel, row |-> row,
       active |-> row # 0 /\ ~settings[row].active, others |-> {},
       alone |-> \A x \in Request : req[x] = None]
  BY Zenon DEF Begun
<1>8. (row # 0 /\ ~settings[row].active) \in BOOLEAN /\ (\A x \in Request : req[x] = None) \in BOOLEAN
  BY Zenon
<1> DEFINE active == row # 0 /\ ~settings[row].active
           alone == \A x \in Request : req[x] = None
           fresh == [stage |-> "read", verb |-> verb, channel |-> channel, row |-> row,
                     active |-> active, others |-> {}, alone |-> alone]
<1>9. active \in BOOLEAN /\ alone \in BOOLEAN /\ (row = 0 => ~active)
  BY <1>8
<1>10. alone => \A x \in Request : req[x] = None
  OBVIOUS
<1>11. Begun(verb, channel) = fresh
  BY <1>7
<1> HIDE DEF row, rows, active, alone
<1>12. fresh \in ToggleCall
  BY <1>5, <1>9 DEF ToggleCall
<1>13. fresh.alone = alone
  OBVIOUS
<1>14. /\ fresh.stage = "read" /\ fresh.verb = verb /\ fresh.channel = channel
       /\ fresh.others = {} /\ fresh.row = row /\ fresh.active = active
  OBVIOUS
<1> HIDE DEF fresh
<1>15. rows = N!Rows({verb}, {channel})
  BY DEF rows
<1>16. Fresh(fresh, verb, channel)
  BY <1>5, <1>6, <1>9, <1>10, <1>12, <1>13, <1>14, <1>15 DEF Fresh
<1> QED BY <1>11, <1>16

LEMMA ToggleKeeps ==
  ASSUME SettingsPart, NEW q \in Request, NEW verb \in Verb, NEW channel \in N!Channel,
         N!Toggle(q, verb, channel)
  PROVE  SettingsPart'
<1> DEFINE fresh == Begun(verb, channel)
<1>0. N!Cardinality(N!Rows({verb}, {channel})) <= 1
  BY DEF N!Toggle
<1>1. Fresh(fresh, verb, channel)
  BY <1>0, BegunFits
<1>2. /\ req' = [k \in Request |->
                   IF k = q THEN fresh
                   ELSE IF req[k] = None THEN None ELSE [req[k] EXCEPT !.alone = FALSE]]
      /\ settings' = settings /\ off' = off /\ answer' = answer
  BY DEF N!Toggle, Begun
<1> HIDE DEF fresh
<1>3. \A k \in Request : req[k] # None => req[k] \in ToggleCall
  BY DEF SettingsPart
<1>4. \A k \in Request \ {q} : req[k] # None =>
        /\ req'[k] \in ToggleCall /\ ~req'[k].alone
        /\ req'[k].row = req[k].row /\ req'[k].verb = req[k].verb
        /\ req'[k].channel = req[k].channel /\ req'[k].others = req[k].others
        /\ req'[k].active = req[k].active
  BY <1>2, <1>3 DEF ToggleCall
<1>5. req'[q] = fresh /\ \A k \in Request \ {q} : req[k] = None => req'[k] = None
  BY <1>2
<1>6. req' \in [Request -> ToggleCall \cup {None}]
  <2>1. \A k \in Request : req'[k] \in ToggleCall \cup {None}
    BY <1>1, <1>4, <1>5 DEF Fresh
  <2>2. req' = [k \in Request |-> req'[k]]
    BY <1>2
  <2> QED BY <2>1, <2>2
<1>7. /\ \A V, C : N!Rows(V, C)' = N!Rows(V, C)
      /\ \A u, h : N!Others(u, h)' = N!Others(u, h)
      /\ \A u, h : N!can_user_receive_notification(u, h)' = N!can_user_receive_notification(u, h)
  BY <1>2 DEF N!Rows, N!Others, N!can_user_receive_notification
<1>8. CallRows'
  <2>1. SUFFICES ASSUME NEW k \in Request, req'[k] # None
        PROVE  /\ req'[k].row # 0 => /\ req'[k].row \in DOMAIN settings
                                     /\ settings[req'[k].row].verb = req'[k].verb
                                     /\ settings[req'[k].row].channel = req'[k].channel
               /\ req'[k].row = 0 => ~req'[k].active
               /\ \A i \in req'[k].others :
                    /\ i \in DOMAIN settings /\ settings[i].verb = req'[k].verb
                    /\ req'[k].channel # "all" => settings[i].channel = "all"
    BY <1>2 DEF CallRows
  <2>2. CASE k = q
    BY <1>1, <1>5, <2>2 DEF Fresh
  <2>3. CASE k # q
    <3>1. req[k] # None
      BY <1>5, <2>1, <2>3
    <3> QED BY <1>4, <2>3, <3>1 DEF SettingsPart, CallRows
  <2> QED BY <2>2, <2>3
<1>9. AloneRows'
  <2>1. SUFFICES ASSUME NEW k \in Request, req'[k] # None, req'[k].alone
        PROVE  /\ \A j \in Request : j # k => req'[j] = None
               /\ N!Rows({req'[k].verb}, {req'[k].channel}) \subseteq {req'[k].row}
               /\ req'[k].stage = "written" => req'[k].others = N!Others(req'[k].verb, req'[k].channel)
    BY <1>7 DEF AloneRows
  <2>2. k = q
    BY <1>4, <1>5, <2>1
  <2> QED BY <1>1, <1>5, <2>1, <2>2 DEF Fresh
<1>10. OffRows' /\ N!AnswersHold'
  BY <1>2, <1>7 DEF SettingsPart, OffRows, N!AnswersHold
<1> QED BY <1>2, <1>6, <1>8, <1>9, <1>10 DEF SettingsPart

LEMMA NoticeWriteKeeps ==
  ASSUME SettingsPart, NEW q \in Request, N!Write(q)
  PROVE  SettingsPart'
<1> DEFINE others == N!Others(req[q].verb, req[q].channel)
           call == [req[q] EXCEPT !.stage = "written", !.others = others]
<1>1. /\ req[q] # None /\ req[q].stage = "read" /\ req' = [req EXCEPT ![q] = call]
      /\ settings' = settings /\ off' = off /\ answer' = answer
  BY DEF N!Write
<1>2. req[q] \in ToggleCall
  BY <1>1 DEF SettingsPart
<1>3. others \subseteq Nat
  BY RowsFinite DEF N!Others
<1>4. /\ \A i \in others : /\ i \in DOMAIN settings /\ settings[i].verb = req[q].verb
                           /\ req[q].channel # "all" => settings[i].channel = "all"
  BY DEF N!Others, N!Rows
<1>5. /\ call \in ToggleCall /\ call.stage = "written" /\ call.others = others
      /\ call.verb = req[q].verb /\ call.channel = req[q].channel /\ call.row = req[q].row
      /\ call.active = req[q].active /\ call.alone = req[q].alone
  <2> HIDE DEF others
  <2> QED BY <1>2, <1>3 DEF ToggleCall
<1>6. others = N!Others(call.verb, call.channel)
  BY <1>5
<1> HIDE DEF others, call
<1>7. /\ req' \in [Request -> ToggleCall \cup {None}] /\ req'[q] = call
      /\ \A k \in Request \ {q} : req'[k] = req[k]
  BY <1>1, <1>5 DEF SettingsPart
<1>8. /\ \A V, C : N!Rows(V, C)' = N!Rows(V, C)
      /\ \A u, h : N!Others(u, h)' = N!Others(u, h)
      /\ \A u, h : N!can_user_receive_notification(u, h)' = N!can_user_receive_notification(u, h)
  BY <1>1 DEF N!Rows, N!Others, N!can_user_receive_notification
<1>9. CallRows'
  <2>1. SUFFICES ASSUME NEW k \in Request, req'[k] # None
        PROVE  /\ req'[k].row # 0 => /\ req'[k].row \in DOMAIN settings
                                     /\ settings[req'[k].row].verb = req'[k].verb
                                     /\ settings[req'[k].row].channel = req'[k].channel
               /\ req'[k].row = 0 => ~req'[k].active
               /\ \A i \in req'[k].others :
                    /\ i \in DOMAIN settings /\ settings[i].verb = req'[k].verb
                    /\ req'[k].channel # "all" => settings[i].channel = "all"
    BY <1>1 DEF CallRows
  <2>2. CASE k = q
    BY <1>1, <1>4, <1>5, <1>7, <2>2 DEF SettingsPart, CallRows
  <2>3. CASE k # q
    BY <1>7, <2>1, <2>3 DEF SettingsPart, CallRows
  <2> QED BY <2>2, <2>3
<1>10. AloneRows'
  <2>1. SUFFICES ASSUME NEW k \in Request, req'[k] # None, req'[k].alone
        PROVE  /\ \A j \in Request : j # k => req'[j] = None
               /\ N!Rows({req'[k].verb}, {req'[k].channel}) \subseteq {req'[k].row}
               /\ req'[k].stage = "written" => req'[k].others = N!Others(req'[k].verb, req'[k].channel)
    BY <1>8 DEF AloneRows
  <2>2. CASE k = q
    <3>1. req[q].alone
      BY <1>5, <1>7, <2>1, <2>2
    <3>2. /\ \A j \in Request : j # q => req[j] = None
          /\ N!Rows({req[q].verb}, {req[q].channel}) \subseteq {req[q].row}
      BY <1>1, <3>1 DEF SettingsPart, AloneRows
    <3> QED BY <1>5, <1>6, <1>7, <2>2, <3>2
  <2>3. CASE k # q
    BY <1>1, <1>7, <2>1, <2>3 DEF SettingsPart, AloneRows
  <2> QED BY <2>2, <2>3
<1>11. OffRows' /\ N!AnswersHold'
  BY <1>1, <1>8 DEF SettingsPart, OffRows, N!AnswersHold
<1> QED BY <1>1, <1>7, <1>9, <1>10, <1>11 DEF SettingsPart

LEMMA NoticeRollBackKeeps ==
  ASSUME SettingsPart, NEW q \in Request, N!RollBack(q)
  PROVE  SettingsPart'
<1>1. /\ req' = [req EXCEPT ![q] = None]
      /\ settings' = settings /\ off' = off /\ answer' = answer
  BY DEF N!RollBack
<1>2. /\ req' \in [Request -> ToggleCall \cup {None}] /\ req'[q] = None
      /\ \A k \in Request \ {q} : req'[k] = req[k]
  BY <1>1 DEF SettingsPart
<1>3. /\ \A V, C : N!Rows(V, C)' = N!Rows(V, C)
      /\ \A u, h : N!Others(u, h)' = N!Others(u, h)
      /\ \A u, h : N!can_user_receive_notification(u, h)' = N!can_user_receive_notification(u, h)
  BY <1>1 DEF N!Rows, N!Others, N!can_user_receive_notification
<1>4. CallRows'
  BY <1>1, <1>2 DEF SettingsPart, CallRows
<1>5. AloneRows'
  BY <1>1, <1>2, <1>3 DEF SettingsPart, AloneRows
<1>6. OffRows' /\ N!AnswersHold'
  BY <1>1, <1>3 DEF SettingsPart, OffRows, N!AnswersHold
<1> QED BY <1>1, <1>2, <1>4, <1>5, <1>6 DEF SettingsPart

\* What a commit makes of the settings: row by row, and the row it adds.
LEMMA CommittedRows ==
  ASSUME SettingsPart, NEW q \in Request, N!Commit(q)
  PROVE  LET t == req[q]
         IN  /\ settings' \in Seq(N!Setting) /\ Len(settings') <= MaxRows
             /\ DOMAIN settings \subseteq DOMAIN settings'
             /\ \A i \in DOMAIN settings :
                  /\ settings'[i].verb = settings[i].verb
                  /\ settings'[i].channel = settings[i].channel
                  /\ settings'[i].active = IF i \in t.others \cup {t.row} THEN t.active
                                           ELSE settings[i].active
             /\ t.row # 0 => DOMAIN settings' = DOMAIN settings
             /\ t.row = 0 => \E i \in DOMAIN settings' :
                               /\ settings'[i].verb = t.verb
                               /\ settings'[i].channel = t.channel
                               /\ settings'[i].active = t.active
<1> DEFINE t == req[q]
           written == [i \in DOMAIN settings |->
             IF i \in t.others \cup {t.row} THEN [settings[i] EXCEPT !.active = t.active]
             ELSE settings[i]]
           added == [verb |-> t.verb, channel |-> t.channel, active |-> t.active]
<1>1. /\ t # None /\ t.stage = "written" /\ (t.row = 0 => Len(settings) < MaxRows)
      /\ settings' = IF t.row = 0 THEN Append(written, added) ELSE written
  BY DEF N!Commit, N!Writing
<1>2. settings \in Seq(N!Setting) /\ Len(settings) \in Nat /\ DOMAIN settings = 1..Len(settings)
      /\ Len(settings) <= MaxRows
  BY DEF SettingsPart
<1>3. t \in ToggleCall
  BY <1>1 DEF SettingsPart
<1>4. added \in N!Setting /\ t.active \in BOOLEAN
  BY <1>3 DEF ToggleCall, N!Setting
<1>5. \A i \in DOMAIN settings :
        /\ written[i] \in N!Setting
        /\ written[i].verb = settings[i].verb /\ written[i].channel = settings[i].channel
        /\ written[i].active = IF i \in t.others \cup {t.row} THEN t.active
                               ELSE settings[i].active
  <2>1. SUFFICES ASSUME NEW i \in DOMAIN settings
        PROVE  /\ written[i] \in N!Setting
               /\ written[i].verb = settings[i].verb /\ written[i].channel = settings[i].channel
               /\ written[i].active = IF i \in t.others \cup {t.row} THEN t.active
                                      ELSE settings[i].active
    OBVIOUS
  <2>2. settings[i] \in N!Setting
    BY <1>2
  <2>3. written[i] = IF i \in t.others \cup {t.row} THEN [settings[i] EXCEPT !.active = t.active]
                     ELSE settings[i]
    OBVIOUS
  <2> HIDE DEF written, t
  <2> QED BY <1>4, <2>2, <2>3 DEF N!Setting
<1>6. DOMAIN written = 1..Len(settings)
  BY <1>2
<1> HIDE DEF written, t, added
<1>7. written = [i \in 1..Len(settings) |-> written[i]]
  BY <1>6 DEF written
<1>8. written \in Seq(N!Setting) /\ Len(written) = Len(settings)
  <2>1. \A i \in 1..Len(settings) : written[i] \in N!Setting
    BY <1>2, <1>5
  <2>2. written \in [1..Len(settings) -> N!Setting]
    BY <1>7, <2>1
  <2> QED BY <1>2, <1>6, <2>2
<1>9. CASE t.row # 0
  <2>1. settings' = written
    BY <1>1, <1>9
  <2> QED BY <1>2, <1>5, <1>6, <1>8, <1>9, <2>1 DEF t
<1>10. CASE t.row = 0
  <2>1. settings' = Append(written, added) /\ Len(settings) < MaxRows
    BY <1>1, <1>10
  <2>2. /\ settings' \in Seq(N!Setting) /\ Len(settings') = Len(settings) + 1
        /\ \A i \in 1..Len(settings) : settings'[i] = written[i]
        /\ settings'[Len(settings) + 1] = added
    BY <1>2, <1>4, <1>8, <2>1
  <2>3. DOMAIN settings' = 1..(Len(settings) + 1)
    BY <2>2
  <2>4. added.verb = t.verb /\ added.channel = t.channel /\ added.active = t.active
    BY DEF added
  <2>5. /\ Len(settings') <= MaxRows /\ 1..Len(settings) \subseteq DOMAIN settings'
        /\ Len(settings) + 1 \in DOMAIN settings'
    BY <1>2, <2>1, <2>2, <2>3, BoundAssumption
  <2> QED BY <1>2, <1>5, <1>10, <2>2, <2>4, <2>5 DEF t
<1> QED BY <1>9, <1>10

\* The verbs and channels that the own toggle of a call answers for.
OwnOf(t) == IF t.channel = "all" THEN {t.verb} \X N!Single ELSE {<<t.verb, t.channel>>}

LEMMA NoticeCommitKeeps ==
  ASSUME SettingsPart, NEW q \in Request, N!Commit(q)
  PROVE  SettingsPart'
<1> DEFINE t == req[q]
           own == OwnOf(t)
<1>1. /\ t # None /\ t.stage = "written" /\ req' = [req EXCEPT ![q] = None]
      /\ off' = IF t.active THEN off \ own
                ELSE IF t.channel = "all" THEN off ELSE off \cup own
      /\ answer' = IF t.alone THEN [own |-> own, active |-> t.active] ELSE None
  BY DEF N!Commit, N!Writing, OwnOf
<1>2. /\ settings' \in Seq(N!Setting) /\ Len(settings') <= MaxRows
      /\ DOMAIN settings \subseteq DOMAIN settings'
      /\ \A i \in DOMAIN settings :
           /\ settings'[i].verb = settings[i].verb
           /\ settings'[i].channel = settings[i].channel
           /\ settings'[i].active = IF i \in t.others \cup {t.row} THEN t.active
                                    ELSE settings[i].active
      /\ t.row # 0 => DOMAIN settings' = DOMAIN settings
      /\ t.row = 0 => \E i \in DOMAIN settings' :
                        /\ settings'[i].verb = t.verb
                        /\ settings'[i].channel = t.channel
                        /\ settings'[i].active = t.active
  BY CommittedRows
<1>3. t \in ToggleCall
  BY <1>1 DEF SettingsPart
<1>4. /\ t.verb \in Verb /\ t.channel \in N!Channel /\ t.active \in BOOLEAN
      /\ t.alone \in BOOLEAN
  BY <1>3 DEF ToggleCall
<1>5. /\ t.row # 0 => /\ t.row \in DOMAIN settings /\ settings[t.row].verb = t.verb
                      /\ settings[t.row].channel = t.channel
      /\ t.row = 0 => ~t.active
      /\ \A i \in t.others : /\ i \in DOMAIN settings /\ settings[i].verb = t.verb
                             /\ t.channel # "all" => settings[i].channel = "all"
  BY <1>1 DEF SettingsPart, CallRows
<1>6. t.alone => /\ \A k \in Request : k # q => req[k] = None
                 /\ N!Rows({t.verb}, {t.channel}) \subseteq {t.row}
                 /\ t.others = N!Others(t.verb, t.channel)
  BY <1>1 DEF SettingsPart, AloneRows
<1>7. /\ req' \in [Request -> ToggleCall \cup {None}] /\ req'[q] = None
      /\ \A k \in Request \ {q} : req'[k] = req[k]
  BY <1>1 DEF SettingsPart
<1>8. own \subseteq Verb \X N!Single
  BY <1>4 DEF OwnOf, N!Channel
<1>9. off' \subseteq Verb \X N!Single
  BY <1>1, <1>8 DEF SettingsPart
<1>10. 0 \notin DOMAIN settings
  BY DEF SettingsPart
<1> HIDE DEF t, own
<1>11. CallRows'
  <2>1. SUFFICES ASSUME NEW k \in Request, req'[k] # None
        PROVE  /\ req'[k].row # 0 => /\ req'[k].row \in DOMAIN settings'
                                     /\ settings'[req'[k].row].verb = req'[k].verb
                                     /\ settings'[req'[k].row].channel = req'[k].channel
               /\ req'[k].row = 0 => ~req'[k].active
               /\ \A i \in req'[k].others :
                    /\ i \in DOMAIN settings' /\ settings'[i].verb = req'[k].verb
                    /\ req'[k].channel # "all" => settings'[i].channel = "all"
    BY DEF CallRows
  <2>2. k # q /\ req'[k] = req[k]
    BY <1>7, <2>1
  <2>3. /\ req[k].row # 0 => /\ req[k].row \in DOMAIN settings
                             /\ settings[req[k].row].verb = req[k].verb
                             /\ settings[req[k].row].channel = req[k].channel
        /\ req[k].row = 0 => ~req[k].active
        /\ \A i \in req[k].others :
             /\ i \in DOMAIN settings /\ settings[i].verb = req[k].verb
             /\ req[k].channel # "all" => settings[i].channel = "all"
    BY <2>1, <2>2 DEF SettingsPart, CallRows
  <2> QED BY <1>2, <2>2, <2>3
<1>12. AloneRows'
  <2>1. SUFFICES ASSUME NEW k \in Request, req'[k] # None, req'[k].alone PROVE FALSE
    BY DEF AloneRows
  <2>2. k # q /\ req'[k] = req[k]
    BY <1>7, <2>1
  <2>3. req[q] = None
    BY <2>1, <2>2 DEF SettingsPart, AloneRows
  <2> QED BY <1>1, <2>3 DEF t
<1>13. OffRows'
  <2>1. SUFFICES ASSUME NEW p \in off'
        PROVE  \E i \in DOMAIN settings' : settings'[i].verb = p[1] /\ settings'[i].channel = p[2]
                                           /\ ~settings'[i].active
    BY DEF OffRows
  <2>2. CASE p \in off /\ ~(p \in own /\ t.active)
    <3>1. PICK i \in DOMAIN settings : settings[i].verb = p[1] /\ settings[i].channel = p[2]
                                       /\ ~settings[i].active
      BY <2>2 DEF SettingsPart, OffRows
    <3>2. p[2] \in N!Single /\ p = <<p[1], p[2]>>
      BY <2>2 DEF SettingsPart
    <3>3. CASE ~t.active
      BY <1>2, <3>1, <3>3
    <3>4. CASE t.active
      <4>1. p \notin own
        BY <2>2, <3>4
      <4>2. i # t.row
        BY <1>5, <1>10, <3>1, <3>2, <4>1 DEF own, OwnOf, N!Single
      <4>3. i \notin t.others
        BY <1>5, <3>1, <3>2, <4>1 DEF own, OwnOf, N!Single
      <4> QED BY <1>2, <3>1, <4>2, <4>3
    <3> QED BY <3>3, <3>4
  <2>3. CASE p \in own /\ ~t.active /\ t.channel # "all"
    <3>1. p[1] = t.verb /\ p[2] = t.channel
      BY <2>3 DEF own, OwnOf
    <3>2. CASE t.row # 0
      BY <1>2, <1>5, <2>3, <3>1, <3>2
    <3>3. CASE t.row = 0
      <4>1. PICK i \in DOMAIN settings' : /\ settings'[i].verb = t.verb
                                          /\ settings'[i].channel = t.channel
                                          /\ settings'[i].active = t.active
        BY <1>2, <3>3
      <4> QED BY <2>3, <3>1, <4>1
    <3> QED BY <3>2, <3>3
  <2>4. \/ p \in off /\ ~(p \in own /\ t.active)
        \/ p \in own /\ ~t.active /\ t.channel # "all"
    BY <1>1, <2>1
  <2> QED BY <2>2, <2>3, <2>4
<1>14. N!AnswersHold'
  <2>1. SUFFICES ASSUME answer' # None, NEW p \in answer'.own
        PROVE  IF answer'.active
               THEN (\A i \in N!Rows({AllVerbs}, {p[2], "all"})' : settings'[i].active)
                      => N!can_user_receive_notification(p[1], p[2])'
               ELSE ~N!can_user_receive_notification(p[1], p[2])'
    BY Zenon DEF N!AnswersHold
  <2>2. t.alone /\ answer' = [own |-> own, active |-> t.active]
    BY <1>1, <2>1
  <2>3. answer'.active = t.active /\ p \in own
    BY <2>1, <2>2
  <2>4. p[1] = t.verb /\ p[2] \in N!Single /\ (t.channel # "all" => p[2] = t.channel)
    BY <1>8, <2>3 DEF own, OwnOf
  <2>5. CASE ~t.active
    <3>1. PICK i \in DOMAIN settings' : /\ settings'[i].verb = t.verb
                                        /\ settings'[i].channel = t.channel
                                        /\ settings'[i].active = t.active
      <4>1. CASE t.row = 0
        BY <1>2, <4>1
      <4>2. CASE t.row # 0
        BY <1>2, <1>5, <4>2
      <4> QED BY <4>1, <4>2
    <3>2. i \in N!Rows({p[1], AllVerbs}, {p[2], "all"})'
      BY <2>4, <3>1 DEF N!Rows
    <3>3. ~N!can_user_receive_notification(p[1], p[2])'
      BY <2>5, <3>1, <3>2 DEF N!can_user_receive_notification
    <3> QED BY <2>3, <2>5, <3>3
  <2>6. CASE t.active
    <3>1. SUFFICES ASSUME \A i \in N!Rows({AllVerbs}, {p[2], "all"})' : settings'[i].active,
                          NEW i \in N!Rows({p[1], AllVerbs}, {p[2], "all"})'
          PROVE  settings'[i].active
      BY <2>3, <2>6 DEF N!can_user_receive_notification
    <3>2. i \in DOMAIN settings /\ settings'[i].verb = settings[i].verb
          /\ settings'[i].channel = settings[i].channel
      BY <1>2, <1>5, <2>6, <3>1 DEF N!Rows
    <3>3. CASE settings[i].verb = AllVerbs
      BY <1>2, <3>1, <3>2, <3>3 DEF N!Rows
    <3>4. CASE settings[i].verb # AllVerbs
      <4>1. settings[i].verb = t.verb /\ settings[i].channel \in {p[2], "all"}
        BY <2>4, <3>1, <3>2, <3>4 DEF N!Rows
      <4>2. i \in t.others \cup {t.row}
        BY <1>6, <2>2, <2>4, <3>2, <4>1 DEF N!Rows, N!Others, N!Channel
      <4> QED BY <1>2, <2>6, <3>2, <4>2
    <3> QED BY <3>3, <3>4
  <2> QED BY <2>5, <2>6
<1> QED BY <1>2, <1>7, <1>9, <1>11, <1>12, <1>13, <1>14 DEF SettingsPart

-----------------------------------------------------------------------------
(* Notifications: deliveries and clients. *)

LEMMA CreatedKeeps ==
  ASSUME DeliveryPart, NEW e \in Event, N!notify_on_created(e)
  PROVE  DeliveryPart'
<1>1. /\ event[e] = "none" /\ event' = [event EXCEPT ![e] = "open"]
      /\ notes' = notes /\ held' = held /\ deleting' = deleting /\ missed' = missed
      /\ sent' = sent
      /\ task' = [task EXCEPT ![e] = IF e \in Chat THEN "mailed" ELSE "queued"]
  BY DEF N!notify_on_created, N!clientVars
<1>2. /\ event' \in [Event -> {"none", "open", "committed", "failed", "deleted"}]
      /\ task' \in [Event -> TaskStates]
  BY <1>1 DEF DeliveryPart, TaskStates
<1>3. e \notin Chat => task[e] \in {"none", "queued", "lost"}
  BY <1>1 DEF DeliveryPart, LoadedIsReal, ChatTasks
<1>4. e \in Chat => task[e] = "none"
  BY <1>1 DEF DeliveryPart, ChatTasks
<1>5. LoadedIsReal' /\ ChatTasks' /\ N!OnlyReal'
  <2>1. LoadedIsReal'
    BY <1>1 DEF DeliveryPart, LoadedIsReal
  <2>2. ChatTasks'
    BY <1>1 DEF DeliveryPart, ChatTasks
  <2>3. N!OnlyReal'
    BY <1>1 DEF DeliveryPart, LoadedIsReal, N!OnlyReal
  <2> QED BY <2>1, <2>2, <2>3
<1>6. NeverShown' /\ Shown'
  BY <1>1, <1>3, <1>4 DEF DeliveryPart, NeverShown, Shown
<1> QED BY <1>1, <1>2, <1>5, <1>6 DEF DeliveryPart

LEMMA SettleKeeps ==
  ASSUME DeliveryPart, NEW e \in Event, NEW fate, N!Settle(e, fate)
  PROVE  DeliveryPart'
<1>1. /\ <<event[e], fate>> \in {<<"open", "committed">>, <<"open", "failed">>,
                                 <<"committed", "deleted">>}
      /\ event' = [event EXCEPT ![e] = fate] /\ unwanted' = unwanted
      /\ task' = task /\ notes' = notes /\ sent' = sent
      /\ held' = held /\ deleting' = deleting /\ missed' = missed
  BY DEF N!Settle, N!clientVars
<1>2. \/ event[e] = "open" /\ fate \in {"committed", "failed"}
      \/ event[e] = "committed" /\ fate = "deleted"
  BY <1>1
<1>3. event' \in [Event -> {"none", "open", "committed", "failed", "deleted"}]
  BY <1>1, <1>2 DEF DeliveryPart
<1>4. LoadedIsReal' /\ ChatTasks' /\ N!OnlyReal'
  <2>1. LoadedIsReal'
    BY <1>1, <1>2 DEF DeliveryPart, LoadedIsReal
  <2>2. ChatTasks'
    BY <1>1, <1>2 DEF DeliveryPart, ChatTasks
  <2>3. N!OnlyReal'
    BY <1>1, <1>2 DEF DeliveryPart, LoadedIsReal, N!OnlyReal
  <2> QED BY <2>1, <2>2, <2>3
<1>5. NeverShown' /\ Shown'
  BY <1>1 DEF DeliveryPart, NeverShown, Shown
<1> QED BY <1>1, <1>3, <1>4, <1>5 DEF DeliveryPart

LEMMA LoadKeeps ==
  ASSUME DeliveryPart, NEW e \in Event, N!Load(e)
  PROVE  DeliveryPart'
<1>1. /\ task[e] = "queued"
      /\ task' = [task EXCEPT ![e] = IF event[e] = "committed" THEN "loaded" ELSE "lost"]
      /\ event' = event /\ notes' = notes /\ sent' = sent
      /\ held' = held /\ deleting' = deleting /\ missed' = missed
  BY DEF N!Load, N!Found, N!clientVars
<1>2. task' \in [Event -> TaskStates]
  BY <1>1 DEF DeliveryPart, TaskStates
<1>3. LoadedIsReal' /\ ChatTasks' /\ N!OnlyReal'
  <2>1. LoadedIsReal'
    BY <1>1 DEF DeliveryPart, LoadedIsReal
  <2>2. ChatTasks'
    BY <1>1 DEF DeliveryPart, ChatTasks
  <2>3. N!OnlyReal'
    BY <1>1 DEF DeliveryPart, LoadedIsReal, N!OnlyReal
  <2> QED BY <2>1, <2>2, <2>3
<1>4. NeverShown' /\ Shown'
  BY <1>1 DEF DeliveryPart, NeverShown, Shown
<1> QED BY <1>1, <1>2, <1>3, <1>4 DEF DeliveryPart

LEMMA AskKeeps ==
  ASSUME DeliveryPart, NEW e \in Event, N!AskInApp(e) \/ N!AskEmail(e) \/ N!AskPush(e)
  PROVE  DeliveryPart'
<1>1. /\ event' = event /\ notes' = notes /\ sent' = sent
      /\ held' = held /\ deleting' = deleting /\ missed' = missed
      /\ \/ task[e] \in {"loaded", "noted"}
            /\ \/ task' = [task EXCEPT ![e] = "noting"] \/ task' = [task EXCEPT ![e] = "noted"]
               \/ task' = [task EXCEPT ![e] = "mailing"] \/ task' = [task EXCEPT ![e] = "mailed"]
         \/ task[e] = "mailed"
            /\ \/ task' = [task EXCEPT ![e] = "pushing"] \/ task' = [task EXCEPT ![e] = "done"]
  BY DEF N!AskInApp, N!AskEmail, N!AskPush, N!Ask, N!clientVars
<1>2. task' \in [Event -> TaskStates]
  BY <1>1 DEF DeliveryPart, TaskStates
<1>3. LoadedIsReal' /\ ChatTasks' /\ N!OnlyReal'
  <2>1. LoadedIsReal'
    BY <1>1 DEF DeliveryPart, LoadedIsReal
  <2>2. ChatTasks'
    BY <1>1 DEF DeliveryPart, ChatTasks
  <2>3. N!OnlyReal'
    BY <1>1 DEF DeliveryPart, LoadedIsReal, N!OnlyReal
  <2> QED BY <2>1, <2>2, <2>3
<1>4. NeverShown' /\ Shown'
  BY <1>1 DEF DeliveryPart, NeverShown, Shown
<1> QED BY <1>1, <1>2, <1>3, <1>4 DEF DeliveryPart

LEMMA InAppKeeps ==
  ASSUME DeliveryPart, NEW e \in Event, N!InApp(e)
  PROVE  DeliveryPart'
<1> DEFINE new == [unread |-> TRUE, emailed |-> FALSE]
<1>1. /\ task[e] = "noting" /\ event' = event
      /\ held' = held /\ deleting' = deleting /\ missed' = missed
      /\ notes' = [notes EXCEPT ![e] = new] /\ sent' = [sent EXCEPT ![e] = @ \cup {"in_app"}]
      /\ task' = [task EXCEPT ![e] = "created"]
  BY DEF N!InApp, N!Send, N!clientVars
<1>2. e \notin Chat /\ event[e] \in {"committed", "deleted"}
  BY <1>1 DEF DeliveryPart, LoadedIsReal, ChatTasks
<1>3. new \in N!Note
  BY DEF N!Note
<1> HIDE DEF new
<1>4. /\ task' \in [Event -> TaskStates] /\ notes' \in [Event -> N!Note \cup {None}]
      /\ sent' \in [Event -> SUBSET N!Single]
  BY <1>1, <1>3 DEF DeliveryPart, TaskStates, N!Single
<1>5. LoadedIsReal' /\ ChatTasks' /\ N!OnlyReal'
  <2>1. LoadedIsReal'
    BY <1>1, <1>2 DEF DeliveryPart, LoadedIsReal
  <2>2. ChatTasks'
    BY <1>1, <1>2 DEF DeliveryPart, ChatTasks
  <2>3. N!OnlyReal'
    BY <1>1, <1>2 DEF DeliveryPart, LoadedIsReal, N!OnlyReal
  <2> QED BY <2>1, <2>2, <2>3
<1>6. NeverShown'
  <2>1. SUFFICES ASSUME NEW k \in Event \ missed, notes'[k] = None \/ k \in deleting,
                        NEW x \in Client
        PROVE  k \notin DOMAIN held[x]
    BY <1>1 DEF NeverShown
  <2>2. CASE k = e
    <3>1. notes'[e] = new
      BY <1>1 DEF DeliveryPart
    <3>2. e \in deleting
      BY <1>3, <2>1, <2>2, <3>1, NoneAssumption
    <3> QED BY <2>1, <2>2, <3>2 DEF DeliveryPart, NeverShown
  <2>3. CASE k # e
    BY <1>1, <2>1, <2>3 DEF DeliveryPart, NeverShown
  <2> QED BY <2>2, <2>3
<1>7. Shown'
  BY <1>1 DEF DeliveryPart, Shown
<1> QED BY <1>1, <1>4, <1>5, <1>6, <1>7 DEF DeliveryPart

LEMMA EmailKeeps ==
  ASSUME DeliveryPart, NEW e \in Event, N!Email(e)
  PROVE  DeliveryPart'
<1>1. /\ task[e] = "mailing" /\ event' = event /\ notes' = notes
      /\ held' = held /\ deleting' = deleting /\ missed' = missed
      /\ sent' = [sent EXCEPT ![e] = @ \cup {"email"}]
      /\ \/ task' = [task EXCEPT ![e] = "stamping"] \/ task' = [task EXCEPT ![e] = "mailed"]
  BY DEF N!Email, N!Send, N!clientVars
<1>2. e \notin Chat /\ event[e] \in {"committed", "deleted"}
  BY <1>1 DEF DeliveryPart, LoadedIsReal, ChatTasks
<1>3. /\ task' \in [Event -> TaskStates] /\ sent' \in [Event -> SUBSET N!Single]
  BY <1>1 DEF DeliveryPart, TaskStates, N!Single
<1>4. LoadedIsReal' /\ ChatTasks' /\ N!OnlyReal'
  <2>1. LoadedIsReal'
    BY <1>1, <1>2 DEF DeliveryPart, LoadedIsReal
  <2>2. ChatTasks'
    BY <1>1, <1>2 DEF DeliveryPart, ChatTasks
  <2>3. N!OnlyReal'
    BY <1>1, <1>2 DEF DeliveryPart, LoadedIsReal, N!OnlyReal
  <2> QED BY <2>1, <2>2, <2>3
<1>5. NeverShown' /\ Shown'
  BY <1>1 DEF DeliveryPart, NeverShown, Shown
<1> QED BY <1>1, <1>3, <1>4, <1>5 DEF DeliveryPart

LEMMA StampKeeps ==
  ASSUME DeliveryPart, NEW e \in Event, N!Stamp(e)
  PROVE  DeliveryPart'
<1>1. /\ task[e] = "stamping" /\ event' = event /\ sent' = sent
      /\ held' = held /\ deleting' = deleting /\ missed' = missed
      /\ \/ notes' = notes /\ task' = [task EXCEPT ![e] = "died"]
         \/ /\ notes[e] # None /\ notes' = [notes EXCEPT ![e].emailed = TRUE]
            /\ task' = [task EXCEPT ![e] = "updated"]
  BY DEF N!Stamp, N!clientVars
<1>2. e \notin Chat /\ event[e] \in {"committed", "deleted"}
  BY <1>1 DEF DeliveryPart, LoadedIsReal, ChatTasks
<1>3. task' \in [Event -> TaskStates]
  BY <1>1 DEF DeliveryPart, TaskStates
<1>4. /\ notes' \in [Event -> N!Note \cup {None}]
      /\ \A k \in Event : notes'[k] = None <=> notes[k] = None
      /\ \A k \in Event \ {e} : notes'[k] = notes[k]
  <2>1. CASE notes' = notes
    BY <2>1 DEF DeliveryPart
  <2>2. CASE notes[e] # None /\ notes' = [notes EXCEPT ![e].emailed = TRUE]
    <3> DEFINE new == [notes[e] EXCEPT !.emailed = TRUE]
    <3>1. notes[e] \in N!Note
      BY <2>2 DEF DeliveryPart
    <3>2. new \in N!Note /\ new # None
      BY <3>1, NoneAssumption DEF N!Note
    <3>3. notes' = [notes EXCEPT ![e] = new]
      BY <2>2
    <3> HIDE DEF new
    <3> QED BY <2>2, <3>2, <3>3 DEF DeliveryPart
  <2> QED BY <1>1, <2>1, <2>2
<1>5. LoadedIsReal' /\ ChatTasks'
  BY <1>1, <1>2 DEF DeliveryPart, LoadedIsReal, ChatTasks
<1>6. N!OnlyReal'
  BY <1>1, <1>2, <1>4 DEF DeliveryPart, N!OnlyReal
<1>7. NeverShown'
  BY <1>1, <1>4 DEF DeliveryPart, NeverShown
<1>8. Shown'
  BY <1>1, <1>4 DEF DeliveryPart, Shown
<1> QED BY <1>1, <1>3, <1>4, <1>5, <1>6, <1>7, <1>8 DEF DeliveryPart

LEMMA PushKeeps ==
  ASSUME DeliveryPart, NEW e \in Event, N!Push(e)
  PROVE  DeliveryPart'
<1>1. /\ task[e] = "pushing" /\ event' = event /\ notes' = notes
      /\ task' = [task EXCEPT ![e] = "done"] /\ sent' = [sent EXCEPT ![e] = @ \cup {"push"}]
      /\ held' = held /\ deleting' = deleting /\ missed' = missed
  BY DEF N!Push, N!Send, N!clientVars
<1>2. e \notin Chat => event[e] \in {"committed", "deleted"}
  BY <1>1 DEF DeliveryPart, LoadedIsReal, ChatTasks
<1>3. sent' \in [Event -> SUBSET N!Single] /\ task' \in [Event -> TaskStates]
  BY <1>1 DEF DeliveryPart, N!Single, TaskStates
<1>4. LoadedIsReal' /\ ChatTasks' /\ N!OnlyReal'
  <2>1. LoadedIsReal'
    BY <1>1, <1>2 DEF DeliveryPart, LoadedIsReal
  <2>2. ChatTasks'
    BY <1>1, <1>2 DEF DeliveryPart, ChatTasks
  <2>3. N!OnlyReal'
    BY <1>1, <1>2 DEF DeliveryPart, LoadedIsReal, N!OnlyReal
  <2> QED BY <2>1, <2>2, <2>3
<1>5. NeverShown' /\ Shown'
  BY <1>1 DEF DeliveryPart, NeverShown, Shown
<1> QED BY <1>1, <1>3, <1>4, <1>5 DEF DeliveryPart

LEMMA BroadcastKeeps ==
  ASSUME DeliveryPart, NEW e \in Event, N!Broadcast(e)
  PROVE  DeliveryPart'
<1>1. /\ task[e] \in {"created", "updated"} /\ event' = event /\ notes' = notes /\ sent' = sent
      /\ unwanted' = unwanted /\ deleting' = deleting
      /\ missed' = IF e \in deleting THEN missed \cup {e} ELSE missed
  BY DEF N!Broadcast
<1>2. /\ task' \in [Event -> TaskStates] /\ task'[e] \in {"noted", "mailed"}
      /\ \A k \in Event \ {e} : task'[k] = task[k]
  BY <1>1 DEF N!Broadcast, DeliveryPart, TaskStates
<1>3. /\ held' = [x \in Client |-> held'[x]]
      /\ \A x \in Client :
           /\ DOMAIN held'[x] \subseteq Event
           /\ \A k \in Event \ {e} : /\ k \in DOMAIN held'[x] <=> k \in DOMAIN held[x]
                                     /\ k \in DOMAIN held[x] => held'[x][k] = held[x][k]
           /\ notes[e] = None => (e \in DOMAIN held'[x] <=> e \in DOMAIN held[x])
           /\ notes[e] # None /\ (task[e] = "created" \/ e \in DOMAIN held[x])
                => e \in DOMAIN held'[x] /\ held'[x][e] = notes[e]
  <2>1. CASE notes[e] = None
    BY <2>1 DEF N!Broadcast, DeliveryPart
  <2>2. CASE notes[e] # None
    <3>1. held' = [x \in Client |->
                     IF task[e] = "created" \/ e \in DOMAIN held[x]
                     THEN N!With(held[x], e, notes[e]) ELSE held[x]]
      BY <2>2 DEF N!Broadcast, N!created
    <3>2. \A x \in Client :
            /\ DOMAIN N!With(held[x], e, notes[e]) = DOMAIN held[x] \cup {e}
            /\ N!With(held[x], e, notes[e])[e] = notes[e]
            /\ \A k \in DOMAIN held[x] \ {e} : N!With(held[x], e, notes[e])[k] = held[x][k]
      BY DEF N!With
    <3>3. \A x \in Client :
            \/ /\ task[e] # "created" /\ e \notin DOMAIN held[x]
               /\ held'[x] = held[x]
            \/ /\ DOMAIN held'[x] = DOMAIN held[x] \cup {e}
               /\ held'[x][e] = notes[e]
               /\ \A k \in DOMAIN held[x] \ {e} : held'[x][k] = held[x][k]
      BY <3>1, <3>2
    <3>4. held' = [x \in Client |-> held'[x]]
      BY <3>1
    <3>5. \A x \in Client : DOMAIN held[x] \subseteq Event
      BY DEF DeliveryPart
    <3> QED BY <2>2, <3>3, <3>4, <3>5
  <2> QED BY <2>1, <2>2
<1>4. LoadedIsReal' /\ ChatTasks'
  BY <1>1, <1>2 DEF DeliveryPart, LoadedIsReal, ChatTasks
<1>5. N!OnlyReal'
  BY <1>1 DEF DeliveryPart, N!OnlyReal
<1>6. NeverShown'
  <2>1. SUFFICES ASSUME NEW k \in Event \ missed', notes[k] = None \/ k \in deleting,
                        NEW x \in Client
        PROVE  k \notin DOMAIN held'[x]
    BY <1>1 DEF NeverShown
  <2>2. k \notin missed /\ k \notin DOMAIN held[x]
    BY <1>1, <2>1 DEF DeliveryPart, NeverShown
  <2>3. k = e => notes[e] = None
    BY <1>1, <2>1
  <2> QED BY <1>3, <2>1, <2>2, <2>3
<1>7. Shown'
  <2>1. SUFFICES ASSUME NEW k \in Event \ (missed' \cup deleting), notes[k] # None,
                        task'[k] # "created", NEW x \in Client
        PROVE  /\ k \in DOMAIN held'[x]
               /\ task'[k] # "updated" => held'[x][k].emailed = notes[k].emailed
    BY <1>1 DEF Shown
  <2>2. k \notin missed
    BY <1>1, <2>1
  <2>3. CASE k = e
    <3>1. task[e] = "created" \/ e \in DOMAIN held[x]
      BY <1>1, <2>1, <2>2, <2>3 DEF DeliveryPart, Shown
    <3> QED BY <1>3, <2>1, <2>3, <3>1
  <2>4. CASE k # e
    <3>1. /\ k \in DOMAIN held[x]
          /\ task[k] # "updated" => held[x][k].emailed = notes[k].emailed
      BY <1>2, <2>1, <2>2, <2>4 DEF DeliveryPart, Shown
    <3> QED BY <1>2, <1>3, <2>1, <2>4, <3>1
  <2> QED BY <2>3, <2>4
<1> QED BY <1>1, <1>2, <1>3, <1>4, <1>5, <1>6, <1>7 DEF DeliveryPart

LEMMA DeleteKeeps ==
  ASSUME DeliveryPart, NEW e \in Event, N!Delete(e)
  PROVE  DeliveryPart'
<1>1. /\ event' = event /\ task' = task /\ notes' = notes /\ sent' = sent
      /\ unwanted' = unwanted /\ missed' = missed
      /\ deleting' = deleting \cup {e}
      /\ held' = [x \in Client |-> N!Without(held[x], e)]
  BY DEF N!Delete
<1>2. \A x \in Client :
        /\ DOMAIN held'[x] = DOMAIN held[x] \ {e}
        /\ \A k \in DOMAIN held[x] \ {e} : held'[x][k] = held[x][k]
  BY <1>1 DEF N!Without
<1>3. held' = [x \in Client |-> held'[x]]
  BY <1>1
<1>4. LoadedIsReal' /\ ChatTasks' /\ N!OnlyReal'
  <2>1. LoadedIsReal'
    BY <1>1 DEF DeliveryPart, LoadedIsReal
  <2>2. ChatTasks'
    BY <1>1 DEF DeliveryPart, ChatTasks
  <2>3. N!OnlyReal'
    BY <1>1 DEF DeliveryPart, LoadedIsReal, N!OnlyReal
  <2> QED BY <2>1, <2>2, <2>3
<1>5. NeverShown'
  <2>1. SUFFICES ASSUME NEW k \in Event \ missed, notes[k] = None \/ k \in deleting',
                        NEW x \in Client
        PROVE  k \notin DOMAIN held'[x]
    BY <1>1 DEF NeverShown
  <2>2. k # e => k \notin DOMAIN held[x]
    BY <1>1, <2>1 DEF DeliveryPart, NeverShown
  <2> QED BY <1>2, <2>2
<1>6. Shown'
  <2>1. SUFFICES ASSUME NEW k \in Event \ (missed \cup deleting'), notes[k] # None,
                        task[k] # "created", NEW x \in Client
        PROVE  /\ k \in DOMAIN held'[x]
               /\ task[k] # "updated" => held'[x][k].emailed = notes[k].emailed
    BY <1>1 DEF Shown
  <2>2. k # e
    BY <1>1, <2>1
  <2>3. /\ k \in DOMAIN held[x]
        /\ task[k] # "updated" => held[x][k].emailed = notes[k].emailed
    BY <1>1, <2>1 DEF DeliveryPart, Shown
  <2> QED BY <1>2, <2>2, <2>3
<1> QED BY <1>1, <1>2, <1>3, <1>4, <1>5, <1>6 DEF DeliveryPart

LEMMA DeleteEndsKeeps ==
  ASSUME DeliveryPart, NEW e \in Event, NEW fails \in BOOLEAN,
         N!DeleteEnds(e, fails)
  PROVE  DeliveryPart'
<1>1. /\ event' = event /\ task' = task /\ sent' = sent /\ held' = held
      /\ unwanted' = unwanted /\ e \in deleting /\ deleting' = deleting \ {e}
      /\ notes' = IF fails THEN notes ELSE [notes EXCEPT ![e] = None]
      /\ missed' = IF fails THEN missed \cup {e} ELSE missed
  BY DEF N!DeleteEnds, N!settingVars
<1>2. notes' \in [Event -> N!Note \cup {None}]
  BY <1>1 DEF DeliveryPart
<1>3. LoadedIsReal' /\ ChatTasks' /\ N!OnlyReal'
  <2>1. LoadedIsReal'
    BY <1>1 DEF DeliveryPart, LoadedIsReal
  <2>2. ChatTasks'
    BY <1>1 DEF DeliveryPart, ChatTasks
  <2>3. N!OnlyReal'
    BY <1>1 DEF DeliveryPart, LoadedIsReal, N!OnlyReal
  <2> QED BY <2>1, <2>2, <2>3
<1>4. NeverShown' /\ Shown'
  BY <1>1 DEF DeliveryPart, NeverShown, Shown
<1> QED BY <1>1, <1>2, <1>3, <1>4 DEF DeliveryPart

LEMMA MarkAsReadKeeps ==
  ASSUME DeliveryPart, NEW y \in Client, NEW S \in SUBSET Event,
         NEW read \in BOOLEAN, N!MarkAsRead(y, S, read)
  PROVE  DeliveryPart'
<1>1. /\ event' = event /\ task' = task /\ sent' = sent /\ unwanted' = unwanted
      /\ deleting' = deleting /\ missed' = missed
      /\ \A k \in S : notes[k] # None
      /\ notes' = [k \in Event |-> IF k \in S THEN [notes[k] EXCEPT !.unread = ~read] ELSE notes[k]]
      /\ held' = [held EXCEPT ![y] = [k \in DOMAIN held[y] |->
                                        IF k \in S THEN notes'[k] ELSE held[y][k]]]
  BY DEF N!MarkAsRead, N!settingVars
<1>2. \A k \in S : /\ notes'[k] \in N!Note /\ notes'[k] # None
                   /\ notes'[k].emailed = notes[k].emailed
  <2>1. SUFFICES ASSUME NEW k \in S
                 PROVE  /\ notes'[k] \in N!Note /\ notes'[k] # None
                        /\ notes'[k].emailed = notes[k].emailed
    OBVIOUS
  <2>2. notes[k] \in N!Note /\ notes'[k] = [notes[k] EXCEPT !.unread = ~read]
    BY <1>1 DEF DeliveryPart
  <2> QED BY <2>2, NoneAssumption DEF N!Note
<1>3. \A k \in Event \ S : notes'[k] = notes[k]
  BY <1>1
<1>4. notes' \in [Event -> N!Note \cup {None}]
  <2>1. \A k \in Event : notes'[k] \in N!Note \cup {None}
    BY <1>2, <1>3 DEF DeliveryPart
  <2>2. notes' = [k \in Event |-> notes'[k]]
    BY <1>1
  <2> QED BY <2>1, <2>2
<1>5. /\ held' = [x \in Client |-> held'[x]]
      /\ \A x \in Client : /\ DOMAIN held'[x] = DOMAIN held[x]
                           /\ \A k \in DOMAIN held[x] :
                                held'[x][k] = held[x][k] \/ (k \in S /\ held'[x][k] = notes'[k])
  BY <1>1 DEF DeliveryPart
<1>6. LoadedIsReal' /\ ChatTasks'
  BY <1>1 DEF DeliveryPart, LoadedIsReal, ChatTasks
<1>7. N!OnlyReal'
  BY <1>1, <1>3 DEF DeliveryPart, N!OnlyReal
<1>8. NeverShown'
  BY <1>1, <1>2, <1>3, <1>5 DEF DeliveryPart, NeverShown
<1>9. Shown'
  <2>1. SUFFICES ASSUME NEW k \in Event \ (missed \cup deleting), notes'[k] # None,
                        task[k] # "created", NEW x \in Client
        PROVE  /\ k \in DOMAIN held'[x]
               /\ task[k] # "updated" => held'[x][k].emailed = notes'[k].emailed
    BY <1>1 DEF Shown
  <2>2. notes[k] # None /\ notes'[k].emailed = notes[k].emailed
    BY <1>1, <1>2, <1>3, <2>1
  <2>3. /\ k \in DOMAIN held[x]
        /\ task[k] # "updated" => held[x][k].emailed = notes[k].emailed
    BY <2>1, <2>2 DEF DeliveryPart, Shown
  <2> QED BY <1>5, <2>2, <2>3
<1> QED BY <1>1, <1>4, <1>5, <1>6, <1>7, <1>8, <1>9 DEF DeliveryPart

LEMMA RefreshKeeps ==
  ASSUME DeliveryPart, NEW y \in Client, N!Refresh(y)
  PROVE  DeliveryPart'
<1>1. /\ event' = event /\ task' = task /\ notes' = notes /\ sent' = sent
      /\ unwanted' = unwanted /\ deleting' = deleting /\ missed' = missed \cup deleting
      /\ held' = [held EXCEPT ![y] = [k \in {j \in Event : notes[j] # None} |-> notes[k]]]
  BY DEF N!Refresh
<1>2. /\ held' = [x \in Client |-> held'[x]]
      /\ \A x \in Client \ {y} : held'[x] = held[x]
      /\ DOMAIN held'[y] = {j \in Event : notes[j] # None}
      /\ \A k \in DOMAIN held'[y] : held'[y][k] = notes[k]
  BY <1>1 DEF DeliveryPart
<1>3. LoadedIsReal' /\ ChatTasks' /\ N!OnlyReal'
  <2>1. LoadedIsReal'
    BY <1>1 DEF DeliveryPart, LoadedIsReal
  <2>2. ChatTasks'
    BY <1>1 DEF DeliveryPart, ChatTasks
  <2>3. N!OnlyReal'
    BY <1>1 DEF DeliveryPart, LoadedIsReal, N!OnlyReal
  <2> QED BY <2>1, <2>2, <2>3
<1>4. NeverShown'
  BY <1>1, <1>2 DEF DeliveryPart, NeverShown
<1>5. Shown'
  BY <1>1, <1>2 DEF DeliveryPart, Shown
<1>6. \A x \in Client : DOMAIN held'[x] \subseteq Event
  BY <1>2 DEF DeliveryPart
<1> QED BY <1>1, <1>2, <1>3, <1>4, <1>5, <1>6 DEF DeliveryPart

-----------------------------------------------------------------------------
(* Notifications: what goes out is wanted. *)

\* A step that turns nothing off, sends nothing and is allowed nothing.
LEMMA WantedKept ==
  ASSUME WantedPart, UNCHANGED <<off, late, unwanted>>,
         \A k \in Event : \/ task'[k] = task[k]
                          \/ task'[k] \notin {"noting", "mailing", "pushing"}
  PROVE  WantedPart'
<1>1. AskedOn'
  BY DEF WantedPart, AskedOn, N!Asked
<1> QED BY <1>1 DEF WantedPart, N!OffMeansOff

\* What goes out goes out on a channel that is on, or was turned off since it asked.
LEMMA SendWanted ==
  ASSUME WantedPart, NEW e \in Event, NEW h \in N!Single, <<task[e], h>> \in N!Asked,
         N!Send(e, h)
  PROVE  unwanted' = unwanted
<1>1. {VerbOf[e], AllVerbs} \X {h} \cap off # {} => <<e, h>> \in late
  BY DEF WantedPart, AskedOn
<1> QED BY <1>1 DEF N!Send

LEMMA AskWanted ==
  ASSUME SettingsPart, DeliveryPart, WantedPart, NEW e \in Event, NEW h \in N!Single,
         NEW at, NEW to, NEW next \in {"noted", "mailed", "done"},
         \A g \in N!Single : <<to, g>> \in N!Asked => g = h,
         N!Ask(e, h, at, to, next)
  PROVE  WantedPart'
<1>1. /\ UNCHANGED <<off, late, unwanted>>
      /\ task' = [task EXCEPT ![e] = IF N!can_user_receive_notification(VerbOf[e], h)
                                     THEN to ELSE next]
  BY DEF N!Ask, N!settingVars
<1>2. CASE N!can_user_receive_notification(VerbOf[e], h)
  <2>1. {VerbOf[e], AllVerbs} \X {h} \cap off = {}
    BY <1>2, ReceivedIsOn
  <2>2. task'[e] = to /\ \A k \in Event \ {e} : task'[k] = task[k]
    BY <1>1, <1>2 DEF DeliveryPart
  <2>3. AskedOn'
    <3>1. SUFFICES ASSUME NEW p \in Event \X N!Single, <<task'[p[1]], p[2]>> \in N!Asked,
                          {VerbOf[p[1]], AllVerbs} \X {p[2]} \cap off # {}
          PROVE  p \in late
      BY <1>1 DEF AskedOn
    <3>2. p[1] # e
      BY <2>1, <2>2, <3>1
    <3> QED BY <2>2, <3>1, <3>2 DEF WantedPart, AskedOn
  <2> QED BY <1>1, <2>3 DEF WantedPart, N!OffMeansOff
<1>3. CASE ~N!can_user_receive_notification(VerbOf[e], h)
  <2>1. \A k \in Event : task'[k] = task[k] \/ task'[k] = next
    BY <1>1, <1>3 DEF DeliveryPart
  <2> QED BY <1>1, <2>1, WantedKept
<1> QED BY <1>2, <1>3

\* A toggle that commits notes the deliveries that had asked before it.
LEMMA CommitWanted ==
  ASSUME SettingsPart, DeliveryPart, WantedPart, NEW q \in Request, N!Commit(q)
  PROVE  WantedPart'
<1> DEFINE t == req[q]
           own == OwnOf(t)
           since == {p \in Event \X {t.channel} : /\ <<task[p[1]], p[2]>> \in N!Asked
                                                 /\ t.verb \in {VerbOf[p[1]], AllVerbs}}
<1>1. /\ t # None /\ task' = task /\ unwanted' = unwanted
      /\ off' = IF t.active THEN off \ own
                ELSE IF t.channel = "all" THEN off ELSE off \cup own
      /\ late' = IF t.active \/ t.channel = "all" THEN late ELSE late \cup since
  BY DEF N!Commit, N!Writing, OwnOf
<1>2. t.channel \in N!Channel
  BY <1>1 DEF SettingsPart, ToggleCall
<1>3. CASE t.active \/ t.channel = "all"
  <2>1. late' = late /\ off' \subseteq off
    BY <1>1, <1>3
  <2>2. AskedOn'
    BY <1>1, <2>1 DEF WantedPart, AskedOn
  <2> QED BY <1>1, <2>1, <2>2 DEF WantedPart, N!OffMeansOff
<1>4. CASE ~t.active /\ t.channel # "all"
  <2>1. off' = off \cup {<<t.verb, t.channel>>} /\ late' = late \cup since
    BY <1>1, <1>4 DEF OwnOf
  <2>2. t.channel \in N!Single
    BY <1>2, <1>4 DEF N!Channel
  <2>3. since \subseteq Event \X N!Single
    BY <2>2
  <2>4. AskedOn'
    <3>1. SUFFICES ASSUME NEW p \in Event \X N!Single, <<task[p[1]], p[2]>> \in N!Asked,
                          {VerbOf[p[1]], AllVerbs} \X {p[2]} \cap off' # {}
          PROVE  p \in late'
      BY <1>1 DEF AskedOn
    <3>2. CASE {VerbOf[p[1]], AllVerbs} \X {p[2]} \cap off # {}
      BY <2>1, <3>1, <3>2 DEF WantedPart, AskedOn
    <3>3. CASE {VerbOf[p[1]], AllVerbs} \X {p[2]} \cap off = {}
      <4>1. <<t.verb, t.channel>> \in {VerbOf[p[1]], AllVerbs} \X {p[2]}
        BY <2>1, <3>1, <3>3
      <4>2. p[2] = t.channel /\ t.verb \in {VerbOf[p[1]], AllVerbs}
        BY <4>1
      <4>3. p \in Event \X {t.channel}
        BY <4>2
      <4>4. p \in since
        BY <3>1, <4>2, <4>3
      <4> QED BY <2>1, <4>4
    <3> QED BY <3>2, <3>3
  <2> QED BY <1>1, <2>1, <2>3, <2>4 DEF WantedPart, N!OffMeansOff
<1> QED BY <1>3, <1>4

LEMMA DeliveryWanted ==
  ASSUME SettingsPart, DeliveryPart, WantedPart, NEW e \in Event,
         \/ N!notify_on_created(e) \/ N!Load(e) \/ N!Broadcast(e) \/ N!Delete(e)
         \/ N!AskInApp(e) \/ N!InApp(e) \/ N!AskEmail(e) \/ N!Email(e) \/ N!Stamp(e)
         \/ N!AskPush(e) \/ N!Push(e)
         \/ \E fate \in {"committed", "failed", "deleted"} : N!Settle(e, fate)
         \/ \E fails \in BOOLEAN : N!DeleteEnds(e, fails)
  PROVE  WantedPart'
<1>1. CASE N!AskInApp(e)
  <2>1. N!Ask(e, "in_app", "loaded", "noting", "noted")
    BY <1>1 DEF N!AskInApp
  <2>2. "in_app" \in N!Single /\ \A g \in N!Single : <<"noting", g>> \in N!Asked => g = "in_app"
    BY DEF N!Single, N!Asked
  <2> QED BY <2>1, <2>2, AskWanted
<1>2. CASE N!AskEmail(e)
  <2>1. N!Ask(e, "email", "noted", "mailing", "mailed")
    BY <1>2 DEF N!AskEmail
  <2>2. "email" \in N!Single /\ \A g \in N!Single : <<"mailing", g>> \in N!Asked => g = "email"
    BY DEF N!Single, N!Asked
  <2> QED BY <2>1, <2>2, AskWanted
<1>3. CASE N!AskPush(e)
  <2>1. N!Ask(e, "push", "mailed", "pushing", "done")
    BY <1>3 DEF N!AskPush
  <2>2. "push" \in N!Single /\ \A g \in N!Single : <<"pushing", g>> \in N!Asked => g = "push"
    BY DEF N!Single, N!Asked
  <2> QED BY <2>1, <2>2, AskWanted
<1>4. CASE N!InApp(e) \/ N!Email(e) \/ N!Push(e)
  <2>1. \E h \in N!Single : <<task[e], h>> \in N!Asked /\ N!Send(e, h)
    BY <1>4 DEF N!InApp, N!Email, N!Push, N!Single, N!Asked
  <2>2. unwanted' = unwanted
    BY <2>1, SendWanted
  <2>3. /\ UNCHANGED <<off, late>>
        /\ \/ task' = [task EXCEPT ![e] = "created"] \/ task' = [task EXCEPT ![e] = "stamping"]
           \/ task' = [task EXCEPT ![e] = "mailed"] \/ task' = [task EXCEPT ![e] = "done"]
    BY <1>4 DEF N!InApp, N!Email, N!Push, N!settingVars
  <2>4. \A k \in Event : task'[k] = task[k] \/ task'[k] \notin {"noting", "mailing", "pushing"}
    BY <2>3 DEF DeliveryPart
  <2> QED BY <2>2, <2>3, <2>4, WantedKept
<1>5. CASE \/ N!notify_on_created(e) \/ N!Load(e) \/ N!Broadcast(e) \/ N!Stamp(e)
  <2>1. /\ UNCHANGED <<off, late, unwanted>>
        /\ \/ task' = [task EXCEPT ![e] = "mailed"] \/ task' = [task EXCEPT ![e] = "queued"]
           \/ task' = [task EXCEPT ![e] = "loaded"] \/ task' = [task EXCEPT ![e] = "lost"]
           \/ task' = [task EXCEPT ![e] = "died"] \/ task' = [task EXCEPT ![e] = "updated"]
           \/ task' = [task EXCEPT ![e] = IF task[e] = "created" THEN "noted" ELSE "mailed"]
    BY <1>5 DEF N!notify_on_created, N!Load, N!Broadcast, N!Stamp, N!settingVars
  <2>2. \A k \in Event : task'[k] = task[k] \/ task'[k] \notin {"noting", "mailing", "pushing"}
    BY <2>1 DEF DeliveryPart
  <2> QED BY <2>1, <2>2, WantedKept
<1>6. CASE \/ N!Delete(e)
           \/ \E fate \in {"committed", "failed", "deleted"} : N!Settle(e, fate)
           \/ \E fails \in BOOLEAN : N!DeleteEnds(e, fails)
  <2>1. UNCHANGED <<off, late, unwanted, task>>
    BY <1>6 DEF N!Delete, N!Settle, N!DeleteEnds, N!settingVars
  <2> QED BY <2>1, WantedKept
<1> QED BY <1>1, <1>2, <1>3, <1>4, <1>5, <1>6

-----------------------------------------------------------------------------
(* Notifications: the invariant holds. *)

LEMMA NoticesInit ==
  ASSUME N!Init
  PROVE  NoticesInv
<1>1. settings = <<>> /\ settings \in Seq(N!Setting) /\ Len(settings) = 0 /\ DOMAIN settings = {}
  BY DEF N!Init
<1>2. CallRows /\ AloneRows /\ OffRows /\ N!AnswersHold
  BY DEF N!Init, CallRows, AloneRows, OffRows, N!AnswersHold
<1>3. SettingsPart
  BY <1>1, <1>2, BoundAssumption DEF N!Init, SettingsPart
<1>4. \A x \in Client : DOMAIN held[x] = {}
  BY DEF N!Init
<1>5. DeliveryPart
  BY <1>4 DEF N!Init, DeliveryPart, TaskStates, LoadedIsReal, ChatTasks, N!OnlyReal, NeverShown,
              Shown
<1>6. WantedPart
  BY DEF N!Init, WantedPart, AskedOn, N!OffMeansOff
<1> QED BY <1>3, <1>5, <1>6, NoticesParts

LEMMA NoticesStep ==
  ASSUME NoticesInv, [N!Next]_(N!vars)
  PROVE  NoticesInv'
<1>1. SettingsPart /\ DeliveryPart /\ WantedPart
  BY NoticesParts
<1>2. SUFFICES SettingsPart' /\ DeliveryPart' /\ WantedPart'
  BY DEF NoticesInv, NoticeTypes, SettingsPart, DeliveryPart, WantedPart, N!TypeOK
<1>3. CASE UNCHANGED N!vars
  <2>1. /\ UNCHANGED N!settingVars /\ UNCHANGED <<off, late, unwanted>>
        /\ UNCHANGED <<event, task, notes, sent, held, deleting, missed>>
    BY <1>3 DEF N!vars, N!settingVars
  <2> QED BY <1>1, <2>1, SettingsKept, DeliveryKept, WantedKept
<1>4. ASSUME NEW q \in Request,
             \/ \E u \in Verb, h \in N!Channel : N!Toggle(q, u, h)
             \/ N!Write(q) \/ N!Commit(q) \/ N!RollBack(q)
      PROVE  SettingsPart' /\ DeliveryPart' /\ WantedPart'
  <2>1. SettingsPart'
    BY <1>1, <1>4, ToggleKeeps, NoticeWriteKeeps, NoticeCommitKeeps, NoticeRollBackKeeps
  <2>2. UNCHANGED <<event, task, notes, sent, held, deleting, missed>>
    BY <1>4 DEF N!Toggle, N!Write, N!Commit, N!RollBack, N!clientVars
  <2>3. WantedPart'
    <3>1. CASE N!Commit(q)
      BY <1>1, <3>1, CommitWanted
    <3>2. CASE \/ \E u \in Verb, h \in N!Channel : N!Toggle(q, u, h)
               \/ N!Write(q) \/ N!RollBack(q)
      <4>1. UNCHANGED <<off, late, unwanted, task>>
        BY <3>2 DEF N!Toggle, N!Write, N!RollBack
      <4> QED BY <1>1, <4>1, WantedKept
    <3> QED BY <1>4, <3>1, <3>2
  <2> QED BY <1>1, <2>1, <2>2, <2>3, DeliveryKept
<1>5. ASSUME NEW e \in Event,
             \/ N!notify_on_created(e) \/ N!Load(e) \/ N!Broadcast(e) \/ N!Delete(e)
             \/ N!AskInApp(e) \/ N!InApp(e) \/ N!AskEmail(e) \/ N!Email(e) \/ N!Stamp(e)
             \/ N!AskPush(e) \/ N!Push(e)
             \/ \E fate \in {"committed", "failed", "deleted"} : N!Settle(e, fate)
             \/ \E fails \in BOOLEAN : N!DeleteEnds(e, fails)
      PROVE  SettingsPart' /\ DeliveryPart' /\ WantedPart'
  <2>1. UNCHANGED N!settingVars
    BY <1>5 DEF N!notify_on_created, N!Load, N!AskInApp, N!InApp, N!AskEmail, N!Email, N!Stamp,
                N!AskPush, N!Ask, N!Push, N!Broadcast, N!Delete, N!Settle, N!DeleteEnds
  <2>2. DeliveryPart'
    BY <1>1, <1>5, CreatedKeeps, LoadKeeps, AskKeeps, InAppKeeps, EmailKeeps, StampKeeps,
       PushKeeps, BroadcastKeeps, DeleteKeeps, SettleKeeps, DeleteEndsKeeps
  <2>3. WantedPart'
    BY <1>1, <1>5, DeliveryWanted
  <2> QED BY <1>1, <2>1, <2>2, <2>3, SettingsKept
<1>6. ASSUME NEW y \in Client,
             \/ N!Refresh(y)
             \/ \E S \in SUBSET Event, read \in BOOLEAN : N!MarkAsRead(y, S, read)
      PROVE  SettingsPart' /\ DeliveryPart' /\ WantedPart'
  <2>1. UNCHANGED N!settingVars /\ UNCHANGED <<off, late, unwanted, task>>
    BY <1>6 DEF N!Refresh, N!MarkAsRead, N!settingVars
  <2>2. DeliveryPart'
    BY <1>1, <1>6, RefreshKeeps, MarkAsReadKeeps
  <2> QED BY <1>1, <2>1, <2>2, SettingsKept, WantedKept
<1> QED BY <1>3, <1>4, <1>5, <1>6 DEF N!Next

\* What clients show between deliveries follows from what they show during them.
LEMMA NoticesFollow ==
  ASSUME NoticesInv
  PROVE  N!TypeOK /\ N!NoticesConsistent
<1>1. N!ClientsTold
  BY DEF NoticesInv, NeverShown, Shown, N!ClientsTold
<1> QED BY <1>1 DEF NoticesInv, NoticeTypes, N!NoticesConsistent
-----------------------------------------------------------------------------
(* Messages: the invariant. *)

AnyRoom == UNION {M!Room(S) : S \in SUBSET Profile}

\* A request is about a message that there is, a request for a pair has two entries.
RequestsFit ==
  /\ \A q \in M!Doing("create") : ~req[q].group => Len(req[q].people) = 2
  /\ \A q \in M!Doing("edit") \cup M!Doing("delete") : req[q].m \in DOMAIN msgs
  /\ \A q \in M!Doing("erase") : /\ req[q].m \in DOMAIN msgs
                                 /\ req[q].room = msgs[req[q].m].room
                                 /\ req[q].left \subseteq DOMAIN msgs

\* A client holds messages of its room only.
SeenFits ==
  /\ seen = [x \in M!Viewer |-> seen[x]]
  /\ \A x \in M!Viewer : \A m \in DOMAIN seen[x] : m \in DOMAIN msgs /\ msgs[m].room = x[2]

MessageTypes ==
  /\ M!TypeOK /\ RequestsFit /\ SeenFits
  /\ rooms \in Seq(AnyRoom) /\ Len(rooms) <= MaxRooms
  /\ msgs \in Seq(M!Message) /\ Len(msgs) <= MaxMessages

\* A one-to-one room has two rows: two members with one each, or one with both.
PairRows ==
  \A r \in DOMAIN rooms : ~rooms[r].group =>
    \E x, y \in Profile :
      /\ M!Members(r) = {x, y}
      /\ x # y => Len(rooms[r].people[x]) = 1 /\ Len(rooms[r].people[y]) = 1

\* A request that has not found the room of two profiles, which there is now or which another
\* request is to make, overlapped the other.
Pair(S) == \E x, y \in S : x # y
PairsAsked ==
  \A q \in M!Doing("create") : ~req[q].group =>
    /\ \A r \in DOMAIN rooms :
         ~rooms[r].group /\ M!Members(r) = M!Range(req[q].people) /\ Pair(M!Members(r))
           => M!Members(r) \in overlapped
    /\ \A k \in M!Doing("create") :
         k # q /\ ~req[k].group /\ M!Range(req[k].people) = M!Range(req[q].people)
           => M!Range(req[q].people) \in overlapped

\* Who commits a message has locked it: its row is the message with one change.
Locks ==
  /\ \A q, k \in M!Doing("commit") : req[q].m = req[k].m => q = k
  /\ \A q \in M!Doing("commit") :
       /\ req[q].m \in DOMAIN msgs /\ msgs[req[q].m].live /\ req[q].row.live
       /\ req[q].row.room = msgs[req[q].m].room /\ req[q].row.author = msgs[req[q].m].author
       /\ req[q].row.deleted <=> msgs[req[q].m].deleted \/ req[q].buries

\* An edit loaded the message as it still is, deleted or not.
EditsFit ==
  /\ \A q \in M!Doing("edit") : req[q].m \notin raced =>
                                  (req[q].deleted <=> msgs[req[q].m].deleted)
  /\ \A q \in M!Doing("delete") : req[q].deleted
BuriedFits == buried \subseteq DOMAIN msgs

\* What subscribers were told is what is about to be committed.
ToldAhead ==
  \A q \in M!Doing("commit") : \A x \in subs :
    req[q].m \in DOMAIN seen[x] /\ req[q].m \notin raced /\ req[q].row.author # x[1]
      => seen[x][req[q].m] = M!resolve_content(req[q].row.text, req[q].row.deleted)

\* What an operator's deletion leaves of a conversation is all that there is, and a
\* conversation that has a message has a last one.
LeftFits ==
  /\ \A q \in M!Doing("erase") : \A r \in DOMAIN rooms :
       r = req[q].room /\ ~rooms[r].group /\ r \notin stale
         => M!In(r) \subseteq req[q].left \cup {req[q].m}
  /\ \A r \in DOMAIN rooms : ~rooms[r].group /\ M!In(r) # {} /\ r \notin stale => rooms[r].last # 0

PairsPart == PairRows /\ PairsAsked /\ M!PairRoomsUnique
LocksPart == Locks /\ EditsFit /\ BuriedFits /\ M!DeletedStays
ToldPart == ToldAhead /\ M!ClientsCurrent
MessagesInv == MessageTypes /\ PairsPart /\ LocksPart /\ ToldPart /\ M!HistoryCut /\ LeftFits

-----------------------------------------------------------------------------
(* Messages: facts used in every step. *)

LEMMA DomainsAreIds ==
  ASSUME MessageTypes
  PROVE  /\ Len(rooms) \in Nat /\ DOMAIN rooms = 1..Len(rooms) /\ DOMAIN rooms \subseteq M!RoomId
         /\ Len(msgs) \in Nat /\ DOMAIN msgs = 1..Len(msgs) /\ DOMAIN msgs \subseteq M!MessageId
         /\ Len(msgs) \in 0..MaxMessages
<1>1. rooms \in Seq(AnyRoom) /\ Len(rooms) <= MaxRooms
  BY DEF MessageTypes
<1>2. msgs \in Seq(M!Message) /\ Len(msgs) <= MaxMessages
  BY DEF MessageTypes
<1>3. Len(rooms) \in Nat /\ DOMAIN rooms = 1..Len(rooms)
  BY <1>1
<1>4. Len(msgs) \in Nat /\ DOMAIN msgs = 1..Len(msgs)
  BY <1>2
<1>5. MaxRooms \in Nat /\ MaxMessages \in Nat
  BY BoundAssumption
<1> QED BY <1>1, <1>2, <1>3, <1>4, <1>5 DEF M!RoomId, M!MessageId

LEMMA RoomTypes ==
  ASSUME MessageTypes, NEW r \in DOMAIN rooms
  PROVE  /\ M!Members(r) \subseteq Profile /\ M!Members(r) = DOMAIN rooms[r].people
         /\ rooms[r] \in M!Room(M!Members(r))
         /\ rooms[r].group \in BOOLEAN /\ rooms[r].host \in Profile
         /\ rooms[r].last \in 0..MaxMessages
         /\ rooms[r].people \in [M!Members(r) -> Seq(M!Person)]
         /\ \A p \in M!Members(r) : Len(rooms[r].people[p]) > 0
<1>1. /\ M!Members(r) \subseteq Profile /\ rooms[r] \in M!Room(M!Members(r))
      /\ \A p \in M!Members(r) : M!Copies(r, p) > 0
  BY DEF MessageTypes, M!TypeOK
<1>2. \A p \in M!Members(r) : M!Copies(r, p) = Len(rooms[r].people[p])
  BY DEF M!Copies
<1>3. M!Members(r) = DOMAIN rooms[r].people
  BY DEF M!Members
<1>4. /\ rooms[r].group \in BOOLEAN /\ rooms[r].host \in Profile
      /\ rooms[r].last \in 0..MaxMessages
      /\ rooms[r].people \in [M!Members(r) -> Seq(M!Person)]
  BY <1>1 DEF M!Room
<1> QED BY <1>1, <1>2, <1>3, <1>4

LEMMA MessageType ==
  ASSUME MessageTypes, NEW m \in DOMAIN msgs
  PROVE  /\ msgs[m] \in M!Message /\ msgs[m].room \in DOMAIN rooms
         /\ msgs[m].text \in Text /\ msgs[m].deleted \in BOOLEAN /\ msgs[m].live \in BOOLEAN
         /\ msgs[m].author \in Profile \cup {None}
  BY DEF MessageTypes, M!TypeOK, M!Message

\* What requests are.
LEMMA WorkTypes ==
  ASSUME MessageTypes
  PROVE  /\ \A q \in M!Doing("create") :
              /\ req[q].host \in Profile /\ req[q].people \in Seq(Profile)
              /\ req[q].group \in BOOLEAN
         /\ \A q \in M!Doing("edit") \cup M!Doing("delete") :
              /\ req[q] \in M!Changing /\ req[q].m \in DOMAIN msgs
              /\ req[q].text \in Text /\ req[q].deleted \in BOOLEAN
         /\ \A q \in M!Doing("commit") :
              /\ req[q] \in M!Committing /\ req[q].row \in M!Message
              /\ req[q].row.text \in Text /\ req[q].row.deleted \in BOOLEAN
              /\ req[q].buries \in BOOLEAN
         /\ \A q \in M!Doing("erase") :
              /\ req[q].m \in DOMAIN msgs /\ req[q].room \in DOMAIN rooms
              /\ req[q].room = msgs[req[q].m].room /\ req[q].left \subseteq DOMAIN msgs
<1>1. \A q \in Request : req[q] # None => req[q] \in M!Work
  BY DEF MessageTypes, M!TypeOK
<1>2. \A q \in M!Doing("create") : req[q] \in M!Creating
  BY <1>1 DEF M!Doing, M!Work, M!Creating, M!Changing, M!Committing, M!Erasing
<1>3. \A q \in M!Doing("edit") \cup M!Doing("delete") : req[q] \in M!Changing
  BY <1>1 DEF M!Doing, M!Work, M!Creating, M!Changing, M!Committing, M!Erasing
<1>4. \A q \in M!Doing("commit") : req[q] \in M!Committing
  BY <1>1 DEF M!Doing, M!Work, M!Creating, M!Changing, M!Committing, M!Erasing
<1>5. \A q \in M!Doing("create") :
        req[q].host \in Profile /\ req[q].people \in Seq(Profile) /\ req[q].group \in BOOLEAN
  BY <1>2 DEF M!Creating
<1>6. \A q \in M!Doing("edit") \cup M!Doing("delete") :
        req[q].m \in DOMAIN msgs /\ req[q].text \in Text /\ req[q].deleted \in BOOLEAN
  BY <1>3 DEF M!Changing, MessageTypes, RequestsFit
<1>7. \A q \in M!Doing("commit") :
        /\ req[q].row \in M!Message /\ req[q].row.text \in Text
        /\ req[q].row.deleted \in BOOLEAN /\ req[q].buries \in BOOLEAN
  BY <1>4 DEF M!Committing, M!Message
<1>8. \A q \in M!Doing("erase") :
        /\ req[q].m \in DOMAIN msgs /\ req[q].room \in DOMAIN rooms
        /\ req[q].room = msgs[req[q].m].room /\ req[q].left \subseteq DOMAIN msgs
  BY DEF MessageTypes, RequestsFit, M!TypeOK
<1> QED BY <1>3, <1>4, <1>5, <1>6, <1>7, <1>8

\* A request takes something up, goes on to something else, or is done.
LEMMA Put ==
  ASSUME MessageTypes, NEW q \in Request, NEW t \in M!Work, req' = [req EXCEPT ![q] = t]
  PROVE  /\ req' \in [Request -> M!Work \cup {None}]
         /\ req'[q] = t /\ \A k \in Request \ {q} : req'[k] = req[k]
         /\ q \in M!Doing(t.op)' /\ \A o : o # t.op => q \notin M!Doing(o)'
         /\ \A o : \A k \in Request \ {q} : k \in M!Doing(o)' <=> k \in M!Doing(o)
<1>1. req \in [Request -> M!Work \cup {None}] /\ t # None
  BY NoneAssumption DEF MessageTypes, M!TypeOK
<1>2. /\ req' \in [Request -> M!Work \cup {None}]
      /\ req'[q] = t /\ \A k \in Request \ {q} : req'[k] = req[k]
  BY <1>1
<1> QED BY <1>1, <1>2 DEF M!Doing

LEMMA Finish ==
  ASSUME MessageTypes, NEW q \in Request, M!Done(q)
  PROVE  /\ req' \in [Request -> M!Work \cup {None}]
         /\ \A o : M!Doing(o)' = M!Doing(o) \ {q}
         /\ \A k \in Request \ {q} : req'[k] = req[k]
<1>1. req \in [Request -> M!Work \cup {None}] /\ req' = [req EXCEPT ![q] = None]
  BY DEF MessageTypes, M!TypeOK, M!Done
<1>2. /\ req' \in [Request -> M!Work \cup {None}]
      /\ req'[q] = None /\ \A k \in Request \ {q} : req'[k] = req[k]
  BY <1>1
<1> QED BY <1>2 DEF M!Doing

\* Requests that go on with what they were doing.
Going(o) == /\ M!Doing(o)' \subseteq M!Doing(o)
            /\ \A k \in M!Doing(o)' : req'[k] = req[k]
LEMMA FinishGoing ==
  ASSUME MessageTypes, NEW q \in Request, M!Done(q)
  PROVE  \A o : Going(o)
  BY Finish DEF Going, M!Doing
LEMMA RestGoing ==
  ASSUME req' = req
  PROVE  \A o : Going(o) /\ M!Doing(o)' = M!Doing(o)
  BY DEF Going, M!Doing
LEMMA PutGoing ==
  ASSUME MessageTypes, NEW q \in Request, NEW t \in M!Work, req' = [req EXCEPT ![q] = t],
         NEW o, o # t.op
  PROVE  Going(o)
  BY Put DEF Going, M!Doing

-----------------------------------------------------------------------------
(* Messages: what leaves a part of the invariant as it is. *)

\* One-to-one rooms with the same rows for the same profiles.
LEMMA PairsKept ==
  ASSUME PairsPart, overlapped \subseteq overlapped', Going("create"),
         DOMAIN rooms' = DOMAIN rooms,
         \A r \in DOMAIN rooms : rooms'[r].group = rooms[r].group,
         \A r \in DOMAIN rooms : ~rooms[r].group =>
           /\ DOMAIN rooms'[r].people = DOMAIN rooms[r].people
           /\ \A p \in DOMAIN rooms[r].people :
                Len(rooms'[r].people[p]) = Len(rooms[r].people[p])
  PROVE  PairsPart'
<1>1. \A r \in DOMAIN rooms : ~rooms[r].group => M!Members(r)' = M!Members(r)
  BY DEF M!Members
<1>2. PairRows'
  <2>1. SUFFICES ASSUME NEW r \in DOMAIN rooms, ~rooms[r].group
        PROVE  \E x, y \in Profile :
                 /\ M!Members(r) = {x, y}
                 /\ x # y => Len(rooms'[r].people[x]) = 1 /\ Len(rooms'[r].people[y]) = 1
    BY <1>1 DEF PairRows
  <2>2. PICK x, y \in Profile :
          /\ M!Members(r) = {x, y}
          /\ x # y => Len(rooms[r].people[x]) = 1 /\ Len(rooms[r].people[y]) = 1
    BY <2>1 DEF PairsPart, PairRows
  <2>3. x \in DOMAIN rooms[r].people /\ y \in DOMAIN rooms[r].people
    BY <2>2 DEF M!Members
  <2> QED BY <2>1, <2>2, <2>3
<1>3. PairsAsked'
  <2>1. SUFFICES ASSUME NEW q \in M!Doing("create")', ~req'[q].group
        PROVE  /\ \A r \in DOMAIN rooms :
                    ~rooms[r].group /\ M!Members(r)' = M!Range(req'[q].people)
                    /\ Pair(M!Members(r)') => M!Members(r)' \in overlapped'
               /\ \A k \in M!Doing("create")' :
                    k # q /\ ~req'[k].group /\ M!Range(req'[k].people) = M!Range(req'[q].people)
                      => M!Range(req'[q].people) \in overlapped'
    BY DEF PairsAsked, Pair, M!Range
  <2>2. q \in M!Doing("create") /\ req'[q] = req[q]
    BY <2>1 DEF Going
  <2>3. \A k \in M!Doing("create")' : k \in M!Doing("create") /\ req'[k] = req[k]
    BY DEF Going
  <2>4. ASSUME NEW r \in DOMAIN rooms, ~rooms[r].group,
               M!Members(r)' = M!Range(req'[q].people), Pair(M!Members(r)')
        PROVE  M!Members(r)' \in overlapped'
    <3>1. M!Members(r)' = M!Members(r)
      BY <1>1, <2>4
    <3>2. M!Members(r) = M!Range(req[q].people) /\ Pair(M!Members(r))
      BY <2>2, <2>4, <3>1 DEF Pair
    <3>3. M!Members(r) \in overlapped
      BY <2>1, <2>2, <2>4, <3>2 DEF PairsPart, PairsAsked
    <3> QED BY <3>1, <3>3
  <2>5. ASSUME NEW k \in M!Doing("create")', k # q, ~req'[k].group,
               M!Range(req'[k].people) = M!Range(req'[q].people)
        PROVE  M!Range(req'[q].people) \in overlapped'
    <3>1. M!Range(req[k].people) = M!Range(req[q].people) /\ ~req[k].group
      BY <2>2, <2>3, <2>5
    <3>2. M!Range(req[q].people) \in overlapped
      BY <2>1, <2>2, <2>3, <2>5, <3>1 DEF PairsPart, PairsAsked
    <3> QED BY <2>2, <3>2
  <2> QED BY <2>4, <2>5
<1>4. M!PairRoomsUnique'
  <2>1. SUFFICES ASSUME NEW r \in DOMAIN rooms, NEW s \in DOMAIN rooms,
                        r # s, ~rooms[r].group, ~rooms[s].group, M!Members(r)' = M!Members(s)',
                        M!Cardinality(M!Members(r)') = 2
        PROVE  M!Members(r)' \in overlapped'
    BY DEF M!PairRoomsUnique, M!Cardinality
  <2> QED BY <1>1, <2>1 DEF PairsPart, M!PairRoomsUnique
<1> QED BY <1>2, <1>3, <1>4 DEF PairsPart

\* Messages that stay as they are.
SameMessages == /\ DOMAIN msgs \subseteq DOMAIN msgs'
                /\ \A m \in DOMAIN msgs : msgs'[m] = msgs[m]

LEMMA LocksKept ==
  ASSUME MessageTypes, LocksPart, SameMessages, buried' = buried, raced \subseteq raced',
         Going("commit"), Going("edit"), Going("delete")
  PROVE  LocksPart'
<1>1. \A q \in M!Doing("edit") : req[q].m \in DOMAIN msgs
  BY WorkTypes
<1>2. Locks'
  BY DEF LocksPart, Locks, Going, SameMessages
<1>3. EditsFit'
  BY <1>1 DEF LocksPart, EditsFit, Going, SameMessages
<1>4. BuriedFits' /\ M!DeletedStays'
  BY DEF LocksPart, BuriedFits, M!DeletedStays, SameMessages
<1> QED BY <1>2, <1>3, <1>4 DEF LocksPart

\* Clients that get to hold nothing but what is stored, while nobody is about to change it.
LEMMA ToldKept ==
  ASSUME MessageTypes, LocksPart, ToldPart, SameMessages, raced \subseteq raced',
         Going("commit"), M!Doing("commit")' = M!Doing("commit"),
         \A x \in subs' : \A m \in DOMAIN seen'[x] :
           \/ x \in subs /\ m \in DOMAIN seen[x] /\ seen'[x][m] = seen[x][m]
           \/ /\ seen'[x][m] = M!resolve_content(msgs'[m].text, msgs'[m].deleted)
              /\ m \in raced' \/ \A q \in M!Doing("commit") : req[q].m # m
  PROVE  ToldPart'
<1>1. \A q \in M!Doing("commit") : req'[q] = req[q]
  BY DEF Going
<1>2. ToldAhead'
  <2>1. SUFFICES ASSUME NEW q \in M!Doing("commit"), NEW x \in subs',
                        req[q].m \in DOMAIN seen'[x], req[q].m \notin raced',
                        req[q].row.author # x[1]
        PROVE  seen'[x][req[q].m] = M!resolve_content(req[q].row.text, req[q].row.deleted)
    BY <1>1 DEF ToldAhead, M!resolve_content
  <2>2. x \in subs /\ req[q].m \in DOMAIN seen[x] /\ seen'[x][req[q].m] = seen[x][req[q].m]
    BY <2>1
  <2>3. req[q].m \notin raced
    BY <2>1
  <2> QED BY <2>1, <2>2, <2>3 DEF ToldPart, ToldAhead
<1>3. \A m : M!RowLocked(m)' <=> M!RowLocked(m)
  BY <1>1 DEF M!RowLocked
<1>4. M!ClientsCurrent'
  <2>1. SUFFICES ASSUME NEW x \in subs', NEW m \in DOMAIN seen'[x],
                        msgs'[m].live, m \notin raced', msgs'[m].author # x[1], ~M!RowLocked(m)
        PROVE  seen'[x][m] = M!resolve_content(msgs'[m].text, msgs'[m].deleted)
    BY <1>3 DEF M!ClientsCurrent, M!resolve_content
  <2>2. CASE x \in subs /\ m \in DOMAIN seen[x] /\ seen'[x][m] = seen[x][m]
    <3>1. m \in DOMAIN msgs
      BY <2>2 DEF MessageTypes, SeenFits, M!TypeOK
    <3>2. msgs'[m] = msgs[m] /\ m \notin raced
      BY <2>1, <3>1 DEF SameMessages
    <3> QED BY <2>1, <2>2, <3>1, <3>2 DEF ToldPart, M!ClientsCurrent
  <2> QED BY <2>1, <2>2
<1> QED BY <1>2, <1>4 DEF ToldPart

\* Clients that only lose messages, in rooms whose members were members with the same row.
LEMMA CutKept ==
  ASSUME M!HistoryCut, DOMAIN rooms' = DOMAIN rooms,
         \A r \in DOMAIN rooms : /\ rooms'[r].group = rooms[r].group
                                 /\ DOMAIN rooms'[r].people \subseteq DOMAIN rooms[r].people
                                 /\ \A p \in DOMAIN rooms'[r].people :
                                      rooms'[r].people[p][1].since = rooms[r].people[p][1].since,
         \A x \in M!Viewer \ (lingering' \cup subs') : \A m \in DOMAIN seen'[x] :
           x \notin lingering \cup subs /\ m \in DOMAIN seen[x]
  PROVE  M!HistoryCut'
<1>1. M!Viewer' = M!Viewer
  BY DEF M!Viewer, M!RoomId
<1>2. SUFFICES ASSUME NEW x \in M!Viewer \ (lingering' \cup subs'), x[2] \in DOMAIN rooms,
                      rooms'[x[2]].group, x[1] \in DOMAIN rooms'[x[2]].people,
                      NEW m \in DOMAIN seen'[x]
      PROVE  m > rooms'[x[2]].people[x[1]][1].since
  BY <1>1 DEF M!HistoryCut, M!Members
<1>3. x \notin lingering \cup subs /\ m \in DOMAIN seen[x]
  BY <1>2
<1>4. rooms[x[2]].group /\ x[1] \in DOMAIN rooms[x[2]].people
  BY <1>2
<1>5. m > rooms[x[2]].people[x[1]][1].since
  BY <1>2, <1>3, <1>4 DEF M!HistoryCut, M!Members
<1> QED BY <1>2, <1>5

\* Conversations that get no new message and keep their last one.
LEMMA LeftKept ==
  ASSUME MessageTypes, LeftFits, Going("erase"), stale' = stale,
         DOMAIN rooms' = DOMAIN rooms,
         \A r \in DOMAIN rooms : rooms'[r].group = rooms[r].group,
         \A r \in DOMAIN rooms : ~rooms[r].group =>
           rooms'[r].last = rooms[r].last /\ M!In(r)' \subseteq M!In(r)
  PROVE  LeftFits'
<1>1. \A q \in M!Doing("erase")' : q \in M!Doing("erase") /\ req'[q] = req[q]
  BY DEF Going
<1>2. ASSUME NEW q \in M!Doing("erase")', NEW r \in DOMAIN rooms, r = req'[q].room,
             ~rooms'[r].group, r \notin stale'
      PROVE  M!In(r)' \subseteq req'[q].left \cup {req'[q].m}
  <2>1. M!In(r) \subseteq req[q].left \cup {req[q].m} /\ M!In(r)' \subseteq M!In(r)
    BY <1>1, <1>2 DEF LeftFits
  <2> QED BY <1>1, <1>2, <2>1
<1>3. \A r \in DOMAIN rooms' : ~rooms'[r].group /\ M!In(r)' # {} /\ r \notin stale'
                                => rooms'[r].last # 0
  BY DEF LeftFits
<1> QED BY <1>2, <1>3 DEF LeftFits

-----------------------------------------------------------------------------
(* Messages: types. *)

RoomOK(x) == /\ DOMAIN x.people \subseteq Profile /\ x \in M!Room(DOMAIN x.people)
             /\ \A p \in DOMAIN x.people : Len(x.people[p]) > 0
RoomsTyped == /\ rooms \in Seq(AnyRoom) /\ Len(rooms) <= MaxRooms
              /\ \A r \in DOMAIN rooms : RoomOK(rooms[r])
MsgsTyped == /\ msgs \in Seq(M!Message) /\ Len(msgs) <= MaxMessages
             /\ \A m \in DOMAIN msgs : msgs[m].room \in DOMAIN rooms
ReqTyped == req \in [Request -> M!Work \cup {None}] /\ RequestsFit
ClientsTyped == /\ subs \subseteq M!Viewer /\ SeenFits
                /\ \A x \in M!Viewer : \A m \in DOMAIN seen[x] : seen[x][m] \in Text \cup {Gone}

LEMMA Typed ==
  MessageTypes <=> /\ RoomsTyped /\ MsgsTyped /\ ReqTyped /\ ClientsTyped
                   /\ blocks \subseteq Profile \X Profile
<1>1. (\A r \in DOMAIN rooms : RoomOK(rooms[r]))
        <=> \A r \in DOMAIN rooms : /\ M!Members(r) \subseteq Profile
                                    /\ rooms[r] \in M!Room(M!Members(r))
                                    /\ \A p \in M!Members(r) : M!Copies(r, p) > 0
  BY DEF RoomOK, M!Members, M!Copies
<1>2. seen = [x \in M!Viewer |-> seen[x]] => DOMAIN seen = M!Viewer
  OBVIOUS
<1>3. msgs \in Seq(M!Message) => \A m \in DOMAIN msgs : msgs[m] \in M!Message
  OBVIOUS
<1> QED BY <1>1, <1>2, <1>3
  DEF MessageTypes, M!TypeOK, RoomsTyped, MsgsTyped, ReqTyped, ClientsTyped, SeenFits

\* The same, of the next state.
LEMMA TypedNext ==
  ASSUME RoomsTyped', MsgsTyped', ReqTyped', ClientsTyped', (blocks \subseteq Profile \X Profile)'
  PROVE  MessageTypes'
<1>1. (\A r \in DOMAIN rooms : RoomOK(rooms[r]))'
        <=> (\A r \in DOMAIN rooms : /\ M!Members(r) \subseteq Profile
                                     /\ rooms[r] \in M!Room(M!Members(r))
                                     /\ \A p \in M!Members(r) : M!Copies(r, p) > 0)'
  BY DEF RoomOK, M!Members, M!Copies
<1>2. (seen = [x \in M!Viewer |-> seen[x]])' => (DOMAIN seen = M!Viewer)'
  OBVIOUS
<1>3. (msgs \in Seq(M!Message))' => (\A m \in DOMAIN msgs : msgs[m] \in M!Message)'
  OBVIOUS
<1> QED BY <1>1, <1>2, <1>3
  DEF MessageTypes, M!TypeOK, RoomsTyped, MsgsTyped, ReqTyped, ClientsTyped, SeenFits

LEMMA RoomOKIsAny ==
  ASSUME NEW x, RoomOK(x) PROVE x \in AnyRoom
  BY DEF RoomOK, AnyRoom

\* Participants of a room, with their rows.
RowsOK(f) == /\ DOMAIN f \subseteq Profile /\ f \in [DOMAIN f -> Seq(M!Person)]
             /\ \A p \in DOMAIN f : Len(f[p]) > 0

\* One room is replaced.
LEMMA RoomPut ==
  ASSUME MessageTypes, NEW r \in DOMAIN rooms, NEW x, RoomOK(x), rooms' = [rooms EXCEPT ![r] = x]
  PROVE  /\ RoomsTyped' /\ DOMAIN rooms' = DOMAIN rooms /\ rooms'[r] = x
         /\ \A k \in DOMAIN rooms \ {r} : rooms'[k] = rooms[k]
<1>1. x \in AnyRoom
  BY RoomOKIsAny
<1>2. rooms \in Seq(AnyRoom) /\ Len(rooms) <= MaxRooms /\ \A k \in DOMAIN rooms : RoomOK(rooms[k])
  BY Typed DEF RoomsTyped
<1>3. /\ rooms' \in Seq(AnyRoom) /\ Len(rooms') = Len(rooms) /\ DOMAIN rooms' = DOMAIN rooms
      /\ rooms'[r] = x /\ \A k \in DOMAIN rooms \ {r} : rooms'[k] = rooms[k]
  BY <1>1, <1>2
<1>4. \A k \in DOMAIN rooms' : RoomOK(rooms'[k])
  BY <1>2, <1>3
<1>5. RoomsTyped'
  BY <1>2, <1>3, <1>4 DEF RoomsTyped, RoomOK
<1> QED BY <1>3, <1>5

\* A room with another last message, or other participants.
LEMMA LastPut ==
  ASSUME NEW x, RoomOK(x), NEW m \in 0..MaxMessages
  PROVE  LET y == [x EXCEPT !.last = m]
         IN  /\ RoomOK(y) /\ y.group = x.group /\ y.host = x.host /\ y.people = x.people
             /\ y.last = m
  BY DEF RoomOK, M!Room
LEMMA PeoplePut ==
  ASSUME NEW x, RoomOK(x), NEW f, RowsOK(f), NEW y, y = [x EXCEPT !.people = f]
  PROVE  RoomOK(y) /\ y.group = x.group /\ y.host = x.host /\ y.people = f /\ y.last = x.last
<1>1. x \in M!Room(DOMAIN x.people)
  BY DEF RoomOK
<1>2. /\ y \in M!Room(DOMAIN f) /\ y.group = x.group /\ y.host = x.host /\ y.people = f
      /\ y.last = x.last
  BY <1>1 DEF M!Room, RowsOK
<1>3. RoomOK(y)
  BY <1>2 DEF RoomOK, RowsOK
<1> QED BY <1>2, <1>3

LEMMA ReqKept ==
  ASSUME MessageTypes, DOMAIN msgs \subseteq DOMAIN msgs',
         \A m \in DOMAIN msgs : msgs'[m].room = msgs[m].room,
         req' \in [Request -> M!Work \cup {None}],
         Going("create"), Going("edit"), Going("delete"), Going("erase")
  PROVE  ReqTyped'
<1>1. RequestsFit
  BY DEF MessageTypes
<1>2. RequestsFit'
  BY <1>1 DEF RequestsFit, Going
<1> QED BY <1>2 DEF ReqTyped

-----------------------------------------------------------------------------
(* Messages: a new message. *)

\* At most one message more, which is told to subscribers of room r and to nobody else.
Grown(r) ==
  /\ msgs' \in Seq(M!Message) /\ Len(msgs') <= MaxMessages /\ SameMessages
  /\ \A m \in DOMAIN msgs' \ DOMAIN msgs : msgs'[m].room = r /\ ~msgs'[m].deleted
  /\ seen' = [x \in M!Viewer |-> seen'[x]]
  /\ \A x \in M!Viewer : \A m \in DOMAIN seen'[x] :
       \/ m \in DOMAIN seen[x] /\ seen'[x][m] = seen[x][m]
       \/ /\ x \in subs /\ x[2] = r /\ m \in DOMAIN msgs' \ DOMAIN msgs
          /\ seen'[x][m] = msgs'[m].text

LEMMA SilentGrown ==
  ASSUME MessageTypes, msgs' = msgs, seen' = seen, NEW r
  PROVE  Grown(r)
  BY DEF MessageTypes, SeenFits, Grown, SameMessages

\* What a broadcast shows, and to whom.
LEMMA Shows ==
  ASSUME NEW r, NEW m, NEW author, NEW shown, seen' = M!Broadcast(r, m, author, shown)
  PROVE  /\ seen' = [x \in M!Viewer |-> seen'[x]]
         /\ \A x \in M!Viewer :
              IF x \in subs /\ x[2] = r /\ x[1] # author
              THEN /\ DOMAIN seen'[x] = DOMAIN seen[x] \cup {m} /\ seen'[x][m] = shown
                   /\ \A k \in DOMAIN seen[x] \ {m} : seen'[x][k] = seen[x][k]
              ELSE seen'[x] = seen[x]
<1>1. \A f : /\ DOMAIN M!With(f, m, shown) = DOMAIN f \cup {m}
             /\ M!With(f, m, shown)[m] = shown
             /\ \A k \in DOMAIN f \ {m} : M!With(f, m, shown)[k] = f[k]
  BY DEF M!With
<1>2. seen' = [x \in M!Viewer |-> IF x \in subs /\ x[2] = r /\ x[1] # author
                                  THEN M!With(seen[x], m, shown) ELSE seen[x]]
  BY DEF M!Broadcast
<1>3. ASSUME NEW x \in M!Viewer
      PROVE  IF x \in subs /\ x[2] = r /\ x[1] # author
             THEN /\ DOMAIN seen'[x] = DOMAIN seen[x] \cup {m} /\ seen'[x][m] = shown
                  /\ \A k \in DOMAIN seen[x] \ {m} : seen'[x][k] = seen[x][k]
             ELSE seen'[x] = seen[x]
  <2>1. CASE x \in subs /\ x[2] = r /\ x[1] # author
    <3>1. seen'[x] = M!With(seen[x], m, shown)
      BY <1>2, <2>1
    <3> QED BY <1>1, <2>1, <3>1
  <2>2. CASE ~(x \in subs /\ x[2] = r /\ x[1] # author)
    BY <1>2, <2>2
  <2> QED BY <2>1, <2>2
<1>4. seen' = [x \in M!Viewer |-> seen'[x]]
  BY <1>2
<1> QED BY <1>3, <1>4

LEMMA SpokenGrown ==
  ASSUME MessageTypes, NEW r \in M!RoomId, NEW author \in Profile \cup {None},
         NEW text \in Text, NEW live \in BOOLEAN, Len(msgs) + 1 <= MaxMessages,
         msgs' = Append(msgs, [room |-> r, author |-> author, text |-> text, deleted |-> FALSE,
                               live |-> live]),
         seen' = M!Broadcast(r, Len(msgs) + 1, author, text)
  PROVE  /\ Grown(r) /\ Len(msgs) + 1 \in M!MessageId
         /\ msgs'[Len(msgs) + 1].live = live /\ DOMAIN msgs' = DOMAIN msgs \cup {Len(msgs) + 1}
<1> DEFINE new == [room |-> r, author |-> author, text |-> text, deleted |-> FALSE,
                   live |-> live]
           m == Len(msgs) + 1
<1>1. new \in M!Message /\ new.room = r /\ ~new.deleted /\ new.text = text /\ new.live = live
  BY DEF M!Message
<1>2. msgs \in Seq(M!Message) /\ Len(msgs) \in Nat /\ DOMAIN msgs = 1..Len(msgs)
  BY DomainsAreIds DEF MessageTypes
<1> HIDE DEF new
<1>3. msgs' = Append(msgs, new)
  BY DEF new
<1>4. /\ msgs' \in Seq(M!Message) /\ Len(msgs') = m /\ msgs'[m] = new
      /\ \A k \in 1..Len(msgs) : msgs'[k] = msgs[k]
  BY <1>1, <1>2, <1>3
<1>5. DOMAIN msgs' = DOMAIN msgs \cup {m} /\ m \notin DOMAIN msgs /\ m \in M!MessageId
  BY <1>2, <1>4, BoundAssumption DEF M!MessageId
<1>6. SameMessages
  BY <1>2, <1>4, <1>5 DEF SameMessages
<1> HIDE DEF m
<1>7. /\ seen' = [x \in M!Viewer |-> seen'[x]]
      /\ \A x \in M!Viewer :
           IF x \in subs /\ x[2] = r /\ x[1] # author
           THEN /\ DOMAIN seen'[x] = DOMAIN seen[x] \cup {m} /\ seen'[x][m] = text
                /\ \A k \in DOMAIN seen[x] \ {m} : seen'[x][k] = seen[x][k]
           ELSE seen'[x] = seen[x]
  BY Shows DEF m
<1>8. ASSUME NEW x \in M!Viewer, NEW k \in DOMAIN seen'[x]
      PROVE  \/ k \in DOMAIN seen[x] /\ seen'[x][k] = seen[x][k]
             \/ /\ x \in subs /\ x[2] = r /\ k \in DOMAIN msgs' \ DOMAIN msgs
                /\ seen'[x][k] = msgs'[k].text
  BY <1>1, <1>4, <1>5, <1>7, <1>8
<1>9. Len(msgs') <= MaxMessages
  BY <1>4 DEF m
<1>10. Grown(r)
  BY <1>1, <1>4, <1>5, <1>6, <1>7, <1>8, <1>9 DEF Grown
<1> QED BY <1>1, <1>4, <1>5, <1>10 DEF m

\* What a new message keeps.
LEMMA GrownKeeps ==
  ASSUME MessageTypes, LocksPart, ToldPart, NEW r \in DOMAIN rooms', Grown(r),
         DOMAIN rooms \subseteq DOMAIN rooms', subs' = subs, buried' = buried, raced' = raced,
         req' \in [Request -> M!Work \cup {None}], \A o : Going(o),
         M!Doing("commit")' = M!Doing("commit")
  PROVE  MsgsTyped' /\ ReqTyped' /\ ClientsTyped' /\ LocksPart' /\ ToldPart'
<1>1. /\ SameMessages
      /\ \A m \in DOMAIN msgs' \ DOMAIN msgs : msgs'[m].room = r /\ ~msgs'[m].deleted
      /\ msgs' \in Seq(M!Message) /\ Len(msgs') <= MaxMessages
  BY DEF Grown
<1>2. \A m \in DOMAIN msgs : msgs'[m] = msgs[m] /\ m \in DOMAIN msgs'
  BY <1>1 DEF SameMessages
<1>3. MsgsTyped'
  <2>1. \A m \in DOMAIN msgs' : msgs'[m].room \in DOMAIN rooms'
    BY <1>1, <1>2, Typed DEF MsgsTyped
  <2> QED BY <1>1, <2>1 DEF MsgsTyped
<1>4. ReqTyped'
  BY <1>2, ReqKept
<1>5. \A m \in DOMAIN msgs' : msgs'[m].text \in Text
  <2>1. \A m \in DOMAIN msgs' : msgs'[m] \in M!Message
    BY <1>1
  <2> QED BY <2>1 DEF M!Message
<1>6. ASSUME NEW x \in M!Viewer, NEW m \in DOMAIN seen'[x]
      PROVE  m \in DOMAIN msgs' /\ msgs'[m].room = x[2] /\ seen'[x][m] \in Text \cup {Gone}
  <2>1. CASE m \in DOMAIN seen[x] /\ seen'[x][m] = seen[x][m]
    BY <1>2, <2>1, Typed DEF ClientsTyped, SeenFits
  <2>2. CASE /\ x \in subs /\ x[2] = r /\ m \in DOMAIN msgs' \ DOMAIN msgs
             /\ seen'[x][m] = msgs'[m].text
    BY <1>1, <1>5, <2>2
  <2> QED BY <1>6, <2>1, <2>2 DEF Grown
<1>7. ClientsTyped'
  <2>1. seen' = [x \in M!Viewer |-> seen'[x]]
    BY DEF Grown
  <2>2. SeenFits'
    BY <1>6, <2>1 DEF SeenFits, M!Viewer, M!RoomId
  <2>3. subs' \subseteq M!Viewer
    BY Typed DEF ClientsTyped
  <2> QED BY <1>6, <2>2, <2>3 DEF ClientsTyped, M!Viewer, M!RoomId
<1>8. LocksPart'
  BY <1>1, LocksKept
<1>9. \A q \in M!Doing("commit") : req[q].m \in DOMAIN msgs
  BY DEF LocksPart, Locks
<1>10. ASSUME NEW x \in subs', NEW m \in DOMAIN seen'[x]
       PROVE  \/ x \in subs /\ m \in DOMAIN seen[x] /\ seen'[x][m] = seen[x][m]
              \/ /\ seen'[x][m] = M!resolve_content(msgs'[m].text, msgs'[m].deleted)
                 /\ m \in raced' \/ \A q \in M!Doing("commit") : req[q].m # m
  <2>1. x \in M!Viewer /\ x \in subs
    BY <1>10, Typed DEF ClientsTyped
  <2>2. CASE m \in DOMAIN seen[x] /\ seen'[x][m] = seen[x][m]
    BY <2>1, <2>2
  <2>3. CASE /\ x \in subs /\ x[2] = r /\ m \in DOMAIN msgs' \ DOMAIN msgs
             /\ seen'[x][m] = msgs'[m].text
    BY <1>1, <1>9, <2>3 DEF M!resolve_content
  <2> QED BY <1>10, <2>1, <2>2, <2>3 DEF Grown
<1>11. ToldPart'
  BY <1>1, <1>10, ToldKept
<1> QED BY <1>3, <1>4, <1>7, <1>8, <1>11

\* send_system_message.
LEMMA Announced ==
  ASSUME MessageTypes, NEW r \in M!RoomId, NEW rs, M!Announce(r, rs)
  PROVE  /\ Grown(r)
         /\ rooms' = rs \/ \E m \in M!MessageId : rooms' = [rs EXCEPT ![r].last = m]
<1>1. CASE SystemMessages
  <2>1. PICK text \in Text :
          /\ Len(msgs) + 1 <= MaxMessages
          /\ msgs' = Append(msgs, [room |-> r, author |-> None, text |-> text,
                                   deleted |-> FALSE, live |-> TRUE])
          /\ rooms' = [rs EXCEPT ![r].last = Len(msgs) + 1]
          /\ seen' = M!Broadcast(r, Len(msgs) + 1, None, text)
    BY <1>1 DEF M!Announce
  <2>2. Grown(r) /\ Len(msgs) + 1 \in M!MessageId
    BY <2>1, SpokenGrown
  <2> QED BY <2>1, <2>2
<1>2. CASE ~SystemMessages
  BY <1>2, SilentGrown DEF M!Announce
<1> QED BY <1>1, <1>2

-----------------------------------------------------------------------------
(* Messages: steps that change requests only. *)

\* A free request takes something up.
LEMMA Takes ==
  ASSUME MessageTypes, NEW q \in Request, M!Free(q), NEW t \in M!Work,
         req' = [req EXCEPT ![q] = t]
  PROVE  /\ req' \in [Request -> M!Work \cup {None}] /\ req'[q] = t
         /\ \A k \in Request \ {q} : req'[k] = req[k]
         /\ \A o : o # t.op => Going(o) /\ M!Doing(o)' = M!Doing(o)
         /\ M!Doing(t.op)' = M!Doing(t.op) \cup {q}
         /\ \A o : q \notin M!Doing(o)
<1>1. \A o : q \notin M!Doing(o)
  BY DEF M!Free, M!Doing
<1>2. /\ req' \in [Request -> M!Work \cup {None}] /\ req'[q] = t
      /\ \A k \in Request \ {q} : req'[k] = req[k]
      /\ q \in M!Doing(t.op)' /\ \A o : o # t.op => q \notin M!Doing(o)'
      /\ \A o : \A k \in Request \ {q} : k \in M!Doing(o)' <=> k \in M!Doing(o)
  BY Put
<1>3. \A o : M!Doing(o) \subseteq Request /\ M!Doing(o)' \subseteq Request
  BY DEF M!Doing
<1>4. \A o : o # t.op => M!Doing(o)' = M!Doing(o)
  BY <1>1, <1>2, <1>3
<1>5. M!Doing(t.op)' = M!Doing(t.op) \cup {q}
  BY <1>1, <1>2, <1>3
<1>6. \A o : o # t.op => Going(o)
  BY <1>1, <1>2, <1>3, <1>4 DEF Going
<1> QED BY <1>1, <1>2, <1>4, <1>5, <1>6

\* What such a step keeps.
SameData == UNCHANGED <<rooms, msgs, subs, seen, stale, lingering>>
LEMMA DataKept ==
  ASSUME MessagesInv, SameData
  PROVE  RoomsTyped' /\ MsgsTyped' /\ ClientsTyped' /\ M!HistoryCut' /\ SameMessages
<1>1. RoomsTyped /\ MsgsTyped /\ ClientsTyped
  BY Typed DEF MessagesInv
<1>2. RoomsTyped'
  BY <1>1 DEF SameData, RoomsTyped, RoomOK
<1>3. MsgsTyped'
  BY <1>1 DEF SameData, MsgsTyped
<1>4. ClientsTyped'
  BY <1>1 DEF SameData, ClientsTyped, SeenFits, M!Viewer, M!RoomId
<1>5. M!HistoryCut'
  BY CutKept DEF SameData, MessagesInv
<1>6. SameMessages
  BY DEF SameData, SameMessages
<1> QED BY <1>2, <1>3, <1>4, <1>5, <1>6

LEMMA SamePairs ==
  ASSUME PairsPart, SameData, overlapped' = overlapped, Going("create")
  PROVE  PairsPart'
  BY PairsKept DEF SameData
LEMMA SameTold ==
  ASSUME MessagesInv, SameData, raced' = raced, Going("commit"),
         M!Doing("commit")' = M!Doing("commit")
  PROVE  ToldPart'
  BY ToldKept DEF SameData, SameMessages, MessagesInv
LEMMA SameLeft ==
  ASSUME MessagesInv, SameData, Going("erase")
  PROVE  LeftFits'
<1>1. \A r : M!In(r)' = M!In(r)
  BY DEF SameData, M!In
<1> QED BY <1>1, LeftKept DEF SameData, MessagesInv

\* A block, or a request that gives up.
LEMMA BlockKeeps ==
  ASSUME MessagesInv, NEW p \in Profile, NEW x \in Profile, M!Block(p, x)
  PROVE  MessagesInv'
<1>1. /\ SameData /\ req' = req /\ overlapped' = overlapped /\ raced' = raced
      /\ buried' = buried /\ blocks' \subseteq Profile \X Profile
  BY Typed DEF M!Block, SameData, MessagesInv
<1>2. \A o : Going(o) /\ M!Doing(o)' = M!Doing(o)
  BY <1>1, RestGoing
<1>3. RoomsTyped' /\ MsgsTyped' /\ ClientsTyped' /\ M!HistoryCut' /\ SameMessages
  BY <1>1, DataKept
<1>4. req \in [Request -> M!Work \cup {None}]
  BY Typed DEF MessagesInv, ReqTyped
<1>5. ReqTyped'
  BY <1>1, <1>2, <1>3, <1>4, ReqKept DEF MessagesInv, SameMessages
<1>6. MessageTypes'
  BY <1>1, <1>3, <1>5, TypedNext
<1>7. PairsPart' /\ LocksPart' /\ ToldPart' /\ LeftFits'
  BY <1>1, <1>2, <1>3, SamePairs, LocksKept, SameTold, SameLeft DEF MessagesInv
<1> QED BY <1>3, <1>6, <1>7 DEF MessagesInv

LEMMA GiveUpKeeps ==
  ASSUME MessagesInv, NEW q \in Request, M!GiveUp(q)
  PROVE  MessagesInv'
<1>1. /\ SameData /\ M!Done(q) /\ overlapped' = overlapped /\ raced' = raced
      /\ buried' = buried /\ blocks' = blocks
  BY DEF M!GiveUp, SameData
<1>2. MessageTypes /\ blocks \subseteq Profile \X Profile
  BY Typed DEF MessagesInv
<1>3. req' \in [Request -> M!Work \cup {None}] /\ \A o : M!Doing(o)' = M!Doing(o) \ {q}
  BY <1>1, <1>2, Finish
<1>4. \A o : Going(o)
  BY <1>1, <1>2, FinishGoing
<1>5. M!Doing("commit")' = M!Doing("commit")
  BY <1>3 DEF M!GiveUp, M!Doing
<1>6. RoomsTyped' /\ MsgsTyped' /\ ClientsTyped' /\ M!HistoryCut' /\ SameMessages
  BY <1>1, DataKept
<1>7. ReqTyped'
  BY <1>2, <1>3, <1>4, <1>6, ReqKept DEF SameMessages
<1>8. MessageTypes'
  BY <1>1, <1>2, <1>6, <1>7, TypedNext
<1>9. PairsPart' /\ LocksPart' /\ ToldPart' /\ LeftFits'
  BY <1>1, <1>4, <1>5, <1>6, SamePairs, LocksKept, SameTold, SameLeft DEF MessagesInv
<1> QED BY <1>6, <1>8, <1>9 DEF MessagesInv

\* A message is loaded, to be edited or deleted.
LEMMA LoadedKeeps ==
  ASSUME MessagesInv, NEW q \in Request, M!Free(q), NEW t \in M!Changing, t.m \in DOMAIN msgs,
         t.op = "edit" => (t.deleted <=> msgs[t.m].deleted),
         t.op = "delete" => t.deleted,
         req' = [req EXCEPT ![q] = t],
         UNCHANGED <<rooms, msgs, blocks, subs, seen, overlapped, raced, buried, stale,
                     lingering>>
  PROVE  MessagesInv'
<1>1. MessageTypes /\ blocks \subseteq Profile \X Profile /\ RequestsFit
  BY Typed DEF MessagesInv, ReqTyped
<1>2. t \in M!Work /\ t.op \in {"edit", "delete"}
  BY DEF M!Work, M!Changing
<1>3. /\ req' \in [Request -> M!Work \cup {None}] /\ req'[q] = t
      /\ \A k \in Request \ {q} : req'[k] = req[k]
      /\ \A o : o # t.op => Going(o) /\ M!Doing(o)' = M!Doing(o)
      /\ M!Doing(t.op)' = M!Doing(t.op) \cup {q}
      /\ \A o : q \notin M!Doing(o)
  BY <1>1, <1>2, Takes
<1>4. \A o : M!Doing(o) \subseteq Request
  BY DEF M!Doing
<1>5. SameData /\ RoomsTyped' /\ MsgsTyped' /\ ClientsTyped' /\ M!HistoryCut' /\ SameMessages
  BY DataKept DEF SameData
<1>6. /\ Going("create") /\ Going("commit") /\ Going("erase")
      /\ M!Doing("commit")' = M!Doing("commit")
  BY <1>2, <1>3
<1>7. \A k \in M!Doing("edit")' \cup M!Doing("delete")' :
        \/ k = q
        \/ k # q /\ req'[k] = req[k] /\ k \in M!Doing("edit") \cup M!Doing("delete")
  BY <1>2, <1>3, <1>4
<1>8. RequestsFit'
  <2>1. \A k \in M!Doing("edit")' \cup M!Doing("delete")' : req'[k].m \in DOMAIN msgs'
    BY <1>1, <1>3, <1>7 DEF RequestsFit
  <2> QED BY <1>1, <1>6, <2>1 DEF RequestsFit, Going
<1>9. MessageTypes'
  BY <1>1, <1>3, <1>5, <1>8, TypedNext DEF ReqTyped
<1>10. EditsFit'
  <2>1. ASSUME NEW k \in M!Doing("edit")', req'[k].m \notin raced'
        PROVE  req'[k].deleted <=> msgs'[req'[k].m].deleted
    <3>1. CASE k = q
      BY <1>3, <3>1 DEF M!Doing
    <3>2. CASE k # q
      <4>1. k \in M!Doing("edit") /\ req'[k] = req[k]
        BY <1>2, <1>3, <1>4, <2>1, <3>2
      <4> QED BY <2>1, <4>1 DEF MessagesInv, LocksPart, EditsFit
    <3> QED BY <3>1, <3>2
  <2>2. ASSUME NEW k \in M!Doing("delete")'
        PROVE  req'[k].deleted
    <3>1. CASE k = q
      BY <1>3, <3>1 DEF M!Doing
    <3>2. CASE k # q
      <4>1. k \in M!Doing("delete") /\ req'[k] = req[k]
        BY <1>2, <1>3, <1>4, <2>2, <3>2
      <4> QED BY <4>1 DEF MessagesInv, LocksPart, EditsFit
    <3> QED BY <3>1, <3>2
  <2> QED BY <2>1, <2>2 DEF EditsFit
<1>11. Locks' /\ BuriedFits' /\ M!DeletedStays'
  BY <1>6 DEF MessagesInv, LocksPart, Locks, Going, BuriedFits, M!DeletedStays
<1>12. PairsPart' /\ ToldPart' /\ LeftFits'
  BY <1>5, <1>6, SamePairs, SameTold, SameLeft DEF MessagesInv
<1> QED BY <1>5, <1>9, <1>10, <1>11, <1>12 DEF MessagesInv, LocksPart

LEMMA EditKeeps ==
  ASSUME MessagesInv, NEW q \in Request, NEW p \in Profile, NEW m \in DOMAIN msgs,
         NEW text \in Text, M!ChatRoomEditMessage(q, p, m, text)
  PROVE  MessagesInv'
<1> DEFINE t == [op |-> "edit", m |-> m, text |-> text, deleted |-> msgs[m].deleted]
<1>1. msgs[m].deleted \in BOOLEAN /\ m \in M!MessageId
  BY MessageType, DomainsAreIds DEF MessagesInv
<1>2. t \in M!Changing /\ t.m = m /\ t.op = "edit" /\ t.deleted = msgs[m].deleted
  BY <1>1 DEF M!Changing
<1>3. req' = [req EXCEPT ![q] = t] /\ M!Free(q)
  BY DEF M!ChatRoomEditMessage
<1> HIDE DEF t
<1> QED BY <1>2, <1>3, LoadedKeeps DEF M!ChatRoomEditMessage

LEMMA DeleteMessageKeeps ==
  ASSUME MessagesInv, NEW q \in Request, NEW p \in Profile, NEW m \in DOMAIN msgs,
         M!ChatRoomDeleteMessage(q, p, m)
  PROVE  MessagesInv'
<1> DEFINE t == [op |-> "delete", m |-> m, text |-> msgs[m].text, deleted |-> TRUE]
<1>1. msgs[m].text \in Text /\ m \in M!MessageId
  BY MessageType, DomainsAreIds DEF MessagesInv
<1>2. t \in M!Changing /\ t.m = m /\ t.op = "delete" /\ t.deleted
  BY <1>1 DEF M!Changing
<1>3. req' = [req EXCEPT ![q] = t] /\ M!Free(q)
  BY DEF M!ChatRoomDeleteMessage
<1> HIDE DEF t
<1> QED BY <1>2, <1>3, LoadedKeeps DEF M!ChatRoomDeleteMessage

\* An operator begins to erase a message, and sees the conversation as it is.
LEMMA EraseReadKeeps ==
  ASSUME MessagesInv, NEW q \in Request, NEW m \in DOMAIN msgs, M!EraseRead(q, m)
  PROVE  MessagesInv'
<1>1. MessageTypes /\ blocks \subseteq Profile \X Profile /\ RequestsFit
  BY Typed DEF MessagesInv, ReqTyped
<1>2. /\ msgs[m].room \in M!RoomId /\ m \in M!MessageId
      /\ M!In(msgs[m].room) \subseteq DOMAIN msgs /\ DOMAIN msgs \subseteq M!MessageId
  BY <1>1, MessageType, DomainsAreIds DEF M!In
<1>3. PICK t \in M!Erasing : /\ req' = [req EXCEPT ![q] = t] /\ t.op = "erase" /\ t.m = m
                             /\ t.room = msgs[m].room /\ t.left = M!In(msgs[m].room) \ {m}
  <2> DEFINE s == [op |-> "erase", room |-> msgs[m].room, m |-> m,
                   left |-> M!In(msgs[m].room) \ {m}]
  <2>1. /\ s \in M!Erasing /\ s.op = "erase" /\ s.m = m /\ s.room = msgs[m].room
        /\ s.left = M!In(msgs[m].room) \ {m}
    BY <1>2 DEF M!Erasing
  <2>2. req' = [req EXCEPT ![q] = s]
    BY DEF M!EraseRead
  <2> HIDE DEF s
  <2> QED BY <2>1, <2>2
<1>4. req' = [req EXCEPT ![q] = t] /\ M!Free(q)
  BY <1>3 DEF M!EraseRead
<1>5. t \in M!Work
  BY <1>3 DEF M!Work
<1>6. /\ req' \in [Request -> M!Work \cup {None}] /\ req'[q] = t
      /\ \A k \in Request \ {q} : req'[k] = req[k]
      /\ \A o : o # "erase" => Going(o) /\ M!Doing(o)' = M!Doing(o)
      /\ M!Doing("erase")' = M!Doing("erase") \cup {q}
      /\ \A o : q \notin M!Doing(o)
  <2>1. /\ req' \in [Request -> M!Work \cup {None}] /\ req'[q] = t
        /\ \A k \in Request \ {q} : req'[k] = req[k]
        /\ \A o : o # t.op => Going(o) /\ M!Doing(o)' = M!Doing(o)
        /\ M!Doing(t.op)' = M!Doing(t.op) \cup {q}
        /\ \A o : q \notin M!Doing(o)
    BY <1>1, <1>4, <1>5, Takes
  <2> QED BY <1>3, <2>1
<1>7. /\ SameData /\ overlapped' = overlapped /\ raced' = raced /\ buried' = buried
      /\ blocks' = blocks
  BY DEF M!EraseRead, SameData
<1>8. RoomsTyped' /\ MsgsTyped' /\ ClientsTyped' /\ M!HistoryCut' /\ SameMessages
  BY <1>7, DataKept
<1>9. /\ Going("create") /\ Going("commit") /\ Going("edit") /\ Going("delete")
      /\ M!Doing("commit")' = M!Doing("commit")
  BY <1>6
<1>10. \A k \in M!Doing("erase")' : k = q \/ (k \in M!Doing("erase") /\ req'[k] = req[k])
  BY <1>6 DEF M!Doing
<1>11. msgs' = msgs /\ rooms' = rooms /\ stale' = stale
  BY <1>7 DEF SameData
<1>12. RequestsFit'
  <2>1. \A k \in M!Doing("erase")' : /\ req'[k].m \in DOMAIN msgs'
                                     /\ req'[k].room = msgs'[req'[k].m].room
                                     /\ req'[k].left \subseteq DOMAIN msgs'
    BY <1>1, <1>2, <1>3, <1>6, <1>10, <1>11 DEF RequestsFit
  <2> QED BY <1>1, <1>9, <1>11, <2>1 DEF RequestsFit, Going
<1>13. MessageTypes'
  BY <1>1, <1>6, <1>7, <1>8, <1>12, TypedNext DEF ReqTyped
<1>14. LeftFits'
  <2>1. \A r : M!In(r)' = M!In(r)
    BY <1>11 DEF M!In
  <2>2. LeftFits
    BY DEF MessagesInv
  <2>3. ASSUME NEW k \in M!Doing("erase")', NEW r \in DOMAIN rooms, r = req'[k].room,
               ~rooms[r].group, r \notin stale
        PROVE  M!In(r) \subseteq req'[k].left \cup {req'[k].m}
    BY <1>3, <1>6, <1>10, <2>2, <2>3 DEF LeftFits
  <2> QED BY <1>11, <2>1, <2>2, <2>3 DEF LeftFits
<1>15. PairsPart' /\ LocksPart' /\ ToldPart'
  BY <1>1, <1>7, <1>8, <1>9, SamePairs, SameTold, LocksKept DEF MessagesInv
<1> QED BY <1>8, <1>13, <1>14, <1>15 DEF MessagesInv

-----------------------------------------------------------------------------
(* Messages: rooms for two. *)

LEMMA TwoOf ==
  ASSUME NEW x, NEW y, x # y
  PROVE  Cardinality({x, y}) = 2
<1>1. IsFiniteSet({x}) /\ Cardinality({x}) = 1
  BY FS_Singleton
<1>2. y \notin {x} /\ {x} \cup {y} = {x, y}
  OBVIOUS
<1>3. Cardinality({x} \cup {y}) = Cardinality({x}) + 1
  BY <1>1, <1>2, FS_AddElement
<1> QED BY <1>1, <1>2, <1>3

LEMMA TwoIsPair ==
  ASSUME NEW S, M!Cardinality(S) = 2
  PROVE  Pair(S)
<1>1. Cardinality(S) = 2
  BY SameCardinality
<1>2. SUFFICES ASSUME ~Pair(S) PROVE FALSE
  OBVIOUS
<1>3. CASE S = {}
  BY <1>1, <1>3, FS_EmptySet
<1>4. CASE S # {}
  <2>1. PICK x \in S : TRUE
    BY <1>4
  <2>2. S = {x}
    BY <1>2, <2>1 DEF Pair
  <2>3. Cardinality({x}) = 1
    BY FS_Singleton
  <2> QED BY <1>1, <2>2, <2>3
<1> QED BY <1>3, <1>4

\* ChatRoomCreate finds a room of two profiles, one row each.
LEMMA PairFound ==
  ASSUME MessageTypes, PairRows, NEW r \in DOMAIN rooms, ~rooms[r].group,
         NEW s \in Seq(Profile), Len(s) = 2, M!Members(r) = M!Range(s), Pair(M!Members(r))
  PROVE  r \in M!Existing(s)
<1>1. PICK x, y \in Profile :
        /\ M!Members(r) = {x, y}
        /\ x # y => Len(rooms[r].people[x]) = 1 /\ Len(rooms[r].people[y]) = 1
  BY DEF PairRows
<1>2. x # y
  BY <1>1 DEF Pair
<1>3. M!Range(s) = {s[1], s[2]}
  BY DEF M!Range
<1>4. M!Copies(r, s[1]) = 1 /\ M!Copies(r, s[2]) = 1
  BY <1>1, <1>2, <1>3 DEF M!Copies
<1>5. \A p \in M!Members(r) : rooms[r].people[p] \in Seq(M!Person)
  BY RoomTypes
<1>6. DOMAIN rooms[r].people[x] = {1} /\ DOMAIN rooms[r].people[y] = {1}
  BY <1>1, <1>2, <1>5
<1>7. UNION {{p} \X DOMAIN rooms[r].people[p] : p \in M!Members(r)} = {<<x, 1>>, <<y, 1>>}
  BY <1>1, <1>6
<1>8. M!CountParticipants(r) = 2
  <2>1. <<x, 1>> # <<y, 1>>
    BY <1>2
  <2>2. Cardinality({<<x, 1>>, <<y, 1>>}) = 2
    BY <2>1, TwoOf
  <2> QED BY <1>7, <2>2, SameCardinality DEF M!CountParticipants
<1> QED BY <1>4, <1>8 DEF M!Existing

\* ChatRoomCreate up to the look-up.
LEMMA CreateKeeps ==
  ASSUME MessagesInv, NEW q \in Request, NEW p \in Profile, NEW x \in Creations,
         M!ChatRoomCreate(q, p, x)
  PROVE  MessagesInv'
<1> DEFINE people == Append(x.guests, p)
           group == x.group \/ Len(people) > 2
           t == [op |-> "create", host |-> p, people |-> people, group |-> group]
           same == {k \in M!Doing("create") :
                      ~req[k].group /\ M!Range(req[k].people) = M!Range(people)}
<1>1. MessageTypes /\ blocks \subseteq Profile \X Profile /\ RequestsFit
  BY Typed DEF MessagesInv, ReqTyped
<1>2. people \in Seq(Profile) /\ group \in BOOLEAN
  BY InputAssumption
<1>3. ~group => Len(people) = 2
  <2>1. Len(people) >= 2
    BY DEF M!ChatRoomCreate, M!can_add_chatroom
  <2> QED BY <1>2, <2>1
<1>4. /\ req' = [req EXCEPT ![q] = t] /\ M!Free(q)
      /\ group \/ M!Existing(people) = {}
      /\ overlapped' = IF ~group /\ same # {} THEN overlapped \cup {M!Range(people)}
                       ELSE overlapped
  BY DEF M!ChatRoomCreate
<1>5. /\ SameData /\ raced' = raced /\ buried' = buried /\ blocks' = blocks
  BY DEF M!ChatRoomCreate, SameData
<1>6. /\ t \in M!Creating /\ t.op = "create" /\ t.people = people /\ t.group = group
  BY <1>2 DEF M!Creating
<1>7. t \in M!Work
  BY <1>6 DEF M!Work
<1> HIDE DEF people, group, t
<1>8. /\ req' \in [Request -> M!Work \cup {None}] /\ req'[q] = t
      /\ \A k \in Request \ {q} : req'[k] = req[k]
      /\ \A o : o # "create" => Going(o) /\ M!Doing(o)' = M!Doing(o)
      /\ M!Doing("create")' = M!Doing("create") \cup {q}
      /\ \A o : q \notin M!Doing(o)
  BY <1>1, <1>4, <1>6, <1>7, Takes
<1>9. RoomsTyped' /\ MsgsTyped' /\ ClientsTyped' /\ M!HistoryCut' /\ SameMessages
  BY <1>5, DataKept
<1>10. /\ Going("erase") /\ Going("commit") /\ Going("edit") /\ Going("delete")
       /\ M!Doing("commit")' = M!Doing("commit")
  BY <1>8
<1>11. \A k \in M!Doing("create")' : k = q \/ (k \in M!Doing("create") /\ req'[k] = req[k])
  BY <1>8 DEF M!Doing
<1>12. \A k \in M!Doing("create") : k # q /\ req'[k] = req[k]
  BY <1>8 DEF M!Doing
<1>13. RequestsFit'
  <2>1. \A k \in M!Doing("create")' : ~req'[k].group => Len(req'[k].people) = 2
    BY <1>1, <1>3, <1>6, <1>8, <1>11 DEF RequestsFit
  <2> QED BY <1>1, <1>5, <1>10, <2>1 DEF RequestsFit, Going, SameData
<1>14. MessageTypes'
  BY <1>1, <1>5, <1>8, <1>9, <1>13, TypedNext DEF ReqTyped
<1>15. rooms' = rooms /\ PairsPart
  BY <1>5 DEF SameData, MessagesInv
<1>16. PairRows' /\ M!PairRoomsUnique'
  <2>1. overlapped \subseteq overlapped'
    BY <1>4
  <2>2. PairRows'
    BY <1>15 DEF PairsPart, PairRows, M!Members
  <2>3. M!PairRoomsUnique'
    <3>1. \A r : M!Members(r)' = M!Members(r)
      BY <1>15 DEF M!Members
    <3>2. SUFFICES ASSUME NEW r \in DOMAIN rooms, NEW s \in DOMAIN rooms,
                          r # s, ~rooms[r].group, ~rooms[s].group,
                          M!Members(r)' = M!Members(s)', M!Cardinality(M!Members(r)') = 2
          PROVE  M!Members(r)' \in overlapped'
      BY <1>15 DEF M!PairRoomsUnique, M!Cardinality
    <3> QED BY <1>15, <2>1, <3>1, <3>2 DEF PairsPart, M!PairRoomsUnique
  <2> QED BY <2>2, <2>3
<1>17. PairsAsked'
  <2>1. SUFFICES ASSUME NEW k \in M!Doing("create")', ~req'[k].group
        PROVE  /\ \A r \in DOMAIN rooms :
                    ~rooms[r].group /\ M!Members(r) = M!Range(req'[k].people)
                    /\ Pair(M!Members(r)) => M!Members(r) \in overlapped'
               /\ \A j \in M!Doing("create")' :
                    j # k /\ ~req'[j].group /\ M!Range(req'[j].people) = M!Range(req'[k].people)
                      => M!Range(req'[k].people) \in overlapped'
    BY <1>15 DEF PairsAsked, M!Members, Pair, M!Range
  <2>2. CASE k = q
    <3>1. req'[k].people = people /\ ~group /\ Len(people) = 2 /\ M!Existing(people) = {}
      BY <1>3, <1>4, <1>6, <1>8, <2>1, <2>2
    <3>2. \A r \in DOMAIN rooms :
            ~(~rooms[r].group /\ M!Members(r) = M!Range(people) /\ Pair(M!Members(r)))
      BY <1>1, <1>2, <1>15, <3>1, PairFound DEF PairsPart
    <3>3. ASSUME NEW j \in M!Doing("create")', j # q, ~req'[j].group,
                 M!Range(req'[j].people) = M!Range(people)
          PROVE  M!Range(people) \in overlapped'
      <4>1. j \in M!Doing("create") /\ req'[j] = req[j]
        BY <1>11, <3>3
      <4>2. j \in same
        BY <3>3, <4>1
      <4> QED BY <1>4, <3>1, <4>2
    <3> QED BY <2>2, <3>1, <3>2, <3>3
  <2>3. CASE k # q
    <3>1. k \in M!Doing("create") /\ req'[k] = req[k]
      BY <1>11, <2>3
    <3>2. ASSUME NEW r \in DOMAIN rooms, ~rooms[r].group,
                 M!Members(r) = M!Range(req'[k].people), Pair(M!Members(r))
          PROVE  M!Members(r) \in overlapped'
      <4>1. M!Members(r) = M!Range(req[k].people) /\ ~req[k].group
        BY <2>1, <3>1, <3>2
      <4>2. M!Members(r) \in overlapped
        BY <1>15, <3>1, <3>2, <4>1 DEF PairsPart, PairsAsked
      <4> QED BY <1>4, <4>2
    <3>3. ASSUME NEW j \in M!Doing("create")', j # k, ~req'[j].group,
                 M!Range(req'[j].people) = M!Range(req'[k].people)
          PROVE  M!Range(req'[k].people) \in overlapped'
      <4>1. M!Range(req'[k].people) = M!Range(req[k].people) /\ ~req[k].group
        BY <2>1, <3>1
      <4>2. CASE j = q
        <5>1. M!Range(people) = M!Range(req[k].people) /\ ~group
          BY <1>6, <1>8, <3>3, <4>1, <4>2
        <5>2. k \in same
          BY <3>1, <4>1, <5>1
        <5> QED BY <1>4, <4>1, <5>1, <5>2
      <4>3. CASE j # q
        <5>1. j \in M!Doing("create") /\ req'[j] = req[j]
          BY <1>11, <3>3, <4>3
        <5>2. ~req[j].group /\ M!Range(req[j].people) = M!Range(req[k].people)
          BY <3>3, <4>1, <5>1
        <5>3. M!Range(req[k].people) \in overlapped
          BY <1>15, <3>1, <3>3, <4>1, <5>1, <5>2 DEF PairsPart, PairsAsked
        <5> QED BY <1>4, <4>1, <5>3
      <4> QED BY <4>2, <4>3
    <3> QED BY <3>2, <3>3
  <2> QED BY <2>2, <2>3
<1>18. LocksPart' /\ ToldPart' /\ LeftFits'
  BY <1>1, <1>5, <1>9, <1>10, SameTold, SameLeft, LocksKept DEF MessagesInv
<1> QED BY <1>9, <1>14, <1>16, <1>17, <1>18 DEF MessagesInv, PairsPart

\* A room is added.
LEMMA RoomAdded ==
  ASSUME MessageTypes, Len(rooms) < MaxRooms, NEW x, RoomOK(x), NEW last \in 0..MaxMessages,
         \/ rooms' = Append(rooms, x) /\ last = x.last
         \/ rooms' = [Append(rooms, x) EXCEPT ![Len(rooms) + 1].last = last]
  PROVE  LET r == Len(rooms) + 1
         IN  /\ RoomsTyped' /\ DOMAIN rooms' = DOMAIN rooms \cup {r} /\ r \notin DOMAIN rooms
             /\ r \in M!RoomId /\ \A k \in DOMAIN rooms : rooms'[k] = rooms[k]
             /\ rooms'[r].group = x.group /\ rooms'[r].people = x.people
             /\ rooms'[r].last = last
<1> DEFINE r == Len(rooms) + 1
           y == IF rooms' = Append(rooms, x) /\ last = x.last THEN x
                ELSE [x EXCEPT !.last = last]
<1>1. RoomOK(y) /\ y.group = x.group /\ y.people = x.people /\ y.last = last
  <2>1. CASE rooms' = Append(rooms, x) /\ last = x.last
    BY <2>1
  <2>2. CASE ~(rooms' = Append(rooms, x) /\ last = x.last)
    BY <2>2, LastPut
  <2> QED BY <2>1, <2>2
<1>2. x \in AnyRoom /\ y \in AnyRoom
  BY <1>1, RoomOKIsAny
<1>3. rooms \in Seq(AnyRoom) /\ \A k \in DOMAIN rooms : RoomOK(rooms[k])
  BY Typed DEF RoomsTyped
<1>4. Len(rooms) \in Nat /\ DOMAIN rooms = 1..Len(rooms)
  BY DomainsAreIds
<1>5. MaxRooms \in Nat
  BY BoundAssumption
<1>6. r \in M!RoomId /\ r \notin DOMAIN rooms
  BY <1>4, <1>5 DEF M!RoomId
<1> DEFINE s == Append(rooms, x)
<1>7. /\ s \in Seq(AnyRoom) /\ Len(s) = r /\ s[r] = x
      /\ \A k \in DOMAIN rooms : s[k] = rooms[k]
  BY <1>2, <1>3, <1>4
<1>8. /\ rooms' \in Seq(AnyRoom) /\ Len(rooms') = r /\ rooms'[r] = y
      /\ DOMAIN rooms' = DOMAIN rooms \cup {r} /\ \A k \in DOMAIN rooms : rooms'[k] = rooms[k]
  <2>1. CASE rooms' = s /\ last = x.last
    <3>1. y = x
      BY <2>1
    <3> HIDE DEF s, y
    <3> QED BY <1>4, <1>7, <2>1, <3>1
  <2>2. CASE ~(rooms' = s /\ last = x.last)
    <3>1. rooms' = [s EXCEPT ![r] = [s[r] EXCEPT !.last = last]]
      BY <2>2
    <3>2. y = [x EXCEPT !.last = last]
      BY <2>2
    <3> HIDE DEF s, y
    <3>3. rooms' = [s EXCEPT ![r] = y]
      BY <1>7, <3>1, <3>2
    <3> QED BY <1>2, <1>4, <1>6, <1>7, <3>3
  <2> QED BY <2>1, <2>2
<1> HIDE DEF s, y
<1>9. \A k \in DOMAIN rooms' : RoomOK(rooms'[k])
  BY <1>1, <1>3, <1>8
<1>10. RoomsTyped'
  BY <1>4, <1>5, <1>8, <1>9 DEF RoomsTyped, RoomOK
<1> QED BY <1>1, <1>6, <1>8, <1>10

\* The rows of the participants of a new room: as many as the list has entries.
LEMMA Invited ==
  ASSUME MessageTypes, NEW people \in Seq(Profile)
  PROVE  LET copies(p) == M!Cardinality({i \in DOMAIN people : people[i] = p})
             f == [p \in M!Range(people) |-> [i \in 1..copies(p) |-> M!Joining]]
         IN  /\ M!Range(people) \subseteq Profile /\ f \in [M!Range(people) -> Seq(M!Person)]
             /\ \A p \in M!Range(people) : Len(f[p]) > 0
             /\ Len(people) = 2 =>
                  \E x, y \in Profile : /\ M!Range(people) = {x, y}
                                        /\ x # y => Len(f[x]) = 1 /\ Len(f[y]) = 1
<1> DEFINE at(p) == {i \in DOMAIN people : people[i] = p}
           copies(p) == M!Cardinality(at(p))
           f == [p \in M!Range(people) |-> [i \in 1..copies(p) |-> M!Joining]]
<1>1. M!Range(people) \subseteq Profile
  BY DEF M!Range
<1>2. M!Joining \in M!Person
  BY DomainsAreIds DEF M!Joining, M!Person
<1>3. \A p \in M!Range(people) : copies(p) \in Nat /\ copies(p) > 0
  <2>1. TAKE p \in M!Range(people)
  <2>2. PICK i \in DOMAIN people : people[i] = p
    BY DEF M!Range
  <2>3. at(p) \subseteq 1..Len(people) /\ i \in at(p) /\ Len(people) \in Nat
    BY <2>2
  <2> HIDE DEF at
  <2>4. IsFiniteSet(1..Len(people))
    BY <2>3, FS_Interval
  <2>5. IsFiniteSet(at(p)) /\ at(p) # {}
    BY <2>3, <2>4, FS_Subset
  <2>6. Cardinality(at(p)) \in Nat /\ Cardinality(at(p)) # 0
    BY <2>5, FS_CardinalityType, FS_EmptySet
  <2> QED BY <2>6, SameCardinality
<1>4. ASSUME Len(people) = 2
      PROVE  \E x, y \in Profile : /\ M!Range(people) = {x, y}
                                   /\ x # y => copies(x) = 1 /\ copies(y) = 1
  <2>1. DOMAIN people = {1, 2} /\ people[1] \in Profile /\ people[2] \in Profile
    BY <1>4
  <2>2. M!Range(people) = {people[1], people[2]}
    BY <2>1 DEF M!Range
  <2>3. ASSUME people[1] # people[2]
        PROVE  copies(people[1]) = 1 /\ copies(people[2]) = 1
    <3>1. at(people[1]) = {1} /\ at(people[2]) = {2}
      BY <2>1, <2>3
    <3> HIDE DEF at
    <3>2. Cardinality(at(people[1])) = 1 /\ Cardinality(at(people[2])) = 1
      BY <3>1, FS_Singleton
    <3> QED BY <3>2, SameCardinality
  <2> QED BY <2>1, <2>2, <2>3
<1> HIDE DEF copies
<1>5. \A p \in M!Range(people) : /\ f[p] = [i \in 1..copies(p) |-> M!Joining]
                                 /\ f[p] \in Seq(M!Person) /\ Len(f[p]) = copies(p)
  BY <1>2, <1>3
<1>6. f \in [M!Range(people) -> Seq(M!Person)]
  BY <1>5
<1> HIDE DEF f
<1>7. \A p \in M!Range(people) : Len(f[p]) > 0
  BY <1>3, <1>5
<1>8. Len(people) = 2 => \E x, y \in Profile : /\ M!Range(people) = {x, y}
                                               /\ x # y => Len(f[x]) = 1 /\ Len(f[y]) = 1
  BY <1>4, <1>5
<1> QED BY <1>1, <1>6, <1>7, <1>8 DEF f, copies, at

\* The rest of ChatRoomCreate.
LEMMA OpenRoomKeeps ==
  ASSUME MessagesInv, NEW q \in Request, M!OpenRoom(q)
  PROVE  MessagesInv'
<1> DEFINE people == req[q].people
           copies(p) == M!Cardinality({i \in DOMAIN people : people[i] = p})
           f == [p \in M!Range(people) |-> [i \in 1..copies(p) |-> M!Joining]]
           room == [group |-> req[q].group, host |-> req[q].host, last |-> 0, people |-> f]
<1>1. MessageTypes /\ blocks \subseteq Profile \X Profile /\ RequestsFit
  BY Typed DEF MessagesInv, ReqTyped
<1>2. /\ q \in M!Doing("create") /\ Len(rooms) < MaxRooms /\ M!Done(q)
      /\ overlapped' = overlapped /\ raced' = raced /\ buried' = buried /\ blocks' = blocks
      /\ subs' = subs /\ stale' = stale /\ lingering' = lingering
  BY DEF M!OpenRoom
<1>0. PICK r \in M!RoomId : r = Len(rooms) + 1
  BY <1>1, <1>2, DomainsAreIds, BoundAssumption DEF M!RoomId
<1>3. IF req[q].group THEN M!Announce(r, Append(rooms, room))
      ELSE rooms' = Append(rooms, room) /\ UNCHANGED <<msgs, seen>>
  BY <1>0 DEF M!OpenRoom
<1>4. people \in Seq(Profile) /\ req[q].host \in Profile /\ req[q].group \in BOOLEAN
  BY <1>1, <1>2, WorkTypes
<1>5. /\ M!Range(people) \subseteq Profile /\ f \in [M!Range(people) -> Seq(M!Person)]
      /\ \A p \in M!Range(people) : Len(f[p]) > 0
      /\ Len(people) = 2 =>
           \E x, y \in Profile : /\ M!Range(people) = {x, y}
                                 /\ x # y => Len(f[x]) = 1 /\ Len(f[y]) = 1
  BY <1>1, <1>4, Invited
<1> HIDE DEF f
<1>6. 0 \in 0..MaxMessages
  BY BoundAssumption
<1>7. RoomOK(room) /\ room.group = req[q].group /\ room.people = f /\ room.last = 0
  <2>1. room \in M!Room(M!Range(people))
    BY <1>4, <1>5, <1>6 DEF M!Room
  <2>2. room.people = f /\ DOMAIN f = M!Range(people)
    BY <1>5
  <2> QED BY <1>5, <2>1, <2>2 DEF RoomOK
<1> HIDE DEF room
<1>8. \/ rooms' = Append(rooms, room)
      \/ \E m \in M!MessageId : rooms' = [Append(rooms, room) EXCEPT ![r].last = m]
  BY <1>1, <1>3, Announced
<1>9. Grown(r) /\ (~req[q].group => msgs' = msgs)
  <2>1. CASE req[q].group
    BY <1>1, <1>3, <2>1, Announced
  <2>2. CASE ~req[q].group
    BY <1>1, <1>3, <2>2, SilentGrown
  <2> QED BY <2>1, <2>2
<1>10. /\ RoomsTyped' /\ DOMAIN rooms' = DOMAIN rooms \cup {r} /\ r \notin DOMAIN rooms
       /\ \A k \in DOMAIN rooms : rooms'[k] = rooms[k]
       /\ rooms'[r].group = req[q].group /\ rooms'[r].people = f
  <2>1. CASE rooms' = Append(rooms, room)
    BY <1>0, <1>1, <1>2, <1>6, <1>7, <2>1, RoomAdded
  <2>2. CASE \E m \in M!MessageId : rooms' = [Append(rooms, room) EXCEPT ![r].last = m]
    <3>1. PICK m \in M!MessageId : rooms' = [Append(rooms, room) EXCEPT ![r].last = m]
      BY <2>2
    <3>2. m \in 0..MaxMessages
      BY <3>1 DEF M!MessageId
    <3> QED BY <1>0, <1>1, <1>2, <1>7, <3>1, <3>2, RoomAdded
  <2> QED BY <1>8, <2>1, <2>2
<1>11. /\ req' \in [Request -> M!Work \cup {None}]
       /\ \A o : M!Doing(o)' = M!Doing(o) \ {q}
       /\ \A o : Going(o) /\ q \in Request
  BY <1>1, <1>2, Finish, FinishGoing
<1>12. M!Doing("commit")' = M!Doing("commit")
  BY <1>2, <1>11 DEF M!Doing
<1>13. MsgsTyped' /\ ReqTyped' /\ ClientsTyped' /\ LocksPart' /\ ToldPart'
  <2>1. DOMAIN rooms \subseteq DOMAIN rooms' /\ r \in DOMAIN rooms'
    BY <1>10
  <2> QED BY <1>1, <1>2, <1>9, <1>11, <1>12, <2>1, GrownKeeps DEF MessagesInv
<1>14. MessageTypes'
  BY <1>1, <1>2, <1>10, <1>13, TypedNext
<1>15. /\ \A k \in DOMAIN rooms : M!Members(k)' = M!Members(k)
       /\ M!Members(r)' = M!Range(people)
  <2>1. DOMAIN f = M!Range(people)
    BY <1>5
  <2> QED BY <1>10, <2>1 DEF M!Members
<1>16. PairRows'
  <2>1. ASSUME NEW k \in DOMAIN rooms', ~rooms'[k].group
        PROVE  \E x, y \in Profile :
                 /\ M!Members(k)' = {x, y}
                 /\ x # y => Len(rooms'[k].people[x]) = 1 /\ Len(rooms'[k].people[y]) = 1
    <3>1. CASE k = r
      <4>1. Len(people) = 2
        BY <1>1, <1>2, <1>10, <2>1, <3>1 DEF RequestsFit
      <4> QED BY <1>5, <1>10, <1>15, <3>1, <4>1
    <3>2. CASE k # r
      <4>1. k \in DOMAIN rooms /\ rooms'[k] = rooms[k] /\ M!Members(k)' = M!Members(k)
        BY <1>10, <1>15, <2>1, <3>2
      <4>2. \E x, y \in Profile :
              /\ M!Members(k) = {x, y}
              /\ x # y => Len(rooms[k].people[x]) = 1 /\ Len(rooms[k].people[y]) = 1
        BY <2>1, <4>1 DEF MessagesInv, PairsPart, PairRows
      <4> QED BY <4>1, <4>2
    <3> QED BY <3>1, <3>2
  <2> QED BY <2>1 DEF PairRows, M!Members
<1>17. PairsAsked
  BY DEF MessagesInv, PairsPart
<1>18. PairsAsked'
  <2>1. SUFFICES ASSUME NEW k \in M!Doing("create")', ~req'[k].group
        PROVE  /\ \A s \in DOMAIN rooms' :
                    ~rooms'[s].group /\ M!Members(s)' = M!Range(req'[k].people)
                    /\ Pair(M!Members(s)') => M!Members(s)' \in overlapped'
               /\ \A j \in M!Doing("create")' :
                    j # k /\ ~req'[j].group /\ M!Range(req'[j].people) = M!Range(req'[k].people)
                      => M!Range(req'[k].people) \in overlapped'
    BY DEF PairsAsked, M!Members, Pair, M!Range
  <2>2. k \in M!Doing("create") /\ k # q /\ req'[k] = req[k] /\ ~req[k].group
    BY <1>11, <2>1 DEF Going
  <2>3. ASSUME NEW s \in DOMAIN rooms', ~rooms'[s].group,
               M!Members(s)' = M!Range(req'[k].people), Pair(M!Members(s)')
        PROVE  M!Members(s)' \in overlapped'
    <3>1. CASE s = r
      <4>1. M!Range(req[q].people) = M!Range(req[k].people) /\ ~req[q].group
        BY <1>10, <1>15, <2>2, <2>3, <3>1
      <4>2. M!Range(req[k].people) \in overlapped
        BY <1>2, <1>17, <2>2, <4>1 DEF PairsAsked
      <4> QED BY <1>2, <2>2, <2>3, <4>2
    <3>2. CASE s # r
      <4>1. s \in DOMAIN rooms /\ ~rooms[s].group /\ M!Members(s)' = M!Members(s)
        BY <1>10, <1>15, <2>3, <3>2
      <4>2. M!Members(s) = M!Range(req[k].people) /\ Pair(M!Members(s))
        BY <2>2, <2>3, <4>1 DEF Pair
      <4>3. M!Members(s) \in overlapped
        BY <1>17, <2>2, <4>1, <4>2 DEF PairsAsked
      <4> QED BY <1>2, <4>1, <4>3
    <3> QED BY <3>1, <3>2
  <2>4. ASSUME NEW j \in M!Doing("create")', j # k, ~req'[j].group,
               M!Range(req'[j].people) = M!Range(req'[k].people)
        PROVE  M!Range(req'[k].people) \in overlapped'
    <3>1. j \in M!Doing("create") /\ req'[j] = req[j]
      BY <1>11 DEF Going
    <3>2. ~req[j].group /\ M!Range(req[j].people) = M!Range(req[k].people)
      BY <2>2, <2>4, <3>1
    <3>3. M!Range(req[k].people) \in overlapped
      BY <1>17, <2>2, <2>4, <3>1, <3>2 DEF PairsAsked
    <3> QED BY <1>2, <2>2, <3>3
  <2> QED BY <2>3, <2>4
<1>19. M!PairRoomsUnique'
  <2>1. SUFFICES ASSUME NEW k \in DOMAIN rooms', NEW s \in DOMAIN rooms',
                        k # s, ~rooms'[k].group, ~rooms'[s].group,
                        M!Members(k)' = M!Members(s)', M!Cardinality(M!Members(k)') = 2
        PROVE  M!Members(k)' \in overlapped'
    BY DEF M!PairRoomsUnique, M!Cardinality
  <2>2. ASSUME NEW z \in DOMAIN rooms, ~rooms[z].group, ~req[q].group,
               M!Members(z) = M!Range(people), M!Cardinality(M!Members(z)) = 2
        PROVE  M!Members(z) \in overlapped
    <3>1. Pair(M!Members(z))
      BY <2>2, TwoIsPair
    <3> QED BY <1>2, <1>17, <2>2, <3>1 DEF PairsAsked
  <2>3. CASE k = r
    <3>1. s \in DOMAIN rooms /\ ~rooms[s].group /\ M!Members(s)' = M!Members(s) /\ ~req[q].group
      BY <1>10, <1>15, <2>1, <2>3
    <3>2. M!Members(s) = M!Range(people) /\ M!Cardinality(M!Members(s)) = 2
      BY <1>15, <2>1, <2>3, <3>1
    <3> QED BY <1>2, <2>1, <2>2, <3>1, <3>2
  <2>4. CASE s = r
    <3>1. k \in DOMAIN rooms /\ ~rooms[k].group /\ M!Members(k)' = M!Members(k) /\ ~req[q].group
      BY <1>10, <1>15, <2>1, <2>4
    <3>2. M!Members(k) = M!Range(people) /\ M!Cardinality(M!Members(k)) = 2
      BY <1>15, <2>1, <2>4, <3>1
    <3> QED BY <1>2, <2>2, <3>1, <3>2
  <2>5. CASE k # r /\ s # r
    <3>1. /\ k \in DOMAIN rooms /\ ~rooms[k].group /\ M!Members(k)' = M!Members(k)
          /\ s \in DOMAIN rooms /\ ~rooms[s].group /\ M!Members(s)' = M!Members(s)
      BY <1>10, <1>15, <2>1, <2>5
    <3>2. M!Members(k) = M!Members(s) /\ M!Cardinality(M!Members(k)) = 2
      BY <2>1, <3>1
    <3>3. M!Members(k) \in overlapped
      BY <2>1, <3>1, <3>2 DEF MessagesInv, PairsPart, M!PairRoomsUnique
    <3> QED BY <1>2, <3>1, <3>3
  <2> QED BY <2>3, <2>4, <2>5
<1>20. \A x \in M!Viewer : \A m \in DOMAIN seen[x] : x[2] \in DOMAIN rooms
  BY <1>1, MessageType DEF MessageTypes, SeenFits
<1>21. M!HistoryCut'
  <2>1. M!Viewer' = M!Viewer
    BY DEF M!Viewer, M!RoomId
  <2>2. SUFFICES ASSUME NEW x \in M!Viewer \ (lingering' \cup subs'), x[2] \in DOMAIN rooms',
                        rooms'[x[2]].group, x[1] \in DOMAIN rooms'[x[2]].people,
                        NEW m \in DOMAIN seen'[x]
        PROVE  m > rooms'[x[2]].people[x[1]][1].since
    BY <2>1 DEF M!HistoryCut, M!Members
  <2>3. m \in DOMAIN seen[x]
    BY <1>2, <1>9, <2>2 DEF Grown
  <2>4. x[2] \in DOMAIN rooms /\ rooms'[x[2]] = rooms[x[2]]
    BY <1>10, <1>20, <2>2, <2>3
  <2> QED BY <1>2, <2>2, <2>3, <2>4 DEF MessagesInv, M!HistoryCut, M!Members
<1>22. LeftFits'
  <2>1. LeftFits
    BY DEF MessagesInv
  <2>2. \A k \in DOMAIN rooms : M!In(k)' = M!In(k)
    BY <1>9, <1>10 DEF Grown, SameMessages, M!In
  <2>3. ~req[q].group => M!In(r)' = {}
    BY <1>1, <1>9, <1>10, MessageType DEF M!In
  <2>4. ASSUME NEW j \in M!Doing("erase")', NEW k \in DOMAIN rooms', k = req'[j].room,
               ~rooms'[k].group, k \notin stale'
        PROVE  M!In(k)' \subseteq req'[j].left \cup {req'[j].m}
    <3>1. j \in M!Doing("erase") /\ req'[j] = req[j]
      BY <1>11 DEF Going
    <3>2. k \in DOMAIN rooms
      BY <1>1, <2>4, <3>1, WorkTypes
    <3>3. M!In(k) \subseteq req[j].left \cup {req[j].m}
      BY <1>2, <1>10, <2>1, <2>4, <3>1, <3>2 DEF LeftFits
    <3> QED BY <2>2, <3>1, <3>2, <3>3
  <2>5. ASSUME NEW k \in DOMAIN rooms', ~rooms'[k].group, M!In(k)' # {}, k \notin stale'
        PROVE  rooms'[k].last # 0
    <3>1. k \in DOMAIN rooms /\ rooms'[k] = rooms[k]
      BY <1>10, <2>3, <2>5
    <3> QED BY <1>2, <2>1, <2>2, <2>5, <3>1 DEF LeftFits
  <2> QED BY <2>4, <2>5 DEF LeftFits
<1> QED BY <1>13, <1>14, <1>16, <1>18, <1>19, <1>21, <1>22 DEF MessagesInv, PairsPart

-----------------------------------------------------------------------------
(* Messages: groups, archiving and sending. *)

\* The participants of a group change, and the group is told.
PeopleSet(r, f) == [rooms EXCEPT ![r].people = f]
LEMMA GroupKeeps ==
  ASSUME MessagesInv, NEW r \in DOMAIN rooms, rooms[r].group = TRUE,
         NEW f, RowsOK(f),
         M!Announce(r, PeopleSet(r, f)),
         UNCHANGED <<blocks, req, subs, overlapped, raced, buried, stale>>
  PROVE  /\ MessageTypes' /\ PairsPart' /\ LocksPart' /\ ToldPart' /\ LeftFits'
         /\ Grown(r) /\ DOMAIN rooms' = DOMAIN rooms
         /\ rooms'[r].group /\ rooms'[r].people = f
         /\ \A k \in DOMAIN rooms \ {r} : rooms'[k] = rooms[k]
<1> DEFINE x == [rooms[r] EXCEPT !.people = f]
           rs == PeopleSet(r, f)
<1>1. MessageTypes /\ blocks \subseteq Profile \X Profile
  BY Typed DEF MessagesInv
<1>2. RoomOK(rooms[r]) /\ rooms \in Seq(AnyRoom) /\ r \in M!RoomId
  BY <1>1, Typed, DomainsAreIds DEF RoomsTyped
<1>0. x = [rooms[r] EXCEPT !.people = f] /\ rs = [rooms EXCEPT ![r] = x]
  BY DEF PeopleSet
<1> HIDE DEF x, rs
<1>3. RoomOK(x) /\ x.group = rooms[r].group /\ x.people = f /\ x.last = rooms[r].last
  BY <1>0, <1>2, PeoplePut
<1>4. rs = [rooms EXCEPT ![r] = x]
  BY <1>0
<1>5. rs[r] = x
  BY <1>2, <1>4
<1>6. Grown(r) /\ (rooms' = rs \/ \E m \in M!MessageId : rooms' = [rs EXCEPT ![r].last = m])
  <2>1. M!Announce(r, rs)
    BY DEF rs
  <2> QED BY <1>1, <1>2, <2>1, Announced
<1>7. \E y : /\ RoomOK(y) /\ y.group = rooms[r].group /\ y.people = f
             /\ rooms' = [rooms EXCEPT ![r] = y]
  <2>1. CASE rooms' = rs
    BY <1>3, <1>4, <2>1
  <2>2. CASE \E m \in M!MessageId : rooms' = [rs EXCEPT ![r].last = m]
    <3>1. PICK m \in M!MessageId : rooms' = [rs EXCEPT ![r].last = m]
      BY <2>2
    <3>2. m \in 0..MaxMessages
      BY <3>1 DEF M!MessageId
    <3> DEFINE y == [x EXCEPT !.last = m]
    <3>3. RoomOK(y) /\ y.group = x.group /\ y.people = x.people
      BY <1>3, <3>2, LastPut
    <3>4. rooms' = [rs EXCEPT ![r] = y]
      BY <1>5, <3>1
    <3> HIDE DEF y
    <3>5. rooms' = [rooms EXCEPT ![r] = y]
      BY <1>4, <3>4
    <3> QED BY <1>3, <3>3, <3>5
  <2> QED BY <1>6, <2>1, <2>2
<1>8. PICK y : /\ RoomOK(y) /\ y.group = rooms[r].group /\ y.people = f
               /\ rooms' = [rooms EXCEPT ![r] = y]
  BY <1>7
<1>9. /\ RoomsTyped' /\ DOMAIN rooms' = DOMAIN rooms /\ rooms'[r] = y
      /\ \A k \in DOMAIN rooms \ {r} : rooms'[k] = rooms[k]
  BY <1>1, <1>8, RoomPut
<1>10. \A o : Going(o) /\ M!Doing(o)' = M!Doing(o)
  BY RestGoing
<1>11. MsgsTyped' /\ ReqTyped' /\ ClientsTyped' /\ LocksPart' /\ ToldPart'
  <2>1. req' \in [Request -> M!Work \cup {None}]
    BY <1>1, Typed DEF ReqTyped
  <2> QED BY <1>1, <1>6, <1>9, <1>10, <2>1, GrownKeeps DEF MessagesInv
<1>12. MessageTypes'
  BY <1>1, <1>9, <1>11, TypedNext
<1>13. \A k \in DOMAIN rooms : /\ rooms'[k].group = rooms[k].group
                               /\ ~rooms[k].group => rooms'[k] = rooms[k]
  BY <1>8, <1>9
<1>14. PairsPart'
  BY <1>9, <1>10, <1>13, PairsKept DEF MessagesInv
<1>15. \A k \in DOMAIN rooms : k # r => M!In(k)' = M!In(k)
  BY <1>6 DEF Grown, SameMessages, M!In
<1>16. \A k \in DOMAIN rooms : ~rooms[k].group => /\ rooms'[k].last = rooms[k].last
                                                  /\ M!In(k)' \subseteq M!In(k)
  BY <1>13, <1>15
<1>17. LeftFits'
  BY <1>1, <1>9, <1>10, <1>13, <1>16, LeftKept DEF MessagesInv
<1> QED BY <1>6, <1>8, <1>9, <1>11, <1>12, <1>14, <1>17

\* What changes of the history that a client holds: its own rows, when it is not lingering.
LEMMA GroupCut ==
  ASSUME MessagesInv, NEW r \in DOMAIN rooms, NEW p \in Profile, Grown(r),
         DOMAIN rooms' = DOMAIN rooms, rooms[r].group,
         \A k \in DOMAIN rooms \ {r} : rooms'[k] = rooms[k],
         \A x \in DOMAIN rooms'[r].people :
           x = p \/ (x \in M!Members(r) /\ rooms'[r].people[x] = rooms[r].people[x]),
         subs' = subs, lingering' = lingering \cup M!Touched(p, r)
  PROVE  M!HistoryCut'
<1>1. M!Viewer' = M!Viewer
  BY DEF M!Viewer, M!RoomId
<1>2. SUFFICES ASSUME NEW x \in M!Viewer \ (lingering' \cup subs'), x[2] \in DOMAIN rooms,
                      rooms'[x[2]].group, x[1] \in DOMAIN rooms'[x[2]].people,
                      NEW m \in DOMAIN seen'[x]
      PROVE  m > rooms'[x[2]].people[x[1]][1].since
  BY <1>1 DEF M!HistoryCut, M!Members
<1>3. x \notin lingering \cup subs /\ m \in DOMAIN seen[x]
  BY <1>2 DEF Grown
<1>4. CASE x[2] = r /\ x[1] = p
  <2>1. x = <<p, r>>
    BY <1>4 DEF M!Viewer
  <2>2. x \notin M!Touched(p, r)
    BY <1>2
  <2>3. seen[x] = <<>>
    BY <2>1, <2>2 DEF M!Touched
  <2> QED BY <1>3, <2>3
<1>5. CASE ~(x[2] = r /\ x[1] = p)
  <2>1. rooms[x[2]].group /\ x[1] \in M!Members(x[2])
        /\ rooms'[x[2]].people[x[1]] = rooms[x[2]].people[x[1]]
    BY <1>2, <1>5 DEF M!Members
  <2> QED BY <1>2, <1>3, <2>1 DEF MessagesInv, M!HistoryCut
<1> QED BY <1>4, <1>5

LEMMA AddParticipantKeeps ==
  ASSUME MessagesInv, NEW by \in Profile, NEW p \in Profile, NEW r \in DOMAIN rooms,
         M!AddParticipant(by, p, r)
  PROVE  MessagesInv'
<1> DEFINE f == M!With(rooms[r].people, p, <<M!Joining>>)
           S == M!Members(r) \cup {p}
<1>1. MessageTypes
  BY DEF MessagesInv
<1>2. /\ M!Members(r) \subseteq Profile /\ M!Members(r) = DOMAIN rooms[r].people
      /\ rooms[r].people \in [M!Members(r) -> Seq(M!Person)]
      /\ \A x \in M!Members(r) : Len(rooms[r].people[x]) > 0
  BY <1>1, RoomTypes
<1>3. M!Joining \in M!Person
  BY <1>1, DomainsAreIds DEF M!Joining, M!Person
<1> DEFINE one == <<M!Joining>>
<1>4. one \in Seq(M!Person) /\ Len(one) > 0
  BY <1>3
<1>5. S \in SUBSET Profile /\ f = [x \in S |-> IF x = p THEN one ELSE rooms[r].people[x]]
  BY <1>2 DEF M!With
<1> HIDE DEF one
<1>6. p \notin M!Members(r)
  BY DEF M!AddParticipant
<1>7. RowsOK(f)
  <2>1. f \in [S -> Seq(M!Person)] /\ \A x \in S : Len(f[x]) > 0
    BY <1>2, <1>4, <1>5
  <2> QED BY <1>5, <2>1 DEF RowsOK
<1>8. DOMAIN f = S /\ \A x \in M!Members(r) : f[x] = rooms[r].people[x]
  BY <1>5, <1>6
<1>9. /\ rooms[r].group /\ M!Announce(r, PeopleSet(r, f))
      /\ lingering' = lingering \cup M!Touched(p, r) /\ subs' = subs
      /\ UNCHANGED <<blocks, req, subs, overlapped, raced, buried, stale>>
  BY DEF M!AddParticipant, PeopleSet
<1> HIDE DEF f
<1>10. /\ MessageTypes' /\ PairsPart' /\ LocksPart' /\ ToldPart' /\ LeftFits'
       /\ Grown(r) /\ DOMAIN rooms' = DOMAIN rooms
       /\ rooms'[r].group /\ rooms'[r].people = f
       /\ \A k \in DOMAIN rooms \ {r} : rooms'[k] = rooms[k]
  BY <1>7, <1>9, GroupKeeps
<1>11. M!HistoryCut'
  BY <1>8, <1>9, <1>10, GroupCut
<1> QED BY <1>10, <1>11 DEF MessagesInv

LEMMA RemoveParticipantKeeps ==
  ASSUME MessagesInv, NEW p \in Profile, NEW r \in DOMAIN rooms, M!RemoveParticipant(p, r)
  PROVE  MessagesInv'
<1> DEFINE f == M!Without(rooms[r].people, p)
           S == M!Members(r) \ {p}
<1>1. MessageTypes
  BY DEF MessagesInv
<1>2. /\ M!Members(r) \subseteq Profile /\ M!Members(r) = DOMAIN rooms[r].people
      /\ rooms[r].people \in [M!Members(r) -> Seq(M!Person)]
      /\ \A x \in M!Members(r) : Len(rooms[r].people[x]) > 0
  BY <1>1, RoomTypes
<1>3. S \in SUBSET Profile /\ f = [x \in S |-> rooms[r].people[x]]
  BY <1>2 DEF M!Without
<1>4. RowsOK(f)
  <2>1. f \in [S -> Seq(M!Person)] /\ \A x \in S : Len(f[x]) > 0
    BY <1>2, <1>3
  <2> QED BY <1>3, <2>1 DEF RowsOK
<1>5. DOMAIN f = S /\ \A x \in S : x \in M!Members(r) /\ f[x] = rooms[r].people[x]
  BY <1>3
<1>6. /\ rooms[r].group /\ M!Announce(r, PeopleSet(r, f))
      /\ lingering' = lingering \cup M!Touched(p, r) /\ subs' = subs
      /\ UNCHANGED <<blocks, req, subs, overlapped, raced, buried, stale>>
  BY DEF M!RemoveParticipant, PeopleSet
<1> HIDE DEF f
<1>7. /\ MessageTypes' /\ PairsPart' /\ LocksPart' /\ ToldPart' /\ LeftFits'
      /\ Grown(r) /\ DOMAIN rooms' = DOMAIN rooms
      /\ rooms'[r].group /\ rooms'[r].people = f
      /\ \A k \in DOMAIN rooms \ {r} : rooms'[k] = rooms[k]
  BY <1>4, <1>6, GroupKeeps
<1>8. M!HistoryCut'
  BY <1>5, <1>6, <1>7, GroupCut
<1> QED BY <1>7, <1>8 DEF MessagesInv

LEMMA ArchiveKeeps ==
  ASSUME MessagesInv, NEW p \in Profile, NEW r \in DOMAIN rooms, NEW archive \in BOOLEAN,
         M!ChatRoomArchive(p, r, archive)
  PROVE  MessagesInv'
<1> DEFINE people == rooms[r].people
           row == [people[p][1] EXCEPT !.archived = archive]
           rows == [people[p] EXCEPT ![1] = row]
           f == [people EXCEPT ![p] = rows]
           x == [rooms[r] EXCEPT !.people = f]
<1>1. MessageTypes /\ blocks \subseteq Profile \X Profile
  BY Typed DEF MessagesInv
<1>2. /\ M!Members(r) \subseteq Profile /\ M!Members(r) = DOMAIN people
      /\ people \in [M!Members(r) -> Seq(M!Person)]
      /\ \A y \in M!Members(r) : Len(people[y]) > 0
      /\ p \in M!Members(r)
  BY <1>1, RoomTypes DEF M!ChatRoomArchive
<1>3. RoomOK(rooms[r])
  BY <1>1, Typed DEF RoomsTyped
<1>4. rooms' = [rooms EXCEPT ![r] = x]
  BY DEF M!ChatRoomArchive
<1>5. people[p] \in Seq(M!Person) /\ Len(people[p]) > 0
  BY <1>2
<1>6. people[p][1] \in M!Person
  BY <1>5
<1>7. row \in M!Person /\ row.since = people[p][1].since
  BY <1>6 DEF M!Person
<1> HIDE DEF row
<1>8. rows \in Seq(M!Person) /\ Len(rows) = Len(people[p]) /\ rows[1] = row
  BY <1>5, <1>7
<1> HIDE DEF rows
<1>9. /\ f \in [M!Members(r) -> Seq(M!Person)] /\ f[p] = rows
      /\ \A y \in M!Members(r) \ {p} : f[y] = people[y]
  BY <1>2, <1>8
<1> HIDE DEF f
<1>10. \A y \in M!Members(r) : Len(f[y]) = Len(people[y]) /\ f[y][1].since = people[y][1].since
  BY <1>7, <1>8, <1>9
<1>11. RowsOK(f)
  BY <1>2, <1>9, <1>10 DEF RowsOK
<1>12. x = [rooms[r] EXCEPT !.people = f]
  OBVIOUS
<1> HIDE DEF x
<1>13. RoomOK(x) /\ x.group = rooms[r].group /\ x.people = f /\ x.last = rooms[r].last
  BY <1>3, <1>11, <1>12, PeoplePut
<1>14. /\ RoomsTyped' /\ DOMAIN rooms' = DOMAIN rooms /\ rooms'[r] = x
       /\ \A k \in DOMAIN rooms \ {r} : rooms'[k] = rooms[k]
  BY <1>1, <1>4, <1>13, RoomPut
<1>15. /\ UNCHANGED <<msgs, blocks, req, subs, seen, overlapped, raced, buried, stale,
                      lingering>>
       /\ SameMessages
  BY DEF M!ChatRoomArchive, SameMessages
<1>16. \A o : Going(o) /\ M!Doing(o)' = M!Doing(o)
  BY <1>15, RestGoing
<1>17. MsgsTyped' /\ ReqTyped' /\ ClientsTyped'
  <2>1. MsgsTyped /\ req \in [Request -> M!Work \cup {None}] /\ ClientsTyped
    BY <1>1, Typed DEF ReqTyped
  <2>2. MsgsTyped'
    BY <1>14, <1>15, <2>1 DEF MsgsTyped
  <2>3. ReqTyped'
    BY <1>1, <1>15, <1>16, <2>1, ReqKept
  <2>4. ClientsTyped'
    BY <1>15, <2>1 DEF ClientsTyped, SeenFits, M!Viewer, M!RoomId
  <2> QED BY <2>2, <2>3, <2>4
<1>18. MessageTypes'
  BY <1>1, <1>14, <1>15, <1>17, TypedNext
<1>19. \A k \in DOMAIN rooms :
         /\ rooms'[k].group = rooms[k].group /\ rooms'[k].last = rooms[k].last
         /\ DOMAIN rooms'[k].people = DOMAIN rooms[k].people
         /\ \A y \in DOMAIN rooms[k].people :
              /\ Len(rooms'[k].people[y]) = Len(rooms[k].people[y])
              /\ rooms'[k].people[y][1].since = rooms[k].people[y][1].since
  <2>1. TAKE k \in DOMAIN rooms
  <2>2. CASE k = r
    BY <1>2, <1>9, <1>10, <1>13, <1>14, <2>2
  <2>3. CASE k # r
    BY <1>14, <2>3
  <2> QED BY <2>2, <2>3
<1>20. PairsPart'
  BY <1>14, <1>15, <1>16, <1>19, PairsKept DEF MessagesInv
<1>21. LocksPart' /\ ToldPart'
  BY <1>15, <1>16, LocksKept, ToldKept DEF MessagesInv
<1>22. M!HistoryCut'
  BY <1>14, <1>15, <1>19, CutKept DEF MessagesInv
<1>23. \A k : M!In(k)' = M!In(k)
  BY <1>15 DEF M!In
<1>24. LeftFits'
  BY <1>1, <1>14, <1>15, <1>16, <1>19, <1>23, LeftKept DEF MessagesInv
<1> QED BY <1>18, <1>20, <1>21, <1>22, <1>24 DEF MessagesInv

\* ChatRoomSendMessage, whether the insert is committed or rolled back.
LEMMA SendKeeps ==
  ASSUME MessagesInv, NEW p \in Profile, NEW r \in DOMAIN rooms, NEW text \in Text,
         NEW fails \in BOOLEAN, M!ChatRoomSendMessage(p, r, text, fails)
  PROVE  MessagesInv'
<1> DEFINE m == Len(msgs) + 1
<1>1. MessageTypes /\ blocks \subseteq Profile \X Profile
  BY Typed DEF MessagesInv
<1>2. /\ m <= MaxMessages
      /\ msgs' = Append(msgs, [room |-> r, author |-> p, text |-> text, deleted |-> FALSE,
                               live |-> ~fails])
      /\ rooms' = IF fails THEN rooms ELSE [rooms EXCEPT ![r].last = m]
      /\ seen' = M!Broadcast(r, m, p, text)
      /\ stale' = IF fails THEN stale
                  ELSE (stale \ {r}) \cup
                       {req[q].room : q \in {k \in M!Doing("erase") : req[k].room = r}}
      /\ UNCHANGED <<blocks, req, subs, overlapped, raced, buried, lingering>>
  BY DEF M!ChatRoomSendMessage
<1>3. r \in M!RoomId /\ RoomOK(rooms[r])
  BY <1>1, Typed, DomainsAreIds DEF RoomsTyped
<1>4. /\ Grown(r) /\ m \in M!MessageId /\ msgs'[m].live = ~fails
      /\ DOMAIN msgs' = DOMAIN msgs \cup {m}
  <2>1. (~fails) \in BOOLEAN
    OBVIOUS
  <2> QED BY <1>1, <1>2, <1>3, <2>1, SpokenGrown
<1> HIDE DEF m
<1>5. m \in 0..MaxMessages /\ m # 0
  BY <1>4 DEF M!MessageId
<1>6. /\ RoomsTyped' /\ DOMAIN rooms' = DOMAIN rooms
      /\ \A k \in DOMAIN rooms : /\ rooms'[k].group = rooms[k].group
                                 /\ rooms'[k].people = rooms[k].people
                                 /\ k # r => rooms'[k] = rooms[k]
      /\ IF fails THEN rooms' = rooms ELSE rooms'[r].last = m
  <2>1. CASE fails
    BY <1>1, <1>2, <2>1, Typed DEF RoomsTyped, RoomOK
  <2>2. CASE ~fails
    <3> DEFINE x == [rooms[r] EXCEPT !.last = m]
    <3>1. RoomOK(x) /\ x.group = rooms[r].group /\ x.people = rooms[r].people /\ x.last = m
      BY <1>3, <1>5, LastPut
    <3>2. rooms' = [rooms EXCEPT ![r] = x]
      BY <1>2, <2>2
    <3> HIDE DEF x
    <3>3. /\ RoomsTyped' /\ DOMAIN rooms' = DOMAIN rooms /\ rooms'[r] = x
          /\ \A k \in DOMAIN rooms \ {r} : rooms'[k] = rooms[k]
      BY <1>1, <3>1, <3>2, RoomPut
    <3> QED BY <2>2, <3>1, <3>3
  <2> QED BY <2>1, <2>2
<1>7. \A o : Going(o) /\ M!Doing(o)' = M!Doing(o)
  BY <1>2, RestGoing
<1>8. MsgsTyped' /\ ReqTyped' /\ ClientsTyped' /\ LocksPart' /\ ToldPart'
  <2>1. req' \in [Request -> M!Work \cup {None}]
    BY <1>1, <1>2, Typed DEF ReqTyped
  <2> QED BY <1>1, <1>2, <1>4, <1>6, <1>7, <2>1, GrownKeeps DEF MessagesInv
<1>9. MessageTypes'
  BY <1>1, <1>2, <1>6, <1>8, TypedNext
<1>10. PairsPart'
  BY <1>2, <1>6, <1>7, PairsKept DEF MessagesInv
<1>11. M!HistoryCut'
  <2>1. \A x \in M!Viewer \ (lingering' \cup subs') : \A k \in DOMAIN seen'[x] :
          x \notin lingering \cup subs /\ k \in DOMAIN seen[x]
    BY <1>2, <1>4 DEF Grown
  <2> QED BY <1>6, <2>1, CutKept DEF MessagesInv
<1>12. \A k \in DOMAIN rooms : k # r => M!In(k)' = M!In(k)
  BY <1>4 DEF Grown, SameMessages, M!In
<1>13. fails => M!In(r)' = M!In(r)
  BY <1>4 DEF Grown, SameMessages, M!In
<1>14. LeftFits /\ \A k \in M!Doing("erase")' : k \in M!Doing("erase") /\ req'[k] = req[k]
  BY <1>7 DEF MessagesInv, Going
<1>15. LeftFits'
  <2>1. CASE fails
    <3>1. stale' = stale /\ rooms' = rooms /\ \A k \in DOMAIN rooms : M!In(k)' = M!In(k)
      BY <1>2, <1>12, <1>13, <2>1
    <3> QED BY <1>1, <1>7, <1>14, <3>1, LeftKept
  <2>2. CASE ~fails
    <3>1. ASSUME NEW j \in M!Doing("erase")', NEW k \in DOMAIN rooms, k = req'[j].room,
                 ~rooms'[k].group, k \notin stale'
          PROVE  M!In(k)' \subseteq req'[j].left \cup {req'[j].m}
      <4>1. j \in M!Doing("erase") /\ req'[j] = req[j]
        BY <1>14
      <4>2. k # r
        BY <1>2, <2>2, <3>1, <4>1
      <4>3. k \notin stale
        BY <1>2, <2>2, <3>1, <4>2
      <4>4. M!In(k) \subseteq req[j].left \cup {req[j].m}
        BY <1>6, <1>14, <3>1, <4>1, <4>3 DEF LeftFits
      <4> QED BY <1>12, <4>1, <4>2, <4>4
    <3>2. ASSUME NEW k \in DOMAIN rooms, ~rooms'[k].group, M!In(k)' # {}, k \notin stale'
          PROVE  rooms'[k].last # 0
      <4>1. CASE k = r
        BY <1>5, <1>6, <2>2, <4>1
      <4>2. CASE k # r
        <5>1. k \notin stale /\ rooms'[k] = rooms[k]
          BY <1>2, <1>6, <2>2, <3>2, <4>2
        <5> QED BY <1>12, <1>14, <3>2, <4>2, <5>1 DEF LeftFits
      <4> QED BY <4>1, <4>2
    <3> QED BY <1>6, <3>1, <3>2 DEF LeftFits
  <2> QED BY <2>1, <2>2
<1> QED BY <1>8, <1>9, <1>10, <1>11, <1>15 DEF MessagesInv

-----------------------------------------------------------------------------
(* Messages: what happens to a message. *)

\* Requests of the other kinds go on when q turns to committing.
LEMMA Turns ==
  ASSUME MessageTypes, NEW q \in M!Doing("edit") \cup M!Doing("delete"),
         NEW t \in M!Committing, req' = [req EXCEPT ![q] = t]
  PROVE  /\ req' \in [Request -> M!Work \cup {None}] /\ req'[q] = t
         /\ Going("create") /\ Going("edit") /\ Going("delete") /\ Going("erase")
         /\ M!Doing("commit")' = M!Doing("commit") \cup {q} /\ q \notin M!Doing("commit")
         /\ \A k \in M!Doing("commit") : req'[k] = req[k]
<1>1. t \in M!Work /\ t.op = "commit" /\ q \in Request
  BY DEF M!Work, M!Committing, M!Doing
<1>2. /\ req' \in [Request -> M!Work \cup {None}]
      /\ req'[q] = t /\ \A k \in Request \ {q} : req'[k] = req[k]
      /\ q \in M!Doing(t.op)' /\ \A o : o # t.op => q \notin M!Doing(o)'
      /\ \A o : \A k \in Request \ {q} : k \in M!Doing(o)' <=> k \in M!Doing(o)
  BY <1>1, Put
<1>3. q \in M!Doing("commit")' /\ q \notin M!Doing("commit")
  BY <1>1, <1>2 DEF M!Doing
<1>4. M!Doing("commit") \subseteq Request /\ M!Doing("commit")' \subseteq Request
  BY DEF M!Doing
<1>5. M!Doing("commit")' = M!Doing("commit") \cup {q}
  BY <1>1, <1>2, <1>3, <1>4
<1>6. Going("create") /\ Going("edit") /\ Going("delete") /\ Going("erase")
  BY <1>1, PutGoing
<1> QED BY <1>2, <1>3, <1>4, <1>5, <1>6

\* The update takes the row lock, and subscribers are told.
LEMMA TellKeeps ==
  ASSUME MessagesInv, NEW q \in Request, M!Tell(q)
  PROVE  MessagesInv'
<1> DEFINE m == req[q].m
           shown == M!resolve_content(req[q].text, req[q].deleted)
<1>1. MessageTypes /\ blocks \subseteq Profile \X Profile
  BY Typed DEF MessagesInv
<1>2. /\ q \in M!Doing("edit") \cup M!Doing("delete") /\ msgs[m].live /\ ~M!RowLocked(m)
      /\ seen' = M!Broadcast(msgs[m].room, m, msgs[m].author, shown)
      /\ UNCHANGED <<rooms, msgs, blocks, subs, overlapped, raced, buried, stale, lingering>>
  BY DEF M!Tell
<1>3. /\ req[q] \in M!Changing /\ m \in DOMAIN msgs /\ m \in M!MessageId
      /\ req[q].text \in Text /\ req[q].deleted \in BOOLEAN
  BY <1>1, <1>2, WorkTypes, DomainsAreIds
<1>4. /\ msgs[m] \in M!Message /\ msgs[m].room \in DOMAIN rooms /\ msgs[m].text \in Text
      /\ msgs[m].deleted \in BOOLEAN /\ msgs[m].author \in Profile \cup {None}
  BY <1>1, <1>3, MessageType
<1>5. PICK t \in M!Committing :
        /\ req' = [req EXCEPT ![q] = t] /\ t.m = m /\ t.row = M!Save(req[q].op, msgs[m], req[q])
        /\ t.buries = (req[q].op = "delete")
  <2> DEFINE s == [op |-> "commit", m |-> m, row |-> M!Save(req[q].op, msgs[m], req[q]),
                   buries |-> req[q].op = "delete"]
  <2>1. M!Save(req[q].op, msgs[m], req[q]) \in M!Message
    BY <1>3, <1>4 DEF M!Save, M!Message
  <2>2. (req[q].op = "delete") \in BOOLEAN
    OBVIOUS
  <2>3. /\ s \in M!Committing /\ s.m = m /\ s.row = M!Save(req[q].op, msgs[m], req[q])
        /\ s.buries = (req[q].op = "delete")
    BY <1>3, <2>1, <2>2 DEF M!Committing
  <2>4. req' = [req EXCEPT ![q] = s]
    BY DEF M!Tell
  <2> HIDE DEF s
  <2> QED BY <2>3, <2>4
<1>6. /\ t.row.live = msgs[m].live /\ t.row.room = msgs[m].room
      /\ t.row.author = msgs[m].author
      /\ IF req[q].op = "edit"
         THEN t.row.text = req[q].text /\ t.row.deleted = msgs[m].deleted /\ ~t.buries
         ELSE t.row.deleted = TRUE /\ t.buries
  <2>1. req[q].op \in {"edit", "delete"}
    BY <1>3 DEF M!Changing
  <2> QED BY <1>4, <1>5, <2>1 DEF M!Save, M!Message
<1>7. /\ req' \in [Request -> M!Work \cup {None}] /\ req'[q] = t
      /\ Going("create") /\ Going("edit") /\ Going("delete") /\ Going("erase")
      /\ M!Doing("commit")' = M!Doing("commit") \cup {q} /\ q \notin M!Doing("commit")
      /\ \A k \in M!Doing("commit") : req'[k] = req[k]
  BY <1>1, <1>2, <1>5, Turns
<1>8. PICK n \in M!MessageId : n = m
  BY <1>3
<1>9. \A k \in M!Doing("commit") : req[k].m # n
  BY <1>2, <1>8 DEF M!RowLocked
<1>10. t.m = n /\ n \in DOMAIN msgs
  BY <1>3, <1>5, <1>8
<1>11. /\ seen' = [x \in M!Viewer |-> seen'[x]]
       /\ \A x \in M!Viewer :
            IF x \in subs /\ x[2] = msgs[n].room /\ x[1] # msgs[n].author
            THEN /\ DOMAIN seen'[x] = DOMAIN seen[x] \cup {n} /\ seen'[x][n] = shown
                 /\ \A k \in DOMAIN seen[x] \ {n} : seen'[x][k] = seen[x][k]
            ELSE seen'[x] = seen[x]
  <2>1. seen' = M!Broadcast(msgs[n].room, n, msgs[n].author, shown)
    BY <1>2, <1>8
  <2> HIDE DEF shown
  <2> QED BY <2>1, Shows
<1>12. shown \in Text \cup {Gone}
  BY <1>3 DEF M!resolve_content
<1>13. ClientsTyped /\ SeenFits /\ subs \subseteq M!Viewer
  BY <1>1, Typed DEF ClientsTyped
<1>14. \A x \in M!Viewer : \A k \in DOMAIN seen'[x] :
         k \in DOMAIN msgs /\ msgs[k].room = x[2] /\ seen'[x][k] \in Text \cup {Gone}
  <2> HIDE DEF shown
  <2>1. TAKE x \in M!Viewer
  <2>2. TAKE k \in DOMAIN seen'[x]
  <2>3. CASE x \in subs /\ x[2] = msgs[n].room /\ x[1] # msgs[n].author
    <3>1. CASE k = n
      BY <1>10, <1>11, <1>12, <2>3, <3>1
    <3>2. CASE k # n
      <4>1. k \in DOMAIN seen[x] /\ seen'[x][k] = seen[x][k]
        BY <1>11, <2>2, <2>3, <3>2
      <4> QED BY <1>13, <4>1 DEF ClientsTyped, SeenFits
    <3> QED BY <3>1, <3>2
  <2>4. CASE ~(x \in subs /\ x[2] = msgs[n].room /\ x[1] # msgs[n].author)
    BY <1>11, <1>13, <2>4 DEF ClientsTyped, SeenFits
  <2> QED BY <2>3, <2>4
<1>15. ClientsTyped'
  <2>1. SeenFits'
    BY <1>2, <1>11, <1>14 DEF SeenFits, M!Viewer, M!RoomId
  <2> QED BY <1>2, <1>13, <1>14, <2>1 DEF ClientsTyped, M!Viewer, M!RoomId
<1>16. SameMessages /\ RoomsTyped' /\ MsgsTyped' /\ ReqTyped'
  <2>1. RoomsTyped /\ MsgsTyped
    BY <1>1, Typed
  <2>2. SameMessages
    BY <1>2 DEF SameMessages
  <2>3. ReqTyped'
    BY <1>1, <1>2, <1>7, ReqKept
  <2>4. RoomsTyped' /\ MsgsTyped'
    BY <1>2, <2>1 DEF RoomsTyped, RoomOK, MsgsTyped
  <2> QED BY <2>2, <2>3, <2>4
<1>17. MessageTypes'
  BY <1>1, <1>2, <1>15, <1>16, TypedNext
<1>18. PairsPart'
  BY <1>2, <1>7, PairsKept DEF MessagesInv
<1>19. M!HistoryCut'
  <2>1. \A x \in M!Viewer \ (lingering' \cup subs') : \A k \in DOMAIN seen'[x] :
          x \notin lingering \cup subs /\ k \in DOMAIN seen[x]
    BY <1>2, <1>11
  <2> QED BY <1>2, <2>1, CutKept DEF MessagesInv
<1>20. LeftFits'
  <2>1. \A r : M!In(r)' = M!In(r)
    BY <1>2 DEF M!In
  <2> QED BY <1>1, <1>2, <1>7, <2>1, LeftKept DEF MessagesInv
<1>21. LocksPart
  BY DEF MessagesInv
<1>22. \A k \in M!Doing("commit")' : k = q \/ (k \in M!Doing("commit") /\ req'[k] = req[k])
  BY <1>7
<1>23. Locks'
  <2>1. \A k, j \in M!Doing("commit")' : req'[k].m = req'[j].m => k = j
    BY <1>7, <1>9, <1>10, <1>21, <1>22 DEF LocksPart, Locks
  <2>2. ASSUME NEW k \in M!Doing("commit")'
        PROVE  /\ req'[k].m \in DOMAIN msgs /\ msgs[req'[k].m].live /\ req'[k].row.live
               /\ req'[k].row.room = msgs[req'[k].m].room
               /\ req'[k].row.author = msgs[req'[k].m].author
               /\ req'[k].row.deleted <=> msgs[req'[k].m].deleted \/ req'[k].buries
    <3>1. CASE k = q
      BY <1>2, <1>6, <1>7, <1>8, <1>10, <3>1
    <3>2. CASE k # q
      BY <1>21, <1>22, <2>2, <3>2 DEF LocksPart, Locks
    <3> QED BY <3>1, <3>2
  <2> QED BY <1>2, <2>1, <2>2 DEF Locks
<1>24. EditsFit' /\ BuriedFits' /\ M!DeletedStays'
  BY <1>2, <1>7, <1>21 DEF LocksPart, EditsFit, BuriedFits, M!DeletedStays, Going
<1>25. ToldAhead'
  <2>1. SUFFICES ASSUME NEW k \in M!Doing("commit")', NEW x \in subs,
                        req'[k].m \in DOMAIN seen'[x], req'[k].m \notin raced,
                        req'[k].row.author # x[1]
        PROVE  seen'[x][req'[k].m] = M!resolve_content(req'[k].row.text, req'[k].row.deleted)
    BY <1>2 DEF ToldAhead, M!resolve_content
  <2>2. x \in M!Viewer
    BY <1>13
  <2>3. CASE k = q
    <3>1. n \in DOMAIN seen'[x] /\ n \notin raced /\ msgs[n].author # x[1]
      BY <1>6, <1>7, <1>8, <1>10, <2>1, <2>3
    <3>2. msgs[n].room = x[2]
      BY <1>14, <2>2, <3>1
    <3>3. seen'[x][n] = shown
      BY <1>11, <2>2, <3>1, <3>2
    <3>4. shown = M!resolve_content(t.row.text, t.row.deleted)
      <4>1. CASE q \in M!Doing("edit")
        <5>1. req[q].op = "edit" /\ (req[q].deleted <=> msgs[n].deleted)
          BY <1>8, <1>21, <3>1, <4>1 DEF LocksPart, EditsFit, M!Doing
        <5> QED BY <1>6, <1>8, <5>1 DEF M!resolve_content
      <4>2. CASE q \in M!Doing("delete")
        <5>1. req[q].op = "delete" /\ req[q].deleted
          BY <1>21, <4>2 DEF LocksPart, EditsFit, M!Doing
        <5> QED BY <1>6, <5>1 DEF M!resolve_content
      <4> QED BY <1>2, <4>1, <4>2
    <3> QED BY <1>7, <1>10, <2>3, <3>3, <3>4
  <2>4. CASE k # q
    <3>1. k \in M!Doing("commit") /\ req'[k] = req[k] /\ req[k].m # n
      BY <1>9, <1>22, <2>1, <2>4
    <3>2. req[k].m \in DOMAIN seen[x] /\ seen'[x][req[k].m] = seen[x][req[k].m]
      BY <1>11, <2>1, <2>2, <3>1
    <3>3. ToldAhead
      BY DEF MessagesInv, ToldPart
    <3> QED BY <2>1, <3>1, <3>2, <3>3 DEF ToldAhead
  <2> QED BY <2>3, <2>4
<1>26. M!ClientsCurrent'
  <2>1. M!RowLocked(n)' /\ \A k : M!RowLocked(k) => M!RowLocked(k)'
    BY <1>7, <1>10 DEF M!RowLocked
  <2>2. SUFFICES ASSUME NEW x \in subs, NEW k \in DOMAIN seen'[x],
                        msgs[k].live, k \notin raced, msgs[k].author # x[1], ~M!RowLocked(k)'
        PROVE  seen'[x][k] = M!resolve_content(msgs[k].text, msgs[k].deleted)
    BY <1>2 DEF M!ClientsCurrent, M!resolve_content
  <2>3. k # n /\ ~M!RowLocked(k)
    BY <2>1, <2>2
  <2>4. k \in DOMAIN seen[x] /\ seen'[x][k] = seen[x][k]
    BY <1>11, <1>13, <2>2, <2>3
  <2> QED BY <2>2, <2>3, <2>4 DEF MessagesInv, ToldPart, M!ClientsCurrent
<1> QED BY <1>17, <1>18, <1>19, <1>20, <1>23, <1>24, <1>25, <1>26
  DEF MessagesInv, LocksPart, ToldPart

\* The change is committed.
LEMMA CommitMessageKeeps ==
  ASSUME MessagesInv, NEW q \in Request, M!Commit(q)
  PROVE  MessagesInv'
<1>1. MessageTypes /\ blocks \subseteq Profile \X Profile /\ LocksPart /\ ToldPart
  BY Typed DEF MessagesInv
<1>2. /\ q \in M!Doing("commit") /\ M!Done(q) /\ msgs' = [msgs EXCEPT ![req[q].m] = req[q].row]
      /\ UNCHANGED <<rooms, blocks, subs, seen, overlapped, stale, lingering>>
  BY DEF M!Commit
<1>3. PICK m \in DOMAIN msgs : m = req[q].m
  BY <1>1, <1>2 DEF LocksPart, Locks
<1>4. PICK row \in M!Message : row = req[q].row
  BY <1>1, <1>2, WorkTypes
<1>5. /\ msgs[m].live /\ row.live /\ row.room = msgs[m].room /\ row.author = msgs[m].author
      /\ row.deleted <=> msgs[m].deleted \/ req[q].buries
  BY <1>1, <1>2, <1>3, <1>4 DEF LocksPart, Locks
<1>6. /\ buried' = IF req[q].buries THEN buried \cup {m} ELSE buried
      /\ raced' = IF req[q].buries /\ \E k \in M!Doing("edit") : req[k].m = m
                  THEN raced \cup {m} ELSE raced
  BY <1>3 DEF M!Commit
<1>7. msgs \in Seq(M!Message) /\ Len(msgs) <= MaxMessages
  BY <1>1 DEF MessageTypes
<1>8. /\ msgs' \in Seq(M!Message) /\ Len(msgs') <= MaxMessages /\ DOMAIN msgs' = DOMAIN msgs
      /\ msgs'[m] = row /\ \A k \in DOMAIN msgs \ {m} : msgs'[k] = msgs[k]
  BY <1>2, <1>3, <1>4, <1>7
<1>9. /\ req' \in [Request -> M!Work \cup {None}]
      /\ \A o : Going(o) /\ M!Doing(o)' = M!Doing(o) \ {q}
  BY <1>1, <1>2, Finish, FinishGoing
<1>10. \A k \in DOMAIN msgs : /\ msgs'[k].room = msgs[k].room
                              /\ msgs'[k].author = msgs[k].author
                              /\ msgs'[k].live <=> msgs[k].live
  BY <1>5, <1>8
<1>11. \A k \in M!Doing("commit")' : /\ k \in M!Doing("commit") /\ req'[k] = req[k]
                                     /\ req[k].m # m
  BY <1>1, <1>2, <1>3, <1>9 DEF Going, LocksPart, Locks
<1>12. RoomsTyped' /\ MsgsTyped' /\ ReqTyped' /\ ClientsTyped'
  <2>1. RoomsTyped /\ MsgsTyped /\ ClientsTyped
    BY <1>1, Typed
  <2>2. RoomsTyped'
    BY <1>2, <2>1 DEF RoomsTyped, RoomOK
  <2>3. MsgsTyped'
    BY <1>2, <1>8, <1>10, <2>1 DEF MsgsTyped
  <2>4. ReqTyped'
    BY <1>1, <1>8, <1>9, <1>10, ReqKept
  <2>5. ClientsTyped'
    BY <1>2, <1>8, <1>10, <2>1 DEF ClientsTyped, SeenFits, M!Viewer, M!RoomId
  <2> QED BY <2>2, <2>3, <2>4, <2>5
<1>13. MessageTypes'
  BY <1>1, <1>2, <1>12, TypedNext
<1>14. PairsPart'
  BY <1>2, <1>9, PairsKept DEF MessagesInv
<1>15. M!HistoryCut'
  BY <1>2, CutKept DEF MessagesInv
<1>16. LeftFits'
  <2>1. \A r : M!In(r)' = M!In(r)
    BY <1>8, <1>10 DEF M!In
  <2> QED BY <1>1, <1>2, <1>9, <2>1, LeftKept DEF MessagesInv
<1>17. Locks'
  <2>1. \A k \in M!Doing("commit")' : msgs'[req'[k].m] = msgs[req[k].m]
    BY <1>1, <1>8, <1>11 DEF LocksPart, Locks
  <2> QED BY <1>1, <1>8, <1>11, <2>1 DEF LocksPart, Locks
<1>18. EditsFit'
  <2>1. ASSUME NEW k \in M!Doing("edit")', req'[k].m \notin raced'
        PROVE  req'[k].deleted <=> msgs'[req'[k].m].deleted
    <3>1. k \in M!Doing("edit") /\ req'[k] = req[k] /\ req[k].m \in DOMAIN msgs
      BY <1>1, <1>9, WorkTypes DEF Going
    <3>2. req[k].m \notin raced
      BY <1>6, <2>1, <3>1
    <3>3. req[k].deleted <=> msgs[req[k].m].deleted
      BY <1>1, <3>1, <3>2 DEF LocksPart, EditsFit
    <3>4. CASE req[k].m = m
      <4>1. ~req[q].buries
        BY <1>6, <2>1, <3>1, <3>4
      <4> QED BY <1>5, <1>8, <3>1, <3>3, <3>4, <4>1
    <3>5. CASE req[k].m # m
      BY <1>8, <3>1, <3>3, <3>5
    <3> QED BY <3>4, <3>5
  <2>2. \A k \in M!Doing("delete")' : req'[k].deleted
    BY <1>1, <1>9 DEF Going, LocksPart, EditsFit
  <2> QED BY <2>1, <2>2 DEF EditsFit
<1>19. BuriedFits' /\ M!DeletedStays'
  <2>1. BuriedFits /\ M!DeletedStays
    BY <1>1 DEF LocksPart
  <2>2. BuriedFits'
    BY <1>6, <1>8, <2>1 DEF BuriedFits
  <2>3. \A k \in buried' : msgs'[k].live => msgs'[k].deleted
    <3>1. TAKE k \in buried'
    <3>2. CASE k = m
      BY <1>5, <1>6, <1>8, <2>1, <3>1, <3>2 DEF M!DeletedStays
    <3>3. CASE k # m
      BY <1>6, <1>8, <2>1, <3>1, <3>3 DEF BuriedFits, M!DeletedStays
    <3> QED BY <3>2, <3>3
  <2> QED BY <2>2, <2>3 DEF M!DeletedStays
<1>20. raced \subseteq raced'
  BY <1>6
<1>21. ToldAhead'
  BY <1>1, <1>2, <1>11, <1>20 DEF ToldPart, ToldAhead, M!resolve_content
<1>22. M!ClientsCurrent'
  <2>1. \A k : k # m /\ M!RowLocked(k) => M!RowLocked(k)'
    <3>1. TAKE k
    <3>2. ASSUME k # m, NEW j \in M!Doing("commit"), req[j].m = k
          PROVE  j \in M!Doing("commit")' /\ req'[j].m = k
      BY <1>3, <1>9, <3>2 DEF Going
    <3> QED BY <3>2 DEF M!RowLocked
  <2>2. SUFFICES ASSUME NEW x \in subs, NEW k \in DOMAIN seen[x],
                        msgs'[k].live, k \notin raced', msgs'[k].author # x[1],
                        ~M!RowLocked(k)'
        PROVE  seen[x][k] = M!resolve_content(msgs'[k].text, msgs'[k].deleted)
    BY <1>2 DEF M!ClientsCurrent, M!resolve_content
  <2>3. k \in DOMAIN msgs
    BY <1>1, <2>2, Typed DEF ClientsTyped, SeenFits
  <2>4. CASE k = m
    <3>1. seen[x][m] = M!resolve_content(row.text, row.deleted)
      BY <1>1, <1>2, <1>3, <1>4, <1>5, <1>8, <1>20, <2>2, <2>4 DEF ToldPart, ToldAhead
    <3> QED BY <1>8, <2>4, <3>1
  <2>5. CASE k # m
    <3>1. msgs'[k] = msgs[k] /\ ~M!RowLocked(k) /\ k \notin raced
      BY <1>8, <1>20, <2>1, <2>2, <2>3, <2>5
    <3> QED BY <1>1, <2>2, <3>1 DEF ToldPart, M!ClientsCurrent
  <2> QED BY <2>4, <2>5
<1> QED BY <1>13, <1>14, <1>15, <1>16, <1>17, <1>18, <1>19, <1>21, <1>22
  DEF MessagesInv, LocksPart, ToldPart

\* A non-empty set of naturals has a least element.
LEMMA LeastExists ==
  ASSUME NEW S \in SUBSET Nat, S # {}
  PROVE  \E n \in S : \A k \in S : n <= k
<1> DEFINE R == OpToRel(<, Nat)
<1>1. PICK n \in S : \A k \in S : ~(<<k, n>> \in R)
  BY NatLessThanWellFounded, WFMin
<1>2. R = {ss \in Nat \X Nat : ss[1] < ss[2]}
  BY Zenon DEF OpToRel
<1>3. \A k \in S : k < n => <<k, n>> \in R
  <2> HIDE DEF R
  <2> QED BY <1>2
<1> HIDE DEF R
<1>4. \A k \in S : ~(k < n)
  BY <1>1, <1>3, Zenon
<1> QED
  <2>1. n \in Nat /\ \A k \in S : k \in Nat
    OBVIOUS
  <2> QED BY <1>4, <2>1

\* Newest returns one of the messages it is given.
LEMMA NewestOf ==
  ASSUME NEW S \in SUBSET M!MessageId, S # {}
  PROVE  M!Newest(S) \in S
<1> DEFINE Z == {MaxMessages - k : k \in S}
<1>1. MaxMessages \in Nat /\ \A k \in S : k \in Nat /\ k <= MaxMessages
  BY BoundAssumption DEF M!MessageId
<1>2. Z \in SUBSET Nat /\ Z # {}
  BY <1>1
<1>3. PICK n \in Z : \A k \in Z : n <= k
  BY <1>2, LeastExists
<1>4. PICK s \in S : n = MaxMessages - s
  BY <1>3
<1>5. \A k \in S : n <= MaxMessages - k
  BY <1>3
<1> HIDE DEF Z
<1>6. \A k \in S : k <= s
  BY <1>1, <1>4, <1>5
<1> QED BY <1>4, <1>6 DEF M!Newest

\* An operator's deletion, of a message whose row it locks.
LEMMA EraseKeeps ==
  ASSUME MessagesInv, NEW q \in Request, M!Erase(q)
  PROVE  MessagesInv'
<1>1. MessageTypes /\ blocks \subseteq Profile \X Profile /\ LocksPart /\ ToldPart
  BY Typed DEF MessagesInv
<1>2. /\ q \in M!Doing("erase") /\ ~M!RowLocked(req[q].m) /\ M!Done(q)
      /\ msgs' = [msgs EXCEPT ![req[q].m].live = FALSE]
      /\ rooms' = [rooms EXCEPT ![req[q].room].last = M!Previous(req[q].left)]
      /\ UNCHANGED <<blocks, subs, seen, overlapped, raced, buried, stale, lingering>>
  BY DEF M!Erase
<1>3. PICK m \in DOMAIN msgs : m = req[q].m
  BY <1>1, <1>2, WorkTypes
<1>4. PICK r \in DOMAIN rooms : r = req[q].room
  BY <1>1, <1>2, WorkTypes
<1>5. /\ req[q].left \subseteq DOMAIN msgs /\ msgs[m].room = r
      /\ DOMAIN msgs \subseteq M!MessageId /\ 0 \in 0..MaxMessages
  BY <1>1, <1>2, <1>3, <1>4, WorkTypes, DomainsAreIds, BoundAssumption
<1>6. PICK last \in 0..MaxMessages :
        last = M!Previous(req[q].left) /\ (req[q].left # {} => last # 0)
  <2>1. CASE req[q].left = {}
    BY <1>5, <2>1 DEF M!Previous, M!Newest
  <2>2. CASE req[q].left # {}
    <3>1. M!Previous(req[q].left) \in M!MessageId
      BY <1>5, <2>2, NewestOf DEF M!Previous
    <3> QED BY <3>1 DEF M!MessageId
  <2> QED BY <2>1, <2>2
<1>7. msgs \in Seq(M!Message) /\ Len(msgs) <= MaxMessages /\ msgs[m] \in M!Message
  BY <1>1, MessageType DEF MessageTypes
<1> DEFINE row == [msgs[m] EXCEPT !.live = FALSE]
<1>8. /\ row \in M!Message /\ row.room = msgs[m].room /\ row.author = msgs[m].author
      /\ row.text = msgs[m].text /\ row.deleted = msgs[m].deleted /\ row.live = FALSE
      /\ msgs' = [msgs EXCEPT ![m] = row]
  BY <1>2, <1>3, <1>7 DEF M!Message
<1> HIDE DEF row
<1>9. /\ msgs' \in Seq(M!Message) /\ Len(msgs') <= MaxMessages /\ DOMAIN msgs' = DOMAIN msgs
      /\ msgs'[m] = row /\ \A k \in DOMAIN msgs \ {m} : msgs'[k] = msgs[k]
  BY <1>7, <1>8
<1>10. \A k \in DOMAIN msgs : /\ msgs'[k].room = msgs[k].room
                              /\ msgs'[k].author = msgs[k].author
                              /\ msgs'[k].text = msgs[k].text
                              /\ msgs'[k].deleted = msgs[k].deleted
                              /\ msgs'[k].live => msgs[k].live
  BY <1>8, <1>9
<1> DEFINE x == [rooms[r] EXCEPT !.last = last]
<1>11. RoomOK(rooms[r]) /\ rooms' = [rooms EXCEPT ![r] = x]
  BY <1>1, <1>2, <1>4, <1>6, Typed DEF RoomsTyped
<1>12. RoomOK(x) /\ x.group = rooms[r].group /\ x.people = rooms[r].people /\ x.last = last
  BY <1>11, LastPut
<1> HIDE DEF x
<1>13. /\ RoomsTyped' /\ DOMAIN rooms' = DOMAIN rooms /\ rooms'[r] = x
       /\ \A k \in DOMAIN rooms \ {r} : rooms'[k] = rooms[k]
  BY <1>1, <1>11, <1>12, RoomPut
<1>14. \A k \in DOMAIN rooms : /\ rooms'[k].group = rooms[k].group
                               /\ rooms'[k].people = rooms[k].people
                               /\ k # r => rooms'[k].last = rooms[k].last
  BY <1>12, <1>13
<1>15. /\ req' \in [Request -> M!Work \cup {None}]
       /\ \A o : Going(o) /\ M!Doing(o)' = M!Doing(o) \ {q}
  BY <1>1, <1>2, Finish, FinishGoing
<1>16. M!Doing("commit")' = M!Doing("commit")
  BY <1>2, <1>15 DEF M!Doing
<1>17. \A k \in M!Doing("commit") : req[k].m # m /\ req[k].m \in DOMAIN msgs /\ req'[k] = req[k]
  BY <1>1, <1>2, <1>3, <1>15, <1>16 DEF Going, LocksPart, Locks, M!RowLocked
<1>18. MsgsTyped' /\ ReqTyped' /\ ClientsTyped'
  <2>1. MsgsTyped /\ ClientsTyped
    BY <1>1, Typed
  <2>2. MsgsTyped'
    BY <1>9, <1>10, <1>13, <2>1 DEF MsgsTyped
  <2>3. ReqTyped'
    BY <1>1, <1>9, <1>10, <1>15, ReqKept
  <2>4. ClientsTyped'
    BY <1>2, <1>9, <1>10, <2>1 DEF ClientsTyped, SeenFits, M!Viewer, M!RoomId
  <2> QED BY <2>2, <2>3, <2>4
<1>19. MessageTypes'
  BY <1>1, <1>2, <1>13, <1>18, TypedNext
<1>20. PairsPart'
  BY <1>2, <1>13, <1>14, <1>15, PairsKept DEF MessagesInv
<1>21. M!HistoryCut'
  BY <1>2, <1>13, <1>14, CutKept DEF MessagesInv
<1>22. Locks'
  BY <1>1, <1>9, <1>16, <1>17 DEF LocksPart, Locks
<1>23. EditsFit' /\ BuriedFits' /\ M!DeletedStays'
  <2>1. \A k \in M!Doing("edit")' : req[k].m \in DOMAIN msgs /\ req'[k] = req[k]
                                    /\ k \in M!Doing("edit")
    BY <1>1, <1>15, WorkTypes DEF Going
  <2>2. \A k \in M!Doing("delete")' : k \in M!Doing("delete") /\ req'[k] = req[k]
    BY <1>15 DEF Going
  <2>3. EditsFit'
    BY <1>1, <1>2, <1>10, <2>1, <2>2 DEF LocksPart, EditsFit
  <2> QED BY <1>1, <1>2, <1>9, <1>10, <2>3 DEF LocksPart, BuriedFits, M!DeletedStays
<1>24. ToldAhead'
  BY <1>1, <1>2, <1>16, <1>17 DEF ToldPart, ToldAhead, M!resolve_content
<1>25. M!ClientsCurrent'
  <2>1. \A k : M!RowLocked(k)' <=> M!RowLocked(k)
    BY <1>16, <1>17 DEF M!RowLocked
  <2>2. \A y \in subs : \A k \in DOMAIN seen[y] : k \in DOMAIN msgs
    BY <1>1, Typed DEF ClientsTyped, SeenFits
  <2> QED BY <1>1, <1>2, <1>10, <2>1, <2>2 DEF ToldPart, M!ClientsCurrent, M!resolve_content
<1>26. LeftFits'
  <2>1. LeftFits
    BY DEF MessagesInv
  <2>2. \A k : M!In(k)' \subseteq M!In(k) /\ m \notin M!In(k)'
    BY <1>8, <1>9, <1>10 DEF M!In
  <2>3. \A k \in M!Doing("erase")' : k \in M!Doing("erase") /\ req'[k] = req[k]
    BY <1>15 DEF Going
  <2>4. ASSUME NEW j \in M!Doing("erase")', NEW k \in DOMAIN rooms, k = req'[j].room,
               ~rooms'[k].group, k \notin stale
        PROVE  M!In(k)' \subseteq req'[j].left \cup {req'[j].m}
    <3>1. M!In(k) \subseteq req[j].left \cup {req[j].m}
      BY <1>14, <2>1, <2>3, <2>4 DEF LeftFits
    <3> QED BY <2>2, <2>3, <3>1
  <2>5. ASSUME NEW k \in DOMAIN rooms, ~rooms'[k].group, M!In(k)' # {}, k \notin stale
        PROVE  rooms'[k].last # 0
    <3>1. CASE k = r
      <4>1. M!In(k) \subseteq req[q].left \cup {m}
        BY <1>2, <1>3, <1>4, <1>14, <2>1, <2>5, <3>1 DEF LeftFits
      <4>2. req[q].left # {}
        BY <2>2, <2>5, <4>1
      <4> QED BY <1>6, <1>12, <1>13, <3>1, <4>2
    <3>2. CASE k # r
      BY <1>14, <2>1, <2>2, <2>5, <3>2 DEF LeftFits
    <3> QED BY <3>1, <3>2
  <2> QED BY <1>2, <1>13, <2>4, <2>5 DEF LeftFits
<1> QED BY <1>19, <1>20, <1>21, <1>22, <1>23, <1>24, <1>25, <1>26
  DEF MessagesInv, LocksPart, ToldPart

-----------------------------------------------------------------------------
(* Messages: clients. *)

\* One client subscribes, disconnects or queries.
LEMMA ClientKeeps ==
  ASSUME MessagesInv, NEW y \in M!Viewer,
         UNCHANGED <<rooms, msgs, blocks, req, overlapped, buried, stale>>,
         raced \subseteq raced', subs' \subseteq subs \cup {y},
         NEW f, seen' = [seen EXCEPT ![y] = f],
         \A m \in DOMAIN f : /\ m \in DOMAIN msgs /\ msgs[m].room = y[2]
                             /\ f[m] = M!resolve_content(msgs[m].text, msgs[m].deleted)
                             /\ m \in raced' \/ \A q \in M!Doing("commit") : req[q].m # m,
         \A x \in M!Viewer \ {y} : x \in lingering \cup subs <=> x \in lingering' \cup subs',
         y \in lingering' \cup subs' \/
           \A m \in DOMAIN f : rooms[y[2]].group /\ y[1] \in M!Members(y[2]) =>
                                 m > rooms[y[2]].people[y[1]][1].since
  PROVE  MessagesInv'
<1>1. MessageTypes /\ blocks \subseteq Profile \X Profile
  BY Typed DEF MessagesInv
<1>2. ClientsTyped /\ seen = [x \in M!Viewer |-> seen[x]]
  BY <1>1, Typed DEF ClientsTyped, SeenFits
<1>3. /\ seen'[y] = f /\ \A x \in M!Viewer \ {y} : seen'[x] = seen[x]
      /\ seen' = [x \in M!Viewer |-> seen'[x]]
  BY <1>2
<1>4. \A o : Going(o) /\ M!Doing(o)' = M!Doing(o)
  BY RestGoing
<1>5. \A m \in DOMAIN f : f[m] \in Text \cup {Gone}
  BY <1>1, MessageType DEF M!resolve_content
<1>6. RoomsTyped' /\ MsgsTyped' /\ ReqTyped' /\ SameMessages
  <2>1. RoomsTyped /\ MsgsTyped /\ ReqTyped
    BY <1>1, Typed
  <2>2. RoomsTyped' /\ MsgsTyped' /\ SameMessages
    BY <2>1 DEF RoomsTyped, RoomOK, MsgsTyped, SameMessages
  <2>3. ReqTyped'
    BY <1>1, <1>4, <2>1, ReqKept DEF ReqTyped
  <2> QED BY <2>2, <2>3
<1>7. \A x \in M!Viewer : \A m \in DOMAIN seen'[x] :
        m \in DOMAIN msgs /\ msgs[m].room = x[2] /\ seen'[x][m] \in Text \cup {Gone}
  <2>1. TAKE x \in M!Viewer
  <2>2. CASE x = y
    BY <1>3, <1>5, <2>2
  <2>3. CASE x # y
    BY <1>2, <1>3, <2>3 DEF ClientsTyped, SeenFits
  <2> QED BY <2>2, <2>3
<1>8. ClientsTyped'
  <2>1. SeenFits'
    BY <1>3, <1>7 DEF SeenFits, M!Viewer, M!RoomId
  <2>2. subs' \subseteq M!Viewer
    BY <1>2 DEF ClientsTyped
  <2> QED BY <1>7, <2>1, <2>2 DEF ClientsTyped, M!Viewer, M!RoomId
<1>9. MessageTypes'
  BY <1>1, <1>6, <1>8, TypedNext
<1>10. PairsPart' /\ LocksPart'
  BY <1>1, <1>4, <1>6, PairsKept, LocksKept DEF MessagesInv
<1>11. ToldPart'
  <2>1. ASSUME NEW x \in subs', NEW m \in DOMAIN seen'[x]
        PROVE  \/ x \in subs /\ m \in DOMAIN seen[x] /\ seen'[x][m] = seen[x][m]
               \/ /\ seen'[x][m] = M!resolve_content(msgs'[m].text, msgs'[m].deleted)
                  /\ m \in raced' \/ \A q \in M!Doing("commit") : req[q].m # m
    <3>1. CASE x = y
      BY <1>3, <2>1, <3>1
    <3>2. CASE x # y
      BY <1>2, <1>3, <2>1, <3>2 DEF ClientsTyped
    <3> QED BY <3>1, <3>2
  <2> QED BY <1>1, <1>4, <1>6, <2>1, ToldKept DEF MessagesInv
<1>12. M!HistoryCut'
  <2>1. M!Viewer' = M!Viewer
    BY DEF M!Viewer, M!RoomId
  <2>2. SUFFICES ASSUME NEW x \in M!Viewer \ (lingering' \cup subs'), x[2] \in DOMAIN rooms,
                        rooms[x[2]].group, x[1] \in M!Members(x[2]), NEW m \in DOMAIN seen'[x]
        PROVE  m > rooms[x[2]].people[x[1]][1].since
    BY <2>1 DEF M!HistoryCut, M!Members
  <2>3. CASE x = y
    BY <1>3, <2>2, <2>3
  <2>4. CASE x # y
    <3>1. x \notin lingering \cup subs /\ m \in DOMAIN seen[x]
      BY <1>3, <2>2, <2>4
    <3> QED BY <2>2, <3>1 DEF MessagesInv, M!HistoryCut
  <2> QED BY <2>3, <2>4
<1>13. LeftFits'
  <2>1. \A r : M!In(r)' = M!In(r)
    BY DEF M!In
  <2> QED BY <1>1, <1>4, <2>1, LeftKept DEF MessagesInv
<1> QED BY <1>9, <1>10, <1>11, <1>12, <1>13 DEF MessagesInv

LEMMA SubscribeKeeps ==
  ASSUME MessagesInv, NEW p \in Profile, NEW r \in DOMAIN rooms, M!Subscribe(p, r)
  PROVE  MessagesInv'
<1> DEFINE y == <<p, r>>
<1>1. y \in M!Viewer
  BY DomainsAreIds DEF MessagesInv, M!Viewer
<1>2. /\ UNCHANGED <<rooms, msgs, blocks, req, overlapped, raced, buried, stale>>
      /\ subs' = subs \cup {y} /\ seen' = [seen EXCEPT ![y] = <<>>]
      /\ lingering' = lingering \ {y}
  BY DEF M!Subscribe
<1> HIDE DEF y
<1>3. DOMAIN (<<>>) = {}
  OBVIOUS
<1> QED BY <1>1, <1>2, <1>3, ClientKeeps

LEMMA DisconnectKeeps ==
  ASSUME MessagesInv, NEW p \in Profile, NEW r \in DOMAIN rooms, M!Disconnect(<<p, r>>)
  PROVE  MessagesInv'
<1> DEFINE y == <<p, r>>
<1>1. y \in M!Viewer
  BY DomainsAreIds DEF MessagesInv, M!Viewer
<1>2. /\ UNCHANGED <<rooms, msgs, blocks, req, overlapped, raced, buried, stale, lingering>>
      /\ subs' = subs \ {y} /\ seen' = [seen EXCEPT ![y] = <<>>]
  BY DEF M!Disconnect
<1> HIDE DEF y
<1>3. DOMAIN (<<>>) = {}
  OBVIOUS
<1> QED BY <1>1, <1>2, <1>3, ClientKeeps

LEMMA FetchKeeps ==
  ASSUME MessagesInv, NEW p \in Profile, NEW r \in DOMAIN rooms, M!Fetch(p, r)
  PROVE  MessagesInv'
<1> DEFINE y == <<p, r>>
           f == [m \in M!resolve_all_messages(p, r) |->
                   M!resolve_content(msgs[m].text, msgs[m].deleted)]
<1>1. y \in M!Viewer /\ y[1] = p /\ y[2] = r
  BY DomainsAreIds DEF MessagesInv, M!Viewer
<1>2. /\ UNCHANGED <<rooms, msgs, blocks, req, subs, overlapped, buried, stale>>
      /\ seen' = [seen EXCEPT ![y] = f]
      /\ lingering' = lingering \ {y}
      /\ raced' = raced \cup {req[q].m : q \in M!Doing("commit")}
  BY DEF M!Fetch
<1>3. /\ M!resolve_all_messages(p, r) \subseteq M!In(r)
      /\ rooms[r].group /\ p \in M!Members(r) =>
           \A m \in M!resolve_all_messages(p, r) : m > rooms[r].people[p][1].since
  BY DEF M!resolve_all_messages
<1>4. \A m \in M!In(r) : m \in DOMAIN msgs /\ msgs[m].room = r
  BY DEF M!In
<1>5. /\ DOMAIN f = M!resolve_all_messages(p, r)
      /\ \A m \in DOMAIN f : f[m] = M!resolve_content(msgs[m].text, msgs[m].deleted)
  OBVIOUS
<1> HIDE DEF y, f
<1>6. \A m \in DOMAIN f : /\ m \in DOMAIN msgs /\ msgs[m].room = y[2]
                          /\ f[m] = M!resolve_content(msgs[m].text, msgs[m].deleted)
                          /\ m \in raced' \/ \A q \in M!Doing("commit") : req[q].m # m
  BY <1>1, <1>2, <1>3, <1>4, <1>5
<1>7. \A m \in DOMAIN f : rooms[y[2]].group /\ y[1] \in M!Members(y[2]) =>
                            m > rooms[y[2]].people[y[1]][1].since
  BY <1>1, <1>3, <1>5
<1>8. \A x \in M!Viewer \ {y} : x \in lingering \cup subs <=> x \in lingering' \cup subs'
  BY <1>2
<1>9. raced \subseteq raced' /\ subs' \subseteq subs \cup {y}
  BY <1>2
<1> QED BY <1>1, <1>2, <1>6, <1>7, <1>8, <1>9, ClientKeeps

-----------------------------------------------------------------------------
(* Messages: the invariant holds, and says what it should. *)

\* At first there are no messages and no requests, and at most one room.
LEMMA MessagesInit ==
  ASSUME NEW opened \in Seq(AnyRoom), Len(opened) <= 1,
         \A r \in DOMAIN opened : RoomOK(opened[r]) /\ DOMAIN opened[r].people = {a, b},
         \A r \in DOMAIN opened : \A p \in {a, b} : Len(opened[r].people[p]) = 1,
         M!InitWith(opened)
  PROVE  MessagesInv
<1>1. /\ rooms = opened /\ msgs = <<>> /\ blocks = {} /\ subs = {}
      /\ req = [q \in Request |-> None] /\ seen = [x \in M!Viewer |-> <<>>]
      /\ overlapped = {} /\ raced = {} /\ buried = {} /\ stale = {} /\ lingering = {}
  BY DEF M!InitWith
<1>2. \A o : M!Doing(o) = {}
  BY <1>1 DEF M!Doing
<1>3. DOMAIN msgs = {} /\ msgs \in Seq(M!Message) /\ Len(msgs) = 0
  BY <1>1
<1>4. \A x \in M!Viewer : DOMAIN seen[x] = {}
  BY <1>1
<1>5. \A r : M!In(r) = {}
  BY <1>3 DEF M!In
<1>6. RoomsTyped
  BY <1>1, BoundAssumption DEF RoomsTyped
<1>7. MsgsTyped
  BY <1>3, BoundAssumption DEF MsgsTyped
<1>8. ReqTyped
  BY <1>1, <1>2 DEF ReqTyped, RequestsFit
<1>9. ClientsTyped
  <2>1. seen = [x \in M!Viewer |-> seen[x]]
    BY <1>1
  <2> QED BY <1>1, <1>4, <2>1 DEF ClientsTyped, SeenFits
<1>10. MessageTypes
  BY <1>1, <1>6, <1>7, <1>8, <1>9, Typed
<1>11. PairRows
  BY <1>1, InputAssumption DEF PairRows, M!Members
<1>12. PairsAsked
  BY <1>2 DEF PairsAsked
<1>13. M!PairRoomsUnique
  <2>1. \A r, s \in DOMAIN rooms : r = s
    BY <1>1
  <2> QED BY <2>1 DEF M!PairRoomsUnique
<1>14. LocksPart
  BY <1>1, <1>2 DEF LocksPart, Locks, EditsFit, BuriedFits, M!DeletedStays
<1>15. ToldPart
  BY <1>1, <1>2 DEF ToldPart, ToldAhead, M!ClientsCurrent
<1>16. M!HistoryCut
  BY <1>4 DEF M!HistoryCut
<1>17. LeftFits
  BY <1>2, <1>5 DEF LeftFits
<1> QED BY <1>10, <1>11, <1>12, <1>13, <1>14, <1>15, <1>16, <1>17 DEF MessagesInv, PairsPart

LEMMA TalksInit ==
  ASSUME part \in Talks, Init
  PROVE  MessagesInv
<1>1. \A group \in BOOLEAN :
        /\ Opened(group) \in AnyRoom /\ RoomOK(Opened(group))
        /\ DOMAIN Opened(group).people = {a, b}
        /\ \A p \in {a, b} : Len(Opened(group).people[p]) = 1
  <2>1. TAKE group \in BOOLEAN
  <2> DEFINE row == [since |-> 0, archived |-> FALSE]
             one == <<row>>
             f == [p \in {a, b} |-> one]
             x == [group |-> group, host |-> a, last |-> 0, people |-> f]
  <2>2. 0 \in 0..MaxMessages /\ {a, b} \subseteq Profile /\ a \in Profile
    BY BoundAssumption, InputAssumption
  <2>3. row \in M!Person
    BY <2>2 DEF M!Person
  <2> HIDE DEF row
  <2>4. one \in Seq(M!Person) /\ Len(one) = 1
    BY <2>3
  <2> HIDE DEF one
  <2>5. f \in [{a, b} -> Seq(M!Person)] /\ DOMAIN f = {a, b} /\ \A p \in {a, b} : f[p] = one
    BY <2>4
  <2> HIDE DEF f
  <2>6. x \in M!Room({a, b}) /\ x.people = f
    BY <2>2, <2>5 DEF M!Room
  <2> HIDE DEF x
  <2>7. RoomOK(x)
    <3>1. DOMAIN x.people = {a, b} /\ \A p \in {a, b} : x.people[p] = one
      BY <2>5, <2>6
    <3>2. \A p \in {a, b} : Len(x.people[p]) > 0
      BY <2>4, <3>1
    <3> QED BY <2>2, <2>6, <3>1, <3>2 DEF RoomOK
  <2>8. Opened(group) = x
    BY DEF Opened, x, f, one, row
  <2> QED BY <2>4, <2>5, <2>6, <2>7, <2>8, RoomOKIsAny
<1>2. M!InitWith(<<>>) \/ M!InitWith(<<Opened(FALSE)>>) \/ M!InitWith(<<Opened(TRUE)>>)
  BY DEF Init, Talks, M!Init
<1>3. CASE M!InitWith(<<>>)
  <2>1. <<>> \in Seq(AnyRoom) /\ Len(<<>>) <= 1 /\ DOMAIN (<<>>) = {}
    OBVIOUS
  <2> QED BY <1>3, <2>1, MessagesInit
<1>4. ASSUME NEW group \in BOOLEAN, M!InitWith(<<Opened(group)>>)
      PROVE  MessagesInv
  <2> DEFINE x == Opened(group)
             opened == <<x>>
  <2>1. /\ x \in AnyRoom /\ RoomOK(x) /\ DOMAIN x.people = {a, b}
        /\ \A p \in {a, b} : Len(x.people[p]) = 1
    BY <1>1
  <2> HIDE DEF x
  <2>2. /\ opened \in Seq(AnyRoom) /\ Len(opened) <= 1 /\ DOMAIN opened = {1} /\ opened[1] = x
    BY <2>1
  <2>3. M!InitWith(opened)
    BY <1>4 DEF x
  <2> HIDE DEF opened
  <2> QED BY <2>1, <2>2, <2>3, MessagesInit
<1> QED BY <1>2, <1>3, <1>4

LEMMA MessagesStep == ASSUME MessagesInv, [M!Next]_(M!vars) PROVE MessagesInv'
<1>1. CASE UNCHANGED M!vars
  <2>1. UNCHANGED <<rooms, msgs, blocks, req, subs, seen, overlapped, raced, buried, stale,
                    lingering>>
    BY <1>1 DEF M!vars
  <2>2. SameData /\ MessageTypes /\ blocks \subseteq Profile \X Profile /\ ReqTyped
    BY <2>1, Typed DEF SameData, MessagesInv
  <2>3. \A o : Going(o) /\ M!Doing(o)' = M!Doing(o)
    BY <2>1, RestGoing
  <2>4. RoomsTyped' /\ MsgsTyped' /\ ClientsTyped' /\ M!HistoryCut' /\ SameMessages
    BY <2>2, DataKept
  <2>5. ReqTyped'
    BY <2>1, <2>2, <2>3, <2>4, ReqKept DEF SameMessages, ReqTyped
  <2>6. MessageTypes'
    BY <2>1, <2>2, <2>4, <2>5, TypedNext
  <2>7. PairsPart' /\ LocksPart' /\ ToldPart' /\ LeftFits'
    BY <2>1, <2>2, <2>3, <2>4, SamePairs, LocksKept, SameTold, SameLeft DEF MessagesInv
  <2> QED BY <2>4, <2>6, <2>7 DEF MessagesInv
<1>2. ASSUME NEW q \in Request,
             \/ \E p \in Profile, x \in Creations : M!ChatRoomCreate(q, p, x)
             \/ M!OpenRoom(q) \/ M!Tell(q) \/ M!Commit(q) \/ M!GiveUp(q) \/ M!Erase(q)
      PROVE  MessagesInv'
  BY <1>2, CreateKeeps, OpenRoomKeeps, TellKeeps, CommitMessageKeeps, GiveUpKeeps, EraseKeeps
<1>3. ASSUME NEW p \in Profile, NEW r \in DOMAIN rooms,
             \/ \E by \in Profile : M!AddParticipant(by, p, r)
             \/ M!RemoveParticipant(p, r) \/ M!Subscribe(p, r) \/ M!Disconnect(<<p, r>>)
             \/ M!Fetch(p, r)
             \/ \E archive \in BOOLEAN : M!ChatRoomArchive(p, r, archive)
             \/ \E t \in Text, fails \in BOOLEAN : M!ChatRoomSendMessage(p, r, t, fails)
      PROVE  MessagesInv'
  BY <1>3, AddParticipantKeeps, RemoveParticipantKeeps, SubscribeKeeps, DisconnectKeeps,
     FetchKeeps, ArchiveKeeps, SendKeeps
<1>4. ASSUME NEW p \in Profile, NEW x \in Profile, M!Block(p, x)
      PROVE  MessagesInv'
  BY <1>4, BlockKeeps
<1>5. ASSUME NEW q \in Request, NEW m \in DOMAIN msgs,
             \/ M!EraseRead(q, m)
             \/ \E p \in Profile : \/ M!ChatRoomDeleteMessage(q, p, m)
                                   \/ \E t \in Text : M!ChatRoomEditMessage(q, p, m, t)
      PROVE  MessagesInv'
  BY <1>5, EraseReadKeeps, DeleteMessageKeeps, EditKeeps
<1> QED BY <1>1, <1>2, <1>3, <1>4, <1>5 DEF M!Next

\* Conversations are listed because they have a last message, each once as archived or not.
LEMMA MessagesFollow ==
  ASSUME MessagesInv
  PROVE  M!TypeOK /\ M!MessagesConsistent
<1>1. MessageTypes /\ LeftFits
  BY DEF MessagesInv
<1>2. ASSUME NEW r \in DOMAIN rooms, NEW p \in M!Members(r),
             M!In(r) # {}, r \notin stale, ~M!has_block_between({p}, M!Members(r))
      PROVE  r \in M!resolve_chat_rooms(p)
  BY <1>1, <1>2 DEF LeftFits, M!resolve_chat_rooms
<1>3. ASSUME NEW r \in DOMAIN rooms, NEW p \in M!Members(r), ~M!HasDuplicate(r)
      PROVE  (r \in M!filter_archived(p, TRUE)) # (r \in M!filter_archived(p, FALSE))
  <2> DEFINE rows == rooms[r].people[p]
  <2>1. rows \in Seq(M!Person) /\ Len(rows) > 0
    BY <1>1, RoomTypes
  <2>2. Len(rows) <= 1
    BY <1>3, <2>1 DEF M!HasDuplicate, M!Copies
  <2>3. DOMAIN rows = {1} /\ rows[1] \in M!Person
    BY <2>1, <2>2
  <2>4. rows[1].archived \in BOOLEAN
    BY <2>3 DEF M!Person
  <2>5. \A value \in BOOLEAN : r \in M!filter_archived(p, value) <=> rows[1].archived = value
    BY <2>3 DEF M!filter_archived
  <2> QED BY <2>4, <2>5
<1>4. M!ConversationsListed
  BY <1>2, <1>3 DEF M!ConversationsListed
<1> QED BY <1>1, <1>4
  DEF MessagesInv, MessageTypes, PairsPart, LocksPart, ToldPart, M!MessagesConsistent

-----------------------------------------------------------------------------
(* The parts of MCContent. *)

ContentInv == /\ part \in Talks => MessagesInv
              /\ part = "mentions" => MentionsInv
              /\ part = "notices" => NoticesInv

LEMMA ContentHolds == Spec => []ContentInv
<1>1. Init => ContentInv
  <2> SUFFICES ASSUME Init PROVE ContentInv
    OBVIOUS
  <2>1. part = "mentions" => T!Init
    BY DEF Init
  <2>2. part = "notices" => N!Init
    BY DEF Init
  <2> QED BY <2>1, <2>2, TalksInit, MentionsInit, NoticesInit DEF ContentInv
<1>2. ContentInv /\ [Next]_vars => ContentInv'
  <2> SUFFICES ASSUME ContentInv, [Next]_vars PROVE ContentInv'
    OBVIOUS
  <2>1. part' = part
    BY DEF Next, vars, view
  <2>2. CASE part = "mentions"
    <3>1. [T!Next]_(T!vars)
      BY <2>2 DEF Next, vars, view, Talks, mentionVars, T!vars
    <3> QED BY <2>1, <2>2, <3>1, MentionsStep DEF ContentInv, Talks
  <2>3. CASE part = "notices"
    <3>1. [N!Next]_(N!vars)
      BY <2>3 DEF Next, vars, view, Talks, noticeVars, N!vars
    <3> QED BY <2>1, <2>3, <3>1, NoticesStep DEF ContentInv, Talks
  <2>4. CASE part \in Talks
    <3>1. [M!Next]_(M!vars)
      BY <2>4 DEF Next, vars, view, Talks, messageVars, M!vars
    <3> QED BY <2>1, <2>4, <3>1, MessagesStep DEF ContentInv, Talks
  <2> QED BY <2>1, <2>2, <2>3, <2>4 DEF ContentInv
<1> QED BY <1>1, <1>2, PTL DEF Spec

\* However requests, operators and clients overlap: two profiles get a second one-to-one
\* room only when two requests for it overlapped, a deletion that was committed stays, a
\* subscriber holds what is stored unless a deletion met an edit in flight, a member who
\* queries gets nothing from before joining, and conversations with a message are listed.
THEOREM MessagesAlwaysConsistent == Spec => []MessagesConsistent
<1>1. ContentInv => MessagesConsistent
  BY MessagesFollow DEF ContentInv, MessagesConsistent
<1> QED BY <1>1, ContentHolds, PTL

\* update_mentions replaces the set: whatever calls overlap, fail, or meet the deletion of a
\* profile, the rows of a target are what the last committed call asked for, its resolvers
\* agree on them, and what the mentions_changed signals report adds up to them.
THEOREM MentionsAlwaysAddUp == Spec => []MentionsConsistent
<1>1. ContentInv => MentionsConsistent
  BY ResolversAlwaysAgree, NothingOwed
  DEF ContentInv, MentionsInv, MentionsConsistent, T!MentionsConsistent
<1> QED BY <1>1, ContentHolds, PTL

\* However toggles of the settings overlap each other and the deliveries: nothing goes out
\* on a channel that is off, a toggle's answer is what the next delivery meets, nothing is
\* sent about what was not committed, and clients show the notifications there are.
THEOREM NoticesAlwaysConsistent == Spec => []NoticesConsistent
<1>1. ContentInv => NoticesConsistent
  BY NoticesFollow DEF ContentInv, NoticesConsistent
<1> QED BY <1>1, ContentHolds, PTL
=============================================================================
