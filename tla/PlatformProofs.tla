---------------------------- MODULE PlatformProofs ----------------------------
(***************************************************************************)
(* What the parts of Platform promise, for any users, keys, videos, rooms,   *)
(* people, requests and number of steps.                                     *)
(*                                                                           *)
(* API keys (KeysInv): while a rotation runs, the rows that it has passed    *)
(* are under its new key, or a form has crossed it; once it has ended, so is *)
(* what an open form will save.                                              *)
(*                                                                           *)
(* Sign-ins (SignInsInv): a request stands on a code that it has spent, and  *)
(* the caller it holds has brought the account that the code is for.         *)
(*                                                                           *)
(* Views (CallsInv): what a process learns of a view is its own map, so a    *)
(* request that has passed holds what its process will ask for again.        *)
(*                                                                           *)
(* Links (LinksInv): codes are empty or made of their link's key, and each   *)
(* worker's second save is of a link that is its own.                        *)
(*                                                                           *)
(* Videos (VideosInv): until a task is lost, what the field still needs is   *)
(* some task's to do (Followed), an original that is to be deleted is one    *)
(* that the field has left or is about to leave (OriginalsLeft), and a clip  *)
(* is free until the field takes it (ClipsFree).                             *)
(*                                                                           *)
(* Rooms (RoomsInv): a group with participants has an admin, unless one of   *)
(* its admins removed them all, and an unread message is one that is         *)
(* counted.                                                                  *)
(*                                                                           *)
(* Logs (LogsInv): contexts of a request, the row that it has written and    *)
(* those that were committed are of who acts.                                *)
(*                                                                           *)
(* Members (MembersInv): a request may save the copy of a row it read long   *)
(* ago, so the invariant speaks of rows and copies alike.  Each is Sound (an *)
(* invitation has an address, and its user is that of the address), and      *)
(* whatever is active, in the table or in a copy, has been accepted; only    *)
(* the copy of an acceptance is active before that.                          *)
(***************************************************************************)
EXTENDS Platform, FiniteSetTheorems, WellFoundedInduction, TLAPS

-----------------------------------------------------------------------------
(* API keys under rotation, forms and requests. *)

\* What a rotation, a form and an outcome hold.
KeyRotation == [new : EncryptionKey, old : EncryptionKey, left : SUBSET Secret,
                read : [Secret -> K!KeyRow \cup {None, Gone}], before : SUBSET Secret]
\* A form as it was loaded, and an outcome.
KeyForm == [key : Secret, row : K!KeyRow]
\* What a rotation has done.
KeyOutcome == [under : EncryptionKey, keys : SUBSET Secret]

\* Types of the rows, the rotation, the form and the outcome.
KeysTyped ==
  /\ K!TypeOK
  /\ rotation \in KeyRotation \cup {None}
  /\ form \in KeyForm \cup {None}
  /\ rotated \in KeyOutcome \cup {None}

\* While a rotation runs, what it has passed is under the new key, but for what a form crossed.
RotatingWell ==
  rotation # None =>
    /\ rotated = None
    /\ \A s \in rotation.before : rows[s] # None
    /\ \A s \in rotation.before \cap K!Stored :
         s \notin rotation.left \cup crossed => rows[s].under = rotation.new
    /\ form # None => form.key \in crossed

\* After one that reached its end, rows are under the new key, and so is what a form has loaded.
RotatedWell ==
  rotated # None =>
    \A s \in rotated.keys \ crossed :
      /\ rows[s] # None
      /\ s \in K!Stored => rows[s].under = rotated.under
      /\ form # None /\ form.key = s => form.row.under = rotated.under

\* The inductive invariant of the part.
KeysInv == KeysTyped /\ RotatingWell /\ RotatedWell

\* At the start there is no rotation.
LEMMA KeysInit == K!Init => KeysInv
<1> SUFFICES ASSUME K!Init PROVE KeysInv
  OBVIOUS
<1>1. KeysTyped
  BY KeyAssumption DEF K!Init, KeysTyped, K!TypeOK
<1>2. RotatingWell /\ RotatedWell
  BY DEF K!Init, RotatingWell, RotatedWell
<1> QED BY <1>1, <1>2 DEF KeysInv

\* What changes one row only.
LEMMA KeysOneRow ==
  ASSUME KeysInv, NEW s \in Secret, NEW r \in K!KeyRow \cup {None, Gone},
         rows' = [rows EXCEPT ![s] = r], r # None,
         UNCHANGED <<rotation, rotated, crossed>>,
         form' \in {form, None}, edits' \in 0..MaxEdits, active' \subseteq Holder, setting' \in EncryptionKey,
         rotation # None /\ r # Gone =>
           \/ s \notin rotation.before \/ s \in crossed
           \/ s \in K!Stored /\ r.under = rows[s].under,
         rotated # None /\ r # Gone /\ s \in rotated.keys \ crossed /\ rows[s] # None =>
           r.under = rotated.under
  PROVE  KeysInv'
<1>1. /\ rows' \in [Secret -> K!KeyRow \cup {None, Gone}]
      /\ rows'[s] = r /\ \A t \in Secret : t # s => rows'[t] = rows[t]
  BY DEF KeysInv, KeysTyped, K!TypeOK
<1>2. KeysTyped'
  BY <1>1 DEF KeysInv, KeysTyped, K!TypeOK
<1>3. \A t \in Secret : t # s => (t \in K!Stored' <=> t \in K!Stored)
  BY <1>1 DEF K!Stored
<1>4. s \in K!Stored' <=> r # Gone
  BY <1>1 DEF K!Stored
<1>5. RotatingWell'
  <2> SUFFICES ASSUME rotation' # None PROVE RotatingWell'
    BY DEF RotatingWell
  <2>1. rotation' = rotation /\ rotation # None /\ rotation \in KeyRotation /\ rotation.before \subseteq Secret
    BY DEF KeysInv, KeysTyped, KeyRotation
  <2>2. rotated' = None /\ \A t \in rotation.before : rows'[t] # None
    BY <1>1, <2>1 DEF KeysInv, RotatingWell
  <2>3. \A t \in rotation.before \cap K!Stored' : t \notin rotation.left \cup crossed => rows'[t].under = rotation.new
    BY <1>1, <1>3, <1>4, <2>1 DEF KeysInv, RotatingWell
  <2>4. form' # None => form'.key \in crossed'
    BY <2>1 DEF KeysInv, RotatingWell
  <2> QED BY <2>1, <2>2, <2>3, <2>4 DEF RotatingWell
<1>6. RotatedWell'
  <2> SUFFICES ASSUME rotated' # None PROVE RotatedWell'
    BY DEF RotatedWell
  <2>1. rotated' = rotated /\ rotated # None /\ rotated.keys \subseteq Secret
    BY DEF KeysInv, KeysTyped, KeyOutcome
  <2>2. ASSUME NEW t \in rotated.keys \ crossed
        PROVE  /\ rows'[t] # None
               /\ t \in K!Stored' => rows'[t].under = rotated.under
               /\ form' # None /\ form'.key = t => form'.row.under = rotated.under
    BY <1>1, <1>3, <1>4, <2>1 DEF KeysInv, RotatedWell
  <2> QED BY <2>1, <2>2 DEF RotatedWell
<1> QED BY <1>2, <1>5, <1>6 DEF KeysInv

\* Rows that are added, deleted or expire.
LEMMA KeysRowsStep ==
  ASSUME KeysInv, NEW s \in Secret,
         \/ \E u \in Holder, expiry \in {"never", "later"} : K!Add(s, u, expiry)
         \/ K!Delete(s) \/ K!Expire(s)
  PROVE  KeysInv'
<1>0. /\ active \subseteq Holder /\ setting \in EncryptionKey /\ edits \in 0..MaxEdits /\ crossed \subseteq Secret
      /\ rows \in [Secret -> K!KeyRow \cup {None, Gone}]
  BY DEF KeysInv, KeysTyped, K!TypeOK
<1>1. ASSUME NEW u \in Holder, NEW expiry \in {"never", "later"}, K!Add(s, u, expiry) PROVE KeysInv'
  <2> DEFINE r == [under |-> setting, user |-> u, expiry |-> expiry]
  <2>1. /\ rows[s] = None /\ rows' = [rows EXCEPT ![s] = r] /\ edits' \in 0..MaxEdits
        /\ UNCHANGED <<active, setting, rotation, form, rotated, crossed>>
    BY <1>0, <1>1, KeyAssumption DEF K!Add
  <2>2. r \in K!KeyRow /\ r # None
    BY <1>0, KeyAssumption DEF K!KeyRow, K!Expiry
  <2>3. /\ rotation # None => s \notin rotation.before
        /\ rotated # None => s \notin rotated.keys \ crossed
    BY <2>1 DEF KeysInv, RotatingWell, RotatedWell
  <2> HIDE DEF r
  <2> QED BY <1>0, <2>1, <2>2, <2>3, KeysOneRow
<1>2. ASSUME K!Delete(s) PROVE KeysInv'
  <2>1. /\ rows' = [rows EXCEPT ![s] = Gone] /\ edits' \in 0..MaxEdits /\ Gone # None
        /\ UNCHANGED <<active, setting, rotation, form, rotated, crossed>>
    BY <1>0, <1>2, KeyAssumption DEF K!Delete
  <2> QED BY <1>0, <2>1, KeysOneRow
<1>3. ASSUME K!Expire(s) PROVE KeysInv'
  <2> DEFINE r == [rows[s] EXCEPT !.expiry = "past"]
  <2>1. /\ s \in K!Stored /\ rows' = [rows EXCEPT ![s] = r]
        /\ UNCHANGED <<active, setting, rotation, form, edits, rotated, crossed>>
    BY <1>3 DEF K!Expire
  <2>2. rows[s] \in K!KeyRow /\ rows[s] # None /\ rows[s] # Gone
    BY <1>0, <2>1 DEF K!Stored
  <2>3. r \in K!KeyRow /\ r.under = rows[s].under /\ r # None
    <3>1. r \in K!KeyRow /\ r.under = rows[s].under
      BY <2>2 DEF K!KeyRow, K!Expiry
    <3> QED BY <3>1, KeyAssumption
  <2>4. rotated # None /\ s \in rotated.keys \ crossed => r.under = rotated.under
    BY <2>1, <2>3 DEF KeysInv, RotatedWell
  <2> HIDE DEF r
  <2> QED BY <1>0, <2>1, <2>3, <2>4, KeysOneRow
<1> QED BY <1>1, <1>2, <1>3

\* The form of an operator: what it loads, and what it saves.
LEMMA KeysFormStep ==
  ASSUME KeysInv,
         \/ \E s \in Secret : K!AdminLoad(s)
         \/ \E expiry \in K!Expiry : K!save_model(expiry)
  PROVE  KeysInv'
<1>0. /\ active \subseteq Holder /\ setting \in EncryptionKey /\ edits \in 0..MaxEdits /\ crossed \subseteq Secret
      /\ rows \in [Secret -> K!KeyRow \cup {None, Gone}]
  BY DEF KeysInv, KeysTyped, K!TypeOK
<1>1. ASSUME NEW s \in Secret, K!AdminLoad(s) PROVE KeysInv'
  <2>1. /\ s \in K!Stored /\ form' = [key |-> s, row |-> rows[s]] /\ edits' \in 0..MaxEdits
        /\ crossed' = (IF rotation = None THEN crossed ELSE crossed \cup {s})
        /\ UNCHANGED <<rows, active, setting, rotation, rotated>>
    BY <1>0, <1>1, KeyAssumption DEF K!AdminLoad
  <2>2. rows[s] \in K!KeyRow
    BY <1>0, <2>1 DEF K!Stored
  <2>3. form' \in KeyForm /\ form'.key = s /\ form'.row = rows[s] /\ crossed' \subseteq Secret
    BY <1>0, <2>1, <2>2 DEF KeyForm
  <2>4. KeysTyped'
    BY <2>1, <2>3 DEF KeysInv, KeysTyped, K!TypeOK
  <2>5. K!Stored' = K!Stored
    BY <2>1 DEF K!Stored
  <2>6. RotatingWell'
    BY <2>1, <2>3, <2>5 DEF KeysInv, RotatingWell
  <2>7. RotatedWell'
    <3>1. rotated # None => rotation = None
      BY DEF KeysInv, RotatingWell
    <3> QED BY <2>1, <2>3, <2>5, <3>1 DEF KeysInv, RotatedWell
  <2> QED BY <2>4, <2>6, <2>7 DEF KeysInv
<1>2. ASSUME NEW expiry \in K!Expiry, K!save_model(expiry) PROVE KeysInv'
  <2> DEFINE r == [form.row EXCEPT !.expiry = expiry]
             s == form.key
  <2>1. /\ form # None /\ rows' = [rows EXCEPT ![s] = r] /\ form' = None
        /\ UNCHANGED <<active, setting, rotation, edits, rotated, crossed>>
    BY <1>2 DEF K!save_model
  <2>2. form.row \in K!KeyRow /\ s \in Secret
    BY <2>1 DEF KeysInv, KeysTyped, KeyForm
  <2>3. r \in K!KeyRow /\ r.under = form.row.under /\ r # None
    <3>1. r \in K!KeyRow /\ r.under = form.row.under
      BY <2>2 DEF K!KeyRow
    <3> QED BY <3>1, KeyAssumption
  <2>4. /\ rotation # None => s \in crossed
        /\ rotated # None /\ s \in rotated.keys \ crossed => r.under = rotated.under
    BY <2>1, <2>3 DEF KeysInv, RotatingWell, RotatedWell
  <2> HIDE DEF r, s
  <2> QED BY <1>0, <2>1, <2>2, <2>3, <2>4, KeysOneRow
<1> QED BY <1>1, <1>2

\* A rotation: its start, its rows one at a time, its interruption and its end.
LEMMA KeysRotationStep ==
  ASSUME KeysInv,
         \/ \E old, new \in EncryptionKey : K!Rotate(old, new)
         \/ \E s \in Secret : K!RotateRow(s)
         \/ K!Interrupt \/ K!Finish
  PROVE  KeysInv'
<1>0. /\ active \subseteq Holder /\ setting \in EncryptionKey /\ edits \in 0..MaxEdits /\ crossed \subseteq Secret
      /\ rows \in [Secret -> K!KeyRow \cup {None, Gone}]
      /\ K!Stored \subseteq Secret
  BY DEF KeysInv, KeysTyped, K!TypeOK, K!Stored
<1>1. ASSUME NEW old \in EncryptionKey, NEW new \in EncryptionKey, K!Rotate(old, new) PROVE KeysInv'
  <2>1. /\ rotation' = [new |-> new, old |-> old, left |-> K!Stored, read |-> rows, before |-> K!Stored]
        /\ crossed' = (IF form = None THEN {} ELSE {form.key})
        /\ rotated' = None
        /\ UNCHANGED <<rows, active, setting, form, edits>>
    BY <1>1 DEF K!Rotate, K!Rotating
  <2>2. rotation' \in KeyRotation /\ crossed' \subseteq Secret
    BY <1>0, <2>1 DEF KeyRotation, KeysInv, KeysTyped, KeyForm
  <2>3. KeysTyped'
    BY <2>1, <2>2 DEF KeysInv, KeysTyped, K!TypeOK, KeyRotation
  <2>4. K!Stored' = K!Stored /\ \A s \in K!Stored : rows[s] # None
    BY <2>1 DEF K!Stored
  <2>5. RotatingWell'
    BY <2>1, <2>4 DEF RotatingWell
  <2> QED BY <2>1, <2>3, <2>5 DEF KeysInv, RotatedWell
<1>2. ASSUME NEW s \in Secret, K!RotateRow(s) PROVE KeysInv'
  <2>1. /\ rotation # None /\ s \in rotation.left /\ s \in K!Stored
        /\ rows' = [rows EXCEPT ![s].under = rotation.new]
        /\ rotation' = [rotation EXCEPT !.left = @ \ {s}]
        /\ UNCHANGED <<active, setting, form, edits, rotated, crossed>>
    BY <1>2 DEF K!RotateRow
  <2>2. rotation \in KeyRotation /\ rows[s] \in K!KeyRow /\ rotated = None
    BY <1>0, <2>1 DEF KeysInv, KeysTyped, RotatingWell, K!Stored
  <2>3. /\ rotation' \in KeyRotation /\ rotation'.new = rotation.new /\ rotation'.before = rotation.before
        /\ rotation'.left = rotation.left \ {s}
    BY <2>1, <2>2 DEF KeyRotation
  <2>4. /\ rows' \in [Secret -> K!KeyRow \cup {None, Gone}]
        /\ rows'[s].under = rotation.new /\ rows'[s] \in K!KeyRow
        /\ \A t \in Secret : t # s => rows'[t] = rows[t]
    BY <1>0, <2>1, <2>2, rotation.new \in EncryptionKey DEF K!KeyRow, KeyRotation
  <2>5. KeysTyped'
    BY <2>1, <2>3, <2>4 DEF KeysInv, KeysTyped, K!TypeOK, KeyRotation
  <2>6. rows'[s] # None /\ \A t \in Secret : t # s => (t \in K!Stored' <=> t \in K!Stored)
    BY <2>4, KeyAssumption DEF K!Stored
  <2>7. RotatingWell'
    <3>1. \A t \in rotation'.before : t \in Secret /\ rows'[t] # None
      BY <2>1, <2>2, <2>3, <2>4, <2>6 DEF KeysInv, RotatingWell, KeyRotation
    <3>2. \A t \in rotation'.before \cap K!Stored' :
            t \notin rotation'.left \cup crossed' => rows'[t].under = rotation'.new
      BY <2>1, <2>2, <2>3, <2>4, <2>6, <3>1 DEF KeysInv, RotatingWell
    <3>3. rotated' = None /\ (form' # None => form'.key \in crossed')
      BY <2>1, <2>2 DEF KeysInv, RotatingWell
    <3> QED BY <3>1, <3>2, <3>3 DEF RotatingWell
  <2> QED BY <2>1, <2>2, <2>5, <2>7 DEF KeysInv, RotatedWell
<1>3. ASSUME K!Interrupt PROVE KeysInv'
  <2>1. rotation # None /\ rotation' = None /\ UNCHANGED <<rows, active, setting, form, edits, rotated, crossed>>
    BY <1>3 DEF K!Interrupt
  <2>2. K!Stored' = K!Stored
    BY <2>1 DEF K!Stored
  <2> QED BY <2>1, <2>2 DEF KeysInv, KeysTyped, K!TypeOK, RotatingWell, RotatedWell
<1>4. ASSUME K!Finish PROVE KeysInv'
  <2>1. /\ rotation # None /\ rotation.left = {} /\ rotation' = None
        /\ rotated' = [under |-> rotation.new, keys |-> (rotation.before \cap K!Stored) \ crossed]
        /\ UNCHANGED <<rows, active, setting, form, edits, crossed>>
    BY <1>4 DEF K!Finish
  <2>2. rotation \in KeyRotation
    BY <2>1 DEF KeysInv, KeysTyped
  <2>3. rotated' \in KeyOutcome
    BY <2>1, <2>2 DEF KeyRotation, KeyOutcome
  <2>4. KeysTyped'
    BY <2>1, <2>3 DEF KeysInv, KeysTyped, K!TypeOK
  <2>5. K!Stored' = K!Stored
    BY <2>1 DEF K!Stored
  <2>6. RotatedWell'
    BY <2>1, <2>5 DEF KeysInv, RotatingWell, RotatedWell
  <2> QED BY <2>1, <2>4, <2>6 DEF KeysInv, RotatingWell
<1> QED BY <1>1, <1>2, <1>3, <1>4

\* Every step of the part keeps its invariant.
LEMMA KeysStep == ASSUME KeysInv, [K!Next]_(K!vars) PROVE KeysInv'
<1>1. ASSUME UNCHANGED <<rows, rotation, form, edits, rotated, crossed>>, active' \subseteq active,
             setting' \in EncryptionKey
      PROVE KeysInv'
  <2>1. K!Stored' = K!Stored
    BY <1>1 DEF K!Stored
  <2>2. KeysTyped'
    BY <1>1 DEF KeysInv, KeysTyped, K!TypeOK
  <2> QED BY <1>1, <2>1, <2>2 DEF KeysInv, RotatingWell, RotatedWell
<1>2. ASSUME \/ \E u \in Holder : K!Deactivate(u)
             \/ \E new \in EncryptionKey : K!Deploy(new)
             \/ UNCHANGED K!vars
      PROVE KeysInv'
  BY <1>1, <1>2 DEF K!Deactivate, K!Deploy, K!vars, KeysInv, KeysTyped, K!TypeOK
<1> QED BY <1>2, KeysRowsStep, KeysFormStep, KeysRotationStep DEF K!Next

\* The invariant implies what the run checks of the part.
LEMMA KeysFollow == KeysInv => K!TypeOK /\ K!KeysConsistent
<1> SUFFICES ASSUME KeysInv PROVE K!RotationKeepsKeys /\ K!ReadersAgree
  BY DEF KeysInv, KeysTyped, K!KeysConsistent
<1>1. K!RotationKeepsKeys
  BY DEF K!RotationKeepsKeys, KeysInv, RotatedWell
<1>2. K!ReadersAgree
  BY DEF K!ReadersAgree, K!authenticate, K!on_connect, K!has_permission
<1> QED BY <1>1, <1>2

-----------------------------------------------------------------------------
(* Social sign-ins and referrals. *)

\* A request signs in, or says who referred its user.
SigningIn == [op : {"pipeline", "create"}, code : Code, typed : Email \cup {None},
              referrer : Email \cup {None, Gone}, caller : Email \cup {None, Gone},
              email : Email \cup {None}]
\* A request that names a referrer later.
Referring == [op : {"referred"}, caller : Email \cup {Gone}, referrer : Email \cup {Gone}]

\* Types, and what a request holds.
SignInsTyped == I!TypeOK /\ req \in [Request -> SigningIn \cup Referring \cup {None}]

\* A request has spent its code, creates a user for an address, nobody refers itself, and who
\* is signed in brought the account.
HoldsOn(r, codes, pairs) ==
  /\ r.op # "referred" => r.code \in codes
  /\ r.op = "create" => r.email \in Email
  /\ r.op = "referred" => r.caller # r.referrer \/ r.caller = Gone
  /\ r.op = "pipeline" => r.caller \in {None, Gone} \/ <<Of[r.code], r.caller>> \in pairs
\* What a request stands on stays what it is.
RequestsSpent == \A q \in Request : req[q] # None => HoldsOn(req[q], spent, brought)

\* The inductive invariant of the part.
SignInsInv == SignInsTyped /\ RequestsSpent /\ I!SignInsConsistent

\* At the start nobody has signed in.
LEMMA SignInsInit == I!Init => SignInsInv
<1> SUFFICES ASSUME I!Init PROVE SignInsInv
  OBVIOUS
<1>1. SignInsTyped
  BY SignInAssumption DEF I!Init, SignInsTyped, I!TypeOK
<1>2. RequestsSpent /\ I!RefusedMayRetry /\ I!AssociatedByRight /\ I!ReferredOnce
  BY DEF I!Init, RequestsSpent, I!RefusedMayRetry, I!AssociatedByRight, I!ReferredOnce
<1> QED BY <1>1, <1>2 DEF SignInsInv, I!SignInsConsistent

\* What a request that goes on holds.
LEMMA SigningInHolds ==
  ASSUME SignInsInv, NEW q \in Request, req[q] # None, req[q].op # "referred"
  PROVE  /\ req[q] \in SigningIn /\ req[q].code \in spent /\ req[q].code \in Code
         /\ Of[req[q].code] \in Account
         /\ req[q].op = "create" => req[q].email \in Email
<1>1. req[q] \in SigningIn
  BY DEF SignInsInv, SignInsTyped, Referring
<1> QED BY <1>1, SignInAssumption DEF SignInsInv, RequestsSpent, HoldsOn, SigningIn

\* A step of requests that leaves the users and who is who.
LEMMA SignInsOnlyRequests ==
  ASSUME SignInsInv, NEW q \in Request, NEW r \in SigningIn \cup Referring \cup {None},
         req' = [req EXCEPT ![q] = r],
         r # None =>
           /\ r.op # "referred" => r.code \in spent'
           /\ r.op = "create" => r.email \in Email
           /\ r.op = "referred" => r.caller # r.referrer \/ r.caller = Gone
           /\ r.op = "pipeline" =>
                r.caller \in {None, Gone} \/ <<Of[r.code], r.caller>> \in brought',
         UNCHANGED <<atomic, users, social, referrals, made, deletes>>,
         brought \subseteq brought', brought' \subseteq Account \X users,
         spent \subseteq spent', spent' \subseteq Code, cache' \subseteq spent', asked' \subseteq spent',
         ~atomic => asked' \subseteq cache'
  PROVE  SignInsInv'
<1>1. /\ req' \in [Request -> SigningIn \cup Referring \cup {None}]
      /\ req'[q] = r /\ \A o \in Request : o # q => req'[o] = req[o]
  BY DEF SignInsInv, SignInsTyped
<1>2. SignInsTyped'
  BY <1>1 DEF SignInsInv, SignInsTyped, I!TypeOK
<1>3. RequestsSpent'
  BY <1>1 DEF SignInsInv, RequestsSpent, HoldsOn
<1>4. I!RefusedMayRetry'
  BY DEF I!RefusedMayRetry
<1>5. I!AssociatedByRight' /\ I!ReferredOnce'
  BY DEF SignInsInv, I!SignInsConsistent, I!AssociatedByRight, I!ReferredOnce
<1> QED BY <1>2, <1>3, <1>4, <1>5 DEF SignInsInv, I!SignInsConsistent

\* A request begins, goes on to its next statement, or ends in a refusal.
LEMMA SignInsRequestStep ==
  ASSUME SignInsInv, NEW q \in Request,
         \/ \E c \in Code, typed, referrer, caller \in Email \cup {None} :
               I!get_object(q, c, typed, referrer, caller)
         \/ I!SignUp(q) \/ I!Refuse(q) \/ I!Fail(q)
         \/ \E u, referrer \in Email : I!validate_referred_by_code(q, u, referrer)
  PROVE  SignInsInv'
<1>0. /\ spent \subseteq Code /\ cache \subseteq spent /\ asked \subseteq spent
      /\ ~atomic => asked \subseteq cache
      /\ users \subseteq Email /\ atomic \in BOOLEAN /\ brought \subseteq Account \X users
  BY DEF SignInsInv, SignInsTyped, I!TypeOK, I!SignInsConsistent, I!RefusedMayRetry
<1>1. ASSUME NEW c \in Code, NEW typed \in Email \cup {None}, NEW referrer \in Email \cup {None},
             NEW caller \in Email \cup {None}, I!get_object(q, c, typed, referrer, caller)
      PROVE SignInsInv'
  <2> DEFINE r == [op |-> "pipeline", code |-> c, typed |-> typed, referrer |-> referrer,
                 caller |-> caller, email |-> None]
  <2>1. /\ req' = [req EXCEPT ![q] = r] /\ spent' = spent \cup {c}
        /\ brought' = IF caller = None THEN brought ELSE brought \cup {<<Of[c], caller>>}
        /\ caller # None => caller \in users
        /\ UNCHANGED <<atomic, cache, users, social, referrals, asked, made, deletes>>
    BY <1>1 DEF I!get_object
  <2>2. r \in SigningIn /\ r.code \in spent' /\ r.op = "pipeline"
    BY <2>1 DEF SigningIn
  <2>3. /\ brought \subseteq brought' /\ brought' \subseteq Account \X users
        /\ r.caller \in {None, Gone} \/ <<Of[r.code], r.caller>> \in brought'
    BY <1>0, <2>1, SignInAssumption
  <2> HIDE DEF r
  <2> QED BY <1>0, <2>1, <2>2, <2>3, SignInsOnlyRequests
<1>2. ASSUME I!SignUp(q) PROVE SignInsInv'
  <2> DEFINE r == [req[q] EXCEPT !.op = "create", !.email = I!Username(q)]
  <2>1. /\ req[q] # None /\ req[q].op = "pipeline" /\ I!get_username(q)
        /\ req' = [req EXCEPT ![q].op = "create", ![q].email = I!Username(q)]
        /\ cache' = IF atomic THEN cache ELSE cache \cup {req[q].code}
        /\ UNCHANGED <<atomic, spent, users, social, referrals, asked, made, brought, deletes>>
    BY <1>2 DEF I!SignUp, I!Running, I!cache_access_token
  <2>2. req[q] \in SigningIn /\ req[q].code \in spent /\ Of[req[q].code] \in Account
    BY <2>1, SigningInHolds
  <2>3. I!Username(q) \in Email
    BY <2>1, <2>2, SignInAssumption DEF I!get_username, I!Username, SigningIn
  <2>4. r \in SigningIn /\ r.code = req[q].code /\ r.op = "create" /\ r.email \in Email
    BY <2>2, <2>3 DEF SigningIn
  <2>5. req' = [req EXCEPT ![q] = r]
    BY <2>1, <2>2 DEF SigningIn, SignInsInv, SignInsTyped
  <2> HIDE DEF r
  <2>6. cache' \subseteq spent' /\ cache \subseteq cache'
    BY <1>0, <2>1, <2>2
  <2> QED BY <1>0, <2>1, <2>2, <2>4, <2>5, <2>6, SignInsOnlyRequests
<1>3. ASSUME I!Refuse(q) PROVE SignInsInv'
  <2>1. /\ req[q] # None /\ req[q].op = "pipeline"
        /\ req' = [req EXCEPT ![q] = None]
        /\ cache' = IF atomic THEN cache ELSE cache \cup {req[q].code}
        /\ asked' = asked \cup {req[q].code}
        /\ UNCHANGED <<atomic, spent, users, social, referrals, made, brought, deletes>>
    BY <1>3 DEF I!Refuse, I!Running, I!Done, I!cache_access_token
  <2>2. req[q].code \in spent
    BY <2>1, SigningInHolds
  <2> QED BY <1>0, <2>1, <2>2, SignInsOnlyRequests
<1>4. ASSUME I!Fail(q) PROVE SignInsInv'
  <2>1. /\ req' = [req EXCEPT ![q] = None]
        /\ UNCHANGED <<atomic, spent, cache, users, social, referrals, asked, made, brought, deletes>>
    BY <1>4 DEF I!Fail, I!Done
  <2> QED BY <1>0, <2>1, SignInsOnlyRequests
<1>5. ASSUME NEW u \in Email, NEW referrer \in Email, I!validate_referred_by_code(q, u, referrer)
      PROVE SignInsInv'
  <2> DEFINE r == [op |-> "referred", caller |-> u, referrer |-> referrer]
  <2>1. /\ req' = [req EXCEPT ![q] = r] /\ referrer # u
        /\ UNCHANGED <<atomic, spent, cache, users, social, referrals, asked, made, brought, deletes>>
    BY <1>5 DEF I!validate_referred_by_code
  <2>2. r \in Referring /\ r.caller # r.referrer /\ r.op = "referred"
    BY <2>1 DEF Referring
  <2> HIDE DEF r
  <2> QED BY <1>0, <2>1, <2>2, SignInsOnlyRequests
<1> QED BY <1>1, <1>2, <1>3, <1>4, <1>5

\* A step that ends a request, after which users are as good as before.
LEMMA SignInsEnding ==
  ASSUME SignInsInv, req' = req \/ \E q \in Request : req' = [req EXCEPT ![q] = None],
         UNCHANGED <<atomic, spent, asked, brought>>, deletes' \in 0..MaxDeletes,
         brought \subseteq Account \X users',
         cache \subseteq cache', cache' \subseteq spent,
         users' \subseteq Email, social' \in [Account -> users' \cup {None}],
         referrals' \subseteq users' \X users', made' \in [Email -> Account \cup {None}],
         I!AssociatedByRight', I!ReferredOnce'
  PROVE  SignInsInv'
<1>1. /\ req' \in [Request -> SigningIn \cup Referring \cup {None}]
      /\ \A o \in Request : req'[o] \in {None, req[o]}
  BY DEF SignInsInv, SignInsTyped
<1>2. SignInsTyped'
  BY <1>1 DEF SignInsInv, SignInsTyped, I!TypeOK
<1>3. RequestsSpent'
  BY <1>1 DEF SignInsInv, RequestsSpent, HoldsOn
<1>4. I!RefusedMayRetry'
  BY DEF SignInsInv, I!SignInsConsistent, I!RefusedMayRetry
<1> QED BY <1>2, <1>3, <1>4 DEF SignInsInv, I!SignInsConsistent

\* A sign-in as a user that exists, whose provider account is associated if it was not.
LEMMA SignInsSignIn ==
  ASSUME SignInsInv, NEW q \in Request, I!SignIn(q)
  PROVE  SignInsInv'
<1> DEFINE a == Of[req[q].code]
           u == I!associate_by_email(q)
<1>1. /\ req[q] # None /\ req[q].op = "pipeline" /\ u \in users
      /\ social' = [social EXCEPT ![a] = IF @ = None THEN u ELSE @]
      /\ req' = [req EXCEPT ![q] = None]
      /\ UNCHANGED <<atomic, spent, cache, users, referrals, asked, made, brought, deletes>>
  BY DEF I!SignIn, I!Running, I!Done, I!Failing
<1>2. a \in Account
  BY <1>1, SigningInHolds
<1>3. /\ social \in [Account -> users \cup {None}] /\ users \subseteq Email /\ cache \subseteq spent
      /\ referrals \subseteq users \X users /\ made \in [Email -> Account \cup {None}]
      /\ deletes \in 0..MaxDeletes /\ brought \subseteq Account \X users
  BY DEF SignInsInv, SignInsTyped, I!TypeOK
<1>4. \/ req[q].caller \in {None, Gone}
      \/ <<a, req[q].caller>> \in brought
  BY <1>1 DEF SignInsInv, RequestsSpent, HoldsOn
<1>5. social[a] = None => (a \in Trusted /\ Gives[a] = u) \/ <<a, u>> \in brought \/ u = None
  BY <1>1, <1>3, <1>4, SignInAssumption DEF I!associate_by_email, I!social_user
<1> HIDE DEF a, u
<1>6. /\ social' \in [Account -> users \cup {None}]
      /\ \A b \in Account : b # a => social'[b] = social[b]
      /\ social'[a] = IF social[a] = None THEN u ELSE social[a]
  BY <1>1, <1>2, <1>3
<1>7. I!AssociatedByRight'
  <2> SUFFICES ASSUME NEW b \in Account, social'[b] # None
               PROVE  \/ made'[social'[b]] = b \/ (b \in Trusted /\ Gives[b] = social'[b])
                      \/ <<b, social'[b]>> \in brought'
    BY DEF I!AssociatedByRight
  <2>1. CASE b = a /\ social[a] = None
    BY <1>1, <1>5, <1>6, <2>1
  <2>2. CASE ~(b = a /\ social[a] = None)
    <3>1. social'[b] = social[b]
      BY <1>6, <2>2
    <3> QED BY <1>1, <3>1 DEF SignInsInv, I!SignInsConsistent, I!AssociatedByRight
  <2> QED BY <2>1, <2>2
<1>8. I!ReferredOnce'
  BY <1>1 DEF SignInsInv, I!SignInsConsistent, I!ReferredOnce
<1> QED BY <1>1, <1>3, <1>6, <1>7, <1>8, SignInsEnding

\* A sign-up, which its referrer gets if it can.
LEMMA SignInsCreate ==
  ASSUME SignInsInv, NEW q \in Request, I!CreateUser(q)
  PROVE  SignInsInv'
<1> DEFINE a == Of[req[q].code]
           e == req[q].email
           lost_ == req[q].referrer # None /\ ~I!validate_referral_code(req[q].referrer)
<1>1. /\ req[q] # None /\ req[q].op = "create"
      /\ req' = [req EXCEPT ![q] = None]
      /\ UNCHANGED <<atomic, spent, asked, brought, deletes>>
  BY DEF I!CreateUser, I!Running, I!Done
<1>2. a \in Account /\ e \in Email /\ req[q].code \in spent
  BY <1>1, SigningInHolds
<1>3. /\ social \in [Account -> users \cup {None}] /\ users \subseteq Email /\ cache \subseteq spent
      /\ referrals \subseteq users \X users /\ made \in [Email -> Account \cup {None}]
      /\ deletes \in 0..MaxDeletes /\ brought \subseteq Account \X users
  BY DEF SignInsInv, SignInsTyped, I!TypeOK
<1>4. \/ UNCHANGED <<users, social, made, cache, referrals>>
      \/ /\ e \notin users /\ users' = users \cup {e}
         /\ social' = [social EXCEPT ![a] = IF @ = None THEN e ELSE @]
         /\ made' = [made EXCEPT ![e] = IF social[a] = None THEN a ELSE None]
         /\ \/ UNCHANGED <<cache, referrals>>
            \/ /\ ~lost_ /\ referrals' = referrals \cup I!link_user_to_referrer(q)
               /\ cache' = IF atomic THEN cache \cup {req[q].code} ELSE cache
  BY DEF I!CreateUser, I!cache_access_token
<1>5. CASE UNCHANGED <<users, social, made, cache, referrals>>
  <2>1. I!AssociatedByRight' /\ I!ReferredOnce'
    BY <1>1, <1>5 DEF SignInsInv, I!SignInsConsistent, I!AssociatedByRight, I!ReferredOnce
  <2> QED BY <1>1, <1>3, <1>5, <2>1, SignInsEnding
<1>6. CASE /\ e \notin users /\ users' = users \cup {e}
           /\ social' = [social EXCEPT ![a] = IF @ = None THEN e ELSE @]
           /\ made' = [made EXCEPT ![e] = IF social[a] = None THEN a ELSE None]
           /\ \/ UNCHANGED <<cache, referrals>>
              \/ /\ ~lost_ /\ referrals' = referrals \cup I!link_user_to_referrer(q)
                 /\ cache' = IF atomic THEN cache \cup {req[q].code} ELSE cache
  <2>1. \/ referrals' = referrals
        \/ \E r \in users : referrals' = referrals \cup {<<r, e>>}
    <3>1. CASE referrals' = referrals \cup I!link_user_to_referrer(q) /\ ~lost_
      BY <3>1 DEF I!link_user_to_referrer, I!validate_referral_code, I!get_user_from_referral_code
    <3> QED BY <1>6, <3>1
  <2>2. cache \subseteq cache' /\ cache' \subseteq spent
    BY <1>2, <1>3, <1>6
  <2> HIDE DEF a, e, lost_
  <2>3. /\ social' \in [Account -> users' \cup {None}] /\ users' \subseteq Email
        /\ made' \in [Email -> Account \cup {None}] /\ brought \subseteq Account \X users'
        /\ \A b \in Account : b # a => social'[b] = social[b]
        /\ social'[a] = IF social[a] = None THEN e ELSE social[a]
        /\ \A o \in Email : o # e => made'[o] = made[o]
        /\ social[a] = None => made'[e] = a
    BY <1>2, <1>3, <1>6
  <2>4. I!AssociatedByRight'
    <3> SUFFICES ASSUME NEW b \in Account, social'[b] # None
                 PROVE  \/ made'[social'[b]] = b \/ (b \in Trusted /\ Gives[b] = social'[b])
                        \/ <<b, social'[b]>> \in brought'
      BY DEF I!AssociatedByRight
    <3>1. CASE b = a /\ social[a] = None
      BY <2>3, <3>1
    <3>2. CASE ~(b = a /\ social[a] = None)
      <4>1. social'[b] = social[b] /\ social[b] \in users /\ social[b] # e /\ social[b] \in Email
        BY <1>3, <1>6, <2>3, <3>2
      <4> QED BY <1>1, <4>1, <2>3 DEF SignInsInv, I!SignInsConsistent, I!AssociatedByRight
    <3> QED BY <3>1, <3>2
  <2>5. I!ReferredOnce' /\ referrals' \subseteq users' \X users'
    <3>1. CASE referrals' = referrals
      BY <3>1, <1>3, <1>6 DEF SignInsInv, I!SignInsConsistent, I!ReferredOnce
    <3>2. ASSUME NEW r \in users, referrals' = referrals \cup {<<r, e>>}
          PROVE I!ReferredOnce' /\ referrals' \subseteq users' \X users'
      <4>1. r # e /\ \A x \in referrals : x[2] # e
        BY <1>3, <1>6
      <4> QED BY <3>2, <4>1, <1>3, <1>6 DEF SignInsInv, I!SignInsConsistent, I!ReferredOnce
    <3> QED BY <3>1, <3>2, <2>1
  <2> QED BY <1>1, <1>3, <2>2, <2>3, <2>4, <2>5, SignInsEnding
<1> QED BY <1>4, <1>5, <1>6

\* A user says who referred it.
LEMMA SignInsUpdate ==
  ASSUME SignInsInv, NEW q \in Request, I!update(q)
  PROVE  SignInsInv'
<1>1. /\ req[q] # None /\ req[q].op = "referred"
      /\ req' = [req EXCEPT ![q] = None]
      /\ UNCHANGED <<atomic, spent, cache, users, social, asked, made, brought, deletes>>
      /\ \/ referrals' = referrals
         \/ /\ {req[q].caller, req[q].referrer} \subseteq users
            /\ \A r \in referrals : r[2] # req[q].caller
            /\ referrals' = referrals \cup {<<req[q].referrer, req[q].caller>>}
  BY DEF I!update, I!Running, I!Done
<1>2. req[q].caller # req[q].referrer \/ req[q].caller = Gone
  BY <1>1 DEF SignInsInv, RequestsSpent, HoldsOn
<1>3. /\ social \in [Account -> users \cup {None}] /\ users \subseteq Email /\ cache \subseteq spent
      /\ referrals \subseteq users \X users /\ made \in [Email -> Account \cup {None}]
      /\ deletes \in 0..MaxDeletes /\ brought \subseteq Account \X users
  BY DEF SignInsInv, SignInsTyped, I!TypeOK
<1>4. I!ReferredOnce' /\ referrals' \subseteq users \X users
  BY <1>1, <1>2, <1>3, SignInAssumption DEF SignInsInv, I!SignInsConsistent, I!ReferredOnce
<1>5. I!AssociatedByRight'
  BY <1>1 DEF SignInsInv, I!SignInsConsistent, I!AssociatedByRight
<1> QED BY <1>1, <1>3, <1>4, <1>5, SignInsEnding

\* A user is deleted, and nothing names it any more.
LEMMA SignInsDelete ==
  ASSUME SignInsInv, NEW u \in Email, I!Delete(u)
  PROVE  SignInsInv'
<1>0. /\ social \in [Account -> users \cup {None}] /\ users \subseteq Email /\ cache \subseteq spent
      /\ referrals \subseteq users \X users /\ made \in [Email -> Account \cup {None}]
      /\ deletes \in 0..MaxDeletes /\ brought \subseteq Account \X users
      /\ req \in [Request -> SigningIn \cup Referring \cup {None}]
  BY DEF SignInsInv, SignInsTyped, I!TypeOK
<1>1. /\ deletes < MaxDeletes /\ deletes' = deletes + 1
      /\ users' = users \ {u} /\ made' = [made EXCEPT ![u] = None]
      /\ social' = [a \in Account |-> IF social[a] = u THEN None ELSE social[a]]
      /\ referrals' = {r \in referrals : u \notin {r[1], r[2]}}
      /\ brought' = {b \in brought : b[2] # u}
      /\ UNCHANGED <<atomic, spent, cache, asked>>
  BY DEF I!Delete
<1>a. deletes' \in 0..MaxDeletes
  BY <1>0, <1>1, SignInAssumption
<1>2. /\ social' \in [Account -> users' \cup {None}] /\ users' \subseteq Email
      /\ referrals' \subseteq users' \X users' /\ made' \in [Email -> Account \cup {None}]
      /\ brought' \subseteq Account \X users'
  BY <1>0, <1>1
<1>3. I!AssociatedByRight'
  <2> SUFFICES ASSUME NEW a \in Account, social'[a] # None
               PROVE  \/ made'[social'[a]] = a \/ (a \in Trusted /\ Gives[a] = social'[a])
                      \/ <<a, social'[a]>> \in brought'
    BY DEF I!AssociatedByRight
  <2>1. social'[a] = social[a] /\ social[a] # u /\ social[a] # None /\ social[a] \in Email
    BY <1>0, <1>1
  <2>2. made'[social[a]] = made[social[a]]
    BY <1>0, <1>1, <2>1
  <2>3. <<a, social[a]>> \in brought => <<a, social[a]>> \in brought'
    BY <1>1, <2>1
  <2> QED BY <2>1, <2>2, <2>3 DEF SignInsInv, I!SignInsConsistent, I!AssociatedByRight
<1>4. I!ReferredOnce'
  BY <1>1 DEF SignInsInv, I!SignInsConsistent, I!ReferredOnce
<1>5. ASSUME NEW q \in Request
      PROVE  /\ req'[q] \in SigningIn \cup Referring \cup {None}
             /\ req'[q] # None => HoldsOn(req'[q], spent', brought')
  <2>1. CASE req[q] = None
    BY <2>1 DEF I!Delete
  <2>2. CASE req[q] # None
    <3> DEFINE r == req[q]
               n == [r EXCEPT !.referrer = I!Held(r.referrer, u), !.caller = I!Held(r.caller, u)]
    <3>1. req'[q] = n
      BY <2>2 DEF I!Delete
    <3>2. (r \in SigningIn \/ r \in Referring) /\ HoldsOn(r, spent, brought)
      BY <1>0, <2>2 DEF SignInsInv, RequestsSpent, HoldsOn
    <3>3. n \in SigningIn \/ n \in Referring
      BY <3>2 DEF SigningIn, Referring, I!Held
    <3>4. /\ n.op = r.op /\ (r.op # "referred" => n.code = r.code) /\ (r.op # "referred" => n.email = r.email)
          /\ n.caller = I!Held(r.caller, u) /\ n.referrer = I!Held(r.referrer, u)
      BY <3>2 DEF SigningIn, Referring
    <3> HIDE DEF n, r
    <3>5. HoldsOn(n, spent', brought')
      BY <1>1, <3>2, <3>4 DEF HoldsOn, I!Held
    <3> QED BY <3>1, <3>3, <3>5
  <2> QED BY <2>1, <2>2
<1>6. req' \in [Request -> SigningIn \cup Referring \cup {None}]
  BY <1>5 DEF I!Delete
<1>7. RequestsSpent'
  BY <1>5 DEF RequestsSpent
<1>8. SignInsTyped'
  BY <1>0, <1>1, <1>a, <1>2, <1>6 DEF SignInsInv, SignInsTyped, I!TypeOK
<1>9. I!RefusedMayRetry'
  BY <1>1 DEF SignInsInv, I!SignInsConsistent, I!RefusedMayRetry
<1> QED BY <1>3, <1>4, <1>7, <1>8, <1>9 DEF SignInsInv, I!SignInsConsistent

\* Every step of the part keeps its invariant.
LEMMA SignInsStep == ASSUME SignInsInv, [I!Next]_(I!vars) PROVE SignInsInv'
<1>1. ASSUME NEW c \in Code, I!clean_up_social_auth_cache(c) PROVE SignInsInv'
  <2>1. /\ cache' = cache \ {c} /\ asked' = asked \ {c}
        /\ UNCHANGED <<atomic, spent, users, social, referrals, req, made, brought, deletes>>
    BY <1>1 DEF I!clean_up_social_auth_cache
  <2>2. SignInsTyped' /\ RequestsSpent'
    BY <2>1 DEF SignInsInv, SignInsTyped, I!TypeOK, RequestsSpent, HoldsOn
  <2>3. I!RefusedMayRetry' /\ I!AssociatedByRight' /\ I!ReferredOnce'
    BY <2>1 DEF SignInsInv, I!SignInsConsistent, I!RefusedMayRetry, I!AssociatedByRight, I!ReferredOnce
  <2> QED BY <2>2, <2>3 DEF SignInsInv, I!SignInsConsistent
<1>2. CASE UNCHANGED I!vars
  BY <1>2 DEF I!vars, SignInsInv, SignInsTyped, I!TypeOK, RequestsSpent, HoldsOn, I!SignInsConsistent,
              I!RefusedMayRetry, I!AssociatedByRight, I!ReferredOnce
<1> QED
  BY <1>1, <1>2, SignInsRequestStep, SignInsSignIn, SignInsCreate, SignInsUpdate, SignInsDelete DEF I!Next

\* The invariant implies what the run checks of the part.
LEMMA SignInsFollow == SignInsInv => I!TypeOK /\ I!SignInsConsistent
  BY DEF SignInsInv, SignInsTyped

-----------------------------------------------------------------------------
(* View permissions that processes learn. *)

\* A request to a view.
Calling == [worker : Server, user : Visitor, role : Role \cup {None}, view : View, action : C!Action,
            owner : Visitor \cup {None}, list : SUBSET (C!Permission \cup {None}), touched : BOOLEAN,
            stage : {"begun", "passed", "found", "refused"}]

\* Types, and what a request holds.
CallsTyped == C!TypeOK /\ req \in [Call -> Calling \cup {None}]

\* What a process has learned is the base of a view that has no entry.
LearnedFromViews ==
  \A w \in Server, a \in C!Learnable : learned[w][a] # None =>
    \E x \in View : a \notin DOMAIN OwnMap[x] /\ learned[w][a] = Base[x]

\* A request that nobody touched holds the role of its user.
RolesHeld == \A q \in Call : req[q] # None /\ req[q].touched = FALSE => req[q].role = role[req[q].user]

\* What a request with a decision needs.
Needed(v, a) == C!Own(v, a) \cup C!Default(v, a)
\* A decision of a request that nobody touched is that of the permissions of its user.
DecidedWell ==
  \A q \in Call, u \in Visitor, v \in View, a \in C!Action :
    req[q] # None /\ req[q].touched = FALSE
      /\ req[q].user = u /\ req[q].view = v /\ req[q].action = a
      /\ C!Settled(v, a) /\ ~C!Restricted(u) /\ a \notin Exempt[v] =>
       /\ req[q].stage \in {"passed", "found"} => \A p \in Needed(v, a) : C!Entitled(u, p)
       /\ req[q].stage = "refused" /\ req[q].owner = u => \E p \in Needed(v, a) : ~C!Entitled(u, p)

\* What a view needs never changes.
LEMMA SameNeeds ==
  /\ \A v, a : C!Settled(v, a)' <=> C!Settled(v, a)
  /\ \A v, a : Needed(v, a)' = Needed(v, a)
<1>1. \A v, a : C!Settled(v, a)' <=> C!Settled(v, a)
  BY DEF C!Settled, C!Learnable
<1>2. \A v, a : C!Own(v, a)' = C!Own(v, a)
  BY DEF C!Own, C!Learnable
<1>3. \A v, a : C!Default(v, a)' = C!Default(v, a)
  BY DEF C!Default, C!Verb, C!Action, C!Learnable
<1>4. \A v, a : Needed(v, a)' = Needed(v, a)
  BY <1>2, <1>3 DEF Needed
<1> QED BY <1>1, <1>4

\* What a request is about, when roles and grants have stayed since it began, and its decision:
\* by what users are entitled to now, so that it is well as long as that stays.
Settling(later, o, u, v, a) ==
  /\ later[o] # None /\ later[o].touched = FALSE
  /\ later[o].user = u /\ later[o].view = v /\ later[o].action = a
  /\ C!Settled(v, a) /\ ~C!Restricted(u) /\ a \notin Exempt[v]
\* What a request that settles says of the permissions.
Decision(later, o, u, v, a) ==
  /\ later[o].stage \in {"passed", "found"} => \A p \in Needed(v, a) : C!Entitled(u, p)
  /\ later[o].stage = "refused" /\ later[o].owner = u => \E p \in Needed(v, a) : ~C!Entitled(u, p)
\* Of all requests.
DecisionsOf(later) ==
  \A o \in Call, u \in Visitor, v \in View, a \in C!Action :
    Settling(later, o, u, v, a) => Decision(later, o, u, v, a)

\* As long as nobody's entitlement changes, decisions of the new requests may be judged by the old.
LEMMA SameDecisions ==
  ASSUME \A u \in Visitor : C!Restricted(u)' <=> C!Restricted(u),
         \A u \in Visitor : \A p : C!Entitled(u, p)' <=> C!Entitled(u, p),
         NEW later, later = req', DecisionsOf(later)
  PROVE  DecidedWell'
BY SameNeeds DEF DecidedWell, DecisionsOf, Settling, Decision

\* A request that has passed holds what its process asks for, which is not learned anew.
ListsKept ==
  \A q \in Call :
    req[q] # None /\ req[q].stage = "passed" /\ req[q].action \notin Exempt[req[q].view] =>
    /\ (C!get_perms_list(learned, req[q].worker, req[q].view, req[q].action) \ {Check}) \subseteq req[q].list
    /\ req[q].list # {None}
    /\ req[q].action \in C!Learnable /\ req[q].action \notin DOMAIN OwnMap[req[q].view] =>
         learned[req[q].worker][req[q].action] # None

\* The inductive invariant of the part.
CallsInv == CallsTyped /\ LearnedFromViews /\ RolesHeld /\ DecidedWell /\ ListsKept

\* At the start no process has learned anything.
LEMMA CallsInit == C!Init => CallsInv
<1> SUFFICES ASSUME C!Init PROVE CallsInv
  OBVIOUS
<1>1. CallsTyped
  BY DEF C!Init, CallsTyped, C!TypeOK
<1>2. LearnedFromViews /\ RolesHeld /\ DecidedWell /\ ListsKept
  BY DEF C!Init, LearnedFromViews, RolesHeld, DecidedWell, ListsKept
<1> QED BY <1>1, <1>2 DEF CallsInv

-----------------------------------------------------------------------------
(* What is required, and who has it. *)

\* The permissions that a view needs are permissions.
LEMMA NeededAreThere ==
  ASSUME NEW v \in View, NEW a \in C!Action, C!Settled(v, a)
  PROVE  Needed(v, a) \subseteq C!Permission /\ Check \notin Needed(v, a)
<1>1. C!Own(v, a) \subseteq C!Permission
  <2>1. CASE a \in DOMAIN OwnMap[v]
    BY <2>1, ViewAssumption DEF C!Own
  <2>2. CASE a \notin DOMAIN OwnMap[v] /\ a \in C!Learnable
    <3>1. <<a, Base[v]>> \in C!Permission
      BY <2>2 DEF C!Permission
    <3> QED BY <2>2, <3>1 DEF C!Own
  <2>3. CASE a \notin DOMAIN OwnMap[v] /\ a \notin C!Learnable
    <3>1. <<"change", v>> \in C!Permission
      BY DEF C!Permission
    <3> QED BY <2>3, <3>1 DEF C!Own
  <2> QED BY <2>1, <2>2, <2>3
<1>2. C!Default(v, a) \subseteq C!Permission
  BY DEF C!Default, C!Permission, C!Verb, C!Action, C!Learnable
<1> QED BY <1>1, <1>2, ViewAssumption DEF Needed

\* The list of a user with a role is what the user is entitled to.
LEMMA ListIsEntitled ==
  ASSUME CallsTyped, NEW u \in Visitor, NEW p \in C!Permission
  PROVE  p \in C!permission_list(u, role[u]) <=> C!Entitled(u, p)
<1>1. CASE role[u] = None
  BY <1>1 DEF C!permission_list, C!Entitled
<1>2. CASE role[u] # None
  <2>1. p \in C!get_permission_list(u, role[u]) <=>
          /\ <<u, p>> \notin excludes /\ <<role[u], p>> \notin excludes
          /\ <<role[u], p>> \in grants \/ \E g \in Team : <<role[u], g>> \in groups /\ <<g, p>> \in grants
    BY DEF C!get_permission_list, C!OfGroups, C!Excluded
  <2> QED BY <1>2, <2>1 DEF C!permission_list, C!Entitled
<1> QED BY <1>1, <1>2

\* The permissions of a user are permissions.
LEMMA ListsArePermissions ==
  ASSUME NEW u, NEW r
  PROVE  C!permission_list(u, r) \subseteq C!Permission
  BY DEF C!permission_list, C!get_permission_list, C!OfGroups

\* What a process asks for in the first decision, if it can have learned nothing else.
LEMMA AskedIsOwn ==
  ASSUME CallsInv, NEW w \in Server, NEW v \in View, NEW a \in C!Action, C!Settled(v, a)
  PROVE  C!get_perms_list(C!generate_perms_map_action(w, v, a), w, v, a) \ {Check} = C!Own(v, a)
<1>1. Check \notin C!Own(v, a)
  BY NeededAreThere DEF Needed
<1>2. CASE a \in DOMAIN OwnMap[v]
  BY <1>1, <1>2 DEF C!get_perms_list, C!Own
<1>3. CASE a \notin DOMAIN OwnMap[v] /\ a = "update"
  BY <1>1, <1>3 DEF C!get_perms_list, C!Own, C!Learnable
<1>4. CASE a \notin DOMAIN OwnMap[v] /\ a # "update"
  <2>1. a \in C!Learnable /\ \A x \in View : a \notin DOMAIN OwnMap[x] => Base[x] = Base[v]
    BY <1>4 DEF C!Settled
  <2>2. C!generate_perms_map_action(w, v, a)[w][a] = Base[v]
    BY <1>4, <2>1 DEF C!generate_perms_map_action, CallsInv, CallsTyped, C!TypeOK, LearnedFromViews
  <2> QED BY <1>1, <1>4, <2>1, <2>2 DEF C!get_perms_list, C!Own
<1> QED BY <1>2, <1>3, <1>4

\* What a process learns of a request it has learned for good.
LEMMA Learning ==
  ASSUME CallsInv, NEW w \in Server, NEW v \in View, NEW a \in C!Action,
         NEW now, now = C!generate_perms_map_action(w, v, a)
  PROVE  /\ now \in [Server -> [C!Learnable -> {Base[x] : x \in View} \cup {None}]]
         /\ \A x \in Server, b \in C!Learnable : now[x][b] # None =>
              \E y \in View : b \notin DOMAIN OwnMap[y] /\ now[x][b] = Base[y]
         /\ \A x \in Server, b \in C!Learnable : learned[x][b] # None => now[x][b] = learned[x][b]
         /\ a \in C!Learnable /\ a \notin DOMAIN OwnMap[v] => now[w][a] # None
         /\ a \in C!Learnable /\ a \notin DOMAIN OwnMap[v] /\ learned[w][a] # None => now = learned
         /\ a \notin C!Learnable \/ a \in DOMAIN OwnMap[v] => now = learned
<1>1. learned \in [Server -> [C!Learnable -> {Base[x] : x \in View} \cup {None}]]
  BY DEF CallsInv, CallsTyped, C!TypeOK
<1>2. CASE now = learned
  <2>1. ~(a \in C!Learnable /\ a \notin DOMAIN OwnMap[v] /\ learned[w][a] = None)
    <3> SUFFICES ASSUME a \in C!Learnable, a \notin DOMAIN OwnMap[v], learned[w][a] = None PROVE FALSE
      OBVIOUS
    <3>1. now = [learned EXCEPT ![w][a] = Base[v]]
      BY DEF C!generate_perms_map_action
    <3>2. now[w][a] = Base[v]
      BY <1>1, <3>1
    <3> QED BY <1>2, <3>2, ViewAssumption
  <2> QED BY <1>1, <1>2, <2>1 DEF CallsInv, LearnedFromViews
<1>3. CASE now # learned
  <2>1. /\ a \in C!Learnable /\ learned[w][a] = None /\ a \notin DOMAIN OwnMap[v]
        /\ now = [learned EXCEPT ![w][a] = Base[v]]
    BY <1>3 DEF C!generate_perms_map_action
  <2>2. /\ now \in [Server -> [C!Learnable -> {Base[x] : x \in View} \cup {None}]]
        /\ now[w][a] = Base[v] /\ Base[v] # None
        /\ \A x \in Server, b \in C!Learnable : <<x, b>> # <<w, a>> => now[x][b] = learned[x][b]
    BY <1>1, <2>1, ViewAssumption
  <2> QED BY <1>1, <2>1, <2>2 DEF CallsInv, LearnedFromViews
<1> QED BY <1>2, <1>3

-----------------------------------------------------------------------------
(* The steps. *)

\* What is to be shown of a step that lets the process know now, and of the request after it.
LearnsWell(now) ==
  /\ now \in [Server -> [C!Learnable -> {Base[x] : x \in View} \cup {None}]]
  /\ \A x \in Server, b \in C!Learnable : now[x][b] # None =>
       \E y \in View : b \notin DOMAIN OwnMap[y] /\ now[x][b] = Base[y]
  /\ \A x \in Server, b \in C!Learnable : learned[x][b] # None => now[x][b] = learned[x][b]
\* A request as the invariant asks, of a process that knows now.
CalledWell(r, now) ==
  /\ r.touched = FALSE => r.role = role[r.user]
  /\ r.touched = FALSE /\ C!Settled(r.view, r.action)
       /\ ~C!Restricted(r.user) /\ r.action \notin Exempt[r.view] =>
       /\ r.stage \in {"passed", "found"} => \A p \in Needed(r.view, r.action) : C!Entitled(r.user, p)
       /\ r.stage = "refused" /\ r.owner = r.user =>
            \E p \in Needed(r.view, r.action) : ~C!Entitled(r.user, p)
  /\ r.stage = "passed" /\ r.action \notin Exempt[r.view] =>
       /\ (C!get_perms_list(now, r.worker, r.view, r.action) \ {Check}) \subseteq r.list
       /\ r.list # {None}
       /\ r.action \in C!Learnable /\ r.action \notin DOMAIN OwnMap[r.view] => now[r.worker][r.action] # None

\* A step of one request: it is to be shown of the request alone.
LEMMA CallsOneRequest ==
  ASSUME CallsInv, NEW q \in Call, NEW r \in Calling \cup {None}, NEW now,
         req' = [req EXCEPT ![q] = r], learned' = now,
         UNCHANGED <<role, direct, grants, groups, excludes, ip, changes>>,
         LearnsWell(now), r # None => CalledWell(r, now)
  PROVE  CallsInv'
<1>1. /\ req' \in [Call -> Calling \cup {None}]
      /\ req'[q] = r /\ \A o \in Call : o # q => req'[o] = req[o]
  BY DEF CallsInv, CallsTyped
<1>2. CallsTyped'
  <2>1. \A o \in Call : req'[o] = None \/ req'[o].stage \in {"begun", "passed", "found", "refused"}
    BY <1>1 DEF Calling
  <2> QED BY <1>1, <2>1 DEF CallsInv, CallsTyped, C!TypeOK, LearnsWell
<1>3. LearnedFromViews' /\ RolesHeld'
  BY <1>1 DEF CallsInv, LearnedFromViews, RolesHeld, LearnsWell, CalledWell
<1>4. DecidedWell'
  <2>1. \A u \in Visitor : C!Restricted(u)' <=> C!Restricted(u)
    BY DEF C!Restricted
  <2>2. \A u \in Visitor : \A p : C!Entitled(u, p)' <=> C!Entitled(u, p)
    BY DEF C!Entitled
  <2>3. PICK later : later = req'
    OBVIOUS
  <2>4. ASSUME NEW o \in Call, NEW u \in Visitor, NEW v \in View, NEW a \in C!Action,
               Settling(later, o, u, v, a)
        PROVE  Decision(later, o, u, v, a)
    <3>1. CASE o = q
      BY <1>1, <2>3, <2>4, <3>1 DEF CalledWell, Settling, Decision
    <3>2. CASE o # q
      BY <1>1, <2>3, <2>4, <3>2 DEF CallsInv, DecidedWell, Settling, Decision
    <3> QED BY <3>1, <3>2
  <2>5. DecisionsOf(later)
    BY <2>4 DEF DecisionsOf
  <2> QED BY <2>1, <2>2, <2>3, <2>5, SameDecisions
<1>5. ListsKept'
  <2> SUFFICES ASSUME NEW o \in Call, req'[o] # None, req'[o].stage = "passed",
                      req'[o].action \notin Exempt[req'[o].view]
               PROVE  /\ (C!get_perms_list(now, req'[o].worker, req'[o].view, req'[o].action) \ {Check})
                           \subseteq req'[o].list
                      /\ req'[o].list # {None}
                      /\ req'[o].action \in C!Learnable /\ req'[o].action \notin DOMAIN OwnMap[req'[o].view] =>
                           now[req'[o].worker][req'[o].action] # None
    BY DEF ListsKept, C!get_perms_list
  <2>1. CASE o = q
    BY <1>1, <2>1 DEF CalledWell
  <2>2. CASE o # q
    <3>1. req'[o] = req[o] /\ req[o] \in Calling
      BY <1>1, <2>2
    <3>2. req[o].worker \in Server
      BY <3>1 DEF Calling
    <3>3. req[o].action \in C!Learnable /\ req[o].action \notin DOMAIN OwnMap[req[o].view] =>
            now[req[o].worker][req[o].action] = learned[req[o].worker][req[o].action]
            /\ learned[req[o].worker][req[o].action] # None
      BY <3>1, <3>2 DEF CallsInv, ListsKept, LearnsWell
    <3>4. C!get_perms_list(now, req[o].worker, req[o].view, req[o].action)
          = C!get_perms_list(learned, req[o].worker, req[o].view, req[o].action)
      BY <3>3 DEF C!get_perms_list
    <3> QED BY <3>1, <3>3, <3>4 DEF CallsInv, ListsKept
  <2> QED BY <2>1, <2>2
<1> QED BY <1>2, <1>3, <1>4, <1>5 DEF CallsInv

\* A request begins.
LEMMA CallsBegin ==
  ASSUME CallsInv, NEW q \in Call, NEW w \in Server, NEW u \in Visitor, NEW v \in View, NEW a \in C!Action,
         NEW owner \in Visitor \cup {None}, C!Begin(q, w, u, v, a, owner)
  PROVE  CallsInv'
<1> DEFINE r == [worker |-> w, user |-> u, role |-> role[u], view |-> v, action |-> a,
                 owner |-> owner, list |-> {}, touched |-> FALSE,
                 stage |-> IF C!Restricted(u) THEN "refused" ELSE "begun"]
<1>1. req' = [req EXCEPT ![q] = r]
      /\ UNCHANGED <<learned, role, direct, grants, groups, excludes, ip, changes>>
  BY DEF C!Begin
<1>2. r \in Calling /\ r.user = u /\ r.role = role[u] /\ r.stage # "passed" /\ r.stage # "found"
      /\ (r.stage = "refused" => C!Restricted(u))
  BY DEF Calling, CallsInv, CallsTyped, C!TypeOK
<1> HIDE DEF r
<1>3. LearnsWell(learned)
  BY DEF CallsInv, CallsTyped, C!TypeOK, LearnedFromViews, LearnsWell
<1>4. CalledWell(r, learned)
  BY <1>2 DEF CalledWell
<1> QED BY <1>1, <1>2, <1>3, <1>4, CallsOneRequest

\* The first decision.
LEMMA CallsFirst ==
  ASSUME CallsInv, NEW q \in Call, C!has_permission(q)
  PROVE  CallsInv'
<1> DEFINE c == req[q]
           list == C!permission_list(c.user, c.role)
           default == C!Default(c.view, c.action) \subseteq list
           learnt == C!generate_perms_map_action(c.worker, c.view, c.action)
           required == C!get_perms_list(learnt, c.worker, c.view, c.action) \ {Check}
           exempt == c.action \in Exempt[c.view]
           now == IF exempt \/ ~default THEN learned ELSE learnt
           stage == IF exempt \/ (default /\ required \subseteq list) THEN "passed" ELSE "refused"
           r == [c EXCEPT !.stage = stage, !.list = IF exempt THEN {None} ELSE list]
<1>1. /\ c # None /\ c.stage = "begun" /\ learned' = now
      /\ req' = [req EXCEPT ![q].stage = stage, ![q].list = IF exempt THEN {None} ELSE list]
      /\ UNCHANGED <<role, direct, grants, groups, excludes, ip, changes>>
  BY DEF C!has_permission
<1>2. c \in Calling /\ c.worker \in Server /\ c.user \in Visitor /\ c.view \in View /\ c.action \in C!Action
  BY <1>1 DEF CallsInv, CallsTyped, Calling
<1>3. list \subseteq C!Permission
  BY ListsArePermissions
<1>4. /\ r \in Calling /\ r.stage = stage /\ r.list = (IF exempt THEN {None} ELSE list)
      /\ r.worker = c.worker /\ r.user = c.user /\ r.role = c.role /\ r.view = c.view /\ r.action = c.action
      /\ r.owner = c.owner /\ r.touched = c.touched
  BY <1>2, <1>3 DEF Calling
<1>5. req' = [req EXCEPT ![q] = r]
  BY <1>1, <1>2 DEF Calling, CallsInv, CallsTyped
<1>6. LearnsWell(now)
  <2>1. CASE now = learned
    BY <2>1 DEF CallsInv, CallsTyped, C!TypeOK, LearnedFromViews, LearnsWell
  <2>2. CASE now = learnt
    <3> HIDE DEF now, learnt, c
    <3> QED BY <1>2, <2>2, Learning DEF learnt, LearnsWell
  <2> QED BY <2>1, <2>2
<1>7. c.touched = FALSE => c.role = role[c.user]
  BY <1>1 DEF CallsInv, RolesHeld
<1>8. ASSUME c.touched = FALSE, C!Settled(c.view, c.action), ~exempt
      PROVE  /\ stage = "passed" => \A p \in Needed(c.view, c.action) : C!Entitled(c.user, p)
             /\ stage = "refused" => \E p \in Needed(c.view, c.action) : ~C!Entitled(c.user, p)
  <2>1. required = C!Own(c.view, c.action)
    <3> HIDE DEF c
    <3> QED BY <1>2, <1>8, AskedIsOwn
  <2>2. stage = IF Needed(c.view, c.action) \subseteq list THEN "passed" ELSE "refused"
    BY <1>8, <2>1 DEF Needed
  <2>3. \A p \in Needed(c.view, c.action) : p \in list <=> C!Entitled(c.user, p)
    <3>1. list = C!permission_list(c.user, role[c.user])
      BY <1>7, <1>8
    <3> HIDE DEF c, list
    <3> QED BY <1>2, <1>8, <3>1, NeededAreThere, ListIsEntitled DEF CallsInv
  <2> HIDE DEF c, list, stage
  <2> QED BY <2>2, <2>3
<1>9. ASSUME stage = "passed", ~exempt
      PROVE  /\ (C!get_perms_list(now, c.worker, c.view, c.action) \ {Check}) \subseteq list
             /\ list # {None}
             /\ c.action \in C!Learnable /\ c.action \notin DOMAIN OwnMap[c.view] =>
                  now[c.worker][c.action] # None
  <2>1. now = learnt /\ required \subseteq list
    BY <1>9
  <2>2. list # {None}
    BY <1>3, ViewAssumption
  <2>3. c.action \in C!Learnable /\ c.action \notin DOMAIN OwnMap[c.view] => learnt[c.worker][c.action] # None
    <3> HIDE DEF learnt, c
    <3> QED BY <1>2, Learning DEF learnt
  <2> QED BY <2>1, <2>2, <2>3
<1>10. learned' = now /\ stage \in {"passed", "refused"}
  BY <1>1
<1>11. UNCHANGED <<role, direct, grants, groups, excludes, ip, changes>>
  BY <1>1
<1> HIDE DEF c, list, default, learnt, required, now, stage, r
<1>12. CalledWell(r, now)
  BY <1>4, <1>7, <1>8, <1>9, <1>10 DEF CalledWell
<1> QED BY <1>4, <1>5, <1>6, <1>10, <1>11, <1>12, CallsOneRequest

\* The second decision.
LEMMA CallsSecond ==
  ASSUME CallsInv, NEW q \in Call, C!has_object_permission(q)
  PROVE  CallsInv'
<1> DEFINE c == req[q]
           now == C!generate_perms_map_action(c.worker, c.view, c.action)
           list == IF c.list = {None} THEN C!permission_list(c.user, c.role) ELSE c.list
           required == C!get_perms_list(now, c.worker, c.view, c.action)
           stage == IF required \ {Check} \subseteq list /\ (Check \in required => c.owner = c.user)
                    THEN "found" ELSE "refused"
           r == [c EXCEPT !.list = list, !.stage = stage]
<1>1. /\ c # None /\ c.stage = "passed" /\ learned' = now
      /\ req' = [req EXCEPT ![q].list = list, ![q].stage = stage]
      /\ UNCHANGED <<role, direct, grants, groups, excludes, ip, changes>>
  BY DEF C!has_object_permission
<1>2. c \in Calling /\ c.worker \in Server /\ c.user \in Visitor /\ c.view \in View /\ c.action \in C!Action
  BY <1>1 DEF CallsInv, CallsTyped, Calling
<1>3. list \subseteq C!Permission \cup {None}
  BY <1>2, ListsArePermissions DEF Calling
<1>4. /\ r \in Calling /\ r.stage = stage
      /\ r.worker = c.worker /\ r.user = c.user /\ r.role = c.role /\ r.view = c.view /\ r.action = c.action
      /\ r.owner = c.owner /\ r.touched = c.touched
  BY <1>2, <1>3 DEF Calling
<1>5. req' = [req EXCEPT ![q] = r]
  BY <1>1, <1>2 DEF Calling, CallsInv, CallsTyped
<1>6. LearnsWell(now)
  <2> HIDE DEF now, c
  <2> QED BY <1>2, Learning DEF now, LearnsWell
<1>7. c.touched = FALSE => c.role = role[c.user]
  BY <1>1 DEF CallsInv, RolesHeld
\* A request that is not exempt holds what is asked for: only the object can refuse it.
<1>8. c.action \notin Exempt[c.view] => required \ {Check} \subseteq list
  <2> SUFFICES ASSUME c.action \notin Exempt[c.view] PROVE required \ {Check} \subseteq list
    OBVIOUS
  <2>1. /\ (C!get_perms_list(learned, c.worker, c.view, c.action) \ {Check}) \subseteq c.list
        /\ c.list # {None}
        /\ c.action \in C!Learnable /\ c.action \notin DOMAIN OwnMap[c.view] =>
             learned[c.worker][c.action] # None
    BY <1>1 DEF CallsInv, ListsKept
  <2>2. now = learned
    <3> HIDE DEF now, c
    <3> QED BY <1>2, <2>1, Learning DEF now
  <2> QED BY <2>1, <2>2
<1>9. ASSUME c.touched = FALSE, C!Settled(c.view, c.action),
             ~C!Restricted(c.user), c.action \notin Exempt[c.view]
      PROVE  /\ \A p \in Needed(c.view, c.action) : C!Entitled(c.user, p)
             /\ stage = "refused" => c.owner # c.user
  <2>1. \A p \in Needed(c.view, c.action) : C!Entitled(c.user, p)
    <3> HIDE DEF c
    <3>1. \A u \in Visitor, v \in View, a \in C!Action :
            c.user = u /\ c.view = v /\ c.action = a
              /\ C!Settled(v, a) /\ ~C!Restricted(u) /\ a \notin Exempt[v] =>
            \A p \in Needed(v, a) : C!Entitled(u, p)
      BY <1>1, <1>9 DEF CallsInv, DecidedWell, c
    <3> QED BY <1>2, <1>9, <3>1
  <2>2. stage = "refused" => c.owner # c.user
    BY <1>8, <1>9
  <2> QED BY <2>1, <2>2
<1>10. learned' = now /\ stage \in {"found", "refused"}
  BY <1>1
<1>11. UNCHANGED <<role, direct, grants, groups, excludes, ip, changes>>
  BY <1>1
<1> HIDE DEF c, list, required, now, stage, r
<1>12. CalledWell(r, now)
  BY <1>4, <1>7, <1>9, <1>10 DEF CalledWell
<1> QED BY <1>4, <1>5, <1>6, <1>10, <1>11, <1>12, CallsOneRequest

\* A request ends.
LEMMA CallsEnd ==
  ASSUME CallsInv, NEW q \in Call, C!End(q)
  PROVE  CallsInv'
<1>1. req' = [req EXCEPT ![q] = None]
      /\ UNCHANGED <<learned, role, direct, grants, groups, excludes, ip, changes>>
  BY DEF C!End
<1>2. LearnsWell(learned)
  BY DEF CallsInv, CallsTyped, C!TypeOK, LearnedFromViews, LearnsWell
<1> QED BY <1>1, <1>2, CallsOneRequest

\* An administrator touches all requests.
LEMMA CallsChange ==
  ASSUME CallsInv, C!Change, CallsTyped'
  PROVE  CallsInv'
<1>1. learned' = learned
      /\ req' = [q \in Call |-> IF req[q] = None THEN None ELSE [req[q] EXCEPT !.touched = TRUE]]
  BY DEF C!Change
<1>2. ASSUME NEW q \in Call, req'[q] # None
      PROVE  /\ req[q] # None /\ req'[q].touched = TRUE
             /\ req'[q].worker = req[q].worker /\ req'[q].view = req[q].view /\ req'[q].action = req[q].action
             /\ req'[q].stage = req[q].stage /\ req'[q].list = req[q].list
  <2>1. req[q] \in Calling /\ req'[q] = [req[q] EXCEPT !.touched = TRUE]
    BY <1>1, <1>2 DEF CallsInv, CallsTyped
  <2> QED BY <1>1, <1>2, <2>1 DEF Calling
<1>3. LearnedFromViews' /\ RolesHeld' /\ DecidedWell'
  BY <1>1, <1>2 DEF CallsInv, LearnedFromViews, RolesHeld, DecidedWell
<1>4. ListsKept'
  <2> SUFFICES ASSUME NEW o \in Call, req'[o] # None, req'[o].stage = "passed",
                      req'[o].action \notin Exempt[req'[o].view]
               PROVE  /\ (C!get_perms_list(learned, req'[o].worker, req'[o].view, req'[o].action) \ {Check})
                           \subseteq req'[o].list
                      /\ req'[o].list # {None}
                      /\ req'[o].action \in C!Learnable /\ req'[o].action \notin DOMAIN OwnMap[req'[o].view] =>
                           learned[req'[o].worker][req'[o].action] # None
    BY <1>1 DEF ListsKept, C!get_perms_list
  <2> QED BY <1>2 DEF CallsInv, ListsKept
<1> QED BY <1>3, <1>4 DEF CallsInv

\* What the administrator changes keeps its types.
LEMMA CallsChangeTyped ==
  ASSUME CallsInv,
         \/ \E u \in Visitor, r \in Role \cup {None} : C!Assign(u, r)
         \/ \E p \in C!Permission :
              \/ \E u \in Visitor : C!GrantDirectly(u, p)
              \/ \E x \in Role \cup Team : C!Grant(x, p)
              \/ \E x \in Visitor \cup Role : C!Exclude(x, p)
         \/ \E r \in Role, g \in Team : C!Join(r, g)
         \/ \E value \in [white : BOOLEAN, roles : SUBSET Role] \cup {None} : C!Restrict(value)
  PROVE  CallsTyped' /\ C!Change
<1>1. C!Change
  BY DEF C!Assign, C!GrantDirectly, C!Grant, C!Exclude, C!Join, C!Restrict
<1>2. learned' = learned
      /\ req' = [q \in Call |-> IF req[q] = None THEN None ELSE [req[q] EXCEPT !.touched = TRUE]]
  BY <1>1 DEF C!Change
<1>3. req' \in [Call -> Calling \cup {None}]
      /\ \A q \in Call : req'[q] = None \/ req'[q].stage \in {"begun", "passed", "found", "refused"}
  <2>1. ASSUME NEW q \in Call PROVE req'[q] \in Calling \cup {None}
    <3>1. CASE req[q] \in Calling /\ req[q] # None
      <4>1. req'[q] = [req[q] EXCEPT !.touched = TRUE]
        BY <1>2, <3>1
      <4> QED BY <3>1, <4>1 DEF Calling
    <3> QED BY <1>2, <3>1 DEF CallsInv, CallsTyped
  <2>2. req' = [q \in Call |-> req'[q]]
    BY <1>2
  <2>3. \A q \in Call : req'[q] = None \/ req'[q].stage \in {"begun", "passed", "found", "refused"}
    BY <2>1 DEF Calling
  <2> QED BY <2>1, <2>2, <2>3
<1>4. /\ role' \in [Visitor -> Role \cup {None}]
      /\ direct' \subseteq Visitor \X C!Permission /\ grants' \subseteq (Role \cup Team) \X C!Permission
      /\ groups' \subseteq Role \X Team /\ excludes' \subseteq (Visitor \cup Role) \X C!Permission
  <2>0. /\ role \in [Visitor -> Role \cup {None}]
        /\ direct \subseteq Visitor \X C!Permission /\ grants \subseteq (Role \cup Team) \X C!Permission
        /\ groups \subseteq Role \X Team /\ excludes \subseteq (Visitor \cup Role) \X C!Permission
    BY DEF CallsInv, CallsTyped, C!TypeOK
  <2>1. CASE \E u \in Visitor, r \in Role \cup {None} : C!Assign(u, r)
    BY <2>0, <2>1 DEF C!Assign
  <2>2. ASSUME NEW p \in C!Permission, NEW u \in Visitor, C!GrantDirectly(u, p)
        PROVE direct' \subseteq Visitor \X C!Permission /\ UNCHANGED <<role, grants, groups, excludes>>
    BY <2>0, <2>2 DEF C!GrantDirectly, C!Flip
  <2>3. ASSUME NEW p \in C!Permission, NEW x \in Role \cup Team, C!Grant(x, p)
        PROVE grants' \subseteq (Role \cup Team) \X C!Permission /\ UNCHANGED <<role, direct, groups, excludes>>
    BY <2>0, <2>3 DEF C!Grant, C!Flip
  <2>4. ASSUME NEW p \in C!Permission, NEW x \in Visitor \cup Role, C!Exclude(x, p)
        PROVE excludes' \subseteq (Visitor \cup Role) \X C!Permission /\ UNCHANGED <<role, direct, grants, groups>>
    BY <2>0, <2>4 DEF C!Exclude, C!Flip
  <2>5. ASSUME NEW r \in Role, NEW g \in Team, C!Join(r, g)
        PROVE groups' \subseteq Role \X Team /\ UNCHANGED <<role, direct, grants, excludes>>
    BY <2>0, <2>5 DEF C!Join, C!Flip
  <2>6. CASE \E value \in [white : BOOLEAN, roles : SUBSET Role] \cup {None} : C!Restrict(value)
    BY <2>0, <2>6 DEF C!Restrict
  <2> QED BY <2>0, <2>1, <2>2, <2>3, <2>4, <2>5, <2>6
<1> QED BY <1>1, <1>2, <1>3, <1>4 DEF CallsInv, CallsTyped, C!TypeOK

\* Every step of the part keeps its invariant.
LEMMA CallsStep == ASSUME CallsInv, [C!Next]_(C!vars) PROVE CallsInv'
<1>1. CASE UNCHANGED C!vars
  <2>1. UNCHANGED <<learned, role, direct, grants, groups, excludes, ip, req, changes>>
    BY <1>1 DEF C!vars
  <2>2. CallsTyped' /\ LearnedFromViews' /\ RolesHeld'
    BY <2>1 DEF CallsInv, CallsTyped, C!TypeOK, LearnedFromViews, RolesHeld
  <2>3. DecidedWell'
    <3>1. \A u \in Visitor : C!Restricted(u)' <=> C!Restricted(u)
      BY <2>1 DEF C!Restricted
    <3>2. \A u \in Visitor : \A p : C!Entitled(u, p)' <=> C!Entitled(u, p)
      BY <2>1 DEF C!Entitled
    <3> QED BY <2>1, <3>1, <3>2, SameNeeds DEF CallsInv, DecidedWell
  <2>4. ListsKept'
    BY <2>1 DEF CallsInv, ListsKept, C!get_perms_list
  <2> QED BY <2>2, <2>3, <2>4 DEF CallsInv
<1> QED BY <1>1, CallsBegin, CallsFirst, CallsSecond, CallsEnd, CallsChange, CallsChangeTyped DEF C!Next

\* The invariant implies what the run checks of the part.
LEMMA CallsFollow == CallsInv => C!TypeOK /\ C!ViewPermissionsConsistent
<1> SUFFICES ASSUME CallsInv PROVE C!DecidedRight /\ C!NotTakenBack
  BY DEF CallsInv, CallsTyped, C!ViewPermissionsConsistent
<1>1. \A q \in Call : req[q] # None => req[q].touched \in BOOLEAN
  BY DEF CallsInv, CallsTyped, Calling
<1>2. C!DecidedRight
  <2> SUFFICES ASSUME NEW q \in Call, req[q] # None, ~req[q].touched,
                      C!Settled(req[q].view, req[q].action), ~C!Restricted(req[q].user),
                      req[q].action \notin Exempt[req[q].view]
               PROVE  /\ req[q].stage \in {"passed", "found"} =>
                           \A p \in Needed(req[q].view, req[q].action) : C!Entitled(req[q].user, p)
                      /\ req[q].stage = "refused" /\ req[q].owner = req[q].user =>
                           \E p \in Needed(req[q].view, req[q].action) : ~C!Entitled(req[q].user, p)
    BY DEF C!DecidedRight, Needed
  <2>1. req[q].user \in Visitor /\ req[q].view \in View /\ req[q].action \in C!Action
        /\ req[q].touched = FALSE
    BY <1>1 DEF CallsInv, CallsTyped, Calling
  <2> QED BY <2>1 DEF CallsInv, DecidedWell
<1>3. C!NotTakenBack
  BY DEF C!NotTakenBack, CallsInv, ListsKept
<1> QED BY <1>2, <1>3

-----------------------------------------------------------------------------
(* Shortened links. *)

\* A link is typed as a row, and a worker remembers one that it has saved once.
LinkRow == [url : FullUrl, code : Nat]
\* Types of the links, keys and saves.
LinksTyped ==
  /\ L!TypeOK
  /\ links \in [DOMAIN links -> LinkRow]
  /\ saving \in [Worker -> [key : Nat, url : FullUrl] \cup {None}]

\* A code is empty or made of the key.
CodesMade ==
  /\ \A k \in DOMAIN links : links[k].code \in {0, k}
  /\ \A k, l \in DOMAIN links : links[k].code = links[l].code => k = l

\* Workers save links of their own for the second time, and those have no code yet.
SavingApart ==
  /\ \A w, x \in Worker : saving[w] # None /\ saving[x] # None /\ saving[w].key = saving[x].key => w = x
  /\ \A w \in Worker : saving[w] # None /\ saving[w].key \in DOMAIN links =>
       links[saving[w].key].code = 0 /\ links[saving[w].key].url = saving[w].url

\* A code that was returned is that of its link, if there is one.
GivenKept ==
  \A g \in given : g.code # None =>
    /\ g.code \in 1..keys
    /\ g.code \in DOMAIN links => links[g.code].code = g.code /\ links[g.code].url = g.url

\* The inductive invariant of the part.
LinksInv == LinksTyped /\ CodesMade /\ SavingApart /\ GivenKept

\* At the start there are no links.
LEMMA LinksInit == L!Init => LinksInv
<1> SUFFICES ASSUME L!Init PROVE LinksInv
  OBVIOUS
<1>1. LinksTyped
  BY LinkAssumption DEF L!Init, LinksTyped, L!TypeOK
<1>2. CodesMade /\ SavingApart /\ GivenKept
  BY DEF L!Init, CodesMade, SavingApart, GivenKept
<1> QED BY <1>1, <1>2 DEF LinksInv

\* A first save.
LEMMA LinksShorten ==
  ASSUME LinksInv, NEW w \in Worker, NEW u \in FullUrl, L!shorten_url(w, u)
  PROVE  LinksInv'
<1>1. keys \in Nat /\ keys' = keys + 1 /\ keys < MaxLinks /\ saving[w] = None
  BY DEF LinksInv, LinksTyped, L!TypeOK, L!shorten_url
<1>2. CASE L!Coded(0) = {}
  <2> DEFINE k == keys + 1
  <2>1. /\ links' = [l \in DOMAIN links \cup {k} |-> IF l = k THEN [url |-> u, code |-> 0] ELSE links[l]]
        /\ saving' = [saving EXCEPT ![w] = [key |-> k, url |-> u]]
        /\ given' = given
    BY <1>2 DEF L!shorten_url
  <2>2. k \in Nat /\ k \notin DOMAIN links /\ k \notin 1..keys /\ k \in 1..keys' /\ DOMAIN links \subseteq 1..keys
        /\ 0 # k
    BY <1>1 DEF LinksInv, LinksTyped, L!TypeOK
  <2>a. 1..keys \subseteq 1..keys' /\ 0..keys \subseteq 0..keys' /\ k = keys'
    BY <1>1
  <2> HIDE DEF k
  <2>3. /\ DOMAIN links' = DOMAIN links \cup {k}
        /\ \A l \in DOMAIN links : links'[l] = links[l]
        /\ links'[k] = [url |-> u, code |-> 0]
    BY <2>1, <2>2
  <2>4. \A l \in DOMAIN links : links[l].code # 0 /\ links[l] \in LinkRow
    BY <1>2 DEF L!Coded, LinksInv, LinksTyped
  <2>5. /\ \A x \in Worker : x # w => saving'[x] = saving[x]
        /\ saving'[w] = [key |-> k, url |-> u]
        /\ saving' \in [Worker -> [key : Nat, url : FullUrl] \cup {None}]
    BY <2>1, <2>2 DEF LinksInv, LinksTyped
  <2>6. LinksTyped'
    <3>1. links' \in [DOMAIN links' -> LinkRow]
      BY <2>1, <2>3, <2>4 DEF LinkRow
    <3>2. \A l \in DOMAIN links' : l \in 1..keys' /\ links'[l].url \in FullUrl /\ links'[l].code \in 0..keys'
      BY <2>3, <2>2, <2>a, <1>1 DEF LinksInv, LinksTyped, L!TypeOK
    <3>3. \A x \in Worker : saving'[x] = None \/ saving'[x].key \in 1..keys'
      BY <2>5, <2>2, <2>a DEF LinksInv, LinksTyped, L!TypeOK
    <3>4. keys' \in 0..MaxLinks /\ \A g \in given' : g.url \in FullUrl
      BY <1>1, <2>1, LinkAssumption DEF LinksInv, LinksTyped, L!TypeOK
    <3> QED BY <3>1, <3>2, <3>3, <3>4, <2>5 DEF LinksTyped, L!TypeOK
  <2>7. CodesMade'
    BY <2>3, <2>4 DEF CodesMade, LinksInv
  <2>8. SavingApart'
    <3>1. \A x \in Worker : saving[x] # None => saving[x].key # k
      BY <2>2 DEF LinksInv, LinksTyped, L!TypeOK
    <3> QED BY <2>3, <2>5, <3>1, <1>1 DEF SavingApart, LinksInv
  <2>9. GivenKept'
    BY <2>1, <2>2, <2>3, <2>a DEF GivenKept, LinksInv
  <2> QED BY <2>6, <2>7, <2>8, <2>9 DEF LinksInv
<1>3. CASE L!Coded(0) # {}
  <2>1. links' = links /\ saving' = saving /\ given' = given \cup {[url |-> u, code |-> None]}
    BY <1>3 DEF L!shorten_url, L!Return
  <2>2. 1..keys \subseteq 1..keys' /\ 0..keys \subseteq 0..keys'
    BY <1>1
  <2>3. LinksTyped'
    BY <1>1, <2>1, <2>2, LinkAssumption DEF LinksInv, LinksTyped, L!TypeOK
  <2>4. CodesMade' /\ SavingApart'
    BY <2>1 DEF LinksInv, CodesMade, SavingApart
  <2>5. GivenKept'
    BY <2>1, <2>2 DEF LinksInv, GivenKept
  <2> QED BY <2>3, <2>4, <2>5 DEF LinksInv
<1> QED BY <1>2, <1>3

\* A second save.
LEMMA LinksSave ==
  ASSUME LinksInv, NEW w \in Worker, L!save(w)
  PROVE  LinksInv'
<1> DEFINE k == saving[w].key
<1>1. /\ saving[w] # None /\ keys' = keys /\ k \in 1..keys /\ keys \in Nat
      /\ saving' = [saving EXCEPT ![w] = None]
      /\ saving[w].url \in FullUrl
  BY DEF LinksInv, LinksTyped, L!TypeOK, L!save
<1>2. /\ \A x \in Worker : x # w => saving'[x] = saving[x]
      /\ saving'[w] = None
      /\ saving' \in [Worker -> [key : Nat, url : FullUrl] \cup {None}]
  BY <1>1 DEF LinksInv, LinksTyped
<1>3. CASE k \in DOMAIN links /\ L!Coded(L!encode_url(k)) = {}
  <2>1. links' = [links EXCEPT ![k].code = k]
        /\ given' = given \cup {[url |-> saving[w].url, code |-> k]}
    BY <1>3 DEF L!save, L!Return, L!encode_url
  <2>2. links[k] \in LinkRow /\ k \in Nat /\ links[k].code = 0 /\ links[k].url = saving[w].url /\ k # 0
    BY <1>1, <1>3 DEF LinksInv, LinksTyped, SavingApart
  <2>3. /\ DOMAIN links' = DOMAIN links
        /\ \A l \in DOMAIN links : l # k => links'[l] = links[l]
        /\ links'[k].code = k /\ links'[k].url = saving[w].url /\ links'[k] \in LinkRow
    BY <2>1, <2>2, <1>3 DEF LinkRow
  <2>4. \A l \in DOMAIN links : links[l].code # k /\ links[l] \in LinkRow
    BY <1>3 DEF L!Coded, L!encode_url, LinksInv, LinksTyped
  <2>x. \A x \in Worker : x # w /\ saving[x] # None => saving[x].key # k
    BY <1>1 DEF LinksInv, SavingApart
  <2> HIDE DEF k
  <2>5. LinksTyped'
    <3>1. links' \in [DOMAIN links' -> LinkRow]
      BY <2>1, <2>3, <2>4
    <3>2. \A l \in DOMAIN links' : l \in 1..keys' /\ links'[l].url \in FullUrl /\ links'[l].code \in 0..keys'
      BY <2>3, <2>2, <1>1 DEF LinksInv, LinksTyped, L!TypeOK
    <3>3. \A x \in Worker : saving'[x] = None \/ saving'[x].key \in 1..keys'
      BY <1>1, <1>2 DEF LinksInv, LinksTyped, L!TypeOK
    <3>4. keys' \in 0..MaxLinks /\ \A g \in given' : g.url \in FullUrl
      BY <1>1, <2>1 DEF LinksInv, LinksTyped, L!TypeOK
    <3> QED BY <3>1, <3>2, <3>3, <3>4, <1>2 DEF LinksTyped, L!TypeOK
  <2>6. CodesMade'
    BY <2>3, <2>4 DEF CodesMade, LinksInv
  <2>7. SavingApart'
    BY <2>3, <2>x, <1>2 DEF SavingApart, LinksInv
  <2>8. GivenKept'
    BY <2>1, <2>2, <2>3, <1>1 DEF GivenKept, LinksInv
  <2> QED BY <2>5, <2>6, <2>7, <2>8 DEF LinksInv
<1>4. CASE ~(k \in DOMAIN links /\ L!Coded(L!encode_url(k)) = {})
  <2>1. links' = links /\ given' = given \cup {[url |-> saving[w].url, code |-> None]}
    BY <1>4 DEF L!save, L!Return
  <2>2. LinksTyped'
    BY <1>1, <1>2, <2>1 DEF LinksInv, LinksTyped, L!TypeOK
  <2>3. CodesMade' /\ SavingApart' /\ GivenKept'
    BY <1>1, <1>2, <2>1 DEF LinksInv, CodesMade, SavingApart, GivenKept
  <2> QED BY <2>2, <2>3 DEF LinksInv
<1> QED BY <1>3, <1>4

\* Every step of the part keeps its invariant.
LEMMA LinksStep == ASSUME LinksInv, [L!Next]_(L!vars) PROVE LinksInv'
<1>1. ASSUME NEW w \in Worker, L!Stop(w) PROVE LinksInv'
  <2>1. /\ links' = links /\ keys' = keys /\ given' = given
        /\ \A x \in Worker : x # w => saving'[x] = saving[x]
        /\ saving'[w] = None
        /\ saving' \in [Worker -> [key : Nat, url : FullUrl] \cup {None}]
    BY <1>1 DEF LinksInv, LinksTyped, L!Stop
  <2>2. LinksTyped'
    BY <2>1 DEF LinksInv, LinksTyped, L!TypeOK
  <2>3. CodesMade' /\ SavingApart' /\ GivenKept'
    BY <2>1 DEF LinksInv, CodesMade, SavingApart, GivenKept
  <2> QED BY <2>2, <2>3 DEF LinksInv
<1>2. ASSUME NEW k \in DOMAIN links, L!Delete(k) PROVE LinksInv'
  <2>1. /\ keys' = keys /\ given' = given /\ saving' = saving
        /\ DOMAIN links' = DOMAIN links \ {k}
        /\ \A l \in DOMAIN links' : links'[l] = links[l]
        /\ links' \in [DOMAIN links' -> LinkRow]
    BY <1>2 DEF LinksInv, LinksTyped, L!Delete
  <2>2. LinksTyped'
    BY <2>1 DEF LinksInv, LinksTyped, L!TypeOK
  <2>3. CodesMade' /\ SavingApart' /\ GivenKept'
    BY <2>1 DEF LinksInv, CodesMade, SavingApart, GivenKept
  <2> QED BY <2>2, <2>3 DEF LinksInv
<1>3. CASE UNCHANGED L!vars
  BY <1>3 DEF L!vars, LinksInv, LinksTyped, L!TypeOK, CodesMade, SavingApart, GivenKept
<1> QED BY <1>1, <1>2, <1>3, LinksShorten, LinksSave DEF L!Next

\* The invariant implies what the run checks of the part.
LEMMA LinksFollow == LinksInv => L!TypeOK /\ L!LinksConsistent
<1> SUFFICES ASSUME LinksInv PROVE L!LinksLead /\ L!OneUnfinished
  BY DEF LinksInv, LinksTyped, L!LinksConsistent
<1>1. ASSUME NEW g \in given, g.code # None
      PROVE  /\ L!Coded(g.code) = IF g.code \in DOMAIN links THEN {g.code} ELSE {}
             /\ g.code \in DOMAIN links => links[g.code].url = g.url
  <2>1. g.code \in Nat \ {0}
    BY <1>1 DEF LinksInv, LinksTyped, L!TypeOK, GivenKept
  <2> QED BY <1>1, <2>1 DEF L!Coded, LinksInv, CodesMade, GivenKept
<1>2. ASSUME NEW g \in given, g.code # None
      PROVE  L!redirect_full_url(g.code) =
               IF g.code \in DOMAIN links THEN IF g.url \in Http THEN g.url ELSE None ELSE None
  <2>1. CASE g.code \in DOMAIN links
    <3>1. L!Coded(g.code) = {g.code} /\ links[g.code].url = g.url
      BY <1>1, <1>2, <2>1
    <3>2. (CHOOSE k \in L!Coded(g.code) : TRUE) = g.code
      BY <3>1
    <3> QED BY <2>1, <3>1, <3>2 DEF L!redirect_full_url
  <2>2. CASE g.code \notin DOMAIN links
    BY <1>1, <1>2, <2>2 DEF L!redirect_full_url
  <2> QED BY <2>1, <2>2
<1>3. L!LinksLead
  BY <1>2 DEF L!LinksLead, LinksInv, CodesMade
<1>4. L!Cardinality(L!Coded(0)) <= 1
  <2>1. L!Cardinality(L!Coded(0)) = Cardinality(L!Coded(0))
    BY DEF L!Cardinality, Cardinality
  <2>2. L!Coded(0) = {} \/ \E k : L!Coded(0) = {k}
    BY DEF L!Coded, LinksInv, CodesMade
  <2>3. Cardinality(L!Coded(0)) \in {0, 1}
    BY <2>2, FS_EmptySet, FS_Singleton, Zenon
  <2> QED BY <2>1, <2>3
<1>5. L!Unfinished \cap DOMAIN links \subseteq L!Coded(0)
  BY DEF L!Unfinished, L!Coded, LinksInv, SavingApart
<1> QED BY <1>3, <1>4, <1>5 DEF L!OneUnfinished

-----------------------------------------------------------------------------
(* Uploaded videos, the tasks that follow them and the forms that show them. *)

\* A non-empty set of naturals has a least element.
LEMMA LeastExists ==
  ASSUME NEW X \in SUBSET Nat, X # {}
  PROVE  \E n \in X : \A k \in X : n <= k
<1> DEFINE less == OpToRel(<, Nat)
<1>1. PICK n \in X : \A k \in X : ~(<<k, n>> \in less)
  BY NatLessThanWellFounded, WFMin
<1>2. less = {ss \in Nat \X Nat : ss[1] < ss[2]}
  BY Zenon DEF OpToRel
<1>3. \A k \in X : k < n => <<k, n>> \in less
  <2> HIDE DEF less
  <2> QED BY <1>2
<1> HIDE DEF less
<1>4. \A k \in X : ~(k < n)
  BY <1>1, <1>3, Zenon
<1> QED
  <2>1. n \in Nat /\ \A k \in X : k \in Nat
    OBVIOUS
  <2> QED BY <1>4, <2>1

\* The deletion of an original.
Original(t) == t # None /\ t.kind = "original"
\* No task, or a deletion of the object.
Quiet(t) == t = None \/ t.kind = "delete"
\* A task that goes on with a video that is not ready, or asks for a download.
Refreshes(t) ==
  t # None /\ (t.kind = "delete" \/ (t.kind = "refresh" /\ (t.at # "running" \/ t.read.state # "ready")))
\* A task that will ask for a download.
Downloads(t) ==
  t # None /\ t.kind = "download" /\ (t.at # "running" \/ t.read.state # "ready" \/ t.read.url = FALSE)
\* A task that has a clip for the field, and one whose next step is to save it.
Clipped(t) == t # None /\ t.kind = "refresh" /\ t.at \in {"send", "write"} /\ t.value.uid # t.read.uid
\* A task that is about to replace the video v by its clip.
Replaces(t, v) == Clipped(t) /\ t.at = "write" /\ t.read.uid = v

\* What a task holds while it is queued and while it runs.
TaskWell(t) ==
  t # None =>
    /\ t \in StreamTask
    /\ t.kind = "original" => t.old \in V!Video
    /\ t.kind = "delete" => t.at \in {"running", "write"}
    /\ t.kind \in {"refresh", "download"} /\ t.at # "queued" => t.read \in Streamed
    /\ t.kind \in {"refresh", "download"} /\ t.at \notin {"queued", "running"} => t.value \in Streamed
    /\ t.kind = "refresh" => t.at # "meta" /\ (t.at = "clip" => t.value.uid = t.read.uid)
    /\ t.kind = "refresh" /\ t.at = "send" => t.value.uid # t.read.uid
    /\ t.kind = "download" /\ t.at \notin {"queued", "running"} => t.value = [t.read EXCEPT !.url = TRUE]

\* Types of videos, field, tasks and form.
VideosTyped ==
  /\ cloud \in [V!Video -> Uploaded \cup {None, Gone}]
  /\ field \in Streamed \cup {None, Gone} /\ form \in ShownForm \cup {None}
  /\ form # None /\ form.value # None => form.value.uid = form.uid
  /\ forms \in 0..MaxForms /\ lost \in BOOLEAN
  /\ task \in [Slot -> StreamTask \cup {None}] /\ \A i \in Slot : TaskWell(task[i])

\* Nothing names the video v, but for a task that has it as its clip.
Ignores(t, v) ==
  t # None =>
    /\ t.kind = "original" => t.old # v
    /\ t.kind = "delete" => t.uid # v
    /\ t.kind \in {"refresh", "download"} /\ t.at # "queued" => t.read.uid # v
\* Neither the field nor a task names the video v, and no form either.
Unnamed(v) == (field \in Streamed => field.uid # v) /\ \A i \in Slot : Ignores(task[i], v)
\* Nor does a form show it.
Free(v) == Unnamed(v) /\ (form # None => form.uid # v)

\* A video to come is not named yet; neither is a clip or an upload before the field takes it.
FreshFree == \A v \in V!Video : cloud[v] = None => Free(v)
\* A clip is free until the field takes it, and of one task only.
ClipsFree ==
  \A i \in Slot : \A v \in V!Video : Clipped(task[i]) /\ task[i].value.uid = v =>
    /\ cloud[v] \notin {None, Gone} /\ Free(v)
    /\ \A k \in Slot : k # i /\ Clipped(task[k]) => task[k].value.uid # v
\* So is an upload, whose form has its data once it is sent.
UploadFree ==
  \A v \in V!Video : form # None /\ form.upload = TRUE /\ form.uid = v =>
    cloud[v] \notin {None, Gone} /\ Unnamed(v) /\ (form.sent = TRUE => form.value # None)

\* What the field holds exists or is about to leave it, and what it still needs is a task's.
Followed ==
  field \in Streamed =>
    /\ \/ cloud[field.uid] \notin {None, Gone}
       \/ \E i \in Slot : Replaces(task[i], field.uid) \/ V!Deleting(task[i])
    /\ field.state # "ready" => \E i \in Slot : Refreshes(task[i])
    /\ Downloadable /\ field.state = "ready" /\ field.url = FALSE => \E i \in Slot : Downloads(task[i])

\* The field leaves an original that is to be deleted, and what it leaves is to be deleted.
OriginalsLeft ==
  field \in Streamed =>
    \A i \in Slot : Original(task[i]) /\ task[i].old = field.uid =>
      \E k \in Slot : Replaces(task[k], field.uid)
\* Whatever the field is about to leave is an original that is to be deleted.
OriginalsSent ==
  \A i \in Slot : \A v \in V!Video : Replaces(task[i], v) /\ cloud[v] \notin {None, Gone} =>
    \E k \in Slot : Original(task[k]) /\ task[k].old = v

\* What a task is going to save is true of its video.
TaskTrue(t, c) ==
  /\ Clipped(t) => c[t.value.uid].from # None /\ t.value.clipped = TRUE
  /\ /\ t # None /\ t.kind = "refresh" /\ t.at \in {"clip", "write"}
     /\ ~Clipped(t) /\ c[t.value.uid] \notin {None, Gone}
     => /\ t.value.clipped = TRUE <=> c[t.value.uid].from # None
        /\ t.at = "write" /\ Trim /\ t.value.clipped = FALSE => c[t.value.uid].whole = TRUE
\* And so of all tasks.
TasksTrue == \A i \in Slot : TaskTrue(task[i], cloud)

\* Before the first upload is saved nothing else is there.
FormsCounted ==
  /\ forms = 0 => form = None /\ \A v \in V!Video : cloud[v] = None
  /\ forms = 0 \/ (forms = 1 /\ form # None) => field \notin Streamed /\ \A i \in Slot : Quiet(task[i])
  /\ forms = 1 /\ form # None =>
       /\ form.upload = TRUE /\ (form.value # None => form.value.clipped = FALSE)
       /\ cloud[form.uid].from = None
       /\ \A v \in V!Video : cloud[v] \notin {None, Gone} => v = form.uid

\* After a single upload there is the video, its clips and the original until its deletion.
OneUpload ==
  forms = 1 /\ field \in Streamed =>
    /\ cloud[field.uid] \notin {None, Gone} =>
         /\ field.clipped = TRUE <=> cloud[field.uid].from # None
         /\ field.clipped = FALSE /\ field.state = "ready" /\ Trim => cloud[field.uid].whole = TRUE
    /\ \A v \in V!Video : cloud[v] \notin {None, Gone} /\ v # field.uid =>
         \E i \in Slot : \/ Original(task[i]) /\ task[i].old = v
                         \/ Clipped(task[i]) /\ task[i].value.uid = v

\* The parts that hold while no task was lost.
VideosGood == FreshFree /\ ClipsFree /\ UploadFree /\ Followed /\ OriginalsLeft /\ OriginalsSent
              /\ TasksTrue /\ FormsCounted /\ OneUpload
\* Once a task is lost or the row is gone, nothing more is said.
VideosInv == VideosTyped /\ (lost = FALSE /\ field # Gone => VideosGood)

\* At the start there is no video.
LEMMA VideosInit == V!Init => VideosInv
<1> SUFFICES ASSUME V!Init PROVE VideosInv
  OBVIOUS
<1>1. field = None /\ form = None /\ forms = 0 /\ lost = FALSE /\ field \notin Streamed
  BY VideoAssumption DEF V!Init
<1>2. /\ cloud \in [V!Video -> Uploaded \cup {None, Gone}] /\ \A v \in V!Video : cloud[v] = None
      /\ task \in [Slot -> StreamTask \cup {None}] /\ \A i \in Slot : task[i] = None
  BY DEF V!Init
<1>3. VideosTyped
  <2>1. 0 \in 0..MaxForms
    BY VideoAssumption
  <2>2. \A i \in Slot : TaskWell(task[i])
    BY <1>2 DEF TaskWell
  <2> QED BY <1>1, <1>2, <2>1, <2>2 DEF VideosTyped
<1>4. FreshFree /\ ClipsFree /\ UploadFree
  BY <1>1, <1>2 DEF FreshFree, ClipsFree, UploadFree, Free, Unnamed, Ignores, Clipped
<1>5. Followed /\ OriginalsLeft /\ OriginalsSent /\ OneUpload
  BY <1>1, <1>2 DEF Followed, OriginalsLeft, OriginalsSent, OneUpload, Replaces, Clipped
<1>6. TasksTrue /\ FormsCounted
  BY <1>1, <1>2 DEF TasksTrue, TaskTrue, Clipped, FormsCounted, Quiet
<1> QED BY <1>3, <1>4, <1>5, <1>6 DEF VideosInv, VideosGood

-----------------------------------------------------------------------------
\* Tasks with new ones queued: the old ones where they were, and each of the new ones once.
LEMMA Queued ==
  ASSUME NEW ts \in [Slot -> StreamTask \cup {None}], NEW new \in SUBSET StreamTask,
         NEW later \in V!Queue(ts, new)
  PROVE  /\ later \in [Slot -> StreamTask \cup {None}]
         /\ \A i \in Slot : ts[i] # None => later[i] = ts[i]
         /\ \A i \in Slot : later[i] = ts[i] \/ later[i] \in new
         /\ \A n \in new : \E i \in Slot : later[i] = n
<1> DEFINE free == {i \in Slot : ts[i] = None}
<1>1. PICK place \in [new -> free] :
        /\ \A m, n \in new : m # n => place[m] # place[n]
        /\ later = [i \in Slot |-> IF \E n \in new : place[n] = i
                                   THEN CHOOSE n \in new : place[n] = i ELSE ts[i]]
  BY DEF V!Queue
<1>2. ASSUME NEW i \in Slot
      PROVE  /\ ts[i] # None => later[i] = ts[i]
             /\ later[i] = ts[i] \/ later[i] \in new
  BY <1>1
<1>3. ASSUME NEW n \in new PROVE \E i \in Slot : later[i] = n
  <2>1. place[n] \in Slot
    BY <1>1
  <2>2. later[place[n]] = CHOOSE m \in new : place[m] = place[n]
    BY <1>1, <2>1
  <2>3. (CHOOSE m \in new : place[m] = place[n]) = n
    BY <1>1
  <2> QED BY <2>1, <2>2, <2>3
<1>4. later \in [Slot -> StreamTask \cup {None}]
  <2>1. \A i \in Slot : later[i] \in StreamTask \cup {None}
    BY <1>2
  <2> QED BY <1>1, <2>1
<1> QED BY <1>2, <1>3, <1>4

\* A task that was just queued names nothing and has nothing to save.
Waiting(t) == t \in StreamTask /\ t.at = "queued" /\ t.kind \in {"refresh", "download"}

\* What a new task is.
LEMMA NewTask ==
  ASSUME NEW kind \in {"refresh", "download", "original", "delete"},
         NEW uid \in 0..MaxVideos, NEW old \in 0..MaxVideos
  PROVE  /\ V!New(kind, uid, old) \in StreamTask
         /\ V!New(kind, uid, old).kind = kind /\ V!New(kind, uid, old).old = old
         /\ V!New(kind, uid, old).uid = uid
         /\ V!New(kind, uid, old).at = "queued"
BY VideoAssumption DEF V!New, StreamTask

\* A task that was just queued is well formed and names nothing.
LEMMA WaitingTask ==
  ASSUME NEW t, Waiting(t)
  PROVE  /\ t # None /\ TaskWell(t) /\ ~Clipped(t) /\ ~Original(t) /\ \A v \in V!Video : Ignores(t, v)
         /\ \A c : TaskTrue(t, c)
BY VideoAssumption DEF Waiting, TaskWell, Clipped, Original, Ignores, TaskTrue

\* What the saved value still needs is among the tasks of post_save.
LEMMA PostSave ==
  ASSUME NEW value \in Streamed
  PROVE  /\ V!post_save(value) \in SUBSET StreamTask
         /\ \A n \in V!post_save(value) : Waiting(n)
         /\ value.state # "ready" => \E n \in V!post_save(value) : Refreshes(n)
         /\ Downloadable /\ value.url = FALSE => \E n \in V!post_save(value) : Downloads(n)
<1> DEFINE r == V!New("refresh", 0, 0)
           d == V!New("download", 0, 0)
<1>1. value # None
  BY VideoAssumption
<1>2. 0 \in 0..MaxVideos
  BY VideoAssumption
<1>3. r \in StreamTask /\ r.kind = "refresh" /\ r.at = "queued"
  BY <1>2, NewTask
<1>4. d \in StreamTask /\ d.kind = "download" /\ d.at = "queued"
  BY <1>2, NewTask
<1> HIDE DEF r, d
<1>5. V!post_save(value) = {n \in {r, d} : \/ n.kind = "refresh" /\ value.state # "ready"
                                           \/ n.kind = "download" /\ Downloadable /\ ~value.url}
  BY <1>1 DEF V!post_save, r, d
<1>6. value.url = FALSE => ~value.url
  OBVIOUS
<1>7. r # None /\ d # None
  BY <1>3, <1>4, VideoAssumption
<1> QED BY <1>3, <1>4, <1>5, <1>6, <1>7 DEF Waiting, Refreshes, Downloads

\* The next video is one that does not exist yet.
LEMMA NextIsFresh ==
  ASSUME V!Fresh # {}
  PROVE  V!Next1 \in V!Video /\ cloud[V!Next1] = None
<1>1. V!Fresh \in SUBSET Nat
  BY VideoAssumption DEF V!Fresh, V!Video
<1>2. \E v \in V!Fresh : \A w \in V!Fresh : v <= w
  BY <1>1, LeastExists
<1>3. V!Next1 \in V!Fresh
  BY <1>2 DEF V!Next1
<1> QED BY <1>3 DEF V!Fresh

-----------------------------------------------------------------------------
\* What a step may do that makes t of the task i and c of the videos.
Moves(i, t, c) ==
  /\ \A v \in V!Video : Ignores(task[i], v) /\ (field \in Streamed => field.uid # v) => Ignores(t, v)
  /\ \A v \in V!Video : c[v] = None <=> cloud[v] = None
  /\ \A v \in V!Video : c[v] \notin {None, Gone} =>
       /\ cloud[v] \notin {None, Gone} /\ c[v].from = cloud[v].from
       /\ cloud[v].whole = TRUE => c[v].whole = TRUE
  /\ \A v \in V!Video : cloud[v] \notin {None, Gone} /\ c[v] = Gone => ~Ignores(task[i], v)
  /\ ~Clipped(task[i]) /\ ~Clipped(t)
  /\ Original(task[i]) /\ c[task[i].old] \notin {None, Gone} => Original(t)
  /\ Original(t) => Original(task[i]) /\ t.old = task[i].old
  /\ field \in Streamed =>
       /\ field.state # "ready" /\ Refreshes(task[i]) => Refreshes(t)
       /\ field.state = "ready" /\ field.url = FALSE /\ Downloads(task[i]) => Downloads(t)
       /\ c[field.uid] = Gone /\ cloud[field.uid] # Gone =>
            V!Deleting(t) \/ \E k \in Slot : k # i /\ Replaces(task[k], field.uid)
  /\ V!Deleting(task[i]) => V!Deleting(t)
  /\ TaskTrue(t, c)
  /\ Quiet(task[i]) => Quiet(t)

\* Such a step preserves the invariant.
LEMMA VideosMoves ==
  ASSUME VideosInv, NEW i \in Slot, NEW t \in StreamTask \cup {None}, TaskWell(t),
         task' = [task EXCEPT ![i] = t], UNCHANGED <<field, form, forms>>, lost' \in BOOLEAN,
         cloud' \in [V!Video -> Uploaded \cup {None, Gone}],
         lost' = FALSE /\ field # Gone => lost = FALSE /\ Moves(i, t, cloud')
  PROVE  VideosInv'
<1>1. /\ task' \in [Slot -> StreamTask \cup {None}]
      /\ task'[i] = t /\ \A k \in Slot : k # i => task'[k] = task[k]
  BY DEF VideosInv, VideosTyped
<1>2. VideosTyped'
  <2>1. \A k \in Slot : TaskWell(task'[k])
    BY <1>1 DEF VideosInv, VideosTyped
  <2> QED BY <1>1, <2>1 DEF VideosInv, VideosTyped
<1> SUFFICES ASSUME lost' = FALSE, field # Gone PROVE VideosGood'
  BY <1>2 DEF VideosInv
<1>3. lost = FALSE /\ Moves(i, t, cloud') /\ VideosGood
  BY DEF VideosInv
<1>f. field \in Streamed => field.uid \in V!Video
  BY DEF Streamed
<1>4. \A v \in V!Video : Unnamed(v) => Unnamed(v)'
  BY <1>1, <1>3 DEF Unnamed, Moves
<1>5. \A v \in V!Video : Free(v) => Free(v)'
  BY <1>4 DEF Free
<1>6. \A v \in V!Video : Unnamed(v) /\ cloud[v] \notin {None, Gone} => cloud'[v] \notin {None, Gone}
  BY <1>3 DEF Unnamed, Moves
<1>7. FreshFree'
  BY <1>3, <1>5 DEF VideosGood, FreshFree, Moves
<1>8. ClipsFree'
  <2> SUFFICES ASSUME NEW j \in Slot, NEW v \in V!Video, Clipped(task'[j]), task'[j].value.uid = v
               PROVE  /\ cloud'[v] \notin {None, Gone} /\ Free(v)'
                      /\ \A k \in Slot : k # j /\ Clipped(task'[k]) => task'[k].value.uid # v
    BY DEF ClipsFree, Clipped
  <2>1. j # i /\ task'[j] = task[j]
    BY <1>1, <1>3 DEF Moves
  <2>2. /\ cloud[v] \notin {None, Gone} /\ Free(v)
        /\ \A k \in Slot : k # j /\ Clipped(task[k]) => task[k].value.uid # v
    BY <1>3, <2>1 DEF VideosGood, ClipsFree
  <2>3. \A k \in Slot : Clipped(task'[k]) => task'[k] = task[k]
    BY <1>1, <1>3 DEF Moves
  <2> QED BY <1>5, <1>6, <2>2, <2>3 DEF Free
<1>9. UploadFree'
  BY <1>3, <1>4, <1>6 DEF VideosGood, UploadFree
<1>10. \A k \in Slot : \A v : Replaces(task[k], v) => k # i /\ Replaces(task'[k], v)
  BY <1>1, <1>3 DEF Moves, Replaces
<1>11. Followed'
  <2> SUFFICES ASSUME field \in Streamed
               PROVE  /\ \/ cloud'[field.uid] \notin {None, Gone}
                         \/ \E k \in Slot : Replaces(task'[k], field.uid) \/ V!Deleting(task'[k])
                      /\ field.state # "ready" => \E k \in Slot : Refreshes(task'[k])
                      /\ Downloadable /\ field.state = "ready" /\ field.url = FALSE =>
                           \E k \in Slot : Downloads(task'[k])
    BY DEF Followed, Replaces, Clipped, V!Deleting, Refreshes, Downloads
  <2>1. field.state # "ready" => \E k \in Slot : Refreshes(task'[k])
    BY <1>1, <1>3 DEF VideosGood, Followed, Moves
  <2>2. Downloadable /\ field.state = "ready" /\ field.url = FALSE => \E k \in Slot : Downloads(task'[k])
    BY <1>1, <1>3 DEF VideosGood, Followed, Moves
  <2>3. \A k \in Slot : V!Deleting(task[k]) => V!Deleting(task'[k])
    BY <1>1, <1>3 DEF Moves
  <2>4. CASE cloud[field.uid] \in {None, Gone}
    <3>1. PICK k \in Slot : Replaces(task[k], field.uid) \/ V!Deleting(task[k])
      BY <1>3, <2>4 DEF VideosGood, Followed
    <3>2. Replaces(task'[k], field.uid) \/ V!Deleting(task'[k])
      BY <1>10, <2>3, <3>1
    <3> QED BY <2>1, <2>2, <3>2
  <2>5. CASE cloud[field.uid] \notin {None, Gone} /\ cloud'[field.uid] \in {None, Gone}
    <3>1. V!Deleting(t) \/ \E k \in Slot : k # i /\ Replaces(task[k], field.uid)
      BY <1>3, <1>f, <2>5 DEF Moves
    <3>2. CASE V!Deleting(t)
      BY <1>1, <2>1, <2>2, <3>2
    <3>3. CASE \E k \in Slot : k # i /\ Replaces(task[k], field.uid)
      BY <1>10, <2>1, <2>2, <3>3
    <3> QED BY <3>1, <3>2, <3>3
  <2> QED BY <2>1, <2>2, <2>4, <2>5
<1>12. OriginalsLeft'
  <2> SUFFICES ASSUME field \in Streamed, NEW k \in Slot, Original(task'[k]), task'[k].old = field.uid
               PROVE  \E j \in Slot : Replaces(task'[j], field.uid)
    BY DEF OriginalsLeft, Replaces, Clipped
  <2>1. Original(task[k]) /\ task[k].old = field.uid
    BY <1>1, <1>3 DEF Moves
  <2> QED BY <1>3, <1>10, <2>1 DEF VideosGood, OriginalsLeft
<1>13. OriginalsSent'
  <2> SUFFICES ASSUME NEW j \in Slot, NEW v \in V!Video, Replaces(task'[j], v), cloud'[v] \notin {None, Gone}
               PROVE  \E k \in Slot : Original(task'[k]) /\ task'[k].old = v
    BY DEF OriginalsSent, Replaces, Clipped, Original
  <2>1. task'[j] = task[j]
    BY <1>1, <1>3 DEF Moves, Replaces
  <2>2. PICK k \in Slot : Original(task[k]) /\ task[k].old = v
    BY <1>3, <2>1 DEF VideosGood, OriginalsSent, Moves
  <2>3. Original(task'[k]) /\ task'[k].old = v
    BY <1>1, <1>3, <2>2 DEF Moves
  <2> QED BY <2>3
<1>14. TasksTrue'
  <2> SUFFICES ASSUME NEW k \in Slot PROVE TaskTrue(task'[k], cloud')
    BY DEF TasksTrue
  <2>1. CASE k = i
    BY <1>1, <1>3, <2>1 DEF Moves
  <2>2. CASE k # i
    <3>1. task'[k] = task[k] /\ TaskTrue(task[k], cloud) /\ TaskWell(task[k])
      BY <1>1, <1>3, <2>2 DEF VideosGood, TasksTrue, VideosInv, VideosTyped
    <3>2. task[k] # None /\ task[k].kind = "refresh" /\ task[k].at \in {"clip", "send", "write"} =>
            task[k].value.uid \in V!Video
      BY <3>1 DEF TaskWell, Streamed
    <3>3. Clipped(task[k]) => cloud'[task[k].value.uid] \notin {None, Gone}
      BY <1>3, <1>6, <3>2 DEF VideosGood, ClipsFree, Free, Clipped
    <3> QED BY <1>3, <3>1, <3>2, <3>3 DEF TaskTrue, Moves, Clipped
  <2> QED BY <2>1, <2>2
<1>15. FormsCounted'
  <2>1. /\ forms = 0 => form = None /\ \A v \in V!Video : cloud'[v] = None
        /\ forms = 0 \/ (forms = 1 /\ form # None) => field \notin Streamed /\ \A k \in Slot : Quiet(task'[k])
    BY <1>1, <1>3 DEF VideosGood, FormsCounted, Moves
  <2>2. ASSUME forms = 1, form # None
        PROVE  /\ form.upload = TRUE /\ (form.value # None => form.value.clipped = FALSE)
               /\ cloud'[form.uid].from = None
               /\ \A v \in V!Video : cloud'[v] \notin {None, Gone} => v = form.uid
    <3>1. /\ form.upload = TRUE /\ (form.value # None => form.value.clipped = FALSE)
          /\ cloud[form.uid].from = None
          /\ \A v \in V!Video : cloud[v] \notin {None, Gone} => v = form.uid
      BY <1>3, <2>2 DEF VideosGood, FormsCounted
    <3>2. form.uid \in V!Video
      BY <2>2 DEF VideosInv, VideosTyped, ShownForm
    <3>3. cloud'[form.uid] \notin {None, Gone}
      BY <1>3, <1>6, <2>2, <3>1, <3>2 DEF VideosGood, UploadFree
    <3> QED BY <1>3, <3>1, <3>2, <3>3 DEF Moves
  <2> QED BY <2>1, <2>2 DEF FormsCounted
<1>16. OneUpload'
  <2> SUFFICES ASSUME forms = 1, field \in Streamed
               PROVE  /\ cloud'[field.uid] \notin {None, Gone} =>
                           /\ field.clipped = TRUE <=> cloud'[field.uid].from # None
                           /\ field.clipped = FALSE /\ field.state = "ready" /\ Trim => cloud'[field.uid].whole = TRUE
                      /\ \A v \in V!Video : cloud'[v] \notin {None, Gone} /\ v # field.uid =>
                           \E k \in Slot : \/ Original(task'[k]) /\ task'[k].old = v
                                           \/ Clipped(task'[k]) /\ task'[k].value.uid = v
    BY DEF OneUpload, Original, Clipped
  <2>1. cloud'[field.uid] \notin {None, Gone} =>
          /\ cloud[field.uid] \notin {None, Gone} /\ cloud'[field.uid].from = cloud[field.uid].from
          /\ cloud[field.uid].whole = TRUE => cloud'[field.uid].whole = TRUE
    BY <1>3, <1>f DEF Moves
  <2>2. ASSUME NEW v \in V!Video, cloud'[v] \notin {None, Gone}, v # field.uid
        PROVE  \E k \in Slot : \/ Original(task'[k]) /\ task'[k].old = v
                               \/ Clipped(task'[k]) /\ task'[k].value.uid = v
    <3>1. cloud[v] \notin {None, Gone}
      BY <1>3, <2>2 DEF Moves
    <3>2. PICK k \in Slot : \/ Original(task[k]) /\ task[k].old = v
                            \/ Clipped(task[k]) /\ task[k].value.uid = v
      BY <1>3, <2>2, <3>1 DEF VideosGood, OneUpload
    <3>3. CASE k = i
      <4>1. Original(task[i]) /\ task[i].old = v
        BY <1>3, <3>2, <3>3 DEF Moves
      <4>2. Original(t) /\ t.old = v
        BY <1>3, <2>2, <4>1 DEF Moves
      <4> QED BY <1>1, <4>2
    <3> QED BY <1>1, <3>2, <3>3
  <2> QED BY <1>3, <2>1, <2>2 DEF VideosGood, OneUpload
<1> QED BY <1>7, <1>8, <1>9, <1>11, <1>12, <1>13, <1>14, <1>15, <1>16 DEF VideosGood

-----------------------------------------------------------------------------
(* Steps of one task. *)

\* What a task that runs has read.
LEMMA Running ==
  ASSUME VideosInv, NEW i \in Slot, task[i] # None
  PROVE  /\ task[i] \in StreamTask /\ TaskWell(task[i])
         /\ task[i].kind \in {"refresh", "download"} /\ task[i].at # "queued" =>
              task[i].read \in Streamed /\ task[i].read.uid \in V!Video
<1>1. task[i] \in StreamTask /\ TaskWell(task[i])
  BY DEF VideosInv, VideosTyped
<1> QED BY <1>1 DEF TaskWell, Streamed

\* A task that changes while the videos stay: what Moves still asks then.
LEMMA VideosStay ==
  ASSUME VideosInv, NEW i \in Slot, NEW t \in StreamTask \cup {None}, TaskWell(t),
         task' = [task EXCEPT ![i] = t], UNCHANGED <<cloud, field, form, forms>>, lost' \in BOOLEAN,
         lost' = FALSE => lost = FALSE,
         lost' = FALSE /\ lost = FALSE /\ field # Gone =>
           /\ \A v \in V!Video : Ignores(task[i], v) /\ (field \in Streamed => field.uid # v) => Ignores(t, v)
           /\ ~Clipped(task[i]) /\ ~Clipped(t)
           /\ Original(task[i]) <=> Original(t)
           /\ Original(t) => t.old = task[i].old
           /\ field \in Streamed =>
                /\ field.state # "ready" /\ Refreshes(task[i]) => Refreshes(t)
                /\ field.state = "ready" /\ field.url = FALSE /\ Downloads(task[i]) => Downloads(t)
           /\ V!Deleting(task[i]) => V!Deleting(t)
           /\ TaskTrue(t, cloud)
           /\ Quiet(task[i]) => Quiet(t)
  PROVE  VideosInv'
<1>1. cloud' \in [V!Video -> Uploaded \cup {None, Gone}]
  BY DEF VideosInv, VideosTyped
<1>2. field \in Streamed => field.uid \in V!Video
  BY DEF Streamed
<1>3. ASSUME lost' = FALSE, lost = FALSE, field # Gone PROVE Moves(i, t, cloud)
  BY <1>2, <1>3 DEF Moves
<1> QED BY <1>1, <1>3, VideosMoves

\* A task that ends or gives up.
LEMMA VideosEnd ==
  ASSUME VideosInv, NEW i \in Slot, task[i] # None, task' = [task EXCEPT ![i] = None],
         UNCHANGED <<cloud, field, form, forms>>, lost' \in BOOLEAN, lost' = FALSE => lost = FALSE,
         lost' = FALSE /\ field # Gone =>
           /\ task[i].kind \in {"refresh", "download"} /\ ~Clipped(task[i])
           /\ field \in Streamed =>
                /\ field.state # "ready" => ~Refreshes(task[i])
                /\ field.state = "ready" /\ field.url = FALSE => ~Downloads(task[i])
  PROVE  VideosInv'
<1>1. TaskWell(None) /\ ~Clipped(None) /\ ~Original(None) /\ Quiet(None) /\ \A v \in V!Video : Ignores(None, v)
  BY DEF TaskWell, Clipped, Original, Quiet, Ignores
<1>2. TaskTrue(None, cloud)
  BY DEF TaskTrue, Clipped
<1>3. lost' = FALSE /\ field # Gone => ~Original(task[i]) /\ ~V!Deleting(task[i])
  BY DEF Original, V!Deleting
<1> HIDE DEF TaskTrue
<1> QED BY <1>1, <1>2, <1>3, VideosStay

\* Again: the task is queued once more.
LEMMA VideosAgain ==
  ASSUME VideosInv, NEW i \in Slot, V!Again(i), task[i] # None, task[i].kind # "delete", task[i].at = "running",
         UNCHANGED <<cloud, field, form, forms>>
  PROVE  VideosInv'
<1>1. task[i] \in StreamTask /\ lost \in BOOLEAN
  BY Running DEF VideosInv, VideosTyped
<1>2. CASE task[i].retries < MaxRetries
  <2> DEFINE t == [task[i] EXCEPT !.retries = task[i].retries + 1, !.at = "queued", !.read = None]
  <2>1. lost' = lost /\ task' = [task EXCEPT ![i] = t]
    BY <1>1, <1>2 DEF V!Again, VideosInv, VideosTyped
  <2>2. task[i].retries + 1 \in 1..MaxRetries
    BY <1>1, <1>2, VideoAssumption DEF StreamTask
  <2>3. /\ t \in StreamTask /\ t.kind = task[i].kind /\ t.old = task[i].old /\ t.at = "queued"
    BY <1>1, <2>2 DEF StreamTask
  <2> HIDE DEF t
  <2>4. t # None /\ TaskWell(t)
    BY <2>3, Running, VideoAssumption DEF TaskWell
  <2>5. ~Clipped(task[i]) /\ ~Clipped(t) /\ ~V!Deleting(task[i])
    BY <2>3 DEF Clipped, V!Deleting
  <2>6. /\ Original(task[i]) <=> Original(t)
        /\ \A v \in V!Video : Ignores(task[i], v) => Ignores(t, v)
        /\ Quiet(task[i]) => Quiet(t)
        /\ Refreshes(task[i]) => Refreshes(t)
        /\ Downloads(task[i]) => Downloads(t)
    BY <2>3, <2>4 DEF Original, Ignores, Quiet, Refreshes, Downloads
  <2>7. TaskTrue(t, cloud)
    BY <2>3, <2>5 DEF TaskTrue
  <2> HIDE DEF TaskTrue
  <2> QED BY <1>1, <2>1, <2>3, <2>4, <2>5, <2>6, <2>7, VideosStay
<1>3. CASE ~(task[i].retries < MaxRetries)
  <2>1. task' = [task EXCEPT ![i] = None] /\ lost' = TRUE
    BY <1>3 DEF V!Again, V!End
  <2> QED BY <2>1, VideosEnd
<1> QED BY <1>2, <1>3

\* A worker takes a task and reads the field.
LEMMA VideosTake ==
  ASSUME VideosInv, NEW i \in Slot, V!Take(i)
  PROVE  VideosInv'
<1>1. /\ task[i] # None /\ task[i].at = "queued" /\ UNCHANGED <<cloud, field, form, forms, lost>>
      /\ task[i] \in StreamTask /\ lost \in BOOLEAN
  BY Running DEF V!Take, VideosInv, VideosTyped
<1>2. CASE task[i].kind = "original" \/ V!Holds
  <2> DEFINE t == [task[i] EXCEPT !.at = "running", !.read = field]
  <2>1. task' = [task EXCEPT ![i] = t]
    BY <1>1, <1>2 DEF V!Take, VideosInv, VideosTyped
  <2>2. field \in Streamed \cup {None, Gone} /\ (task[i].kind # "original" => field \in Streamed)
    BY <1>2 DEF VideosInv, VideosTyped, V!Holds
  <2>3. /\ t \in StreamTask /\ t.kind = task[i].kind /\ t.old = task[i].old /\ t.at = "running"
        /\ t.read = field /\ t.uid = task[i].uid
    BY <1>1, <2>2 DEF StreamTask
  <2> HIDE DEF t
  <2>4. t # None /\ TaskWell(t)
    BY <1>1, <2>2, <2>3, Running, VideoAssumption DEF TaskWell
  <2>5. ~Clipped(task[i]) /\ ~Clipped(t) /\ ~V!Deleting(task[i])
    BY <1>1, <2>3 DEF Clipped, V!Deleting
  <2>6. /\ Original(task[i]) <=> Original(t)
        /\ Quiet(task[i]) => Quiet(t)
        /\ field \in Streamed => /\ field.state # "ready" /\ Refreshes(task[i]) => Refreshes(t)
                                 /\ field.state = "ready" /\ field.url = FALSE /\ Downloads(task[i]) => Downloads(t)
    BY <1>1, <2>3, <2>4 DEF Original, Quiet, Refreshes, Downloads
  <2>7. \A v \in V!Video : Ignores(task[i], v) /\ (field \in Streamed => field.uid # v) => Ignores(t, v)
    BY <1>1, <2>2, <2>3, <2>4 DEF Ignores
  <2>8. TaskTrue(t, cloud)
    BY <2>3, <2>5 DEF TaskTrue
  <2> HIDE DEF TaskTrue
  <2> QED BY <1>1, <2>1, <2>3, <2>4, <2>5, <2>6, <2>7, <2>8, VideosStay
<1>3. CASE ~(task[i].kind = "original" \/ V!Holds)
  <2>1. task' = [task EXCEPT ![i] = None] /\ field \notin Streamed
    BY <1>3, VideoAssumption DEF V!Take, V!End, V!Holds
  <2>2. CASE field = Gone
    BY <1>1, <2>1, <2>2, VideosEnd
  <2>3. CASE field # Gone
    <3>1. task[i].kind \in {"refresh", "download"} /\ ~Clipped(task[i])
      BY <1>1, <1>3, Running DEF TaskWell, StreamTask, Clipped
    <3> QED BY <1>1, <2>1, <3>1, VideosEnd
  <2> QED BY <2>2, <2>3
<1> QED BY <1>2, <1>3

\* A task that meets an error is lost, and nothing more is said.
LEMMA VideosLost ==
  ASSUME VideosInv, VideosTyped', lost' # FALSE \/ field' = Gone
  PROVE  VideosInv'
BY DEF VideosInv

\* A task is lost.
LEMMA VideosLose ==
  ASSUME VideosInv, NEW i \in Slot, V!Lose(i)
  PROVE  VideosInv'
BY VideosEnd DEF V!Lose, V!End

\* A refresh or a download with nothing to do, or to wait for, or that dies.
LEMMA VideosIdle ==
  ASSUME VideosInv, NEW i \in Slot,
         V!SkipRefresh(i) \/ V!WaitRefresh(i) \/ V!WaitDownload(i) \/ V!SkipDownload(i) \/ V!EarlyDownload(i)
  PROVE  VideosInv'
<1>1. lost \in BOOLEAN /\ (task[i] # None => TaskWell(task[i]))
  BY Running DEF VideosInv, VideosTyped
<1>2. CASE V!SkipRefresh(i)
  <2>1. ~Refreshes(task[i]) /\ ~Downloads(task[i]) /\ ~Clipped(task[i])
    BY <1>2 DEF V!SkipRefresh, V!Doing, Refreshes, Downloads, Clipped
  <2> QED BY <1>1, <1>2, <2>1, VideosEnd DEF V!SkipRefresh, V!Doing, V!End
<1>3. CASE V!WaitRefresh(i)
  BY <1>3, VideosAgain DEF V!WaitRefresh, V!Asked, V!Doing
<1>4. CASE V!WaitDownload(i)
  BY <1>4, VideosAgain DEF V!WaitDownload, V!Doing
<1>5. CASE V!SkipDownload(i)
  <2>1. task[i].read \in Streamed
    BY <1>5, Running DEF V!SkipDownload, V!Doing
  <2>2. ~Refreshes(task[i]) /\ ~Downloads(task[i]) /\ ~Clipped(task[i])
    BY <1>5, <2>1 DEF V!SkipDownload, V!Doing, Refreshes, Downloads, Clipped, Streamed
  <2> QED BY <1>1, <1>5, <2>2, VideosEnd DEF V!SkipDownload, V!Doing, V!End
<1>6. CASE V!EarlyDownload(i)
  <2>1. ~Refreshes(task[i]) /\ ~Clipped(task[i]) /\ field.state # "ready"
    BY <1>6 DEF V!EarlyDownload, V!Doing, Refreshes, Clipped
  <2> QED BY <1>1, <1>6, <2>1, VideosEnd DEF V!EarlyDownload, V!Doing, V!End
<1> QED BY <1>2, <1>3, <1>4, <1>5, <1>6

\* The object is going to be deleted, by somebody or because the video is too long.
LEMMA VideosRemove ==
  ASSUME VideosInv, NEW i \in Slot, V!Remove(i)
  PROVE  VideosInv'
<1> DEFINE u == IF V!Holds THEN field.uid ELSE 0
           t == [V!New("delete", u, 0) EXCEPT !.at = "running"]
<1>1. task[i] = None /\ task' = [task EXCEPT ![i] = t] /\ UNCHANGED <<cloud, field, form, forms, lost>>
      /\ lost \in BOOLEAN
  BY DEF V!Remove, VideosInv, VideosTyped
<1>2. u \in 0..MaxVideos /\ 0 \in 0..MaxVideos /\ (\A v \in V!Video : (field \in Streamed => field.uid # v) => u # v)
  <2>1. CASE V!Holds
    <3>1. field \in Streamed
      BY <2>1 DEF VideosInv, VideosTyped, V!Holds
    <3> QED BY <2>1, <3>1, VideoAssumption DEF Streamed, V!Video
  <2>2. CASE ~V!Holds
    BY <2>2, VideoAssumption DEF V!Video
  <2> QED BY <2>1, <2>2
<1> HIDE DEF u
<1>3. t \in StreamTask /\ t.kind = "delete" /\ t.at = "running" /\ t.uid = u
  BY <1>2, VideoAssumption DEF V!New, StreamTask
<1> HIDE DEF t
<1>4. t # None /\ TaskWell(t) /\ ~Original(t) /\ ~Original(task[i]) /\ ~Clipped(t) /\ ~Clipped(task[i]) /\ Quiet(t)
  BY <1>1, <1>3, VideoAssumption DEF TaskWell, Original, Clipped, Quiet
<1>5. \A v \in V!Video : Ignores(task[i], v) /\ (field \in Streamed => field.uid # v) => Ignores(t, v)
  BY <1>2, <1>3 DEF Ignores
<1>6. TaskTrue(t, cloud) /\ ~Refreshes(task[i]) /\ ~Downloads(task[i]) /\ ~V!Deleting(task[i])
  BY <1>1, <1>3, <1>4 DEF TaskTrue, Refreshes, Downloads, V!Deleting
<1> HIDE DEF TaskTrue
<1> QED BY <1>1, <1>3, <1>4, <1>5, <1>6, VideosStay

\* A refresh deletes a video that is too long, and its object.
LEMMA VideosTooLong ==
  ASSUME VideosInv, NEW i \in Slot, V!TooLong(i)
  PROVE  VideosInv'
<1> DEFINE t == [task[i] EXCEPT !.kind = "delete", !.uid = task[i].read.uid]
<1>1. /\ task[i] # None /\ task[i].kind = "refresh" /\ task[i].at = "running"
      /\ UNCHANGED <<cloud, field, form, forms, lost>> /\ lost \in BOOLEAN
  BY DEF V!TooLong, V!Asked, V!Doing, VideosInv, VideosTyped
<1>2. task[i] \in StreamTask /\ task[i].read.uid \in V!Video
  BY <1>1, Running
<1>3. task' = [task EXCEPT ![i] = t]
  BY <1>2 DEF V!TooLong, VideosInv, VideosTyped
<1>a. task[i].read.uid \in 0..MaxVideos
  BY <1>2, VideoAssumption DEF V!Video
<1>4. t \in StreamTask /\ t.kind = "delete" /\ t.at = "running" /\ t.uid = task[i].read.uid
  BY <1>1, <1>2, <1>a DEF StreamTask
<1> HIDE DEF t
<1>5. t # None /\ TaskWell(t) /\ ~Original(t) /\ ~Original(task[i]) /\ ~Clipped(t) /\ ~Clipped(task[i]) /\ Quiet(t)
  BY <1>1, <1>4, VideoAssumption DEF TaskWell, Original, Clipped, Quiet
<1>6. \A v \in V!Video : Ignores(task[i], v) => Ignores(t, v)
  BY <1>1, <1>4 DEF Ignores
<1>c. t.kind = "delete" /\ t # None
  BY <1>4, <1>5
<1>7. Refreshes(t)
  BY <1>c DEF Refreshes
<1>b. ~Downloads(task[i]) /\ ~V!Deleting(task[i])
  BY <1>1 DEF Downloads, V!Deleting
<1>8. TaskTrue(t, cloud)
  BY <1>4, <1>5 DEF TaskTrue
<1> HIDE DEF TaskTrue
<1> QED BY <1>1, <1>3, <1>4, <1>5, <1>6, <1>7, <1>b, <1>8, VideosStay

\* The row of a deleted object goes.
LEMMA VideosDeleteRow ==
  ASSUME VideosInv, NEW i \in Slot, V!DeleteRow(i)
  PROVE  VideosInv'
<1>1. field' = Gone /\ form' = None /\ task' = [task EXCEPT ![i] = None] /\ UNCHANGED <<cloud, forms, lost>>
  BY DEF V!DeleteRow, V!End
<1>2. TaskWell(None)
  BY DEF TaskWell
<1>3. VideosTyped'
  BY <1>1, <1>2 DEF VideosInv, VideosTyped
<1> QED BY <1>1, <1>3, VideosLost

\* What get_video_data says.
LEMMA VideoData ==
  ASSUME VideosTyped, NEW v \in V!Video
  PROVE  /\ cloud[v] \in {None, Gone} => V!get_video_data(v) = None
         /\ cloud[v] \notin {None, Gone} =>
              /\ V!get_video_data(v) \in Streamed /\ V!get_video_data(v).uid = v
              /\ V!get_video_data(v).clipped = TRUE <=> cloud[v].from # None
              /\ V!get_video_data(v).state = cloud[v].state
<1>1. CASE cloud[v] \in {None, Gone}
  BY <1>1 DEF V!get_video_data, V!Exists
<1>2. CASE cloud[v] \notin {None, Gone}
  <2>1. cloud[v] \in Uploaded
    BY <1>2 DEF VideosTyped
  <2>2. V!get_video_data(v) = [uid |-> v, state |-> cloud[v].state, clipped |-> cloud[v].from # None, url |-> cloud[v].url]
    BY <1>2 DEF V!get_video_data, V!Exists
  <2> DEFINE b == cloud[v].from # None
  <2>3. b \in BOOLEAN /\ (b = TRUE <=> cloud[v].from # None)
    OBVIOUS
  <2> HIDE DEF V!get_video_data
  <2>4. V!get_video_data(v) = [uid |-> v, state |-> cloud[v].state, clipped |-> b, url |-> cloud[v].url]
    BY <2>2
  <2> HIDE DEF b
  <2>5. V!get_video_data(v) \in Streamed /\ V!get_video_data(v).uid = v /\ V!get_video_data(v).state = cloud[v].state
    BY <2>1, <2>3, <2>4 DEF Uploaded, Streamed
  <2>6. V!get_video_data(v).clipped = b
    BY <2>4
  <2> QED BY <1>2, <2>3, <2>5, <2>6
<1> QED BY <1>1, <1>2

\* A refresh finds a video ready.
LEMMA VideosReady ==
  ASSUME VideosInv, NEW i \in Slot, V!Ready(i)
  PROVE  VideosInv'
<1> DEFINE v == task[i].read.uid
           d == V!get_video_data(v)
           a == IF Trim /\ cloud[v].from = None THEN "clip" ELSE "write"
           t == [task[i] EXCEPT !.value = d, !.at = a]
<1>1. /\ task[i] # None /\ task[i].kind = "refresh" /\ task[i].at = "running" /\ cloud[v] \notin {None, Gone}
      /\ task[i].read.state # "ready"
      /\ UNCHANGED <<cloud, field, form, forms, lost>> /\ lost \in BOOLEAN
  BY DEF V!Ready, V!Asked, V!Doing, V!Exists, VideosInv, VideosTyped
<1>2. task[i] \in StreamTask /\ task[i].read.uid \in V!Video /\ task[i].read \in Streamed
  BY <1>1, Running
<1>3. task' = [task EXCEPT ![i] = t]
  BY <1>2 DEF V!Ready, VideosInv, VideosTyped
<1>4. d \in Streamed /\ d.uid = v /\ (d.clipped = TRUE <=> cloud[v].from # None)
  BY <1>1, <1>2, VideoData DEF VideosInv
<1>5. a \in {"clip", "write"} /\ (a = "write" /\ Trim => cloud[v].from # None)
  OBVIOUS
<1> HIDE DEF d, a
<1>6. /\ t \in StreamTask /\ t.kind = "refresh" /\ t.at = a /\ t.value = d /\ t.read = task[i].read
  BY <1>1, <1>2, <1>4, <1>5 DEF StreamTask
<1> HIDE DEF t
<1>7. t # None /\ TaskWell(t) /\ ~Original(t) /\ ~Original(task[i]) /\ ~Clipped(t) /\ ~Clipped(task[i])
  BY <1>1, <1>2, <1>4, <1>5, <1>6, VideoAssumption DEF TaskWell, Original, Clipped
<1>8. \A w \in V!Video : Ignores(task[i], w) => Ignores(t, w)
  BY <1>1, <1>6 DEF Ignores
<1>9. Refreshes(t) /\ ~Downloads(task[i]) /\ ~V!Deleting(task[i]) /\ ~Quiet(task[i])
  BY <1>1, <1>5, <1>6, <1>7 DEF Refreshes, Downloads, V!Deleting, Quiet
<1>10. TaskTrue(t, cloud)
  BY <1>4, <1>5, <1>6, <1>7 DEF TaskTrue
<1> HIDE DEF TaskTrue
<1> QED BY <1>1, <1>3, <1>6, <1>7, <1>8, <1>9, <1>10, VideosStay

\* A download is asked for.
LEMMA VideosAskDownload ==
  ASSUME VideosInv, NEW i \in Slot, V!download_video(i)
  PROVE  VideosInv'
<1> DEFINE d == [task[i].read EXCEPT !.url = TRUE]
           t == [task[i] EXCEPT !.value = d, !.at = "meta"]
<1>1. /\ task[i] # None /\ task[i].kind = "download" /\ task[i].at = "running"
      /\ UNCHANGED <<cloud, field, form, forms, lost>> /\ lost \in BOOLEAN
  BY DEF V!download_video, V!Doing, VideosInv, VideosTyped
<1>2. task[i] \in StreamTask /\ task[i].read \in Streamed
  BY <1>1, Running
<1>3. task' = [task EXCEPT ![i] = t]
  BY <1>2 DEF V!download_video, VideosInv, VideosTyped
<1>4. d \in Streamed
  BY <1>2 DEF Streamed
<1>5. /\ t \in StreamTask /\ t.kind = "download" /\ t.at = "meta" /\ t.value = d /\ t.read = task[i].read
  BY <1>1, <1>2, <1>4 DEF StreamTask
<1>6. t.value = [t.read EXCEPT !.url = TRUE]
  BY <1>5
<1> HIDE DEF t, d
<1>7. t # None /\ TaskWell(t) /\ ~Original(t) /\ ~Original(task[i]) /\ ~Clipped(t) /\ ~Clipped(task[i])
  BY <1>1, <1>2, <1>4, <1>5, <1>6, VideoAssumption DEF TaskWell, Original, Clipped
<1>8. \A w \in V!Video : Ignores(task[i], w) => Ignores(t, w)
  BY <1>1, <1>5 DEF Ignores
<1>9. Downloads(t) /\ ~Refreshes(task[i]) /\ ~V!Deleting(task[i]) /\ ~Quiet(task[i])
  BY <1>1, <1>5, <1>7 DEF Refreshes, Downloads, V!Deleting, Quiet
<1>10. TaskTrue(t, cloud)
  BY <1>5, <1>7 DEF TaskTrue
<1> HIDE DEF TaskTrue
<1> QED BY <1>1, <1>3, <1>5, <1>7, <1>8, <1>9, <1>10, VideosStay

\* A task goes on to its last step, and says more of a video at Cloudflare.
LEMMA VideosToWrite ==
  ASSUME VideosInv, NEW i \in Slot, task[i] # None, task[i].at # "queued",
         task[i].kind \in {"refresh", "download", "original"}, ~Clipped(task[i]),
         task' = [task EXCEPT ![i].at = "write"], UNCHANGED <<field, form, forms, lost>>,
         task[i].kind # "original" => task[i].at \in {"clip", "meta"},
         cloud' \in [V!Video -> Uploaded \cup {None, Gone}],
         \A v \in V!Video : /\ cloud'[v] = None <=> cloud[v] = None
                            /\ cloud'[v] = Gone <=> cloud[v] = Gone
                            /\ cloud'[v].from = cloud[v].from
                            /\ cloud[v].whole = TRUE => cloud'[v].whole = TRUE,
         /\ task[i].kind = "refresh" /\ cloud[task[i].read.uid] \notin {None, Gone} =>
              cloud'[task[i].read.uid].whole = TRUE
  PROVE  VideosInv'
<1> DEFINE t == [task[i] EXCEPT !.at = "write"]
<1>1. task[i] \in StreamTask /\ TaskWell(task[i]) /\ lost \in BOOLEAN
  BY Running DEF VideosInv, VideosTyped
<1>2. task' = [task EXCEPT ![i] = t]
  BY <1>1 DEF VideosInv, VideosTyped
<1>3. /\ t \in StreamTask /\ t.kind = task[i].kind /\ t.at = "write" /\ t.value = task[i].value
      /\ t.read = task[i].read /\ t.old = task[i].old
  BY <1>1 DEF StreamTask
<1> HIDE DEF t
<1>4. t # None /\ TaskWell(t)
  BY <1>1, <1>3, VideoAssumption DEF TaskWell
<1>5. task[i].kind = "refresh" => /\ task[i].at = "clip" /\ task[i].value.uid = task[i].read.uid
                                  /\ task[i].read.uid \in V!Video
  BY <1>1, Running DEF TaskWell
<1>6. ~Clipped(t) /\ (Original(task[i]) <=> Original(t)) /\ (Refreshes(task[i]) => Refreshes(t))
      /\ (Downloads(task[i]) => Downloads(t)) /\ (Quiet(task[i]) <=> Quiet(t)) /\ ~V!Deleting(task[i])
  BY <1>3, <1>4, <1>5 DEF Clipped, Original, Refreshes, Downloads, Quiet, V!Deleting
<1>7. \A w \in V!Video : Ignores(task[i], w) => Ignores(t, w)
  BY <1>3 DEF Ignores
<1>8. ASSUME lost = FALSE, field # Gone PROVE TaskTrue(t, cloud')
  <2>1. TaskTrue(task[i], cloud)
    BY <1>8 DEF VideosInv, VideosGood, TasksTrue
  <2> QED BY <1>3, <1>5, <1>6, <2>1 DEF TaskTrue
<1>9. field \in Streamed => field.uid \in V!Video
  BY DEF Streamed
<1>10. ASSUME lost = FALSE, field # Gone PROVE Moves(i, t, cloud')
  <2>1. TaskTrue(t, cloud')
    BY <1>8, <1>10
  <2> QED BY <1>3, <1>6, <1>7, <1>9, <2>1 DEF Moves
<1> QED BY <1>1, <1>2, <1>3, <1>4, <1>10, VideosMoves

\* Cloudflare refuses a clip.
LEMMA VideosClipRefused ==
  ASSUME VideosInv, NEW i \in Slot, V!ClipRefused(i)
  PROVE  VideosInv'
<1> DEFINE v == task[i].read.uid
           c == [cloud[v] EXCEPT !.whole = TRUE]
<1>1. /\ task[i] # None /\ task[i].kind = "refresh" /\ task[i].at = "clip"
      /\ task' = [task EXCEPT ![i].at = "write"] /\ UNCHANGED <<field, form, forms, lost>>
      /\ cloud' = IF cloud[v] \notin {None, Gone} THEN [cloud EXCEPT ![v].whole = TRUE] ELSE cloud
      /\ cloud \in [V!Video -> Uploaded \cup {None, Gone}]
  BY DEF V!ClipRefused, V!Doing, V!At, V!Exists, VideosInv, VideosTyped
<1>2. v \in V!Video /\ ~Clipped(task[i])
  BY <1>1, Running DEF Clipped
<1>3. CASE cloud[v] \in {None, Gone}
  BY <1>1, <1>2, <1>3, VideosToWrite
<1>4. CASE cloud[v] \notin {None, Gone}
  <2>1. cloud[v] \in Uploaded /\ cloud' = [cloud EXCEPT ![v] = c]
    BY <1>1, <1>2, <1>4
  <2>2. c \in Uploaded /\ c.from = cloud[v].from /\ c.whole = TRUE
    BY <2>1 DEF Uploaded
  <2>3. c \notin {None, Gone}
    BY <2>2, VideoAssumption
  <2> HIDE DEF c
  <2>4. /\ cloud' \in [V!Video -> Uploaded \cup {None, Gone}]
        /\ cloud'[v] = c /\ \A w \in V!Video : w # v => cloud'[w] = cloud[w]
    BY <1>1, <1>2, <2>1, <2>2
  <2>5. \A w \in V!Video : /\ cloud'[w] = None <=> cloud[w] = None
                           /\ cloud'[w] = Gone <=> cloud[w] = Gone
                           /\ cloud'[w].from = cloud[w].from
                           /\ cloud[w].whole = TRUE => cloud'[w].whole = TRUE
    BY <1>4, <2>2, <2>3, <2>4
  <2> QED BY <1>1, <1>2, <2>2, <2>4, <2>5, VideosToWrite
<1> QED BY <1>3, <1>4

\* The video gets its address.
LEMMA VideosMeta ==
  ASSUME VideosInv, NEW i \in Slot, V!update_video_data(i)
  PROVE  VideosInv'
<1> DEFINE v == task[i].read.uid
           c == [cloud[v] EXCEPT !.url = TRUE]
<1>1. /\ task[i] # None /\ task[i].kind = "download" /\ task[i].at = "meta"
      /\ task' = [task EXCEPT ![i].at = "write"] /\ UNCHANGED <<field, form, forms, lost>>
      /\ cloud' = IF cloud[v] \notin {None, Gone} THEN [cloud EXCEPT ![v].url = TRUE] ELSE cloud
      /\ cloud \in [V!Video -> Uploaded \cup {None, Gone}]
  BY DEF V!update_video_data, V!Doing, V!At, V!Exists, VideosInv, VideosTyped
<1>2. v \in V!Video /\ ~Clipped(task[i])
  BY <1>1, Running DEF Clipped
<1>3. CASE cloud[v] \in {None, Gone}
  BY <1>1, <1>2, <1>3, VideosToWrite
<1>4. CASE cloud[v] \notin {None, Gone}
  <2>1. cloud[v] \in Uploaded /\ cloud' = [cloud EXCEPT ![v] = c]
    BY <1>1, <1>2, <1>4
  <2>2. c \in Uploaded /\ c.from = cloud[v].from /\ c.whole = cloud[v].whole
    BY <2>1 DEF Uploaded
  <2>3. c \notin {None, Gone}
    BY <2>2, VideoAssumption
  <2> HIDE DEF c
  <2>4. /\ cloud' \in [V!Video -> Uploaded \cup {None, Gone}]
        /\ cloud'[v] = c /\ \A w \in V!Video : w # v => cloud'[w] = cloud[w]
    BY <1>1, <1>2, <2>1, <2>2
  <2>5. \A w \in V!Video : /\ cloud'[w] = None <=> cloud[w] = None
                           /\ cloud'[w] = Gone <=> cloud[w] = Gone
                           /\ cloud'[w].from = cloud[w].from
                           /\ cloud[w].whole = TRUE => cloud'[w].whole = TRUE
    BY <1>4, <2>2, <2>3, <2>4
  <2> QED BY <1>1, <1>2, <2>4, <2>5, VideosToWrite
<1> QED BY <1>3, <1>4

\* The deletion of an original waits for the clip.
LEMMA VideosCheckClip ==
  ASSUME VideosInv, NEW i \in Slot, V!CheckClip(i)
  PROVE  VideosInv'
<1>1. /\ task[i] # None /\ task[i].kind = "original" /\ task[i].at = "running"
      /\ UNCHANGED <<cloud, field, form, forms>>
  BY DEF V!CheckClip, V!Doing
<1>2. CASE V!Again(i)
  BY <1>1, <1>2, VideosAgain
<1>3. CASE task' = [task EXCEPT ![i].at = "write"] /\ UNCHANGED lost
  BY <1>1, <1>3, VideosToWrite DEF Clipped, VideosInv, VideosTyped
<1> QED BY <1>2, <1>3 DEF V!CheckClip, V!At

\* Cloudflare goes on with a video.
LEMMA VideosProcess ==
  ASSUME VideosInv, NEW v \in V!Video, V!Process(v)
  PROVE  VideosInv'
<1>1. PICK s \in {"ready", "toolong"} : cloud' = [cloud EXCEPT ![v].state = s]
  BY DEF V!Process
<1> DEFINE c == [cloud[v] EXCEPT !.state = s]
<1>2. /\ UNCHANGED <<field, task, form, forms, lost>> /\ cloud[v] \notin {None, Gone}
      /\ cloud \in [V!Video -> Uploaded \cup {None, Gone}] /\ cloud[v] \in Uploaded
      /\ cloud' = [cloud EXCEPT ![v] = c]
  BY <1>1 DEF V!Process, V!Exists, VideosInv, VideosTyped
<1>3. c \in Uploaded /\ c.from = cloud[v].from /\ c.whole = cloud[v].whole
  BY <1>2 DEF Uploaded, V!States
<1>4. c \notin {None, Gone}
  BY <1>3, VideoAssumption
<1> HIDE DEF c
<1>5. /\ cloud' \in [V!Video -> Uploaded \cup {None, Gone}]
      /\ cloud'[v] = c /\ \A w \in V!Video : w # v => cloud'[w] = cloud[w]
  BY <1>2, <1>3
<1>6. \A w \in V!Video : /\ cloud'[w] = None <=> cloud[w] = None
                         /\ cloud'[w] = Gone <=> cloud[w] = Gone
                         /\ cloud'[w].from = cloud[w].from /\ cloud'[w].whole = cloud[w].whole
  BY <1>2, <1>3, <1>4, <1>5
<1> HIDE DEF VideosInv
<1>7. VideosTyped'
  BY <1>2, <1>5 DEF VideosInv, VideosTyped
<1> SUFFICES ASSUME lost = FALSE, field # Gone PROVE VideosGood'
  BY <1>2, <1>7 DEF VideosInv
<1>8. VideosGood
  BY DEF VideosInv
<1>9. FreshFree' /\ ClipsFree' /\ UploadFree'
  BY <1>2, <1>6, <1>8 DEF VideosGood, FreshFree, ClipsFree, UploadFree, Free, Unnamed
<1>10. field \in Streamed => field.uid \in V!Video
  BY DEF Streamed
<1>11. Followed' /\ OriginalsLeft' /\ OriginalsSent'
  BY <1>2, <1>6, <1>8, <1>10 DEF VideosGood, Followed, OriginalsLeft, OriginalsSent
<1>12. TasksTrue'
  <2> SUFFICES ASSUME NEW k \in Slot PROVE TaskTrue(task[k], cloud')
    BY <1>2 DEF TasksTrue
  <2>1. TaskTrue(task[k], cloud) /\ TaskWell(task[k])
    BY <1>8 DEF VideosGood, TasksTrue, VideosInv, VideosTyped
  <2>2. task[k] # None /\ task[k].kind = "refresh" /\ task[k].at \in {"clip", "send", "write"} =>
          task[k].value.uid \in V!Video
    BY <2>1 DEF TaskWell, Streamed
  <2> QED BY <1>6, <2>1, <2>2 DEF TaskTrue, Clipped
<1>13. FormsCounted'
  <2>1. form # None => form.uid \in V!Video
    BY DEF VideosInv, VideosTyped, ShownForm
  <2> QED BY <1>2, <1>6, <1>8, <2>1 DEF VideosGood, FormsCounted
<1>14. OneUpload'
  BY <1>2, <1>6, <1>8, <1>10 DEF VideosGood, OneUpload
<1> QED BY <1>9, <1>11, <1>12, <1>13, <1>14 DEF VideosGood

-----------------------------------------------------------------------------
(* Deletions at Cloudflare. *)

\* What delete_video_data does to the videos.
LEMMA Deleted ==
  ASSUME VideosTyped, NEW v \in V!Video, V!delete_video_data(v)
  PROVE  /\ cloud' \in [V!Video -> Uploaded \cup {None, Gone}]
         /\ cloud'[v] \in {None, Gone}
         /\ \A w \in V!Video : /\ cloud'[w] = None <=> cloud[w] = None
                               /\ w # v => cloud'[w] = cloud[w]
<1> DEFINE c == IF cloud[v] = None THEN None ELSE Gone
<1>1. cloud' = [cloud EXCEPT ![v] = c] /\ cloud \in [V!Video -> Uploaded \cup {None, Gone}]
  BY DEF V!delete_video_data, VideosTyped
<1>2. c \in {None, Gone} /\ (c = None <=> cloud[v] = None)
  BY VideoAssumption
<1> HIDE DEF c
<1> QED BY <1>1, <1>2

\* The video of an object is deleted.
LEMMA VideosPreDelete ==
  ASSUME VideosInv, NEW i \in Slot, V!pre_delete(i)
  PROVE  VideosInv'
<1> DEFINE u == task[i].uid
           t == [task[i] EXCEPT !.at = "write"]
<1>1. /\ task[i] # None /\ task[i].kind = "delete" /\ task[i].at = "running"
      /\ task' = [task EXCEPT ![i].at = "write"] /\ UNCHANGED <<field, form, forms, lost>>
      /\ lost \in BOOLEAN /\ cloud \in [V!Video -> Uploaded \cup {None, Gone}]
  BY DEF V!pre_delete, V!Doing, V!At, VideosInv, VideosTyped
<1>2. task[i] \in StreamTask /\ task' = [task EXCEPT ![i] = t] /\ u \in 0..MaxVideos
  BY <1>1, Running DEF VideosInv, VideosTyped, StreamTask
<1>3. t \in StreamTask /\ t.kind = "delete" /\ t.at = "write" /\ t.uid = u
  BY <1>1, <1>2 DEF StreamTask
<1> HIDE DEF t
<1>4. t # None /\ TaskWell(t) /\ ~Original(t) /\ ~Original(task[i]) /\ ~Clipped(t) /\ ~Clipped(task[i]) /\ Quiet(t)
  BY <1>1, <1>3, VideoAssumption DEF TaskWell, Original, Clipped, Quiet
<1>5. \A w \in V!Video : Ignores(task[i], w) => Ignores(t, w)
  BY <1>1, <1>3 DEF Ignores
<1>6. V!Deleting(t) /\ Refreshes(t)
  BY <1>3, <1>4 DEF V!Deleting, Refreshes
<1>7. ~Downloads(task[i])
  BY <1>1 DEF Downloads
<1>8. /\ cloud' \in [V!Video -> Uploaded \cup {None, Gone}]
      /\ \A w \in V!Video : /\ cloud'[w] = None <=> cloud[w] = None
                            /\ cloud'[w] \notin {None, Gone} => cloud'[w] = cloud[w]
                            /\ cloud'[w] # cloud[w] => w = u
  <2>1. CASE u = 0
    BY <1>1, <2>1 DEF V!pre_delete
  <2>2. CASE u # 0
    <3>1. u \in V!Video /\ V!delete_video_data(u)
      BY <1>2, <2>2, VideoAssumption DEF V!pre_delete, V!Video
    <3> QED BY <3>1, Deleted DEF VideosInv
  <2> QED BY <2>1, <2>2
<1>9. ~Ignores(task[i], u)
  BY <1>1 DEF Ignores
<1>10. \A c : TaskTrue(t, c)
  BY <1>3, <1>4 DEF TaskTrue
<1>f. field \in Streamed => field.uid \in V!Video
  BY DEF Streamed
<1> HIDE DEF TaskTrue
<1>11. Moves(i, t, cloud')
  BY <1>4, <1>5, <1>6, <1>7, <1>8, <1>9, <1>10, <1>f DEF Moves
<1> QED BY <1>1, <1>2, <1>3, <1>4, <1>8, <1>11, VideosMoves

\* An original is deleted, that the field leaves or has left.
LEMMA VideosDeleteOriginal ==
  ASSUME VideosInv, NEW i \in Slot, V!DeleteOriginal(i)
  PROVE  VideosInv'
<1> DEFINE u == task[i].old
<1>1. /\ task[i] # None /\ task[i].kind = "original" /\ task[i].at = "write"
      /\ task' = [task EXCEPT ![i] = None] /\ UNCHANGED <<field, form, forms, lost>>
      /\ lost \in BOOLEAN
  BY DEF V!DeleteOriginal, V!Doing, V!End, VideosInv, VideosTyped
<1>2. u \in V!Video
  BY <1>1, Running DEF TaskWell
<1>3. /\ cloud' \in [V!Video -> Uploaded \cup {None, Gone}]
      /\ cloud'[u] \in {None, Gone}
      /\ \A w \in V!Video : /\ cloud'[w] = None <=> cloud[w] = None
                            /\ cloud'[w] \notin {None, Gone} => cloud'[w] = cloud[w]
                            /\ cloud'[w] # cloud[w] => w = u
  BY <1>2, Deleted DEF VideosInv, V!DeleteOriginal
<1>4. TaskWell(None) /\ ~Clipped(None) /\ ~Original(None) /\ \A v \in V!Video : Ignores(None, v)
  BY DEF TaskWell, Clipped, Original, Ignores
<1>5. \A c : TaskTrue(None, c)
  BY DEF TaskTrue, Clipped
<1>6. ~Refreshes(task[i]) /\ ~Downloads(task[i]) /\ ~V!Deleting(task[i]) /\ ~Clipped(task[i]) /\ ~Quiet(task[i])
  BY <1>1 DEF Refreshes, Downloads, V!Deleting, Clipped, Quiet
<1>7. ~Ignores(task[i], u) /\ Original(task[i])
  BY <1>1 DEF Ignores, Original
<1>f. field \in Streamed => field.uid \in V!Video
  BY DEF Streamed
<1> HIDE DEF TaskTrue
<1>8. ASSUME lost = FALSE, field # Gone PROVE Moves(i, None, cloud')
  <2>1. ASSUME field \in Streamed, cloud'[field.uid] = Gone, cloud[field.uid] # Gone
        PROVE  \E k \in Slot : k # i /\ Replaces(task[k], field.uid)
    <3>1. field.uid = u
      BY <1>3, <1>f, <2>1
    <3>2. PICK k \in Slot : Replaces(task[k], field.uid)
      BY <1>7, <1>8, <2>1, <3>1 DEF VideosInv, VideosGood, OriginalsLeft
    <3> QED BY <1>6, <3>2 DEF Replaces
  <2> QED BY <1>3, <1>4, <1>5, <1>6, <1>7, <2>1 DEF Moves
<1> QED BY <1>1, <1>3, <1>4, <1>8, VideosMoves

-----------------------------------------------------------------------------
(* Forms. *)

\* The videos with a new one.
LEMMA Added ==
  ASSUME VideosTyped, NEW n \in V!Video, cloud[n] = None, NEW c \in Uploaded,
         cloud' = [cloud EXCEPT ![n] = c]
  PROVE  /\ cloud' \in [V!Video -> Uploaded \cup {None, Gone}]
         /\ cloud'[n] = c /\ c \notin {None, Gone} /\ \A v \in V!Video : v # n => cloud'[v] = cloud[v]
<1>1. cloud \in [V!Video -> Uploaded \cup {None, Gone}]
  BY DEF VideosTyped
<1> QED BY <1>1, VideoAssumption

\* A new video, which nothing names, changes nothing of what a task is going to save.
LEMMA AddedTrue ==
  ASSUME VideosInv, lost = FALSE, field # Gone, NEW n \in V!Video, cloud[n] = None,
         \A v \in V!Video : v # n => cloud'[v] = cloud[v], NEW k \in Slot
  PROVE  TaskTrue(task[k], cloud')
<1>1. VideosGood /\ TaskTrue(task[k], cloud) /\ TaskWell(task[k])
  BY DEF VideosInv, VideosGood, TasksTrue, VideosTyped
<1>2. Free(n) /\ Ignores(task[k], n)
  BY <1>1 DEF VideosGood, FreshFree, Free, Unnamed
<1>3. task[k] # None /\ task[k].kind = "refresh" /\ task[k].at \in {"clip", "send", "write"} =>
        task[k].value.uid \in V!Video
  BY <1>1 DEF TaskWell, Streamed
<1>4. Clipped(task[k]) => task[k].value.uid # n
  BY <1>1, <1>3 DEF VideosGood, ClipsFree, Clipped
<1>5. /\ task[k] # None /\ task[k].kind = "refresh" /\ task[k].at \in {"clip", "write"} /\ ~Clipped(task[k])
      => task[k].value.uid # n
  BY <1>1, <1>2 DEF TaskWell, Ignores, Clipped
<1> QED BY <1>1, <1>3, <1>4, <1>5 DEF TaskTrue, Clipped

\* An upload from a form.
LEMMA VideosUpload ==
  ASSUME VideosInv, V!Upload
  PROVE  VideosInv'
<1> DEFINE n == V!Next1
           c == [state |-> "queued", from |-> None, whole |-> FALSE, url |-> FALSE]
<1>1. /\ form = None /\ field # Gone /\ forms < MaxForms /\ forms' = forms + 1
      /\ cloud' = [cloud EXCEPT ![n] = c]
      /\ form' = [uid |-> n, upload |-> TRUE, value |-> None, sent |-> FALSE]
      /\ UNCHANGED <<field, task, lost>>
  BY DEF V!Upload
<1>2. n \in V!Video /\ cloud[n] = None
  BY NextIsFresh DEF V!Upload
<1>3. c \in Uploaded /\ c.from = None
  BY DEF Uploaded, V!States
<1> HIDE DEF n, c
<1>4. /\ cloud' \in [V!Video -> Uploaded \cup {None, Gone}]
      /\ cloud'[n] = c /\ c \notin {None, Gone} /\ \A v \in V!Video : v # n => cloud'[v] = cloud[v]
  BY <1>1, <1>2, <1>3, Added DEF VideosInv
<1>5. /\ form' \in ShownForm /\ form'.uid = n /\ form'.upload = TRUE /\ form'.value = None /\ form'.sent = FALSE
  BY <1>1, <1>2 DEF ShownForm
<1>6. forms \in Nat /\ forms' \in 0..MaxForms /\ forms' # 0 /\ (forms' = 1 => forms = 0)
  BY <1>1, VideoAssumption DEF VideosInv, VideosTyped
<1>7. VideosTyped'
  BY <1>1, <1>4, <1>5, <1>6 DEF VideosInv, VideosTyped
<1> SUFFICES ASSUME lost = FALSE, field # Gone PROVE VideosGood'
  BY <1>1, <1>7 DEF VideosInv
<1>8. VideosGood
  BY DEF VideosInv
<1>9. \A v \in V!Video : Unnamed(v)' <=> Unnamed(v)
  BY <1>1 DEF Unnamed
<1>10. \A v \in V!Video : Free(v) /\ v # n => Free(v)'
  BY <1>5, <1>9 DEF Free
<1>11. Free(n)
  BY <1>2, <1>8 DEF VideosGood, FreshFree
<1>12. FreshFree'
  BY <1>4, <1>8, <1>10 DEF VideosGood, FreshFree
<1>13. ClipsFree'
  <2> SUFFICES ASSUME NEW j \in Slot, NEW v \in V!Video, Clipped(task[j]), task[j].value.uid = v
               PROVE  /\ cloud'[v] \notin {None, Gone} /\ Free(v)'
                      /\ \A k \in Slot : k # j /\ Clipped(task[k]) => task[k].value.uid # v
    BY <1>1 DEF ClipsFree, Clipped
  <2>1. /\ cloud[v] \notin {None, Gone} /\ Free(v)
        /\ \A k \in Slot : k # j /\ Clipped(task[k]) => task[k].value.uid # v
    BY <1>8 DEF VideosGood, ClipsFree
  <2>2. v # n
    BY <1>2, <2>1
  <2> QED BY <1>4, <1>10, <2>1, <2>2
<1>14. UploadFree'
  BY <1>4, <1>5, <1>9, <1>11 DEF UploadFree, Free
<1>15. field \in Streamed => field.uid \in V!Video /\ field.uid # n
  BY <1>11 DEF Streamed, Free, Unnamed
<1>16. Followed' /\ OriginalsLeft'
  BY <1>1, <1>4, <1>8, <1>15 DEF VideosGood, Followed, OriginalsLeft
<1>17. OriginalsSent'
  <2> SUFFICES ASSUME NEW j \in Slot, NEW v \in V!Video, Replaces(task[j], v), cloud'[v] \notin {None, Gone}
               PROVE  \E k \in Slot : Original(task[k]) /\ task[k].old = v
    BY <1>1 DEF OriginalsSent
  <2>1. v # n
    BY <1>11 DEF Free, Unnamed, Ignores, Replaces, Clipped
  <2> QED BY <1>4, <1>8, <2>1 DEF VideosGood, OriginalsSent
<1>18. TasksTrue'
  BY <1>1, <1>2, <1>4, AddedTrue DEF TasksTrue
<1>19. FormsCounted'
  <2>1. forms' = 1 =>
          /\ field \notin Streamed /\ \A i \in Slot : Quiet(task[i])
          /\ \A v \in V!Video : cloud[v] = None
    BY <1>6, <1>8 DEF VideosGood, FormsCounted
  <2> QED BY <1>1, <1>3, <1>4, <1>5, <1>6, <2>1 DEF FormsCounted
<1>20. OneUpload'
  BY <1>1, <1>6, <1>8 DEF VideosGood, FormsCounted, OneUpload
<1> QED BY <1>12, <1>13, <1>14, <1>16, <1>17, <1>18, <1>19, <1>20 DEF VideosGood

\* A form is opened.
LEMMA VideosOpen ==
  ASSUME VideosInv, V!OpenForm
  PROVE  VideosInv'
<1>1. /\ form = None /\ field \in Streamed /\ forms < MaxForms /\ forms' = forms + 1
      /\ form' = [uid |-> field.uid, upload |-> FALSE, value |-> None, sent |-> FALSE]
      /\ UNCHANGED <<cloud, field, task, lost>>
  BY DEF V!OpenForm, V!Holds, VideosInv, VideosTyped
<1>2. form' \in ShownForm /\ form'.uid = field.uid /\ form'.upload = FALSE /\ form'.value = None
  BY <1>1 DEF ShownForm, Streamed
<1>3. forms \in Nat /\ forms' \in 0..MaxForms /\ forms' # 0 /\ (forms' = 1 => forms = 0)
  BY <1>1, VideoAssumption DEF VideosInv, VideosTyped
<1>4. VideosTyped'
  BY <1>1, <1>2, <1>3 DEF VideosInv, VideosTyped
<1> SUFFICES ASSUME lost = FALSE, field # Gone PROVE VideosGood'
  BY <1>1, <1>4 DEF VideosInv
<1>5. VideosGood
  BY DEF VideosInv
<1>6. forms # 0
  BY <1>1, <1>5 DEF VideosGood, FormsCounted
<1>7. \A v \in V!Video : Unnamed(v)' <=> Unnamed(v)
  BY <1>1 DEF Unnamed
<1>8. \A v \in V!Video : Free(v) => Free(v)'
  BY <1>1, <1>2, <1>7 DEF Free, Unnamed
<1>9. FreshFree' /\ ClipsFree'
  BY <1>1, <1>5, <1>8 DEF VideosGood, FreshFree, ClipsFree
<1>10. UploadFree'
  BY <1>2 DEF UploadFree
<1>11. Followed' /\ OriginalsLeft' /\ OriginalsSent' /\ TasksTrue'
  BY <1>1, <1>5 DEF VideosGood, Followed, OriginalsLeft, OriginalsSent, TasksTrue
<1>12. FormsCounted' /\ OneUpload'
  BY <1>3, <1>6 DEF FormsCounted, OneUpload
<1> QED BY <1>9, <1>10, <1>11, <1>12 DEF VideosGood

\* A form is sent, and what it holds is saved.
LEMMA VideosFormSent ==
  ASSUME VideosInv, V!value_from_datadict
  PROVE  VideosInv'
<1> DEFINE d == V!get_video_data(form.uid)
<1>1. /\ form # None /\ form \in ShownForm /\ form' = [form EXCEPT !.sent = TRUE, !.value = d]
      /\ UNCHANGED <<cloud, field, task, forms, lost>>
  BY DEF V!value_from_datadict, VideosInv, VideosTyped
<1>2. form.uid \in V!Video
  BY <1>1 DEF ShownForm
<1>3. /\ cloud[form.uid] \in {None, Gone} => d = None
      /\ cloud[form.uid] \notin {None, Gone} => /\ d \in Streamed /\ d.uid = form.uid
                                                /\ d.clipped = TRUE <=> cloud[form.uid].from # None
  BY <1>2, VideoData DEF VideosInv
<1>4. d \in Streamed => d.clipped \in BOOLEAN /\ d # None
  BY VideoAssumption DEF Streamed
<1>a. d \in Streamed \cup {None}
  <2>1. cloud[form.uid] \in {None, Gone} \/ cloud[form.uid] \notin {None, Gone}
    OBVIOUS
  <2> HIDE DEF d
  <2> QED BY <1>3, <2>1
<1> HIDE DEF d
<1>b. /\ form' \in ShownForm /\ form'.uid = form.uid /\ form'.upload = form.upload /\ form'.value = d
  BY <1>1, <1>a DEF ShownForm
<1>5. /\ form' \in ShownForm /\ form'.uid = form.uid /\ form'.upload = form.upload /\ form'.value = d
      /\ form' # None
  BY <1>b, VideoAssumption
<1>6. VideosTyped'
  BY <1>1, <1>3, <1>5 DEF VideosInv, VideosTyped
<1> SUFFICES ASSUME lost = FALSE, field # Gone PROVE VideosGood'
  BY <1>1, <1>6 DEF VideosInv
<1>7. VideosGood
  BY DEF VideosInv
<1>8. \A v \in V!Video : Unnamed(v)' <=> Unnamed(v)
  BY <1>1 DEF Unnamed
<1>9. \A v \in V!Video : Free(v) => Free(v)'
  BY <1>1, <1>5, <1>8 DEF Free
<1>10. FreshFree' /\ ClipsFree'
  BY <1>1, <1>7, <1>9 DEF VideosGood, FreshFree, ClipsFree
<1>11. UploadFree'
  <2> SUFFICES ASSUME NEW v \in V!Video, form'.upload = TRUE, form'.uid = v
               PROVE  cloud[v] \notin {None, Gone} /\ Unnamed(v)' /\ form'.value # None
    BY <1>1 DEF UploadFree
  <2>1. cloud[v] \notin {None, Gone} /\ Unnamed(v)
    BY <1>1, <1>5, <1>7 DEF VideosGood, UploadFree
  <2> QED BY <1>3, <1>4, <1>5, <1>8, <2>1
<1>12. Followed' /\ OriginalsLeft' /\ OriginalsSent' /\ TasksTrue' /\ OneUpload'
  BY <1>1, <1>7 DEF VideosGood, Followed, OriginalsLeft, OriginalsSent, TasksTrue, OneUpload
<1>13. FormsCounted'
  <2>1. forms # 0
    BY <1>1, <1>7 DEF VideosGood, FormsCounted
  <2>2. forms = 1 => /\ field \notin Streamed /\ \A i \in Slot : Quiet(task[i])
                     /\ form.upload = TRUE /\ cloud[form.uid].from = None
                     /\ \A v \in V!Video : cloud[v] \notin {None, Gone} => v = form.uid
    BY <1>1, <1>7 DEF VideosGood, FormsCounted
  <2>3. forms = 1 /\ d # None => d.clipped = FALSE
    BY <1>3, <1>4, <2>2
  <2> QED BY <1>1, <1>5, <2>1, <2>2, <2>3 DEF FormsCounted
<1> QED BY <1>10, <1>11, <1>12, <1>13 DEF VideosGood

-----------------------------------------------------------------------------
(* A new clip. *)

\* A clip is made.
LEMMA VideosClip ==
  ASSUME VideosInv, NEW i \in Slot, V!clip_video(i)
  PROVE  VideosInv'
<1> DEFINE n == V!Next1
           r == task[i].read.uid
           c == [state |-> "queued", from |-> r, whole |-> FALSE, url |-> FALSE]
           w == V!Trimmed(r, n)
           t == [task[i] EXCEPT !.value = w, !.uid = n, !.at = "send"]
<1>1. /\ task[i] # None /\ task[i].kind = "refresh" /\ task[i].at = "clip" /\ cloud[r] \notin {None, Gone}
      /\ cloud' = [cloud EXCEPT ![n] = c] /\ UNCHANGED <<field, form, forms, lost>>
  BY DEF V!clip_video, V!Doing, V!Exists
<1>2. /\ task[i] \in StreamTask /\ TaskWell(task[i]) /\ r \in V!Video /\ task[i].read \in Streamed
  BY <1>1, Running
<1>3. n \in V!Video /\ cloud[n] = None
  BY NextIsFresh DEF V!clip_video
<1>4. task' = [task EXCEPT ![i] = t]
  BY <1>2 DEF V!clip_video, VideosInv, VideosTyped
<1>5. c \in Uploaded /\ c.from = r
  BY <1>2 DEF Uploaded, V!States
<1>6. w \in Streamed /\ w.uid = n /\ w.clipped = TRUE
  BY <1>3 DEF V!Trimmed, Streamed, V!States
<1>a. n \in 0..MaxVideos
  BY <1>3, VideoAssumption DEF V!Video
<1> HIDE DEF n, r, c, w
<1>7. /\ cloud' \in [V!Video -> Uploaded \cup {None, Gone}]
      /\ cloud'[n] = c /\ c \notin {None, Gone} /\ \A v \in V!Video : v # n => cloud'[v] = cloud[v]
  BY <1>1, <1>3, <1>5, Added DEF VideosInv
<1>8. /\ t \in StreamTask /\ t.kind = "refresh" /\ t.at = "send" /\ t.value = w /\ t.read = task[i].read
  BY <1>1, <1>2, <1>6, <1>a DEF StreamTask
<1> HIDE DEF t
<1>9. t # None /\ t.value.uid = n /\ t.read.uid = r /\ n # r
  BY <1>1, <1>3, <1>6, <1>8, VideoAssumption DEF r
<1>10. TaskWell(t) /\ Clipped(t) /\ Refreshes(t)
  BY <1>2, <1>6, <1>8, <1>9 DEF TaskWell, Clipped, Refreshes
<1>11. /\ ~Clipped(task[i]) /\ ~Original(task[i]) /\ ~Original(t) /\ ~Downloads(task[i]) /\ ~Quiet(task[i])
       /\ ~V!Deleting(task[i]) /\ \A v : ~Replaces(task[i], v) /\ ~Replaces(t, v)
  BY <1>1, <1>8 DEF Clipped, Original, Downloads, Quiet, V!Deleting, Replaces
<1>12. \A v \in V!Video : Ignores(task[i], v) => Ignores(t, v)
  BY <1>1, <1>8 DEF Ignores
<1>13. /\ task' \in [Slot -> StreamTask \cup {None}] /\ task'[i] = t
       /\ \A k \in Slot : k # i => task'[k] = task[k]
  BY <1>4, <1>8 DEF VideosInv, VideosTyped
<1>14. VideosTyped'
  <2>1. \A k \in Slot : TaskWell(task'[k])
    BY <1>10, <1>13 DEF VideosInv, VideosTyped
  <2> QED BY <1>1, <1>7, <1>13, <2>1 DEF VideosInv, VideosTyped
<1> SUFFICES ASSUME lost = FALSE, field # Gone PROVE VideosGood'
  BY <1>1, <1>14 DEF VideosInv
<1>15. VideosGood
  BY DEF VideosInv
<1>16. \A v \in V!Video : Unnamed(v) => Unnamed(v)'
  BY <1>1, <1>12, <1>13 DEF Unnamed
<1>17. \A v \in V!Video : Free(v) => Free(v)'
  BY <1>1, <1>16 DEF Free
<1>18. Free(n)
  BY <1>3, <1>15 DEF VideosGood, FreshFree
<1>19. FreshFree'
  BY <1>7, <1>15, <1>17 DEF VideosGood, FreshFree
<1>20. ClipsFree'
  <2> SUFFICES ASSUME NEW j \in Slot, NEW v \in V!Video, Clipped(task'[j]), task'[j].value.uid = v
               PROVE  /\ cloud'[v] \notin {None, Gone} /\ Free(v)'
                      /\ \A k \in Slot : k # j /\ Clipped(task'[k]) => task'[k].value.uid # v
    BY DEF ClipsFree, Clipped
  <2>0. \A k \in Slot : \A x \in V!Video : Clipped(task[k]) /\ task[k].value.uid = x =>
          /\ x # n /\ cloud[x] \notin {None, Gone} /\ Free(x)
          /\ \A l \in Slot : l # k /\ Clipped(task[l]) => task[l].value.uid # x
    BY <1>3, <1>15 DEF VideosGood, ClipsFree
  <2>1. CASE j = i
    <3>1. v = n
      BY <1>9, <1>13, <2>1
    <3>2. ASSUME NEW k \in Slot, k # i, Clipped(task'[k]), task'[k].value.uid = n PROVE FALSE
      BY <1>3, <1>13, <2>0, <3>2
    <3> QED BY <1>7, <1>17, <1>18, <2>1, <3>1, <3>2
  <2>2. CASE j # i
    <3>1. task'[j] = task[j]
      BY <1>13, <2>2
    <3>2. /\ v # n /\ cloud[v] \notin {None, Gone} /\ Free(v)
          /\ \A k \in Slot : k # j /\ Clipped(task[k]) => task[k].value.uid # v
      BY <2>0, <3>1
    <3>3. \A k \in Slot : k # j /\ Clipped(task'[k]) => task'[k].value.uid # v
      BY <1>9, <1>13, <3>2
    <3> QED BY <1>7, <1>17, <3>2, <3>3
  <2> QED BY <2>1, <2>2
<1>21. UploadFree'
  <2>1. \A v \in V!Video : cloud[v] \notin {None, Gone} => cloud'[v] \notin {None, Gone}
    BY <1>7
  <2> QED BY <1>1, <1>15, <1>16, <2>1 DEF VideosGood, UploadFree
<1>22. field \in Streamed => field.uid \in V!Video /\ field.uid # n
  BY <1>18 DEF Streamed, Free, Unnamed
<1>23. \A k \in Slot : \A v : Replaces(task'[k], v) <=> Replaces(task[k], v)
  BY <1>11, <1>13
<1>24. \A k \in Slot : /\ Original(task'[k]) <=> Original(task[k])
                       /\ Original(task[k]) => task'[k].old = task[k].old
                       /\ V!Deleting(task[k]) => V!Deleting(task'[k])
                       /\ Refreshes(task[k]) => Refreshes(task'[k])
                       /\ Downloads(task[k]) => Downloads(task'[k])
  BY <1>10, <1>11, <1>13
<1>25. Followed'
  <2> SUFFICES ASSUME field \in Streamed
               PROVE  /\ \/ cloud'[field.uid] \notin {None, Gone}
                         \/ \E k \in Slot : Replaces(task'[k], field.uid) \/ V!Deleting(task'[k])
                      /\ field.state # "ready" => \E k \in Slot : Refreshes(task'[k])
                      /\ Downloadable /\ field.state = "ready" /\ field.url = FALSE =>
                           \E k \in Slot : Downloads(task'[k])
    BY <1>1 DEF Followed, Replaces, Clipped, V!Deleting, Refreshes, Downloads
  <2>1. cloud'[field.uid] = cloud[field.uid]
    BY <1>7, <1>22
  <2> QED BY <1>15, <1>23, <1>24, <2>1 DEF VideosGood, Followed
<1>26. OriginalsLeft'
  <2> SUFFICES ASSUME field \in Streamed, NEW k \in Slot, Original(task'[k]), task'[k].old = field.uid
               PROVE  \E j \in Slot : Replaces(task'[j], field.uid)
    BY <1>1 DEF OriginalsLeft, Replaces, Clipped
  <2> QED BY <1>15, <1>23, <1>24 DEF VideosGood, OriginalsLeft
<1>27. OriginalsSent'
  <2> SUFFICES ASSUME NEW j \in Slot, NEW v \in V!Video, Replaces(task'[j], v), cloud'[v] \notin {None, Gone}
               PROVE  \E k \in Slot : Original(task'[k]) /\ task'[k].old = v
    BY DEF OriginalsSent, Replaces, Clipped, Original
  <2>1. Replaces(task[j], v)
    BY <1>23
  <2>2. v # n
    BY <1>18, <2>1 DEF Free, Unnamed, Ignores, Replaces, Clipped
  <2> QED BY <1>7, <1>15, <1>24, <2>1, <2>2 DEF VideosGood, OriginalsSent
<1>28. TasksTrue'
  <2> SUFFICES ASSUME NEW k \in Slot PROVE TaskTrue(task'[k], cloud')
    BY DEF TasksTrue
  <2>1. CASE k = i
    <3>1. cloud'[t.value.uid].from # None
      BY <1>2, <1>5, <1>7, <1>9, VideoAssumption
    <3>2. TaskTrue(t, cloud')
      BY <1>6, <1>8, <1>10, <3>1 DEF TaskTrue
    <3> QED BY <1>13, <2>1, <3>2
  <2>2. CASE k # i
    <3>1. TaskTrue(task[k], cloud')
      BY <1>3, <1>7, AddedTrue
    <3> QED BY <1>13, <2>2, <3>1
  <2> QED BY <2>1, <2>2
<1>29. forms # 0 /\ (forms = 1 => form = None)
  BY <1>11, <1>15 DEF VideosGood, FormsCounted
<1>30. FormsCounted'
  BY <1>1, <1>29 DEF FormsCounted
<1>31. OneUpload'
  <2> SUFFICES ASSUME forms = 1, field \in Streamed
               PROVE  /\ cloud'[field.uid] \notin {None, Gone} =>
                           /\ field.clipped = TRUE <=> cloud'[field.uid].from # None
                           /\ field.clipped = FALSE /\ field.state = "ready" /\ Trim => cloud'[field.uid].whole = TRUE
                      /\ \A v \in V!Video : cloud'[v] \notin {None, Gone} /\ v # field.uid =>
                           \E k \in Slot : \/ Original(task'[k]) /\ task'[k].old = v
                                           \/ Clipped(task'[k]) /\ task'[k].value.uid = v
    BY <1>1 DEF OneUpload, Original, Clipped
  <2>1. cloud'[field.uid] = cloud[field.uid]
    BY <1>7, <1>22
  <2>2. ASSUME NEW v \in V!Video, cloud'[v] \notin {None, Gone}, v # field.uid
        PROVE  \E k \in Slot : \/ Original(task'[k]) /\ task'[k].old = v
                               \/ Clipped(task'[k]) /\ task'[k].value.uid = v
    <3>1. CASE v = n
      BY <1>9, <1>10, <1>13, <3>1
    <3>2. CASE v # n
      <4>1. PICK k \in Slot : \/ Original(task[k]) /\ task[k].old = v
                              \/ Clipped(task[k]) /\ task[k].value.uid = v
        BY <1>7, <1>15, <2>2, <3>2 DEF VideosGood, OneUpload
      <4>2. k # i
        BY <1>11, <4>1
      <4> QED BY <1>13, <4>1, <4>2
    <3> QED BY <3>1, <3>2
  <2> QED BY <1>15, <2>1, <2>2 DEF VideosGood, OneUpload
<1> QED BY <1>19, <1>20, <1>21, <1>25, <1>26, <1>27, <1>28, <1>30, <1>31 DEF VideosGood

\* The deletion of the original is queued.
LEMMA VideosSend ==
  ASSUME VideosInv, NEW i \in Slot, V!Send(i)
  PROVE  VideosInv'
<1> DEFINE r == task[i].read.uid
           o == V!New("original", task[i].uid, r)
           t == [task[i] EXCEPT !.at = "write"]
           ts == [task EXCEPT ![i] = t]
<1>1. /\ task[i] # None /\ task[i].kind = "refresh" /\ task[i].at = "send"
      /\ UNCHANGED <<cloud, field, form, forms, lost>>
  BY DEF V!Send, V!Doing
<1>2. /\ task[i] \in StreamTask /\ TaskWell(task[i]) /\ r \in V!Video /\ task[i].uid \in 0..MaxVideos
      /\ r \in 0..MaxVideos
  <2>1. /\ task[i] \in StreamTask /\ TaskWell(task[i]) /\ r \in V!Video
    BY <1>1, Running
  <2> QED BY <2>1, VideoAssumption DEF StreamTask, V!Video
<1>3. o \in StreamTask /\ o.kind = "original" /\ o.old = r /\ o.at = "queued"
  BY <1>2, NewTask
<1>4. /\ t \in StreamTask /\ t.kind = "refresh" /\ t.at = "write" /\ t.value = task[i].value
      /\ t.read = task[i].read
  BY <1>1, <1>2 DEF StreamTask
<1>a. task' \in V!Queue(ts, {o})
  BY <1>2 DEF V!Send, VideosInv, VideosTyped
<1> HIDE DEF r, o, t
<1>5. o # None /\ t # None
  BY <1>3, <1>4, VideoAssumption
<1>6. /\ ts \in [Slot -> StreamTask \cup {None}] /\ ts[i] = t
      /\ \A k \in Slot : k # i => ts[k] = task[k]
  BY <1>4 DEF VideosInv, VideosTyped
<1> HIDE DEF ts
<1>7. /\ task' \in [Slot -> StreamTask \cup {None}]
      /\ \A k \in Slot : ts[k] # None => task'[k] = ts[k]
      /\ \A k \in Slot : task'[k] = ts[k] \/ task'[k] \in {o}
      /\ \E k \in Slot : task'[k] = o
  BY <1>3, <1>6, <1>a, Queued
<1>8. /\ task'[i] = t
      /\ \A k \in Slot : k # i => task'[k] = task[k] \/ (task[k] = None /\ task'[k] = o)
  BY <1>5, <1>6, <1>7
<1>9. TaskWell(o) /\ Original(o) /\ ~Clipped(o) /\ ~Refreshes(o) /\ ~Downloads(o) /\ ~V!Deleting(o)
      /\ ~Quiet(o)
  BY <1>2, <1>3, <1>5 DEF TaskWell, Original, Clipped, Refreshes, Downloads, V!Deleting, Quiet
<1>10. Clipped(task[i]) /\ task[i].value \in Streamed
  BY <1>1, <1>2 DEF TaskWell, Clipped
<1>11. TaskWell(t)
  BY <1>1, <1>2, <1>4, <1>10 DEF TaskWell
<1>12. Clipped(t) /\ Refreshes(t) /\ Replaces(t, r) /\ \A v : Replaces(t, v) => v = r
  BY <1>4, <1>5, <1>10 DEF Clipped, Refreshes, Replaces, r
<1>13. /\ ~Original(task[i]) /\ ~Original(t) /\ ~Downloads(task[i]) /\ ~Quiet(task[i])
       /\ ~V!Deleting(task[i]) /\ \A v : ~Replaces(task[i], v)
  BY <1>1, <1>4 DEF Original, Downloads, Quiet, V!Deleting, Replaces
<1>14. \A v \in V!Video : Ignores(task[i], v) => Ignores(t, v) /\ Ignores(o, v)
  BY <1>1, <1>3, <1>4 DEF Ignores, r
<1>15. VideosTyped'
  <2>1. \A k \in Slot : TaskWell(task'[k])
    BY <1>8, <1>9, <1>11 DEF VideosInv, VideosTyped
  <2> QED BY <1>1, <1>7, <2>1 DEF VideosInv, VideosTyped
<1> SUFFICES ASSUME lost = FALSE, field # Gone PROVE VideosGood'
  BY <1>1, <1>15 DEF VideosInv
<1>16. VideosGood
  BY DEF VideosInv
<1>17. \A v \in V!Video : Unnamed(v) => Unnamed(v)'
  BY <1>1, <1>8, <1>14 DEF Unnamed
<1>18. \A v \in V!Video : Free(v) => Free(v)'
  BY <1>1, <1>17 DEF Free
<1>19. FreshFree' /\ UploadFree'
  BY <1>1, <1>16, <1>17, <1>18 DEF VideosGood, FreshFree, UploadFree
<1>20. \A k \in Slot : /\ Clipped(task'[k]) <=> Clipped(task[k])
                       /\ Clipped(task[k]) => task'[k].value = task[k].value
  <2>1. ~Clipped(None)
    BY DEF Clipped
  <2> QED BY <1>4, <1>8, <1>9, <1>10, <1>12, <2>1
<1>21. ClipsFree'
  <2> SUFFICES ASSUME NEW j \in Slot, NEW v \in V!Video, Clipped(task'[j]), task'[j].value.uid = v
               PROVE  /\ cloud'[v] \notin {None, Gone} /\ Free(v)'
                      /\ \A k \in Slot : k # j /\ Clipped(task'[k]) => task'[k].value.uid # v
    BY DEF ClipsFree, Clipped
  <2>1. Clipped(task[j]) /\ task[j].value.uid = v
    BY <1>20
  <2>2. /\ cloud[v] \notin {None, Gone} /\ Free(v)
        /\ \A k \in Slot : k # j /\ Clipped(task[k]) => task[k].value.uid # v
    BY <1>16, <2>1 DEF VideosGood, ClipsFree
  <2>3. \A k \in Slot : k # j /\ Clipped(task'[k]) => task'[k].value.uid # v
    BY <1>20, <2>2
  <2> QED BY <1>1, <1>18, <2>2, <2>3
<1>22. \A k \in Slot : \A v : Replaces(task[k], v) => Replaces(task'[k], v)
  BY <1>8, <1>13 DEF Replaces, Clipped
<1>23. \A k \in Slot : /\ Original(task[k]) => task'[k] = task[k]
                       /\ V!Deleting(task[k]) => V!Deleting(task'[k])
                       /\ Refreshes(task[k]) => Refreshes(task'[k])
                       /\ Downloads(task[k]) => Downloads(task'[k])
  BY <1>8, <1>12, <1>13 DEF Original, V!Deleting, Refreshes, Downloads
<1>24. Followed'
  <2> SUFFICES ASSUME field \in Streamed
               PROVE  /\ \/ cloud[field.uid] \notin {None, Gone}
                         \/ \E k \in Slot : Replaces(task'[k], field.uid) \/ V!Deleting(task'[k])
                      /\ field.state # "ready" => \E k \in Slot : Refreshes(task'[k])
                      /\ Downloadable /\ field.state = "ready" /\ field.url = FALSE =>
                           \E k \in Slot : Downloads(task'[k])
    BY <1>1 DEF Followed, Replaces, Clipped, V!Deleting, Refreshes, Downloads
  <2> QED BY <1>16, <1>22, <1>23 DEF VideosGood, Followed
<1>25. OriginalsLeft'
  <2> SUFFICES ASSUME field \in Streamed, NEW k \in Slot, Original(task'[k]), task'[k].old = field.uid
               PROVE  \E j \in Slot : Replaces(task'[j], field.uid)
    BY <1>1 DEF OriginalsLeft, Replaces, Clipped
  <2>1. CASE task'[k] = o
    BY <1>3, <1>8, <1>12, <2>1
  <2>2. CASE task'[k] = task[k]
    BY <1>16, <1>22, <2>2 DEF VideosGood, OriginalsLeft
  <2> QED BY <1>8, <1>13, <2>1, <2>2
<1>26. OriginalsSent'
  <2> SUFFICES ASSUME NEW j \in Slot, NEW v \in V!Video, Replaces(task'[j], v), cloud[v] \notin {None, Gone}
               PROVE  \E k \in Slot : Original(task'[k]) /\ task'[k].old = v
    BY <1>1 DEF OriginalsSent, Replaces, Clipped, Original
  <2>1. CASE j = i
    BY <1>3, <1>7, <1>8, <1>9, <1>12, <2>1
  <2>2. CASE j # i
    <3>1. Replaces(task[j], v)
      BY <1>8, <1>9, <2>2 DEF Replaces
    <3> QED BY <1>16, <1>23, <3>1 DEF VideosGood, OriginalsSent
  <2> QED BY <2>1, <2>2
<1>27. TasksTrue'
  <2> SUFFICES ASSUME NEW k \in Slot PROVE TaskTrue(task'[k], cloud)
    BY <1>1 DEF TasksTrue
  <2>0. TaskTrue(task[k], cloud)
    BY <1>16 DEF VideosGood, TasksTrue
  <2>1. CASE k = i
    BY <1>4, <1>8, <1>10, <1>12, <2>0, <2>1 DEF TaskTrue
  <2>2. CASE k # i /\ task'[k] = o
    BY <1>3, <1>9, <2>2 DEF TaskTrue
  <2> QED BY <1>8, <2>0, <2>1, <2>2
<1>28. forms # 0 /\ (forms = 1 => form = None)
  BY <1>13, <1>16 DEF VideosGood, FormsCounted
<1>29. FormsCounted'
  BY <1>1, <1>28 DEF FormsCounted
<1>30. OneUpload'
  <2> SUFFICES ASSUME forms = 1, field \in Streamed
               PROVE  /\ cloud[field.uid] \notin {None, Gone} =>
                           /\ field.clipped = TRUE <=> cloud[field.uid].from # None
                           /\ field.clipped = FALSE /\ field.state = "ready" /\ Trim => cloud[field.uid].whole = TRUE
                      /\ \A v \in V!Video : cloud[v] \notin {None, Gone} /\ v # field.uid =>
                           \E k \in Slot : \/ Original(task'[k]) /\ task'[k].old = v
                                           \/ Clipped(task'[k]) /\ task'[k].value.uid = v
    BY <1>1 DEF OneUpload, Original, Clipped
  <2>1. ASSUME NEW v \in V!Video, cloud[v] \notin {None, Gone}, v # field.uid
        PROVE  \E k \in Slot : \/ Original(task'[k]) /\ task'[k].old = v
                               \/ Clipped(task'[k]) /\ task'[k].value.uid = v
    <3>1. PICK k \in Slot : \/ Original(task[k]) /\ task[k].old = v
                            \/ Clipped(task[k]) /\ task[k].value.uid = v
      BY <1>16, <2>1 DEF VideosGood, OneUpload
    <3> QED BY <1>20, <1>23, <3>1
  <2> QED BY <1>16, <2>1 DEF VideosGood, OneUpload
<1> QED BY <1>19, <1>21, <1>24, <1>25, <1>26, <1>27, <1>29, <1>30 DEF VideosGood

-----------------------------------------------------------------------------
(* Saves. *)

\* The field is saved with w, and new tasks follow it; i is a task that ends with it, if any.
LEMMA VideosSaved ==
  ASSUME VideosInv, lost = FALSE, field # Gone, NEW i, NEW w \in Streamed \cup {None}, field' = w,
         form' \in {form, None}, VideosTyped',
         i \in Slot => ~Original(task[i]) /\ ~V!Deleting(task[i]),
         \A k \in Slot : task'[k] = task[k] \/ task'[k] = None \/ Waiting(task'[k]),
         \A k \in Slot : k # i /\ task[k] # None => task'[k] = task[k],
         \A k \in Slot : k = i => task'[k] # task[k] \/ ~Clipped(task[k]),
         \A v \in V!Video : /\ cloud'[v] = None <=> cloud[v] = None
                            /\ cloud'[v] = Gone <=> cloud[v] = Gone
                            /\ cloud'[v].from = cloud[v].from
                            /\ cloud[v].whole = TRUE => cloud'[v].whole = TRUE,
         w \in Streamed =>
           /\ \/ field \in Streamed /\ w.uid = field.uid
              \/ Unnamed(w.uid) /\ cloud[w.uid] \notin {None, Gone}
           /\ \A k \in Slot : Clipped(task'[k]) => task[k].value.uid # w.uid
           /\ form' # None /\ form.upload = TRUE => form.uid # w.uid
           /\ i \in Slot /\ Replaces(task[i], w.uid) => cloud[w.uid] \notin {None, Gone}
           /\ i \in Slot /\ Clipped(task[i]) => w.uid # task[i].read.uid
           /\ w.state # "ready" => \E k \in Slot : Refreshes(task'[k])
           /\ Downloadable /\ w.url = FALSE => \E k \in Slot : Downloads(task'[k]),
         FormsCounted', OneUpload'
  PROVE  VideosGood'
<1>1. VideosGood
  BY DEF VideosInv
<1>2. ~Clipped(None) /\ ~Original(None) /\ \A v \in V!Video : Ignores(None, v)
  BY DEF Clipped, Original, Ignores
<1>3. \A t : Waiting(t) => t # None /\ ~Clipped(t) /\ ~Original(t) /\ \A v \in V!Video : Ignores(t, v)
  BY WaitingTask
<1>4. w \in Streamed => w.uid \in V!Video /\ w # None
  BY VideoAssumption DEF Streamed
<1>5. \A k \in Slot : /\ Clipped(task'[k]) => k # i /\ task'[k] = task[k]
                      /\ Original(task'[k]) => task'[k] = task[k]
                      /\ Original(task[k]) => task'[k] = task[k]
  BY <1>2, <1>3 DEF Original
<1>6. \A k \in Slot : \A v \in V!Video : Ignores(task[k], v) => Ignores(task'[k], v)
  BY <1>2, <1>3
<1>7. \A v \in V!Video : Unnamed(v) /\ (w \in Streamed => w.uid # v) => Unnamed(v)'
  BY <1>6 DEF Unnamed
<1>8. \A v \in V!Video : Free(v) /\ (w \in Streamed => w.uid # v) => Free(v)'
  BY <1>7 DEF Free
<1>9. ASSUME NEW v \in V!Video, cloud[v] = None PROVE Free(v)'
  <2>1. Free(v)
    BY <1>1, <1>9 DEF VideosGood, FreshFree
  <2>2. w \in Streamed => w.uid # v
    BY <1>9, <2>1 DEF Free, Unnamed
  <2> QED BY <1>8, <2>1, <2>2
<1>10. FreshFree'
  BY <1>9 DEF FreshFree
<1>11. ClipsFree'
  <2> SUFFICES ASSUME NEW j \in Slot, NEW v \in V!Video, Clipped(task'[j]), task'[j].value.uid = v
               PROVE  /\ cloud'[v] \notin {None, Gone} /\ Free(v)'
                      /\ \A k \in Slot : k # j /\ Clipped(task'[k]) => task'[k].value.uid # v
    BY DEF ClipsFree, Clipped
  <2>1. Clipped(task[j]) /\ task[j].value.uid = v
    BY <1>5
  <2>2. /\ cloud[v] \notin {None, Gone} /\ Free(v)
        /\ \A k \in Slot : k # j /\ Clipped(task[k]) => task[k].value.uid # v
    BY <1>1, <2>1 DEF VideosGood, ClipsFree
  <2>3. w \in Streamed => w.uid # v
    BY <2>1
  <2>4. \A k \in Slot : k # j /\ Clipped(task'[k]) => task'[k].value.uid # v
    BY <1>5, <2>2
  <2> QED BY <1>8, <2>2, <2>3, <2>4
<1>12. UploadFree'
  <2> SUFFICES ASSUME NEW v \in V!Video, form' # None, form'.upload = TRUE, form'.uid = v
               PROVE  cloud'[v] \notin {None, Gone} /\ Unnamed(v)' /\ (form'.sent = TRUE => form'.value # None)
    BY DEF UploadFree
  <2>1. form' = form
    OBVIOUS
  <2>2. cloud[v] \notin {None, Gone} /\ Unnamed(v) /\ (form.sent = TRUE => form.value # None)
    BY <1>1, <2>1 DEF VideosGood, UploadFree
  <2>3. w \in Streamed => w.uid # v
    BY <2>1
  <2> QED BY <1>7, <2>1, <2>2, <2>3
<1>13. Followed'
  <2> SUFFICES ASSUME w \in Streamed
               PROVE  /\ \/ cloud'[w.uid] \notin {None, Gone}
                         \/ \E k \in Slot : Replaces(task'[k], w.uid) \/ V!Deleting(task'[k])
                      /\ w.state # "ready" => \E k \in Slot : Refreshes(task'[k])
                      /\ Downloadable /\ w.state = "ready" /\ w.url = FALSE => \E k \in Slot : Downloads(task'[k])
    BY DEF Followed, Replaces, Clipped, V!Deleting, Refreshes, Downloads
  <2>1. ASSUME cloud[w.uid] \in {None, Gone}
        PROVE  \E k \in Slot : Replaces(task'[k], w.uid) \/ V!Deleting(task'[k])
    <3>1. field \in Streamed /\ w.uid = field.uid
      BY <2>1
    <3>2. PICK k \in Slot : Replaces(task[k], w.uid) \/ V!Deleting(task[k])
      BY <1>1, <2>1, <3>1 DEF VideosGood, Followed
    <3>3. k # i /\ task[k] # None
      BY <2>1, <3>2 DEF Replaces, Clipped, V!Deleting
    <3> QED BY <3>2, <3>3
  <2> QED BY <1>4, <2>1
<1>14. OriginalsLeft'
  <2> SUFFICES ASSUME w \in Streamed, NEW k \in Slot, Original(task'[k]), task'[k].old = w.uid
               PROVE  \E j \in Slot : Replaces(task'[j], w.uid)
    BY DEF OriginalsLeft, Replaces, Clipped
  <2>1. Original(task[k]) /\ task[k].old = w.uid
    BY <1>5
  <2>2. ~Unnamed(w.uid)
    BY <2>1 DEF Unnamed, Ignores, Original
  <2>3. PICK j \in Slot : Replaces(task[j], w.uid)
    BY <1>1, <2>1, <2>2 DEF VideosGood, OriginalsLeft
  <2>4. j # i
    BY <2>3 DEF Replaces
  <2> QED BY <2>3, <2>4 DEF Replaces, Clipped
<1>15. OriginalsSent'
  <2> SUFFICES ASSUME NEW j \in Slot, NEW v \in V!Video, Replaces(task'[j], v), cloud'[v] \notin {None, Gone}
               PROVE  \E k \in Slot : Original(task'[k]) /\ task'[k].old = v
    BY DEF OriginalsSent, Replaces, Clipped, Original
  <2>1. Replaces(task[j], v)
    BY <1>5 DEF Replaces
  <2>2. PICK k \in Slot : Original(task[k]) /\ task[k].old = v
    BY <1>1, <2>1 DEF VideosGood, OriginalsSent
  <2> QED BY <1>5, <2>2
<1>16. TasksTrue'
  <2> SUFFICES ASSUME NEW k \in Slot PROVE TaskTrue(task'[k], cloud')
    BY DEF TasksTrue
  <2>1. CASE task'[k] = task[k]
    <3>1. TaskTrue(task[k], cloud) /\ TaskWell(task[k])
      BY <1>1 DEF VideosGood, TasksTrue, VideosInv, VideosTyped
    <3>2. task[k] # None /\ task[k].kind = "refresh" /\ task[k].at \in {"clip", "send", "write"} =>
            task[k].value.uid \in V!Video
      BY <3>1 DEF TaskWell, Streamed
    <3> QED BY <2>1, <3>1, <3>2 DEF TaskTrue, Clipped
  <2>2. CASE task'[k] = None
    BY <1>2, <2>2 DEF TaskTrue
  <2>3. CASE Waiting(task'[k])
    BY <2>3, WaitingTask
  <2> QED BY <2>1, <2>2, <2>3
<1> QED BY <1>10, <1>11, <1>12, <1>13, <1>14, <1>15, <1>16 DEF VideosGood

\* What the save of w leaves of the tasks ts.
LEMMA SaveTasks ==
  ASSUME NEW ts \in [Slot -> StreamTask \cup {None}], \A k \in Slot : TaskWell(ts[k]),
         NEW w \in Streamed \cup {None}, task' \in V!Queue(ts, V!post_save(w))
  PROVE  /\ task' \in [Slot -> StreamTask \cup {None}] /\ \A k \in Slot : TaskWell(task'[k])
         /\ \A k \in Slot : ts[k] # None => task'[k] = ts[k]
         /\ \A k \in Slot : task'[k] = ts[k] \/ Waiting(task'[k])
         /\ w \in Streamed =>
              /\ w.state # "ready" => \E k \in Slot : Refreshes(task'[k])
              /\ Downloadable /\ w.url = FALSE => \E k \in Slot : Downloads(task'[k])
<1>1. V!post_save(w) \in SUBSET StreamTask /\ \A n \in V!post_save(w) : Waiting(n)
  <2>1. CASE w = None
    BY <2>1 DEF V!post_save
  <2>2. CASE w \in Streamed
    BY <2>2, PostSave
  <2> QED BY <2>1, <2>2
<1>2. /\ task' \in [Slot -> StreamTask \cup {None}]
      /\ \A k \in Slot : ts[k] # None => task'[k] = ts[k]
      /\ \A k \in Slot : task'[k] = ts[k] \/ task'[k] \in V!post_save(w)
      /\ \A n \in V!post_save(w) : \E k \in Slot : task'[k] = n
  BY <1>1, Queued
<1>3. \A k \in Slot : task'[k] = ts[k] \/ Waiting(task'[k])
  BY <1>1, <1>2
<1>4. \A k \in Slot : TaskWell(task'[k])
  BY <1>3, WaitingTask
<1>5. ASSUME w \in Streamed
      PROVE  /\ w.state # "ready" => \E k \in Slot : Refreshes(task'[k])
             /\ Downloadable /\ w.url = FALSE => \E k \in Slot : Downloads(task'[k])
  <2>1. /\ w.state # "ready" => \E n \in V!post_save(w) : Refreshes(n)
        /\ Downloadable /\ w.url = FALSE => \E n \in V!post_save(w) : Downloads(n)
    BY <1>5, PostSave
  <2> QED BY <1>2, <2>1
<1> QED BY <1>2, <1>3, <1>4, <1>5

\* A task saves the field.
LEMMA VideosSaveField ==
  ASSUME VideosInv, NEW i \in Slot, V!SaveField(i)
  PROVE  VideosInv'
<1> DEFINE ts == [task EXCEPT ![i] = None]
           w == task[i].value
           r == task[i].read
<1>1. /\ task[i] # None /\ task[i].kind \in {"refresh", "download"} /\ task[i].at = "write"
      /\ UNCHANGED <<cloud, form, forms>> /\ lost \in BOOLEAN
  BY DEF V!SaveField, V!Doing, VideosInv, VideosTyped
<1>2. /\ task[i] \in StreamTask /\ TaskWell(task[i]) /\ r \in Streamed /\ w \in Streamed
      /\ r.uid \in V!Video /\ w.uid \in V!Video
  BY <1>1, Running DEF TaskWell, Streamed
<1>3. /\ ts \in [Slot -> StreamTask \cup {None}] /\ ts[i] = None
      /\ \A k \in Slot : k # i => ts[k] = task[k]
  BY DEF VideosInv, VideosTyped
<1>4. \A k \in Slot : TaskWell(ts[k])
  BY <1>3 DEF VideosInv, VideosTyped, TaskWell
<1>5. CASE field = Gone
  <2>1. task' = ts /\ field' = Gone /\ lost' = lost
    BY <1>5 DEF V!SaveField, V!End
  <2> HIDE DEF ts
  <2>2. VideosTyped'
    BY <1>1, <1>3, <1>4, <1>5, <2>1 DEF VideosInv, VideosTyped
  <2> QED BY <2>1, <2>2, VideosLost
<1>6. CASE field # Gone
  <2>1. /\ field' = w
        /\ \/ task' \in V!Queue(ts, V!post_save(w)) /\ lost' = (lost \/ field # r)
           \/ task' = ts /\ lost' = TRUE
    BY <1>6 DEF V!SaveField, V!Save
  <2> HIDE DEF ts, w, r
  <2>2. CASE task' = ts /\ lost' = TRUE
    <3>1. VideosTyped'
      BY <1>1, <1>2, <1>3, <1>4, <2>1, <2>2 DEF VideosInv, VideosTyped
    <3> QED BY <2>2, <3>1, VideosLost
  <2>3. CASE task' \in V!Queue(ts, V!post_save(w)) /\ lost' = (lost \/ field # r)
    <3>1. /\ task' \in [Slot -> StreamTask \cup {None}] /\ \A k \in Slot : TaskWell(task'[k])
          /\ \A k \in Slot : ts[k] # None => task'[k] = ts[k]
          /\ \A k \in Slot : task'[k] = ts[k] \/ Waiting(task'[k])
          /\ w.state # "ready" => \E k \in Slot : Refreshes(task'[k])
          /\ Downloadable /\ w.url = FALSE => \E k \in Slot : Downloads(task'[k])
      BY <1>2, <1>3, <1>4, <2>3, SaveTasks
    <3>2. lost' \in BOOLEAN /\ (lost' = FALSE => lost = FALSE /\ field = r)
      BY <1>1, <2>3
    <3>3. VideosTyped'
      BY <1>1, <1>2, <2>1, <3>1, <3>2 DEF VideosInv, VideosTyped
    <3> SUFFICES ASSUME lost = FALSE, field = r PROVE VideosGood'
      BY <3>2, <3>3 DEF VideosInv
    <3>4. VideosGood
      BY <1>6 DEF VideosInv
    <3>5. ~Original(task[i]) /\ ~V!Deleting(task[i]) /\ ~Quiet(task[i])
      BY <1>1 DEF Original, V!Deleting, Quiet
    <3>6. /\ \A k \in Slot : task'[k] = task[k] \/ task'[k] = None \/ Waiting(task'[k])
          /\ \A k \in Slot : k # i /\ task[k] # None => task'[k] = task[k]
          /\ task'[i] = None \/ Waiting(task'[i])
      BY <1>3, <3>1
    <3>7. \A t : Waiting(t) => t # None /\ ~Clipped(t) /\ ~Original(t)
      BY WaitingTask
    <3>a. ~Clipped(None) /\ ~Original(None)
      BY DEF Clipped, Original
    <3>8. \A k \in Slot : k = i => task'[k] # task[k] \/ ~Clipped(task[k])
      BY <3>6, <3>7, <3>a
    <3>9. forms # 0 /\ (forms = 1 => form = None)
      BY <3>4, <3>5 DEF VideosGood, FormsCounted
    <3>10. FormsCounted'
      BY <1>1, <3>9 DEF FormsCounted
    <3>11. \A k \in Slot : Clipped(task'[k]) => k # i /\ task'[k] = task[k]
      BY <3>6, <3>7, <3>a
    <3>12. \A k \in Slot : Original(task[k]) => k # i /\ task'[k] = task[k]
      BY <3>5, <3>6 DEF Original
    <3>13. \A k \in Slot : k # i /\ Clipped(task[k]) => task'[k] = task[k]
      BY <3>6 DEF Clipped
    <3>14. TaskTrue(task[i], cloud)
      BY <3>4 DEF VideosGood, TasksTrue
    <3>15. CASE Clipped(task[i])
      <4>1. /\ cloud[w.uid] \notin {None, Gone} /\ Free(w.uid)
            /\ \A k \in Slot : k # i /\ Clipped(task[k]) => task[k].value.uid # w.uid
        BY <1>2, <3>4, <3>15 DEF VideosGood, ClipsFree, w
      <4>2. Unnamed(w.uid) /\ (form # None => form.uid # w.uid)
        BY <4>1 DEF Free
      <4>3. cloud[w.uid].from # None /\ w.clipped = TRUE /\ w.uid # r.uid
        BY <3>14, <3>15 DEF TaskTrue, Clipped, w, r
      <4>4. Replaces(task[i], r.uid)
        BY <1>1, <3>15 DEF Replaces, r
      <4>5. OneUpload'
        <5> SUFFICES ASSUME forms = 1
                     PROVE  /\ cloud[w.uid] \notin {None, Gone} =>
                                 /\ w.clipped = TRUE <=> cloud[w.uid].from # None
                                 /\ w.clipped = FALSE /\ w.state = "ready" /\ Trim => cloud[w.uid].whole = TRUE
                            /\ \A v \in V!Video : cloud[v] \notin {None, Gone} /\ v # w.uid =>
                                 \E k \in Slot : \/ Original(task'[k]) /\ task'[k].old = v
                                                 \/ Clipped(task'[k]) /\ task'[k].value.uid = v
          BY <1>1, <2>1 DEF OneUpload, Original, Clipped
        <5>1. ASSUME NEW v \in V!Video, cloud[v] \notin {None, Gone}, v # w.uid
              PROVE  \E k \in Slot : \/ Original(task'[k]) /\ task'[k].old = v
                                     \/ Clipped(task'[k]) /\ task'[k].value.uid = v
          <6>1. CASE v = r.uid
            <7>1. PICK k \in Slot : Original(task[k]) /\ task[k].old = v
              BY <3>4, <4>4, <5>1, <6>1 DEF VideosGood, OriginalsSent
            <7> QED BY <3>12, <7>1
          <6>2. CASE v # r.uid
            <7>1. PICK k \in Slot : \/ Original(task[k]) /\ task[k].old = v
                                    \/ Clipped(task[k]) /\ task[k].value.uid = v
              BY <1>2, <3>4, <5>1, <6>2 DEF VideosGood, OneUpload
            <7>2. Clipped(task[k]) /\ task[k].value.uid = v => k # i
              BY <5>1 DEF w
            <7> QED BY <3>12, <3>13, <7>1, <7>2
          <6> QED BY <6>1, <6>2
        <5> QED BY <4>3, <5>1
      <4>6. \A k \in Slot : Clipped(task'[k]) => task[k].value.uid # w.uid
        BY <3>11, <4>1
      <4>7. w.uid # task[i].read.uid
        BY <4>3 DEF r
      <4> QED BY <1>1, <1>2, <1>6, <2>1, <3>1, <3>3, <3>5, <3>6, <3>8, <3>10, <4>1, <4>2, <4>5, <4>6, <4>7, VideosSaved
    <3>16. CASE ~Clipped(task[i])
      <4>1. w.uid = r.uid
        BY <1>1, <1>2, <3>16 DEF Clipped, TaskWell, w, r, Streamed
      <4>2. OneUpload'
        <5> SUFFICES ASSUME forms = 1
                     PROVE  /\ cloud[w.uid] \notin {None, Gone} =>
                                 /\ w.clipped = TRUE <=> cloud[w.uid].from # None
                                 /\ w.clipped = FALSE /\ w.state = "ready" /\ Trim => cloud[w.uid].whole = TRUE
                            /\ \A v \in V!Video : cloud[v] \notin {None, Gone} /\ v # w.uid =>
                                 \E k \in Slot : \/ Original(task'[k]) /\ task'[k].old = v
                                                 \/ Clipped(task'[k]) /\ task'[k].value.uid = v
          BY <1>1, <2>1 DEF OneUpload, Original, Clipped
        <5>1. ASSUME NEW v \in V!Video, cloud[v] \notin {None, Gone}, v # w.uid
              PROVE  \E k \in Slot : \/ Original(task'[k]) /\ task'[k].old = v
                                     \/ Clipped(task'[k]) /\ task'[k].value.uid = v
          <6>1. PICK k \in Slot : \/ Original(task[k]) /\ task[k].old = v
                                  \/ Clipped(task[k]) /\ task[k].value.uid = v
            BY <1>2, <3>4, <4>1, <5>1 DEF VideosGood, OneUpload
          <6> QED BY <3>12, <3>13, <3>16, <6>1
        <5>2. ASSUME cloud[w.uid] \notin {None, Gone}
              PROVE  /\ w.clipped = TRUE <=> cloud[w.uid].from # None
                     /\ w.clipped = FALSE /\ w.state = "ready" /\ Trim => cloud[w.uid].whole = TRUE
          <6>1. CASE task[i].kind = "refresh"
            BY <1>1, <3>14, <3>16, <5>2, <6>1 DEF TaskTrue, w
          <6>2. CASE task[i].kind = "download"
            <7>1. w = [r EXCEPT !.url = TRUE]
              BY <1>1, <1>2, <6>2 DEF TaskWell, w, r
            <7>2. w.clipped = r.clipped /\ w.state = r.state
              BY <1>2, <7>1 DEF Streamed
            <7> QED BY <1>2, <3>4, <4>1, <5>2, <7>2 DEF VideosGood, OneUpload
          <6> QED BY <1>1, <6>1, <6>2
        <5> QED BY <5>1, <5>2
      <4>3. \A k \in Slot : Clipped(task'[k]) => task[k].value.uid # w.uid
        <5> SUFFICES ASSUME NEW k \in Slot, Clipped(task[k]), task[k].value.uid = w.uid PROVE FALSE
          BY <3>11
        <5> QED BY <1>2, <3>4, <4>1 DEF VideosGood, ClipsFree, Free, Unnamed
      <4>4. form # None /\ form.upload = TRUE => form.uid # w.uid
        BY <1>2, <3>4, <4>1 DEF VideosGood, UploadFree, Unnamed
      <4>5. ~Replaces(task[i], w.uid)
        BY <3>16 DEF Replaces
      <4> QED BY <1>1, <1>2, <1>6, <2>1, <3>1, <3>3, <3>5, <3>6, <3>8, <3>10, <3>16, <4>1, <4>2, <4>3, <4>4, <4>5, VideosSaved
    <3> QED BY <3>15, <3>16
  <2> QED BY <2>1, <2>2, <2>3
<1> QED BY <1>5, <1>6

\* A form saves the object.
LEMMA VideosSaveForm ==
  ASSUME VideosInv, V!SaveForm
  PROVE  VideosInv'
<1> DEFINE w == form.value
           u == form.uid
           ready == w # None /\ w.state = "ready" /\ cloud[u] \notin {None, Gone}
           c == [cloud[u] EXCEPT !.whole = TRUE]
<1>1. /\ form # None /\ form \in ShownForm /\ form.sent = TRUE /\ field # Gone /\ form' = None /\ forms' = forms
      /\ field' = w /\ lost \in BOOLEAN /\ cloud \in [V!Video -> Uploaded \cup {None, Gone}]
      /\ cloud' = IF ready THEN [cloud EXCEPT ![u].whole = TRUE] ELSE cloud
      /\ \/ /\ task' \in V!Queue(task, V!post_save(w))
            /\ lost' = (lost \/ (~form.upload /\ (~V!Holds \/ field.uid # u)))
         \/ task' = task /\ lost' = TRUE
  BY DEF V!SaveForm, V!Save, V!Exists, VideosInv, VideosTyped
<1>2. u \in V!Video /\ w \in Streamed \cup {None} /\ form.upload \in BOOLEAN /\ (w # None => w.uid = u)
  BY <1>1 DEF ShownForm, VideosInv, VideosTyped
<1> HIDE DEF w, u
<1>3. /\ cloud' \in [V!Video -> Uploaded \cup {None, Gone}]
      /\ \A v \in V!Video : /\ cloud'[v] = None <=> cloud[v] = None
                            /\ cloud'[v] = Gone <=> cloud[v] = Gone
                            /\ cloud'[v].from = cloud[v].from
                            /\ cloud[v].whole = TRUE => cloud'[v].whole = TRUE
      /\ ready => cloud'[u].whole = TRUE
  <2>1. CASE ready
    <3>1. cloud[u] \in Uploaded /\ cloud' = [cloud EXCEPT ![u] = c]
      BY <1>1, <1>2, <2>1
    <3>2. c \in Uploaded /\ c.from = cloud[u].from /\ c.whole = TRUE
      BY <3>1 DEF Uploaded
    <3>3. c \notin {None, Gone}
      BY <3>2, VideoAssumption
    <3>a. cloud[u] \notin {None, Gone}
      BY <2>1
    <3> HIDE DEF c, ready
    <3>4. /\ cloud' \in [V!Video -> Uploaded \cup {None, Gone}]
          /\ cloud'[u] = c /\ \A v \in V!Video : v # u => cloud'[v] = cloud[v]
      BY <1>1, <1>2, <3>1, <3>2
    <3> QED BY <3>a, <3>2, <3>3, <3>4
  <2>2. CASE ~ready
    <3>1. cloud' = cloud
      BY <1>1, <2>2
    <3> HIDE DEF ready
    <3> QED BY <1>1, <2>2, <3>1
  <2> QED BY <2>1, <2>2
<1>a. ready <=> w # None /\ w.state = "ready" /\ cloud[u] \notin {None, Gone}
  OBVIOUS
<1> HIDE DEF c, ready
<1>4. CASE task' = task /\ lost' = TRUE
  <2>1. VideosTyped'
    BY <1>1, <1>2, <1>3, <1>4 DEF VideosInv, VideosTyped
  <2> QED BY <1>4, <2>1, VideosLost
<1>5. CASE /\ task' \in V!Queue(task, V!post_save(w))
           /\ lost' = (lost \/ (~form.upload /\ (~V!Holds \/ field.uid # u)))
  <2>1. /\ task' \in [Slot -> StreamTask \cup {None}] /\ \A k \in Slot : TaskWell(task'[k])
        /\ \A k \in Slot : task[k] # None => task'[k] = task[k]
        /\ \A k \in Slot : task'[k] = task[k] \/ Waiting(task'[k])
        /\ w \in Streamed =>
             /\ w.state # "ready" => \E k \in Slot : Refreshes(task'[k])
             /\ Downloadable /\ w.url = FALSE => \E k \in Slot : Downloads(task'[k])
    BY <1>2, <1>5, SaveTasks DEF VideosInv, VideosTyped
  <2>2. /\ lost' \in BOOLEAN
        /\ lost' = FALSE => lost = FALSE /\ (form.upload = TRUE \/ (V!Holds /\ field.uid = u))
    BY <1>1, <1>2, <1>5
  <2>3. VideosTyped'
    BY <1>1, <1>2, <1>3, <2>1, <2>2 DEF VideosInv, VideosTyped
  <2> SUFFICES ASSUME lost = FALSE, form.upload = TRUE \/ (V!Holds /\ field.uid = u) PROVE VideosGood'
    BY <2>2, <2>3 DEF VideosInv
  <2>4. VideosGood
    BY <1>1 DEF VideosInv
  <2>5. form.upload = TRUE => cloud[u] \notin {None, Gone} /\ Unnamed(u) /\ w # None
    BY <1>1, <1>2, <2>4 DEF VideosGood, UploadFree, u, w
  <2>6. V!Holds /\ field.uid = u => field \in Streamed
    BY DEF V!Holds, VideosInv, VideosTyped
  <2>7. forms # 0 /\ (forms = 1 => form.upload = TRUE)
    BY <1>1, <2>4 DEF VideosGood, FormsCounted
  <2>8. FormsCounted'
    BY <1>1, <2>7 DEF FormsCounted
  <2>9. OneUpload'
    <3> SUFFICES ASSUME forms = 1, w \in Streamed
                 PROVE  /\ cloud'[w.uid] \notin {None, Gone} =>
                             /\ w.clipped = TRUE <=> cloud'[w.uid].from # None
                             /\ w.clipped = FALSE /\ w.state = "ready" /\ Trim => cloud'[w.uid].whole = TRUE
                        /\ \A v \in V!Video : cloud'[v] \notin {None, Gone} /\ v # w.uid =>
                             \E k \in Slot : \/ Original(task'[k]) /\ task'[k].old = v
                                             \/ Clipped(task'[k]) /\ task'[k].value.uid = v
      BY <1>1 DEF OneUpload, Original, Clipped
    <3>1. w # None /\ w.uid = u
      BY <1>2, VideoAssumption
    <3>2. /\ w.clipped = FALSE /\ cloud[u].from = None
          /\ \A v \in V!Video : cloud[v] \notin {None, Gone} => v = u
      BY <1>1, <2>4, <3>1 DEF VideosGood, FormsCounted, w, u
    <3>3. w.clipped = TRUE <=> cloud'[u].from # None
      BY <1>2, <1>3, <3>2
    <3>4. cloud[u] \notin {None, Gone} /\ w.state = "ready" => cloud'[u].whole = TRUE
      BY <1>3, <1>a, <3>1
    <3> QED BY <1>2, <1>3, <3>1, <3>2, <3>3, <3>4
  <2>10. ASSUME w \in Streamed
         PROVE  /\ \/ field \in Streamed /\ w.uid = field.uid
                   \/ Unnamed(w.uid) /\ cloud[w.uid] \notin {None, Gone}
                /\ \A k \in Slot : Clipped(task'[k]) => task[k].value.uid # w.uid
    <3>1. w.uid = u
      BY <1>2, <2>10, VideoAssumption
    <3>2. \A k \in Slot : Clipped(task'[k]) => Clipped(task[k])
      BY <2>1, WaitingTask
    <3>3. ASSUME NEW k \in Slot, Clipped(task[k]), task[k].value.uid = u PROVE FALSE
      <4>1. Free(u)
        BY <1>2, <2>4, <3>3 DEF VideosGood, ClipsFree
      <4> QED BY <1>1, <4>1 DEF Free, u
    <3> QED BY <2>5, <2>6, <3>1, <3>2, <3>3
  <2>11. PICK i : i \notin Slot
    <3> DEFINE Odd == {x \in Slot : x \notin x}
    <3>1. ASSUME Odd \in Slot PROVE FALSE
      <4>1. Odd \in Odd => Odd \notin Odd
        OBVIOUS
      <4>2. Odd \notin Odd => Odd \in Odd
        BY <3>1
      <4> QED BY <4>1, <4>2
    <3> HIDE DEF Odd
    <3> QED BY <3>1
  <2>12. \A k \in Slot : task'[k] = task[k] \/ task'[k] = None \/ Waiting(task'[k])
    BY <2>1
  <2>13. \A k \in Slot : k # i /\ task[k] # None => task'[k] = task[k]
    BY <2>1
  <2>14. \A k \in Slot : k = i => task'[k] # task[k] \/ ~Clipped(task[k])
    BY <2>11
  <2>15. /\ form' \in {form, None} /\ form' = None /\ i \notin Slot /\ w \in Streamed \cup {None}
    BY <1>1, <1>2, <2>11
  <2> QED BY <1>1, <1>3, <2>1, <2>3, <2>8, <2>9, <2>10, <2>12, <2>13, <2>14, <2>15, VideosSaved
<1> QED BY <1>1, <1>4, <1>5

\* Every step of the part keeps its invariant.
LEMMA VideosStep ==
  ASSUME VideosInv, V!Next \/ UNCHANGED V!vars
  PROVE  VideosInv'
<1>1. CASE UNCHANGED V!vars
  <2>1. UNCHANGED <<cloud, field, task, form, forms, lost>>
    BY <1>1 DEF V!vars
  <2>2. VideosTyped'
    BY <2>1 DEF VideosInv, VideosTyped
  <2>3. VideosGood => VideosGood'
    BY <2>1 DEF VideosGood, FreshFree, ClipsFree, UploadFree, Free, Unnamed, Followed, OriginalsLeft, OriginalsSent,
                TasksTrue, FormsCounted, OneUpload
  <2> QED BY <2>1, <2>2, <2>3 DEF VideosInv
<1> QED BY <1>1, VideosProcess, VideosUpload, VideosOpen, VideosFormSent, VideosSaveForm, VideosRemove,
           VideosPreDelete, VideosDeleteRow, VideosTake, VideosLose, VideosSaveField, VideosIdle,
           VideosTooLong, VideosReady, VideosClip, VideosClipRefused, VideosSend, VideosCheckClip,
           VideosDeleteOriginal, VideosAskDownload, VideosMeta DEF V!Next

\* The invariant implies what the run checks of the part.
LEMMA VideosFollow == VideosInv => V!TypeOK /\ V!VideosConsistent
<1> SUFFICES ASSUME VideosInv PROVE V!TypeOK /\ V!VideosConsistent
  OBVIOUS
<1>1. lost \in BOOLEAN /\ (V!Holds => field \in Streamed /\ field # Gone)
  BY DEF VideosInv, VideosTyped, V!Holds
<1>2. V!TypeOK
  <2>1. \A v \in V!Video : cloud[v] \in {None, Gone} \/ cloud[v].state \in V!States
    BY DEF VideosInv, VideosTyped, Uploaded
  <2>2. field \in {None, Gone} \/ field.uid \in V!Video
    BY DEF VideosInv, VideosTyped, Streamed
  <2>3. \A i \in Slot : task[i] = None \/ task[i].retries \in 1..MaxRetries
    BY DEF VideosInv, VideosTyped, StreamTask
  <2>4. forms \in 0..MaxForms
    BY DEF VideosInv, VideosTyped
  <2> QED BY <1>1, <2>1, <2>2, <2>3, <2>4 DEF V!TypeOK
<1>3. V!NamesALivingVideo
  <2> SUFFICES ASSUME lost = FALSE, V!Holds
               PROVE  V!Exists(field.uid) \/ \E i \in Slot : V!Leaving(task[i]) \/ V!Deleting(task[i])
    BY <1>1 DEF V!NamesALivingVideo
  <2>1. \/ cloud[field.uid] \notin {None, Gone}
        \/ \E i \in Slot : Replaces(task[i], field.uid) \/ V!Deleting(task[i])
    BY <1>1 DEF VideosInv, VideosGood, Followed
  <2>2. \A i \in Slot : Replaces(task[i], field.uid) => V!Leaving(task[i])
    BY DEF Replaces, Clipped, V!Leaving
  <2> QED BY <2>1, <2>2 DEF V!Exists
<1>4. ASSUME ~lost, \A i \in Slot : task[i] = None, V!Holds
      PROVE  /\ field.state = "ready" /\ (Downloadable => field.url)
             /\ forms = 1 => /\ {v \in V!Video : V!Exists(v)} = {field.uid}
                             /\ Trim => field.clipped \/ cloud[field.uid].whole
  <2>1. lost = FALSE /\ field \in Streamed /\ VideosGood
    BY <1>1, <1>4 DEF VideosInv
  <2>2. field.url \in BOOLEAN /\ field.clipped \in BOOLEAN /\ field.uid \in V!Video
    BY <2>1 DEF Streamed
  <2>3. \A i \in Slot : /\ ~Refreshes(task[i]) /\ ~Downloads(task[i]) /\ ~Original(task[i]) /\ ~Clipped(task[i])
                        /\ ~V!Deleting(task[i]) /\ \A v : ~Replaces(task[i], v)
    BY <1>4 DEF Refreshes, Downloads, Original, Clipped, V!Deleting, Replaces
  <2>4. field.state = "ready"
    BY <2>1, <2>3 DEF VideosGood, Followed
  <2>5. Downloadable => field.url
    BY <2>1, <2>2, <2>3, <2>4 DEF VideosGood, Followed
  <2>6. cloud[field.uid] \notin {None, Gone}
    BY <2>1, <2>3 DEF VideosGood, Followed
  <2>7. ASSUME forms = 1
        PROVE  /\ \A v \in V!Video : cloud[v] \notin {None, Gone} => v = field.uid
               /\ Trim => field.clipped = TRUE \/ cloud[field.uid].whole = TRUE
    BY <2>1, <2>2, <2>3, <2>4, <2>6, <2>7 DEF VideosGood, OneUpload
  <2>8. forms = 1 => {v \in V!Video : V!Exists(v)} = {field.uid}
    BY <2>2, <2>6, <2>7 DEF V!Exists
  <2>9. forms = 1 /\ Trim => field.clipped \/ cloud[field.uid].whole
    BY <2>7
  <2> QED BY <2>4, <2>5, <2>8, <2>9
<1>5. V!SettledIsComplete
  BY <1>4 DEF V!SettledIsComplete
<1> QED BY <1>2, <1>3, <1>5 DEF V!VideosConsistent

-----------------------------------------------------------------------------
(* Lists against single nodes: type correctness is enough of an invariant. *)

\* At the start nothing is written.
LEMMA ReadsInit == R!Init => R!TypeOK
BY DEF R!Init, R!TypeOK

\* A row that is written or changed.
LEMMA ReadsWrite ==
  ASSUME R!TypeOK,
         \/ \E u \in User, p \in Profile, r \in ReadRow : R!CommentCreate(u, p, r)
         \/ \E u \in User, r \in ReadRow : R!CommentDelete(u, r) \/ R!ReportCreate(u, r)
         \/ \E u \in User, r \in ReadRow, s \in {"published", "draft"} : R!PageSave(u, r, s)
  PROVE  R!TypeOK'
<1>1. ASSUME NEW u \in User, NEW p \in Profile, NEW r \in ReadRow, R!CommentCreate(u, p, r)
      PROVE  R!TypeOK'
  <2>1. [author |-> p, user |-> u, status |-> "published"] \in R!Comment
    BY DEF R!Comment
  <2> QED BY <1>1, <2>1 DEF R!CommentCreate, R!TypeOK, R!others
<1>2. ASSUME NEW u \in User, NEW r \in ReadRow, R!CommentDelete(u, r)
      PROVE  R!TypeOK'
  <2>1. comment[r] \in R!Comment /\ comment' = [comment EXCEPT ![r].status = "deleted"]
    BY <1>2 DEF R!CommentDelete, R!TypeOK, R!There
  <2>2. [comment[r] EXCEPT !.status = "deleted"] \in R!Comment
    BY <2>1 DEF R!Comment
  <2>3. comment' \in [ReadRow -> R!Comment \cup {None}]
    BY <2>1, <2>2 DEF R!TypeOK
  <2> QED BY <1>2, <2>3 DEF R!CommentDelete, R!TypeOK, R!others
<1>3. ASSUME NEW u \in User, NEW r \in ReadRow, R!ReportCreate(u, r)
      PROVE  R!TypeOK'
  BY <1>3 DEF R!ReportCreate, R!TypeOK, R!others, R!Written
<1>4. ASSUME NEW u \in User, NEW r \in ReadRow, NEW s \in {"published", "draft"}, R!PageSave(u, r, s)
      PROVE  R!TypeOK'
  <2>1. CASE page[r] = None
    <3>1. [user |-> u, status |-> s] \in R!Page
      BY <1>4 DEF R!Page
    <3> QED BY <1>4, <2>1, <3>1 DEF R!PageSave, R!TypeOK, R!others
  <2>2. CASE page[r] # None
    <3>1. page[r] \in R!Page /\ page' = [page EXCEPT ![r].status = s]
      BY <1>4, <2>2 DEF R!PageSave, R!TypeOK
    <3>2. [page[r] EXCEPT !.status = s] \in R!Page
      BY <1>4, <3>1 DEF R!Page
    <3>3. page' \in [ReadRow -> R!Page \cup {None}]
      BY <3>1, <3>2 DEF R!TypeOK
    <3> QED BY <1>4, <3>3 DEF R!PageSave, R!TypeOK, R!others
  <2> QED BY <2>1, <2>2
<1> QED BY <1>1, <1>2, <1>3, <1>4

\* A block, and what operators and owners change.
LEMMA ReadsChange ==
  ASSUME R!TypeOK,
         \/ \E u \in User, p, q \in Profile : R!BlockToggle(u, p, q)
         \/ \E u \in User, p \in Profile, perm \in R!Permissions : R!Change(u, p, perm)
  PROVE  R!TypeOK'
<1>1. ASSUME NEW u \in User, NEW p \in Profile, NEW q \in Profile, R!BlockToggle(u, p, q)
      PROVE  R!TypeOK'
  BY <1>1 DEF R!BlockToggle, R!TypeOK
<1>2. ASSUME NEW u \in User, NEW p \in Profile, NEW perm \in R!Permissions, R!Change(u, p, perm)
      PROVE  R!TypeOK'
  <2>1. members' \subseteq User \X Profile
    BY <1>2 DEF R!Change, R!TypeOK
  <2>2. private' \subseteq Profile
    BY <1>2 DEF R!Change, R!TypeOK
  <2>3. granted' \subseteq User \X R!Permissions
    BY <1>2 DEF R!Change, R!TypeOK
  <2>4. enabled' \in BOOLEAN
    BY <1>2 DEF R!Change, R!TypeOK
  <2> QED BY <1>2, <2>1, <2>2, <2>3, <2>4 DEF R!Change, R!TypeOK
<1> QED BY <1>1, <1>2

\* Every step of the part keeps its invariant.
LEMMA ReadsStep ==
  ASSUME R!TypeOK, R!Next \/ UNCHANGED R!vars
  PROVE  R!TypeOK'
<1>1. CASE UNCHANGED R!vars
  BY <1>1 DEF R!vars, R!TypeOK
<1> QED BY <1>1, ReadsWrite, ReadsChange DEF R!Next

\* The lists of comments and pages, and the nodes.
LEMMA ListedWritingOpens ==
  ASSUME R!TypeOK, NEW v \in R!Viewers
  PROVE  /\ \A c \in R!resolve_comments(v) : R!OpensComment(v, c)
         /\ \A g \in R!all_pages(v) : R!OpensPage(v, g) /\ R!resolve_target(v, g)
<1>1. ASSUME NEW c \in R!resolve_comments(v) PROVE R!OpensComment(v, c)
  <2>1. comment[c] \in R!Comment /\ comment[c].status # "deleted" /\ comment[c].author \notin R!exclude_blocked(v)
    BY DEF R!resolve_comments, R!visible, R!There, R!TypeOK
  <2> QED BY <2>1 DEF R!OpensComment, R!view_comment, R!Comment
<1>2. ASSUME NEW g \in R!all_pages(v) PROVE R!view_page(v.user, g)
  <2>1. page[g] \in R!Page
    BY DEF R!all_pages, R!There, R!TypeOK
  <2>2. R!Super(v.user) \/ page[g].status = "published" \/ page[g].user = v.user
    BY DEF R!all_pages
  <2>3. R!Super(v.user) \/ page[g].user = v.user => v.user \in User
    BY <2>1, ReadAssumption DEF R!Super, R!Page
  <2> QED BY <2>1, <2>2, <2>3, ReadAssumption DEF R!view_page, R!change_page, R!Granted
<1> QED BY <1>1, <1>2 DEF R!OpensPage, R!resolve_target

\* What is listed opens.
LEMMA ReadsOpen == R!TypeOK => R!ListedOpens
<1> SUFFICES ASSUME R!TypeOK, NEW v \in R!Viewers
             PROVE  /\ \A p \in R!resolve_profiles(v) \cup R!profiles_queryset(v) : R!OpensProfile(v, p)
                    /\ \A r \in R!resolve_reports(v) \cup R!resolve_my_report(v) : R!OpensReport(v, r)
  BY ListedWritingOpens DEF R!ListedOpens
<1>1. \A p \in R!resolve_profiles(v) \cup R!profiles_queryset(v) : R!OpensProfile(v, p)
  BY DEF R!resolve_profiles, R!profiles_queryset, R!OpensProfile, R!view_profile, R!Member
<1>2. \A r \in R!resolve_reports(v) \cup R!resolve_my_report(v) : R!OpensReport(v, r)
  BY DEF R!resolve_reports, R!resolve_my_report, R!OpensReport, R!view_report
<1> QED BY <1>1, <1>2

\* Blocks hide comments both ways.
LEMMA ReadsHide == R!TypeOK => R!BlocksHideBothWays
<1> SUFFICES ASSUME R!TypeOK, NEW v \in R!Viewers, v.profile # None, NEW c \in R!There(comment),
                    NEW q, q = comment[c].author
             PROVE  LET apart == \E b \in blocks : {b[1], b[2]} = {v.profile, q}
                    IN  /\ apart => c \notin R!resolve_comments(v) \cup R!resolve_all_comments(v)
                                    /\ ~R!OpensComment(v, c)
                        /\ ~apart /\ enabled /\ c \in R!visible => c \in R!resolve_comments(v)
  BY DEF R!BlocksHideBothWays
<1>1. v.user # Nobody
  BY ReadAssumption DEF R!Viewers, R!FromRequest, R!FromSocket
<1>2. R!exclude_blocked(v) = {b[2] : b \in {b \in blocks : b[1] \in {v.profile}}}
                              \cup {b[1] : b \in {b \in blocks : b[2] \in {v.profile}}}
  BY <1>1 DEF R!exclude_blocked, R!blocked_profile_ids, R!blocker_profile_ids
<1>3. q \in R!exclude_blocked(v) <=> \E b \in blocks : {b[1], b[2]} = {v.profile, q}
  <2>1. q \in R!exclude_blocked(v) <=>
          \E b \in blocks : (b[1] = v.profile /\ b[2] = q) \/ (b[2] = v.profile /\ b[1] = q)
    BY <1>2
  <2>2. \A x, y, z, w : {x, y} = {z, w} <=> (x = z /\ y = w) \/ (y = z /\ x = w)
    OBVIOUS
  <2> QED BY <2>1, <2>2
<1>4. q \in R!exclude_blocked(v) =>
        c \notin R!resolve_comments(v) \cup R!resolve_all_comments(v) /\ ~R!OpensComment(v, c)
  BY DEF R!resolve_comments, R!resolve_all_comments, R!OpensComment
<1>5. q \notin R!exclude_blocked(v) /\ enabled /\ c \in R!visible => c \in R!resolve_comments(v)
  BY <1>1 DEF R!resolve_comments
<1> QED BY <1>3, <1>4, <1>5

\* The invariant implies what the run checks of the part.
LEMMA ReadsFollow == R!TypeOK => R!ReadsConsistent
BY ReadsOpen, ReadsHide DEF R!ReadsConsistent

-----------------------------------------------------------------------------
(* Chat rooms through lists, fields and permissions. *)

\* Types of participants, messages and counters.
RoomsTyped ==
  /\ people \in [Room -> [Profile -> G!Person \cup {None}]]
  /\ msgs \in Seq(G!Message)
  /\ count \in [Room -> [Profile -> 0..clock \cup {None}]]
  /\ marked \subseteq Room \X Profile /\ clock \in 0..MaxEvents /\ left \subseteq Room \X Profile
  /\ given_up \subseteq Group

\* A participant joined in the past, and a group with participants has an admin, unless its
\* admins gave it up.
JoinedBefore == \A r \in Room, p \in Profile : people[r][p] # None => people[r][p].since <= clock
\* A group with participants has an admin, unless its admins gave it up.
AdminsStay ==
  \A r \in Group \ given_up : (\E p \in Profile : people[r][p] # None) =>
    \E p \in Profile : people[r][p] # None /\ people[r][p].admin = TRUE

\* An unread message counts, and one with a status is of a profile that was there before it.
UnreadCounted ==
  \A m \in DOMAIN msgs, p \in Profile :
    msgs[m].status[p] = "unread" => count[msgs[m].room][p] \in 1..clock
\* A status is of a participant.
StatusShown ==
  \A m \in DOMAIN msgs, p \in Profile :
    msgs[m].status[p] # "none" /\ <<msgs[m].room, p>> \notin left =>
      /\ people[msgs[m].room][p] # None
      /\ people[msgs[m].room][p].since <= msgs[m].at

\* The inductive invariant of the part.
RoomsInv == RoomsTyped /\ JoinedBefore /\ AdminsStay /\ UnreadCounted /\ StatusShown

\* At the start rooms have their founders.
LEMMA RoomsInit == G!Init => RoomsInv
<1> SUFFICES ASSUME G!Init PROVE RoomsInv
  OBVIOUS
<1>1. ASSUME NEW r \in Room, NEW p \in Profile
      PROVE  /\ people[r][p] \in G!Person \cup {None}
             /\ people[r][p] # None => people[r][p].since = 0
             /\ people[r][p] # None /\ r \in Group => people[r][p].admin = TRUE
  <2>1. people[r][p] = IF p \in Founders[r]
                       THEN [[admin |-> FALSE, archived |-> FALSE, since |-> 0] EXCEPT !.admin = r \in Group]
                       ELSE None
    BY DEF G!Init, G!Joined
  <2>2. PICK b \in BOOLEAN : (r \in Group) = b /\ (r \in Group => b = TRUE)
    <3>1. (r \in Group) \in BOOLEAN
      OBVIOUS
    <3> QED BY <3>1
  <2>3. people[r][p] = IF p \in Founders[r]
                       THEN [[admin |-> FALSE, archived |-> FALSE, since |-> 0] EXCEPT !.admin = b]
                       ELSE None
    BY <2>1, <2>2, Zenon
  <2>4. people[r][p] = IF p \in Founders[r] THEN [admin |-> b, archived |-> FALSE, since |-> 0] ELSE None
    BY <2>3
  <2>5. 0 \in 0..MaxEvents
    BY RoomAssumption
  <2> QED BY <2>2, <2>4, <2>5 DEF G!Person
<1>2. people \in [Room -> [Profile -> G!Person \cup {None}]]
  <2>1. people = [r \in Room |-> [p \in Profile |-> people[r][p]]]
    BY DEF G!Init
  <2>2. \A r \in Room, p \in Profile : people[r][p] \in G!Person \cup {None}
    BY <1>1
  <2> QED BY <2>1, <2>2
<1>3. RoomsTyped
  BY <1>2, RoomAssumption DEF G!Init, RoomsTyped
<1>4. JoinedBefore
  <2>1. clock = 0
    BY DEF G!Init
  <2>2. \A r \in Room, p \in Profile : people[r][p] # None => people[r][p].since = 0
    BY <1>1
  <2>3. 0 <= 0
    OBVIOUS
  <2> QED BY <2>1, <2>2, <2>3 DEF JoinedBefore
<1>a. AdminsStay
  BY <1>1, RoomAssumption DEF AdminsStay
<1>5. UnreadCounted /\ StatusShown
  <2>1. DOMAIN msgs = {}
    BY DEF G!Init
  <2> QED BY <2>1 DEF UnreadCounted, StatusShown
<1> QED BY <1>3, <1>4, <1>a, <1>5 DEF RoomsInv

\* The participants of a room after a change, when away is who has left and bare the groups
\* that were given up.
PeopleWell(r, new, away, bare) ==
  /\ \A p \in Profile : new[p] # None => new[p].since <= clock
  /\ \A p \in Profile : people[r][p] # None /\ <<r, p>> \notin away =>
       new[p] # None /\ new[p].since = people[r][p].since
  /\ r \in Group \ bare /\ (\E p \in Profile : new[p] # None) =>
       \E p \in Profile : new[p] # None /\ new[p].admin = TRUE

\* What a message is made of.
LEMMA MessagesTyped ==
  ASSUME RoomsInv
  PROVE  \A m \in DOMAIN msgs : /\ msgs[m] \in G!Message
                                /\ msgs[m].room \in Room /\ msgs[m].at \in 0..MaxEvents
                                /\ msgs[m].author \in Profile /\ msgs[m].deleted \in BOOLEAN
                                /\ msgs[m].status \in [Profile -> {"none", "unread", "read"}]
<1>1. \A m \in DOMAIN msgs : msgs[m] \in G!Message
  BY DEF RoomsInv, RoomsTyped
<1> QED BY <1>1 DEF G!Message

\* A change of the participants of a room.
LEMMA RoomsPeople ==
  ASSUME RoomsInv, NEW r \in Room, NEW new \in [Profile -> G!Person \cup {None}],
         people' = [people EXCEPT ![r] = new], UNCHANGED <<msgs, count, marked>>,
         G!Tick, left \subseteq left', left' \subseteq Room \X Profile,
         given_up \subseteq given_up', given_up' \subseteq Group,
         PeopleWell(r, new, left', given_up')
  PROVE  RoomsInv'
<1>1. clock \in Nat /\ clock' = clock + 1 /\ clock' \in 0..MaxEvents /\ 0..clock \subseteq 0..clock'
  BY RoomAssumption DEF G!Tick, RoomsInv, RoomsTyped
<1>2. /\ people' \in [Room -> [Profile -> G!Person \cup {None}]]
      /\ people'[r] = new /\ \A o \in Room : o # r => people'[o] = people[o]
  BY DEF RoomsInv, RoomsTyped
<1>3. \A o \in Room, p \in Profile : people[o][p] # None => people[o][p].since \in Nat
  BY DEF RoomsInv, RoomsTyped, G!Person
<1>4. RoomsTyped'
  <2>1. count' \in [Room -> [Profile -> 0..clock' \cup {None}]]
    BY <1>1 DEF RoomsInv, RoomsTyped
  <2> QED BY <1>1, <1>2, <2>1 DEF RoomsInv, RoomsTyped
<1>5. JoinedBefore'
  <2>1. \A p \in Profile : new[p] # None => new[p].since \in Nat
    BY DEF G!Person
  <2> QED BY <1>1, <1>2, <1>3, <2>1 DEF RoomsInv, JoinedBefore, PeopleWell
<1>6. AdminsStay'
  BY <1>2, RoomAssumption DEF RoomsInv, AdminsStay, PeopleWell
<1>7. UnreadCounted'
  <2>1. \A m \in DOMAIN msgs : msgs[m].room \in Room
    BY MessagesTyped
  <2> QED BY <1>1, <2>1 DEF RoomsInv, UnreadCounted
<1>8. StatusShown'
  <2>1. \A m \in DOMAIN msgs : msgs[m].room \in Room
    BY MessagesTyped
  <2> QED BY <1>2, <2>1 DEF RoomsInv, StatusShown, PeopleWell
<1> QED BY <1>4, <1>5, <1>6, <1>7, <1>8 DEF RoomsInv

\* Whoever is the only admin is the only element of the set of admins.
LEMMA OneAdmin ==
  ASSUME NEW r, NEW p, p \in G!Admins(r), \A o \in G!Admins(r) : o = p
  PROVE  G!Cardinality(G!Admins(r)) = 1
<1>1. G!Cardinality(G!Admins(r)) = Cardinality(G!Admins(r))
  BY DEF G!Cardinality, Cardinality
<1>2. G!Admins(r) = {p}
  OBVIOUS
<1>3. Cardinality({p}) = 1
  BY FS_Singleton, Zenon
<1> QED BY <1>1, <1>2, <1>3

\* An edit of the participants, with the heir of a sole admin that leaves.
LEMMA RoomsUpdate ==
  ASSUME RoomsInv, NEW r \in Room, NEW by \in Profile, NEW e \in Updates,
         G!ChatRoomUpdate(by, r, e[1], e[2])
  PROVE  RoomsInv'
<1> DEFINE leaving == e[2] = {by}
           rest == G!Members(r) \ e[2]
           handed == leaving /\ G!is_sole_admin(by, r) /\ rest # {}
           abandons == by \in e[2] /\ G!Admins(r) \subseteq e[2] /\ (~leaving \/ rest = {})
<1>1. PICK h \in IF handed THEN G!Oldest(r, rest) ELSE {None} :
        people' = [people EXCEPT ![r] = G!Updated(r, e[1], e[2], h)]
  BY DEF G!ChatRoomUpdate
<1>2. /\ G!Tick /\ UNCHANGED <<msgs, count, marked>> /\ r \in Group /\ people[r][by] # None
      /\ left' = left \cup {<<r, p>> : p \in G!Members(r) \cap e[2]}
      /\ given_up' = IF abandons THEN given_up \cup {r} ELSE given_up
      /\ ~leaving => by \in G!Admins(r)
  BY DEF G!ChatRoomUpdate, G!can_modify_chatroom, G!Members, G!Admins
<1>3. h \in Profile => h \in G!Members(r) /\ h \notin e[2]
  BY <1>1, RoomAssumption DEF G!Oldest
<1>4. handed => h \in Profile /\ h \in rest
  BY <1>1 DEF G!Oldest, G!Members
<1> DEFINE heir(p) == [people[r][p] EXCEPT !.admin = TRUE]
           new == G!Updated(r, e[1], e[2], h)
<1>5. /\ people \in [Room -> [Profile -> G!Person \cup {None}]] /\ clock \in 0..MaxEvents
      /\ \A p \in Profile : p \in G!Members(r) <=> people[r][p] # None
      /\ \A p \in G!Members(r) : p \in Profile /\ people[r][p] \in G!Person
  BY DEF RoomsInv, RoomsTyped, G!Members
<1>6. /\ G!Joined(clock) \in G!Person /\ G!Joined(clock).since = clock
      /\ \A p \in G!Members(r) : /\ heir(p) \in G!Person /\ heir(p).admin = TRUE
                                 /\ heir(p).since = people[r][p].since
  BY <1>5 DEF G!Joined, G!Person
<1> HIDE DEF heir
<1>7. \A p \in Profile :
        new[p] = IF p \in G!Members(r) \ e[2] THEN IF p = h THEN heir(p) ELSE people[r][p]
                 ELSE IF p \in e[1] THEN G!Joined(clock) ELSE None
  BY DEF G!Updated, heir
<1>8. new \in [Profile -> G!Person \cup {None}]
  <2>1. \A p \in Profile : new[p] \in G!Person \cup {None}
    BY <1>5, <1>6, <1>7
  <2>2. new = [p \in Profile |-> new[p]]
    BY DEF G!Updated
  <2> QED BY <2>1, <2>2
<1> HIDE DEF new
<1>9. \A p \in Profile : new[p] # None => new[p].since <= clock
  <2>1. clock <= clock
    BY <1>5, RoomAssumption
  <2>2. \A p \in G!Members(r) : people[r][p].since <= clock
    BY <1>5, RoomAssumption DEF RoomsInv, JoinedBefore
  <2> QED BY <1>6, <1>7, <2>1, <2>2
<1>10. \A p \in Profile : people[r][p] # None /\ <<r, p>> \notin left' =>
         new[p] # None /\ new[p].since = people[r][p].since
  <2> SUFFICES ASSUME NEW p \in Profile, people[r][p] # None, <<r, p>> \notin left'
               PROVE  new[p] # None /\ new[p].since = people[r][p].since
    OBVIOUS
  <2>1. p \in G!Members(r) /\ p \notin e[2]
    BY <1>2, <1>5
  <2>2. None \notin G!Person
    BY RoomAssumption
  <2> QED BY <1>5, <1>6, <1>7, <2>1, <2>2
<1>11. ASSUME r \notin given_up'
       PROVE  \E p \in Profile : new[p] # None /\ new[p].admin = TRUE
  <2>1. r \notin given_up /\ ~abandons
    BY <1>2, <1>11
  <2>2. PICK a \in Profile : people[r][a] # None /\ people[r][a].admin = TRUE
    BY <1>2, <2>1 DEF RoomsInv, AdminsStay
  <2>3. \A o \in Profile : o \in G!Admins(r) <=> people[r][o] # None /\ people[r][o].admin = TRUE
    BY <1>5 DEF G!Admins, G!Person
  <2>4. None \notin G!Person
    BY RoomAssumption
  <2>5. ASSUME NEW o \in G!Admins(r), o \notin e[2]
        PROVE  o \in Profile /\ new[o] # None /\ new[o].admin = TRUE
    <3>1. o \in Profile /\ o \in G!Members(r)
      BY <1>5 DEF G!Admins
    <3> QED BY <1>5, <1>6, <1>7, <2>3, <2>4, <2>5, <3>1
  <2>6. ASSUME G!Admins(r) \subseteq e[2]
        PROVE  h \in Profile /\ new[h] # None /\ new[h].admin = TRUE
    <3>1. by \in e[2] /\ leaving /\ rest # {}
      BY <1>2, <2>1, <2>6
    <3>2. a = by /\ a \in G!Admins(r) /\ \A o \in G!Admins(r) : o = by
      BY <2>2, <2>3, <2>6, <3>1
    <3>3. G!is_sole_admin(by, r)
      BY <3>2, OneAdmin DEF G!is_sole_admin
    <3>4. h \in Profile /\ h \in G!Members(r) \ e[2]
      BY <1>4, <3>1, <3>3
    <3>5. new[h] = heir(h)
      BY <1>7, <3>4
    <3> QED BY <1>6, <2>4, <3>4, <3>5
  <2> QED BY <2>5, <2>6
<1>12. /\ left \subseteq left' /\ left' \subseteq Room \X Profile
       /\ given_up \subseteq given_up' /\ given_up' \subseteq Group
  BY <1>2, <1>5 DEF RoomsInv, RoomsTyped
<1>13. PeopleWell(r, new, left', given_up')
  BY <1>9, <1>10, <1>11 DEF PeopleWell
<1>14. people' = [people EXCEPT ![r] = new]
  BY <1>1 DEF new
<1> QED BY <1>2, <1>8, <1>12, <1>13, <1>14, RoomsPeople

\* A participant becomes an admin, or is one no longer.
LEMMA RoomsToggle ==
  ASSUME RoomsInv, NEW r \in Room, NEW by \in Profile, NEW p \in Profile, G!ToggleAdmin(by, r, p)
  PROVE  RoomsInv'
<1> DEFINE x == [people[r][p] EXCEPT !.admin = ~people[r][p].admin]
           new == [people[r] EXCEPT ![p] = x]
<1>1. people \in [Room -> [Profile -> G!Person \cup {None}]] /\ people[r][p] \in G!Person
  BY DEF RoomsInv, RoomsTyped, G!ToggleAdmin, G!Members
<1>2. x \in G!Person /\ x.since = people[r][p].since /\ x.admin = ~people[r][p].admin
  BY <1>1 DEF G!Person
<1>3. people' = [people EXCEPT ![r] = new]
  BY <1>1 DEF G!ToggleAdmin
<1> HIDE DEF x
<1>4. new \in [Profile -> G!Person \cup {None}] /\ \A o \in Profile : new[o] = IF o = p THEN x ELSE people[r][o]
  BY <1>1, <1>2
<1>5. /\ UNCHANGED <<msgs, count, marked, left, given_up>> /\ G!Tick
      /\ people[r][p] # None /\ x # None
  BY <1>2, RoomAssumption DEF G!ToggleAdmin, G!Members
<1> HIDE DEF new
<1>6. \A o \in Profile : new[o] # None => new[o].since <= clock
  BY <1>2, <1>4, <1>5 DEF RoomsInv, JoinedBefore
<1>7. \E o \in Profile : new[o] # None /\ new[o].admin = TRUE
  <2>1. CASE people[r][p].admin = FALSE
    BY <1>2, <1>4, <1>5, <2>1
  <2>2. CASE people[r][p].admin = TRUE
    <3>1. G!Cardinality(G!Admins(r)) > 1
      BY <2>2 DEF G!ToggleAdmin
    <3>2. p \in G!Admins(r)
      BY <1>5, <2>2 DEF G!Admins, G!Members
    <3>3. PICK o \in G!Admins(r) : o # p
      BY <3>1, <3>2, OneAdmin
    <3>4. o \in Profile /\ people[r][o] # None /\ people[r][o].admin = TRUE
      BY DEF G!Admins, G!Members, RoomsInv, RoomsTyped, G!Person
    <3> QED BY <1>4, <3>3, <3>4
  <2> QED BY <1>1, <2>1, <2>2 DEF G!Person
<1>8. left' \subseteq Room \X Profile /\ given_up' \subseteq Group
  BY <1>5 DEF RoomsInv, RoomsTyped
<1>9. PeopleWell(r, new, left', given_up')
  BY <1>2, <1>4, <1>5, <1>6, <1>7 DEF PeopleWell
<1>10. left \subseteq left' /\ given_up \subseteq given_up'
  BY <1>5
<1> QED BY <1>3, <1>4, <1>5, <1>8, <1>9, <1>10, RoomsPeople

\* A participant archives the room.
LEMMA RoomsArchive ==
  ASSUME RoomsInv, NEW r \in Room, NEW p \in Profile, NEW value \in BOOLEAN, G!Archive(r, p, value)
  PROVE  RoomsInv'
<1> DEFINE x == [people[r][p] EXCEPT !.archived = value]
           new == [people[r] EXCEPT ![p] = x]
<1>1. people \in [Room -> [Profile -> G!Person \cup {None}]] /\ people[r][p] \in G!Person
  BY DEF RoomsInv, RoomsTyped, G!Archive, G!Members
<1>2. x \in G!Person /\ x.since = people[r][p].since /\ x.admin = people[r][p].admin
  BY <1>1 DEF G!Person
<1>3. people' = [people EXCEPT ![r] = new]
  BY <1>1 DEF G!Archive
<1> HIDE DEF x
<1>4. new \in [Profile -> G!Person \cup {None}] /\ \A o \in Profile : new[o] = IF o = p THEN x ELSE people[r][o]
  BY <1>1, <1>2
<1>5. /\ UNCHANGED <<msgs, count, marked, left, given_up>> /\ G!Tick
      /\ people[r][p] # None /\ x # None
  BY <1>2, RoomAssumption DEF G!Archive, G!Members
<1> HIDE DEF new
<1>6. \A o \in Profile : new[o] # None => new[o].since <= clock
  BY <1>2, <1>4, <1>5 DEF RoomsInv, JoinedBefore
<1>7. r \in Group \ given_up => \E o \in Profile : new[o] # None /\ new[o].admin = TRUE
  BY <1>2, <1>4, <1>5 DEF RoomsInv, AdminsStay
<1>8. left' \subseteq Room \X Profile /\ given_up' \subseteq Group
  BY <1>5 DEF RoomsInv, RoomsTyped
<1>9. PeopleWell(r, new, left', given_up')
  BY <1>2, <1>4, <1>5, <1>6, <1>7 DEF PeopleWell
<1>10. left \subseteq left' /\ given_up \subseteq given_up'
  BY <1>5
<1> QED BY <1>3, <1>4, <1>5, <1>8, <1>9, <1>10, RoomsPeople

\* A change of the messages and what counts them.
LEMMA RoomsMessages ==
  ASSUME RoomsInv, G!Tick, UNCHANGED <<people, left, given_up>>,
         msgs' \in Seq(G!Message), count' \in [Room -> [Profile -> 0..clock' \cup {None}]],
         marked' \subseteq Room \X Profile, UnreadCounted', StatusShown'
  PROVE  RoomsInv'
<1>1. clock \in Nat /\ clock' = clock + 1 /\ clock' \in 0..MaxEvents
  BY RoomAssumption DEF G!Tick, RoomsInv, RoomsTyped
<1>2. RoomsTyped'
  BY <1>1 DEF RoomsInv, RoomsTyped
<1>3. \A o \in Room, p \in Profile : people[o][p] # None => people[o][p].since \in Nat
  BY DEF RoomsInv, RoomsTyped, G!Person
<1>4. JoinedBefore'
  BY <1>1, <1>3 DEF RoomsInv, JoinedBefore
<1>5. AdminsStay'
  BY DEF RoomsInv, AdminsStay
<1> QED BY <1>2, <1>4, <1>5 DEF RoomsInv

\* Reading a room: what changes is that nothing in it is unread for the reader.
LEMMA ReadRoom ==
  ASSUME NEW ms \in Seq(G!Message), NEW r \in Room, NEW p \in Profile
  PROVE  /\ G!ReadBy(ms, r, p) \in Seq(G!Message) /\ DOMAIN G!ReadBy(ms, r, p) = DOMAIN ms
         /\ \A m \in DOMAIN ms : LET x == G!ReadBy(ms, r, p)[m] IN
              /\ x.room = ms[m].room /\ x.at = ms[m].at
              /\ x.status[p] = "unread" => ms[m].room # r
              /\ \A o \in Profile : x.status[o] # "none" => ms[m].status[o] # "none"
              /\ \A o \in Profile : x.status[o] = "unread" => ms[m].status[o] = "unread"
<1> DEFINE x(m) == IF ms[m].room = r /\ ms[m].status[p] = "unread"
                   THEN [ms[m] EXCEPT !.status[p] = "read"] ELSE ms[m]
<1>1. G!ReadBy(ms, r, p) = [m \in DOMAIN ms |-> x(m)]
  BY DEF G!ReadBy
<1>2. \A m \in DOMAIN ms : ms[m] \in G!Message
  OBVIOUS
<1>3. ASSUME NEW m \in DOMAIN ms
      PROVE  /\ x(m) \in G!Message /\ x(m).room = ms[m].room /\ x(m).at = ms[m].at
             /\ x(m).status[p] = "unread" => ms[m].room # r
             /\ \A o \in Profile : x(m).status[o] # "none" => ms[m].status[o] # "none"
             /\ \A o \in Profile : x(m).status[o] = "unread" => ms[m].status[o] = "unread"
  <2>1. CASE ms[m].room = r /\ ms[m].status[p] = "unread"
    <3> DEFINE st == [ms[m].status EXCEPT ![p] = "read"]
    <3>1. ms[m].status \in [Profile -> {"none", "unread", "read"}]
      BY <1>2 DEF G!Message
    <3>2. /\ st \in [Profile -> {"none", "unread", "read"}] /\ st[p] = "read"
          /\ \A o \in Profile : o # p => st[o] = ms[m].status[o]
      BY <3>1
    <3>3. x(m) = [ms[m] EXCEPT !.status = st]
      BY <1>2, <2>1, <3>1 DEF G!Message
    <3> HIDE DEF st, x
    <3>4. x(m) \in G!Message /\ x(m).room = ms[m].room /\ x(m).at = ms[m].at /\ x(m).status = st
      BY <1>2, <3>2, <3>3 DEF G!Message
    <3> QED BY <2>1, <3>2, <3>4
  <2>2. CASE ~(ms[m].room = r /\ ms[m].status[p] = "unread")
    BY <1>2, <2>2
  <2> QED BY <2>1, <2>2
<1> HIDE DEF x
<1>4. DOMAIN ms = 1..Len(ms) /\ Len(ms) \in Nat
  OBVIOUS
<1>5. [m \in DOMAIN ms |-> x(m)] \in Seq(G!Message)
  BY <1>3, <1>4
<1> QED BY <1>1, <1>3, <1>5

\* A room is read.
LEMMA RoomsRead ==
  ASSUME RoomsInv, NEW r \in Room, NEW p \in Profile, G!ReadMessages(r, p)
  PROVE  RoomsInv'
<1>1. /\ msgs' = G!ReadBy(msgs, r, p) /\ G!Tick /\ UNCHANGED <<people, left, given_up>>
      /\ marked' = marked \ {<<r, p>>}
  BY DEF G!ReadMessages
<1>2. /\ msgs \in Seq(G!Message) /\ clock \in Nat /\ clock' = clock + 1
      /\ count \in [Room -> [Profile -> 0..clock \cup {None}]] /\ marked \subseteq Room \X Profile
  BY <1>1, RoomAssumption DEF RoomsInv, RoomsTyped, G!Tick
<1>3. /\ count' \in [Room -> [Profile -> 0..clock' \cup {None}]]
      /\ \A o \in Room, x \in Profile : o # r \/ x # p => count'[o][x] = count[o][x]
  <2>1. count' = [count EXCEPT ![r][p] = 0] /\ 0..clock \subseteq 0..clock' /\ 0 \in 0..clock'
    BY <1>2 DEF G!ReadMessages
  <2> QED BY <1>2, <2>1
<1>4. /\ msgs' \in Seq(G!Message) /\ DOMAIN msgs' = DOMAIN msgs
      /\ \A m \in DOMAIN msgs :
              /\ msgs'[m].room = msgs[m].room /\ msgs'[m].at = msgs[m].at
              /\ msgs'[m].status[p] = "unread" => msgs[m].room # r
              /\ \A o \in Profile : msgs'[m].status[o] # "none" => msgs[m].status[o] # "none"
              /\ \A o \in Profile : msgs'[m].status[o] = "unread" => msgs[m].status[o] = "unread"
  BY <1>1, <1>2, ReadRoom
<1>5. \A m \in DOMAIN msgs : msgs[m].room \in Room
  BY MessagesTyped
<1>6. UnreadCounted'
  <2> SUFFICES ASSUME NEW m \in DOMAIN msgs, NEW o \in Profile, msgs'[m].status[o] = "unread"
               PROVE  count'[msgs[m].room][o] \in 1..clock'
    BY <1>4 DEF UnreadCounted
  <2>1. msgs[m].status[o] = "unread" /\ (o = p => msgs[m].room # r)
    BY <1>4
  <2>2. count[msgs[m].room][o] \in 1..clock
    BY <2>1 DEF RoomsInv, UnreadCounted
  <2>3. 1..clock \subseteq 1..clock'
    BY <1>2
  <2> QED BY <1>3, <1>5, <2>1, <2>2, <2>3
<1>7. StatusShown'
  BY <1>1, <1>4, <1>5 DEF RoomsInv, StatusShown
<1> QED BY <1>1, <1>2, <1>3, <1>4, <1>6, <1>7, RoomsMessages

\* A room is marked unread.
LEMMA RoomsMark ==
  ASSUME RoomsInv, NEW r \in Room, NEW p \in Profile, G!MarkUnread(r, p)
  PROVE  RoomsInv'
<1>1. /\ G!Tick /\ UNCHANGED <<people, msgs, left, given_up>> /\ marked' = marked \cup {<<r, p>>}
  BY DEF G!MarkUnread
<1>2. /\ msgs \in Seq(G!Message) /\ clock \in Nat /\ clock' = clock + 1
      /\ count \in [Room -> [Profile -> 0..clock \cup {None}]] /\ marked \subseteq Room \X Profile
  BY <1>1, RoomAssumption DEF RoomsInv, RoomsTyped, G!Tick
<1>3. /\ count' \in [Room -> [Profile -> 0..clock' \cup {None}]]
      /\ \A o \in Room, x \in Profile : count[o][x] # None => count'[o][x] = count[o][x]
  <2>1. /\ count' = [count EXCEPT ![r][p] = IF count[r][p] = None THEN 0 ELSE count[r][p]]
        /\ 0..clock \subseteq 0..clock' /\ 0 \in 0..clock'
    BY <1>2 DEF G!MarkUnread
  <2> QED BY <1>2, <2>1
<1>4. \A m \in DOMAIN msgs : msgs[m].room \in Room
  BY MessagesTyped
<1>5. UnreadCounted'
  <2>1. None \notin 1..clock /\ 1..clock \subseteq 1..clock'
    BY <1>2, RoomAssumption DEF RoomsInv, RoomsTyped
  <2> QED BY <1>1, <1>3, <1>4, <2>1 DEF RoomsInv, UnreadCounted
<1>6. StatusShown'
  BY <1>1 DEF RoomsInv, StatusShown
<1> QED BY <1>1, <1>2, <1>3, <1>5, <1>6, RoomsMessages

\* A message is deleted.
LEMMA RoomsDelete ==
  ASSUME RoomsInv, NEW m \in DOMAIN msgs, G!DeleteMessage(m)
  PROVE  RoomsInv'
<1>1. /\ msgs' = [msgs EXCEPT ![m].deleted = TRUE] /\ G!Tick /\ UNCHANGED <<people, count, marked, left, given_up>>
  BY DEF G!DeleteMessage
<1>2. /\ msgs \in Seq(G!Message) /\ clock \in Nat /\ clock' = clock + 1
      /\ count \in [Room -> [Profile -> 0..clock \cup {None}]] /\ marked \subseteq Room \X Profile
  BY <1>1, RoomAssumption DEF RoomsInv, RoomsTyped, G!Tick
<1>3. 0..clock \subseteq 0..clock' /\ 1..clock \subseteq 1..clock'
  BY <1>2
<1>4. msgs[m] \in G!Message
  BY MessagesTyped
<1>5. /\ [msgs[m] EXCEPT !.deleted = TRUE] \in G!Message
      /\ [msgs[m] EXCEPT !.deleted = TRUE].room = msgs[m].room
      /\ [msgs[m] EXCEPT !.deleted = TRUE].at = msgs[m].at
      /\ [msgs[m] EXCEPT !.deleted = TRUE].status = msgs[m].status
  BY <1>4 DEF G!Message
<1>6. /\ msgs' \in Seq(G!Message) /\ DOMAIN msgs' = DOMAIN msgs
      /\ \A k \in DOMAIN msgs : /\ msgs'[k].room = msgs[k].room /\ msgs'[k].at = msgs[k].at
                                /\ msgs'[k].status = msgs[k].status
  BY <1>1, <1>2, <1>5
<1>7. UnreadCounted'
  BY <1>1, <1>3, <1>6 DEF RoomsInv, UnreadCounted
<1>8. StatusShown'
  BY <1>1, <1>6 DEF RoomsInv, StatusShown
<1>9. count' \in [Room -> [Profile -> 0..clock' \cup {None}]]
  BY <1>1, <1>2, <1>3
<1> QED BY <1>1, <1>2, <1>6, <1>7, <1>8, <1>9, RoomsMessages

\* A message is sent.
LEMMA RoomsSend ==
  ASSUME RoomsInv, NEW r \in Room, NEW p \in Profile, G!SendMessage(r, p)
  PROVE  RoomsInv'
<1> DEFINE new == [room |-> r, author |-> p, at |-> clock, deleted |-> FALSE,
                   status |-> [o \in Profile |-> IF o \notin G!Members(r) THEN "none"
                                                 ELSE IF o = p THEN "read" ELSE "unread"]]
           ms == Append(msgs, new)
           sent == [o \in Profile |->
             IF o \in G!Members(r) \ {p} THEN (IF count[r][o] = None THEN 1 ELSE count[r][o] + 1)
             ELSE IF o = p /\ count[r][o] # None THEN 0 ELSE count[r][o]]
<1>1. /\ msgs' = G!ReadBy(ms, r, p) /\ count' = [count EXCEPT ![r] = sent]
      /\ G!Tick /\ UNCHANGED <<people, marked, left, given_up>>
  BY DEF G!SendMessage
<1>2. /\ msgs \in Seq(G!Message) /\ clock \in 0..MaxEvents /\ clock \in Nat /\ clock' = clock + 1
      /\ count \in [Room -> [Profile -> 0..clock \cup {None}]] /\ marked \subseteq Room \X Profile
  BY <1>1, RoomAssumption DEF RoomsInv, RoomsTyped, G!Tick
<1>3. new \in G!Message
  BY <1>2 DEF G!Message
<1>4. /\ new.room = r /\ new.at = clock
      /\ \A o \in Profile : new.status[o] # "none" => people[r][o] # None
      /\ \A o \in Profile : new.status[o] = "unread" => o \in G!Members(r) \ {p}
  BY DEF G!Members
<1>5. \A o \in Profile : count[r][o] \in 0..clock \cup {None}
  BY <1>2
<1>6. \A o \in Profile : sent[o] \in 0..clock' \cup {None}
  BY <1>2, <1>5
<1>7. ASSUME NEW o \in Profile, o # p
      PROVE  /\ count[r][o] \in 1..clock => sent[o] \in 1..clock'
             /\ o \in G!Members(r) => sent[o] \in 1..clock'
  <2>1. None \notin 1..clock
    BY <1>2, RoomAssumption
  <2> QED BY <1>2, <1>5, <1>7, <2>1
<1> HIDE DEF new, sent
<1>8. /\ ms \in Seq(G!Message) /\ DOMAIN ms = DOMAIN msgs \cup {Len(msgs) + 1}
      /\ \A m \in DOMAIN msgs : ms[m] = msgs[m]
      /\ ms[Len(msgs) + 1] = new
  BY <1>2, <1>3
<1> HIDE DEF ms
<1>9. /\ msgs' \in Seq(G!Message) /\ DOMAIN msgs' = DOMAIN ms
      /\ \A m \in DOMAIN ms :
              /\ msgs'[m].room = ms[m].room /\ msgs'[m].at = ms[m].at
              /\ msgs'[m].status[p] = "unread" => ms[m].room # r
              /\ \A o \in Profile : msgs'[m].status[o] # "none" => ms[m].status[o] # "none"
              /\ \A o \in Profile : msgs'[m].status[o] = "unread" => ms[m].status[o] = "unread"
  BY <1>1, <1>8, ReadRoom
<1>10. /\ count' \in [Room -> [Profile -> 0..clock' \cup {None}]]
       /\ count'[r] = sent /\ \A o \in Room : o # r => count'[o] = count[o]
  <2>1. sent \in [Profile -> 0..clock' \cup {None}]
    BY <1>6 DEF sent
  <2>2. 0..clock \subseteq 0..clock'
    BY <1>2
  <2>3. count \in [Room -> [Profile -> 0..clock' \cup {None}]]
    BY <1>2, <2>2
  <2> QED BY <1>1, <2>1, <2>3
<1>11. \A m \in DOMAIN msgs : msgs[m].room \in Room
  BY MessagesTyped
<1>12. 1..clock \subseteq 1..clock'
  BY <1>2
<1>13. UnreadCounted'
  <2> SUFFICES ASSUME NEW m \in DOMAIN ms, NEW o \in Profile, msgs'[m].status[o] = "unread"
               PROVE  count'[ms[m].room][o] \in 1..clock'
    BY <1>9 DEF UnreadCounted
  <2>1. ms[m].status[o] = "unread" /\ (o = p => ms[m].room # r)
    BY <1>9
  <2>2. CASE m \in DOMAIN msgs
    <3>1. count[ms[m].room][o] \in 1..clock /\ ms[m].room \in Room
      BY <1>8, <1>11, <2>1, <2>2 DEF RoomsInv, UnreadCounted
    <3> QED BY <1>7, <1>10, <1>12, <2>1, <3>1
  <2>3. CASE m \notin DOMAIN msgs
    <3>1. ms[m] = new
      BY <1>8, <2>3
    <3> QED BY <1>4, <1>7, <1>10, <2>1, <3>1
  <2> QED BY <2>2, <2>3
<1>14. StatusShown'
  <2> SUFFICES ASSUME NEW m \in DOMAIN ms, NEW o \in Profile, msgs'[m].status[o] # "none",
                      <<ms[m].room, o>> \notin left
               PROVE  /\ people[ms[m].room][o] # None
                      /\ people[ms[m].room][o].since <= ms[m].at
    BY <1>1, <1>9 DEF StatusShown
  <2>1. ms[m].status[o] # "none"
    BY <1>9
  <2>2. CASE m \in DOMAIN msgs
    BY <1>8, <2>1, <2>2 DEF RoomsInv, StatusShown
  <2>3. CASE m \notin DOMAIN msgs
    <3>1. ms[m] = new
      BY <1>8, <2>3
    <3> QED BY <1>4, <2>1, <3>1 DEF RoomsInv, JoinedBefore
  <2> QED BY <2>2, <2>3
<1> QED BY <1>1, <1>2, <1>9, <1>10, <1>13, <1>14, RoomsMessages

\* Every step of the part keeps its invariant.
LEMMA RoomsStep ==
  ASSUME RoomsInv, G!Next \/ UNCHANGED G!vars
  PROVE  RoomsInv'
<1>1. CASE UNCHANGED G!vars
  BY <1>1 DEF G!vars, RoomsInv, RoomsTyped, JoinedBefore, AdminsStay, UnreadCounted, StatusShown
<1> QED BY <1>1, RoomsUpdate, RoomsToggle, RoomsSend, RoomsRead, RoomsMark,
           RoomsArchive, RoomsDelete DEF G!Next

\* The invariant implies what the run checks of the part.
LEMMA RoomsFollow == RoomsInv => G!TypeOK /\ G!RoomViewsConsistent
<1> SUFFICES ASSUME RoomsInv PROVE G!TypeOK /\ G!RoomViewsConsistent
  OBVIOUS
<1>1. G!TypeOK
  <2>1. 0..clock \subseteq 0..MaxEvents /\ \A m \in DOMAIN msgs : msgs[m] \in G!Message
    BY MessagesTyped, RoomAssumption DEF RoomsInv, RoomsTyped
  <2> QED BY <2>1 DEF RoomsInv, RoomsTyped, G!TypeOK
<1>2. \A v \in G!Shown : v.user \in User /\ v.profile \in Profile /\ v.profile # None /\ Owner[v.profile] = v.user
  BY DEF G!Shown, G!Viewers, G!Valid, G!get_if_member, G!filter_user_profiles
<1>3. \A r \in Room, p \in Profile :
        /\ p \in G!Members(r) <=> people[r][p] # None
        /\ people[r][p] # None => people[r][p].admin \in BOOLEAN /\ people[r][p].archived \in BOOLEAN
        /\ people[r][p] # None => people[r][p].since \in Nat
  BY DEF G!Members, RoomsInv, RoomsTyped, G!Person
<1>4. G!AdminsKnow
  <2>1. ASSUME NEW r \in Room, NEW v \in G!Shown
        PROVE  /\ G!resolve_is_sole_admin(v, r) <=> (r \in Group /\ G!is_sole_admin(v.profile, r))
               /\ r \in G!filter_manageable(v) <=> G!can_modify_chatroom(v.profile, r, FALSE)
    BY <1>2 DEF G!resolve_is_sole_admin, G!is_sole_admin, G!filter_manageable, G!can_modify_chatroom, G!Admins
  <2>2. ASSUME NEW r \in Group \ given_up, G!Members(r) # {} PROVE G!Admins(r) # {}
    <3>1. r \in Room
      BY RoomAssumption
    <3>2. PICK p \in Profile : people[r][p] # None /\ people[r][p].admin = TRUE
      BY <2>2 DEF G!Members, RoomsInv, AdminsStay
    <3> QED BY <3>1, <3>2 DEF G!Admins, G!Members
  <2> QED BY <2>1, <2>2 DEF G!AdminsKnow
<1>5. G!ListsAgree
  <2> SUFFICES ASSUME NEW v \in G!Shown, NEW r \in Room
               PROVE  /\ r \in G!filter_archived(v, TRUE) <=> G!resolve_is_archived(v, None, r)
                      /\ r \in G!filter_archived(v, FALSE)
                           <=> G!resolve_is_participant(r, v.profile) /\ ~G!resolve_is_archived(v, v.profile, r)
                      /\ r \in G!filter_unread_messages(v, None)
                           <=> \/ G!resolve_unread_messages(v, None, r).marked
                               \/ /\ G!resolve_unread_messages(v, None, r).count # None
                                  /\ G!resolve_unread_messages(v, None, r).count > 0
                      /\ \A m \in G!In(r) : G!resolve_is_read(v, None, m) = "unread" =>
                           /\ r \in G!filter_unread_messages(v, v.profile)
                           /\ <<r, v.profile>> \notin left => m \in G!resolve_all_messages(v, r)
    BY DEF G!ListsAgree
  <2>1. /\ G!get_profile_pk(v, None) = v.profile /\ G!get_profile_pk(v, v.profile) = v.profile
        /\ G!get_if_member(v.profile, v.user)
    BY <1>2 DEF G!get_profile_pk, G!get_if_member, G!filter_user_profiles
  <2>2. /\ r \in G!filter_archived(v, TRUE) <=> G!resolve_is_archived(v, None, r)
        /\ r \in G!filter_archived(v, FALSE)
             <=> G!resolve_is_participant(r, v.profile) /\ ~G!resolve_is_archived(v, v.profile, r)
    BY <1>2, <1>3, <2>1 DEF G!filter_archived, G!filter_profile_id, G!resolve_is_archived, G!IsArchived, G!resolve_is_participant
  <2>3. count[r][v.profile] \in 0..MaxEvents \cup {None} /\ None \notin 0..MaxEvents /\ MaxEvents \in Nat
    BY <1>1, <1>2, RoomAssumption DEF G!TypeOK
  <2>4. r \in G!filter_unread_messages(v, None)
          <=> \/ G!resolve_unread_messages(v, None, r).marked
              \/ /\ G!resolve_unread_messages(v, None, r).count # None
                 /\ G!resolve_unread_messages(v, None, r).count > 0
    <3>2. r \in G!filter_unread_messages(v, None)
            <=> count[r][v.profile] \in 1..MaxEvents \/ <<r, v.profile>> \in marked
      BY DEF G!filter_unread_messages, G!Unread
    <3>3. count[r][v.profile] \in 1..MaxEvents <=> count[r][v.profile] # None /\ count[r][v.profile] > 0
      BY <2>3
    <3>4. /\ G!resolve_unread_messages(v, None, r).marked <=> <<r, v.profile>> \in marked
          /\ G!resolve_unread_messages(v, None, r).count = count[r][v.profile]
      BY DEF G!resolve_unread_messages
    <3> HIDE DEF G!resolve_unread_messages
    <3> QED BY <3>2, <3>3, <3>4
  <2>5. ASSUME NEW m \in G!In(r), G!resolve_is_read(v, None, m) = "unread"
        PROVE  /\ r \in G!filter_unread_messages(v, v.profile)
               /\ <<r, v.profile>> \notin left => m \in G!resolve_all_messages(v, r)
    <3>1. m \in DOMAIN msgs /\ msgs[m].room = r /\ msgs[m].status[v.profile] = "unread"
      BY <1>2, <2>1, <2>5 DEF G!In, G!resolve_is_read
    <3>2. count[r][v.profile] \in 1..clock /\ clock \in 0..MaxEvents
      BY <1>2, <3>1 DEF RoomsInv, RoomsTyped, UnreadCounted
    <3>3. count[r][v.profile] \in 1..MaxEvents
      BY <3>2, RoomAssumption
    <3>4. r \in G!filter_unread_messages(v, v.profile)
      BY <1>2, <3>3 DEF G!filter_unread_messages, G!Unread
    <3>5. <<r, v.profile>> \notin left => people[r][v.profile].since <= msgs[m].at
      BY <1>2, <3>1 DEF RoomsInv, StatusShown
    <3>6. msgs[m].at \in Nat
      BY <3>1, MessagesTyped, RoomAssumption
    <3>7. <<r, v.profile>> \notin left => msgs[m].at >= people[r][v.profile].since
      <4>1. <<r, v.profile>> \notin left => people[r][v.profile] # None
        BY <1>2, <3>1 DEF RoomsInv, StatusShown
      <4> QED BY <1>2, <1>3, <3>5, <3>6, <4>1
    <3> QED BY <3>4, <3>7 DEF G!resolve_all_messages
  <2> QED BY <2>2, <2>4, <2>5
<1>6. G!NobodyReadsDeleted
  <2>1. ASSUME NEW v \in G!Viewers, G!Valid(v), NEW m \in DOMAIN msgs, NEW named \in Profile \cup {None}
        PROVE  /\ msgs[m].deleted => G!resolve_content(v, named, m) # "content"
               /\ G!resolve_content(v, named, m) = "You deleted" => Owner[msgs[m].author] = v.user
    <3>1. G!get_profile_pk(v, named) # None => Owner[G!get_profile_pk(v, named)] = v.user
      BY <2>1, RoomAssumption DEF G!get_profile_pk, G!Viewers, G!Valid, G!get_if_member, G!filter_user_profiles
    <3>2. G!resolve_content(v, named, m) = "You deleted" => G!get_profile_pk(v, named) # None /\ G!get_profile_pk(v, named) = msgs[m].author
      BY DEF G!resolve_content
    <3> QED BY <3>1, <3>2 DEF G!resolve_content
  <2>2. ASSUME NEW v \in G!Viewers, NEW r \in Room \ Group, v.profile \in G!Members(r)
        PROVE  G!get_other_participant(v, r) = G!resolve_participant_ids(r) \ {v.profile}
    <3>1. v.profile # None
      BY <2>2, RoomAssumption DEF G!Members
    <3> QED BY <3>1 DEF G!get_other_participant, G!resolve_participant_ids
  <2> QED BY <2>1, <2>2 DEF G!NobodyReadsDeleted
<1> QED BY <1>1, <1>4, <1>5, <1>6 DEF G!RoomViewsConsistent

-----------------------------------------------------------------------------
(* Activity logs. *)

\* A request under way.
LogRequest ==
  [context : A!Context, row : A!Context \cup {None}, session : User \cup {None},
   actor : User \cup {None}, token : BOOLEAN, fields : Seq(BOOLEAN), late : SUBSET User]
\* A committed row.
Log ==
  [user : User \cup {None}, profile : A!Profiles \cup {None}, public : BOOLEAN,
   actor : User \cup {None}, mixed : BOOLEAN, fields : Seq(BOOLEAN), late : SUBSET User]

\* A context of a request: it is of who acts, and its profile is one that the session may use.
OfRequest(c, r) ==
  /\ c.user = r.actor
  /\ c.profile # None => r.session # None /\ c.profile \in Uses[r.session]

\* A request under way, and the row that it has written.
RequestWell(r, dead) ==
  /\ r \in LogRequest /\ Len(r.fields) <= MaxFields /\ r.late \subseteq dead
  /\ OfRequest(r.context, r)
  /\ r.context.public = TRUE <=> \E i \in DOMAIN r.fields : r.fields[i] = TRUE
  /\ r.row # None =>
       /\ OfRequest(r.row, r) /\ r.fields # <<>>
       /\ r.row.public = TRUE => \E i \in DOMAIN r.fields : r.fields[i] = TRUE
       /\ Len(r.fields) = 1 => (r.row.public = TRUE <=> r.fields[1] = TRUE)
  /\ r.actor \in dead => r.actor \in r.late

\* A committed row.
LogWell(l, dead) ==
  /\ l \in Log
  /\ IF l.user = None THEN l.actor \in dead \cup {None} ELSE l.user = l.actor
  /\ l.profile # None /\ l.mixed = FALSE => l.actor # None /\ l.profile \in Uses[l.actor]
  /\ l.public = TRUE => \E i \in DOMAIN l.fields : l.fields[i] = TRUE
  /\ Len(l.fields) = 1 => (l.public = TRUE <=> l.fields[1] = TRUE)
  /\ l.user \in dead => l.user \in l.late

\* The requests and the committed rows are as they should be.
LogsInv ==
  /\ gone \subseteq User
  /\ req = [q \in Request |-> req[q]] /\ \A q \in Request : req[q] # None => RequestWell(req[q], gone)
  /\ logs \in Seq(Log) /\ Len(logs) <= MaxLogs /\ \A i \in DOMAIN logs : LogWell(logs[i], gone)

\* What a sequence is after an append.
LEMMA Appended ==
  ASSUME NEW X, NEW s \in Seq(X), NEW x \in X
  PROVE  /\ Append(s, x) \in Seq(X) /\ Append(s, x) # <<>>
         /\ Len(s) \in Nat /\ Len(Append(s, x)) = Len(s) + 1
         /\ DOMAIN Append(s, x) = DOMAIN s \cup {Len(s) + 1}
         /\ \A i \in DOMAIN s : Append(s, x)[i] = s[i]
         /\ Append(s, x)[Len(s) + 1] = x
OBVIOUS

\* At the start there is no log.
LEMMA LogsInit == A!Init => LogsInv
<1> SUFFICES ASSUME A!Init PROVE LogsInv
  OBVIOUS
<1>1. gone = {} /\ logs = <<>> /\ logs \in Seq(Log) /\ Len(logs) = 0 /\ DOMAIN logs = {}
  BY DEF A!Init
<1>2. req = [q \in Request |-> req[q]] /\ \A q \in Request : req[q] = None
  BY DEF A!Init
<1> QED BY <1>1, <1>2, LogAssumption DEF LogsInv

\* A step of one request that commits nothing.
LEMMA LogsOneRequest ==
  ASSUME LogsInv, NEW q \in Request, NEW r, req' = [req EXCEPT ![q] = r],
         r # None => RequestWell(r, gone), UNCHANGED <<logs, gone>>
  PROVE  LogsInv'
<1>1. req' = [o \in Request |-> IF o = q THEN r ELSE req[o]]
  BY DEF LogsInv
<1>2. \A o \in Request : req'[o] = IF o = q THEN r ELSE req[o]
  BY <1>1
<1>5. ASSUME NEW o \in Request, req'[o] # None PROVE RequestWell(req'[o], gone')
  BY <1>2, <1>5 DEF LogsInv
<1>6. ASSUME NEW i \in DOMAIN logs' PROVE LogWell(logs'[i], gone')
  BY DEF LogsInv
<1>7. req' = [o \in Request |-> req'[o]]
  BY <1>1
<1> QED BY <1>5, <1>6, <1>7 DEF LogsInv

\* A request begins, with the profile that it asked for or that its user owns.
LEMMA LogsBegin ==
  ASSUME LogsInv, NEW q \in Request, NEW s \in User \cup {None}, NEW header \in A!Profiles \cup {None},
         A!HistoryMiddleware(q, s, header)
  PROVE  LogsInv'
<1> DEFINE p == A!CurrentProfileMiddleware(s, header)
           r == [context |-> [user |-> s, profile |-> p, public |-> FALSE],
                 row |-> None, session |-> s, actor |-> s, token |-> FALSE, fields |-> <<>>, late |-> {}]
<1>1. req' = [req EXCEPT ![q] = r] /\ UNCHANGED <<logs, gone>> /\ s \in (User \ gone) \cup {None}
  BY DEF A!HistoryMiddleware
<1>2. p \in A!Profiles \cup {None} /\ (p # None => s # None /\ p \in Uses[s])
  BY LogAssumption DEF A!CurrentProfileMiddleware, A!Profiles
<1> HIDE DEF p
<1>3. r.context \in A!Context
  BY <1>1, <1>2 DEF A!Context
<1>4. r \in LogRequest /\ Len(r.fields) = 0 /\ DOMAIN r.fields = {}
  BY <1>1, <1>3 DEF LogRequest
<1>5. RequestWell(r, gone)
  BY <1>1, <1>2, <1>4, LogAssumption DEF RequestWell, OfRequest, LogsInv
<1> QED BY <1>1, <1>5, LogsOneRequest

\* A token says who acts.
LEMMA LogsResolve ==
  ASSUME LogsInv, NEW q \in Request, NEW u \in User, A!resolve(q, u)
  PROVE  LogsInv'
<1> DEFINE r == [req[q] EXCEPT !.context = A!__setattr__(req[q].context, u), !.actor = u, !.token = TRUE]
<1>1. req' = [req EXCEPT ![q] = r] /\ UNCHANGED <<logs, gone>> /\ u \in User \ gone
  BY DEF A!resolve
<1>2. RequestWell(req[q], gone) /\ req[q] \in LogRequest /\ req[q].fields = <<>>
  BY DEF A!resolve, A!Running, LogsInv, RequestWell
<1>3. /\ r \in LogRequest /\ r.context = [req[q].context EXCEPT !.user = u] /\ r.actor = u
      /\ r.session = req[q].session /\ r.fields = <<>> /\ r.row = req[q].row /\ r.late = req[q].late
  BY <1>2 DEF LogRequest, A!__setattr__, A!Context
<1>4. /\ r.context.user = u /\ r.context.profile = req[q].context.profile
      /\ r.context.public = req[q].context.public
  BY <1>2, <1>3 DEF LogRequest, A!Context
<1>5. RequestWell(r, gone)
  BY <1>1, <1>2, <1>3, <1>4 DEF RequestWell, OfRequest
<1> QED BY <1>1, <1>5, LogsOneRequest

\* A field of it is resolved.
LEMMA LogsMutate ==
  ASSUME LogsInv, NEW q \in Request, NEW public \in BOOLEAN, A!mutate(q, public)
  PROVE  LogsInv'
<1> DEFINE r == [req[q] EXCEPT !.context = A!set_public_activity(req[q].context, public), !.fields = Append(@, public)]
<1>1. req' = [req EXCEPT ![q] = r] /\ UNCHANGED <<logs, gone>>
  BY DEF A!mutate
<1>2. RequestWell(req[q], gone) /\ req[q] \in LogRequest /\ req[q].fields \in Seq(BOOLEAN) /\ Len(req[q].fields) < MaxFields
  BY DEF A!mutate, A!Running, LogsInv, RequestWell, LogRequest
<1>a. (public \/ req[q].context.public) \in BOOLEAN
  OBVIOUS
<1>b. [req[q].context EXCEPT !.public = public \/ req[q].context.public] \in A!Context
  BY <1>2, <1>a DEF LogRequest, A!Context
<1>c. Append(req[q].fields, public) \in Seq(BOOLEAN)
  BY <1>2
<1>3. /\ r.context = [req[q].context EXCEPT !.public = public \/ req[q].context.public] /\ r.actor = req[q].actor
      /\ r.session = req[q].session /\ r.fields = Append(req[q].fields, public)
      /\ r.row = req[q].row /\ r.late = req[q].late
  BY <1>2 DEF LogRequest, A!set_public_activity
<1>4. r \in LogRequest
  BY <1>2, <1>b, <1>c DEF LogRequest, A!set_public_activity
<1>5. /\ r.context.user = req[q].context.user /\ r.context.profile = req[q].context.profile
      /\ r.context.public = TRUE <=> public = TRUE \/ req[q].context.public = TRUE
  BY <1>2, <1>3 DEF LogRequest, A!Context
<1>6. /\ Len(r.fields) = Len(req[q].fields) + 1 /\ r.fields # <<>> /\ Len(r.fields) <= MaxFields
      /\ DOMAIN r.fields = DOMAIN req[q].fields \cup {Len(req[q].fields) + 1}
      /\ \A i \in DOMAIN req[q].fields : r.fields[i] = req[q].fields[i]
      /\ r.fields[Len(req[q].fields) + 1] = public
  <2>1. \A X : \A s \in Seq(X), x \in X :
          /\ Append(s, x) # <<>> /\ Len(Append(s, x)) = Len(s) + 1 /\ Len(s) \in Nat
          /\ DOMAIN Append(s, x) = DOMAIN s \cup {Len(s) + 1}
          /\ \A i \in DOMAIN s : Append(s, x)[i] = s[i]
          /\ Append(s, x)[Len(s) + 1] = x
    BY Appended
  <2>2. /\ r.fields # <<>> /\ Len(r.fields) = Len(req[q].fields) + 1 /\ Len(req[q].fields) \in Nat
        /\ DOMAIN r.fields = DOMAIN req[q].fields \cup {Len(req[q].fields) + 1}
        /\ \A i \in DOMAIN req[q].fields : r.fields[i] = req[q].fields[i]
        /\ r.fields[Len(req[q].fields) + 1] = public
    BY <1>2, <1>3, <2>1
  <2> QED BY <1>2, <2>2, LogAssumption
<1>7. (\E i \in DOMAIN r.fields : r.fields[i] = TRUE)
        <=> public = TRUE \/ \E i \in DOMAIN req[q].fields : req[q].fields[i] = TRUE
  BY <1>6
<1>8. Len(r.fields) = 1 => r.row = None
  BY <1>2, <1>3, <1>6 DEF RequestWell
<1> HIDE DEF r
<1>9. r.row # None =>
        /\ OfRequest(r.row, r)
        /\ r.row.public = TRUE => \E i \in DOMAIN r.fields : r.fields[i] = TRUE
  BY <1>2, <1>3, <1>7 DEF RequestWell, OfRequest
<1>10. OfRequest(r.context, r)
  BY <1>2, <1>3, <1>5 DEF RequestWell, OfRequest
<1>11. r.context.public = TRUE <=> \E i \in DOMAIN r.fields : r.fields[i] = TRUE
  BY <1>2, <1>5, <1>7 DEF RequestWell
<1>12. r.late \subseteq gone /\ (r.actor \in gone => r.actor \in r.late)
  BY <1>2, <1>3 DEF RequestWell
<1>13. RequestWell(r, gone)
  BY <1>4, <1>6, <1>8, <1>9, <1>10, <1>11, <1>12 DEF RequestWell
<1> QED BY <1>1, <1>13, LogsOneRequest

\* It writes its row.
LEMMA LogsWrite ==
  ASSUME LogsInv, NEW q \in Request, A!Write(q)
  PROVE  LogsInv'
<1> DEFINE r == [req[q] EXCEPT !.row = req[q].context]
<1>1. req' = [req EXCEPT ![q] = r] /\ UNCHANGED <<logs, gone>>
  BY DEF A!Write
<1>2. RequestWell(req[q], gone) /\ req[q] \in LogRequest /\ req[q].fields # <<>> /\ req[q].fields \in Seq(BOOLEAN)
  BY DEF A!Write, A!Running, LogsInv, RequestWell, LogRequest
<1>3. /\ r \in LogRequest /\ r.context = req[q].context /\ r.actor = req[q].actor
      /\ r.session = req[q].session /\ r.fields = req[q].fields /\ r.row = req[q].context
      /\ r.late = req[q].late
  BY <1>2 DEF LogRequest
<1>4. Len(r.fields) = 1 => (r.row.public = TRUE <=> r.fields[1] = TRUE)
  <2>1. Len(r.fields) = 1 => DOMAIN r.fields = {1}
    BY <1>2, <1>3
  <2> QED BY <1>2, <1>3, <2>1 DEF RequestWell
<1> HIDE DEF r
<1>5. RequestWell(r, gone)
  BY <1>2, <1>3, <1>4 DEF RequestWell, OfRequest
<1> QED BY <1>1, <1>5, LogsOneRequest

\* What is committed is what the request wrote last.
LEMMA LogsEnd ==
  ASSUME LogsInv, NEW q \in Request, A!End(q)
  PROVE  LogsInv'
<1>1. CASE UNCHANGED logs
  BY <1>1, LogsOneRequest DEF A!End
<1>2. CASE ~UNCHANGED logs
  <2> DEFINE l == [user |-> req[q].row.user, profile |-> req[q].row.profile,
                   public |-> req[q].row.public, actor |-> req[q].actor,
                   mixed |-> req[q].session # None /\ req[q].session # req[q].actor,
                   fields |-> req[q].fields, late |-> req[q].late]
  <2>1. /\ req' = [req EXCEPT ![q] = None] /\ req[q] # None /\ req[q].row # None /\ gone' = gone
        /\ Len(logs) < MaxLogs /\ logs' = Append(logs, l)
    BY <1>2 DEF A!End, A!Running
  <2>2. RequestWell(req[q], gone) /\ req[q] \in LogRequest /\ req[q].row \in A!Context
    BY <2>1 DEF LogsInv, RequestWell, LogRequest
  <2>a. (req[q].session # None /\ req[q].session # req[q].actor) \in BOOLEAN
    OBVIOUS
  <2>3. l \in Log
    BY <2>2, <2>a DEF Log, LogRequest, A!Context
  <2>4. /\ l.user = req[q].row.user /\ l.profile = req[q].row.profile
        /\ l.public = req[q].row.public /\ l.actor = req[q].actor
        /\ l.mixed = FALSE <=> req[q].session = None \/ req[q].session = req[q].actor
        /\ l.fields = req[q].fields /\ l.late = req[q].late
    OBVIOUS
  <2> HIDE DEF l
  <2>5. LogWell(l, gone)
    BY <2>1, <2>2, <2>3, <2>4 DEF LogWell, RequestWell, OfRequest
  <2>6. /\ logs' \in Seq(Log) /\ Len(logs') <= MaxLogs
        /\ \A i \in DOMAIN logs' : (i \in DOMAIN logs /\ logs'[i] = logs[i]) \/ logs'[i] = l
    <3>1. logs \in Seq(Log) /\ Len(logs) \in Nat
      BY DEF LogsInv
    <3>2. /\ logs' \in Seq(Log) /\ Len(logs') = Len(logs) + 1
          /\ DOMAIN logs' = DOMAIN logs \cup {Len(logs) + 1}
          /\ \A i \in DOMAIN logs : logs'[i] = logs[i]
          /\ logs'[Len(logs) + 1] = l
      BY <2>1, <2>3, <3>1, Appended
    <3> QED BY <2>1, <3>1, <3>2, LogAssumption
  <2>8. ASSUME NEW i \in DOMAIN logs' PROVE LogWell(logs'[i], gone')
    BY <2>1, <2>5, <2>6 DEF LogsInv
  <2>9. req' = [o \in Request |-> IF o = q THEN None ELSE req[o]]
    BY <2>1 DEF LogsInv
  <2>10. ASSUME NEW o \in Request, req'[o] # None PROVE RequestWell(req'[o], gone')
    BY <2>1, <2>9, <2>10 DEF LogsInv
  <2>11. req' = [o \in Request |-> req'[o]]
    BY <2>9
  <2> QED BY <2>1, <2>6, <2>8, <2>10, <2>11 DEF LogsInv
<1> QED BY <1>1, <1>2

\* A user is anonymized.
LEMMA LogsAnonymize ==
  ASSUME LogsInv, NEW u \in User, A!anonymize_activitylog(u)
  PROVE  LogsInv'
<1>1. u \notin gone /\ gone' = gone \cup {u}
  BY DEF A!anonymize_activitylog
<1>2. ASSUME NEW i \in DOMAIN logs' PROVE logs'[i] \in Log /\ LogWell(logs'[i], gone')
  <2>1. i \in DOMAIN logs /\ LogWell(logs[i], gone) /\ logs[i] \in Log
    BY DEF A!anonymize_activitylog, LogsInv, LogWell
  <2>2. CASE logs[i].user = u
    <3> DEFINE l == [logs[i] EXCEPT !.user = None, !.profile = None]
    <3>1. /\ logs'[i] = l /\ l \in Log /\ l.user = None /\ l.profile = None
          /\ l.public = logs[i].public /\ l.actor = logs[i].actor /\ l.fields = logs[i].fields
      BY <2>1, <2>2 DEF A!anonymize_activitylog, Log
    <3> HIDE DEF l
    <3>2. l.actor = u
      BY <2>1, <2>2, <3>1, LogAssumption DEF LogWell
    <3>3. None \notin gone'
      BY <1>1, LogAssumption DEF LogsInv
    <3>4. LogWell(l, gone')
      BY <1>1, <2>1, <3>1, <3>2, <3>3 DEF LogWell
    <3> QED BY <3>1, <3>4
  <2>3. CASE logs[i].user # u
    <3>1. logs'[i] = logs[i]
      BY <2>1, <2>3 DEF A!anonymize_activitylog
    <3>2. LogWell(logs[i], gone')
      BY <1>1, <2>1, <2>3 DEF LogWell
    <3> QED BY <2>1, <3>1, <3>2
  <2> QED BY <2>2, <2>3
<1>3. ASSUME NEW q \in Request, req'[q] # None PROVE RequestWell(req'[q], gone')
  <2> DEFINE r == [req[q] EXCEPT !.late = @ \cup {u}]
  <2>1. req'[q] = r /\ RequestWell(req[q], gone) /\ req[q] \in LogRequest
    BY <1>3 DEF A!anonymize_activitylog, A!Running, LogsInv, RequestWell
  <2>2. /\ r \in LogRequest /\ r.context = req[q].context /\ r.actor = req[q].actor
        /\ r.session = req[q].session /\ r.fields = req[q].fields /\ r.row = req[q].row
        /\ r.late = req[q].late \cup {u}
    BY <2>1 DEF LogRequest
  <2> HIDE DEF r
  <2>3. RequestWell(r, gone')
    BY <1>1, <2>1, <2>2 DEF RequestWell, OfRequest
  <2> QED BY <2>1, <2>3
<1>a. logs' = [i \in DOMAIN logs |-> IF logs[i].user = u
                 THEN [logs[i] EXCEPT !.user = None, !.profile = None] ELSE logs[i]]
  BY DEF A!anonymize_activitylog
<1>b. DOMAIN logs = 1..Len(logs) /\ Len(logs) \in Nat
  BY DEF LogsInv
<1>4. logs' = [i \in DOMAIN logs |-> logs'[i]] /\ DOMAIN logs = 1..Len(logs) /\ Len(logs) \in Nat
  BY <1>a, <1>b
<1>5. logs' \in Seq(Log) /\ Len(logs') = Len(logs)
  BY <1>2, <1>4
<1>6. req' = [q \in Request |-> req'[q]]
  BY DEF A!anonymize_activitylog
<1> QED BY <1>1, <1>2, <1>3, <1>5, <1>6 DEF LogsInv

\* Every step of the part keeps its invariant.
LEMMA LogsStep ==
  ASSUME LogsInv, A!Next \/ UNCHANGED A!vars
  PROVE  LogsInv'
<1>1. CASE UNCHANGED A!vars
  BY <1>1 DEF A!vars, LogsInv
<1> QED BY <1>1, LogsBegin, LogsResolve, LogsMutate, LogsWrite, LogsEnd, LogsAnonymize DEF A!Next

\* The invariant implies what the run checks of the part.
LEMMA LogsFollow == LogsInv => A!TypeOK /\ A!LogsConsistent
<1> SUFFICES ASSUME LogsInv PROVE A!TypeOK /\ A!LogsConsistent
  OBVIOUS
<1>1. A!TypeOK
  BY DEF LogsInv, RequestWell, LogRequest, A!TypeOK
<1>2. \A l \in A!Range(logs) : LogWell(l, gone)
  BY DEF LogsInv, A!Range
<1>3. ASSUME NEW u \in User, NEW l \in A!resolve_user_logs(u, TRUE) PROVE l.actor = u /\ (u \in gone => u \in l.late)
  BY <1>2, LogAssumption DEF A!resolve_user_logs, A!get_queryset, LogWell
<1>4. ASSUME NEW p \in A!Profiles, NEW l \in A!resolve_profile_logs(p, TRUE), ~l.mixed
      PROVE  l.actor # None /\ p \in Uses[l.actor]
  <2>1. LogWell(l, gone) /\ l.profile = p /\ l.mixed \in BOOLEAN
    BY <1>2 DEF A!resolve_profile_logs, A!get_queryset, LogWell, Log
  <2> QED BY <1>4, <2>1, LogAssumption DEF LogWell
<1>5. \A l \in A!Range(logs) : l.user = None => l.actor \in gone \cup {None}
  BY <1>2 DEF LogWell
<1>6. A!LogsNameTheActor
  BY <1>3, <1>4, <1>5 DEF A!LogsNameTheActor
<1>7. ASSUME NEW l \in A!Range(logs)
      PROVE  /\ l.public => TRUE \in A!Range(l.fields)
             /\ Len(l.fields) = 1 => (l.public <=> l.fields[1])
  <2>1. LogWell(l, gone) /\ l.public \in BOOLEAN /\ l.fields \in Seq(BOOLEAN)
    BY <1>2 DEF LogWell, Log
  <2>2. Len(l.fields) = 1 => l.fields[1] \in BOOLEAN
    BY <2>1
  <2>3. l.public => TRUE \in A!Range(l.fields)
    BY <2>1 DEF LogWell, A!Range
  <2> QED BY <2>1, <2>2, <2>3 DEF LogWell
<1>8. A!PublicIfAsked
  BY <1>7 DEF A!PublicIfAsked
<1>9. A!AnonymizedHaveNone
  <2>1. gone \subseteq User
    BY DEF LogsInv
  <2> QED BY <1>3, <2>1 DEF A!AnonymizedHaveNone
<1> QED BY <1>1, <1>6, <1>8, <1>9 DEF A!LogsConsistent

-----------------------------------------------------------------------------
(* The members of a profile. *)

\* A row, or a copy of one, that fits together.
Sound(r) ==
  /\ r.status \in {"pending", "expired"} => r.token # None
  /\ r.token # None => r.email # None
  /\ r.user = None \/ r.email = None \/ r.user = r.email

\* What is active has been accepted.
Accepted(k, r) == r.status = "active" => r.user = r.email /\ <<k, r.user>> \in consent

\* Of all rows.
RowsOK == \A k \in M!Rows : Sound(row[k]) /\ Accepted(k, row[k])

\* Of a copy that a request will save.
CopyOK(c) ==
  /\ c.pk \in used
  /\ Sound(c.copy)
  /\ IF c.op = "accept" THEN c.copy.user \in People /\ c.copy.user = c.copy.email
     ELSE Accepted(c.pk, c.copy)

\* Of all copies.
CopiesOK == \A q \in Request : req[q] # Idle => CopyOK(req[q])

\* The inductive invariant of the part.
MembersInv == M!TypeOK /\ RowsOK /\ CopiesOK

\* Initially there is no row and no request.
LEMMA MembersInit == M!Init => MembersInv
BY MemberAssumption
DEF M!Init, MembersInv, M!TypeOK, RowsOK, CopiesOK, M!Rows

-----------------------------------------------------------------------------
(* What the rows that mutations write are like. *)

\* A reset keeps the address and the user, and its pending row has a link.
LEMMA ResetFields ==
  ASSUME NEW r \in M!Row, NEW t \in Token
  PROVE  LET s == M!ResetForSend(r, t) IN
         /\ s \in M!Row
         /\ s.status = "pending" /\ s.token = t /\ s.email = r.email /\ s.user = r.user
BY DEF M!ResetForSend, M!Row, M!Statuses

\* So a sound row with an address stays sound.
LEMMA ResetIsSound ==
  ASSUME NEW r \in M!Row, Sound(r), r.email # None, NEW t \in Token
  PROVE  Sound(M!ResetForSend(r, t))
<1>1. t # None
  BY MemberAssumption
<1> QED
  BY <1>1, ResetFields DEF Sound

\* A row that is revived for its address is a sound pending row.
LEMMA RevivedIsSound ==
  ASSUME M!TypeOK, RowsOK, NEW p \in People, NEW k \in M!WithEmail(p), NEW rank \in M!Roles, NEW t \in Token
  PROVE  M!Revived(k, rank, t) \in M!Row /\ Sound(M!Revived(k, rank, t))
         /\ M!Revived(k, rank, t).status = "pending"
<1> DEFINE s == M!ResetForSend(row[k], t)
           u == IF M!AccountOf(row[k].email) = None THEN row[k].user ELSE M!AccountOf(row[k].email)
<1>1. k \in M!Rows /\ row[k] \in M!Row /\ Sound(row[k]) /\ row[k].email = p
  BY DEF M!WithEmail, M!Rows, M!TypeOK, RowsOK
<1>2. p # None /\ t # None
  BY MemberAssumption
<1>3. /\ s \in M!Row /\ s.status = "pending" /\ s.token = t
      /\ s.email = p /\ s.user = row[k].user
  BY <1>1, ResetFields
<1>4. M!AccountOf(s.email) = M!AccountOf(row[k].email) /\ u \in {None, p}
  BY <1>1, <1>2, <1>3 DEF M!AccountOf, Sound
<1>5. M!Revived(k, rank, t) = [s EXCEPT !.role = rank, !.user = u]
  BY <1>3, <1>4 DEF M!Revived
<1> HIDE DEF s, u
<1>6. LET v == [s EXCEPT !.role = rank, !.user = u] IN
      /\ v \in M!Row
      /\ v.status = "pending" /\ v.token = t /\ v.email = p /\ v.user = u
  BY <1>3, <1>4 DEF M!Row
<1> QED
  BY <1>2, <1>4, <1>5, <1>6 DEF Sound

\* So is a row that is created for an address.
LEMMA InvitedIsSound ==
  ASSUME NEW p \in People, NEW rank \in M!Roles, NEW t \in Token
  PROVE  M!Invited(p, rank, t) \in M!Row /\ Sound(M!Invited(p, rank, t))
         /\ M!Invited(p, rank, t).status = "pending"
<1>1. p # None /\ t # None
  BY MemberAssumption
<1> QED
  BY <1>1 DEF M!Invited, M!AccountOf, Sound, M!Row, M!Statuses

-----------------------------------------------------------------------------
(* Each action preserves the invariant. *)

\* A batch of invitations.
LEMMA SendStep ==
  ASSUME MembersInv, NEW actor \in People, NEW emails \in SUBSET People, NEW rank \in M!Roles,
         M!SendInvitations(actor, emails, rank)
  PROVE  MembersInv'
<1>1. PICK pk \in [emails -> Pk], tok \in [emails -> Token \ minted] :
        LET next(p) == IF M!WithEmail(p) = {} THEN M!Invited(p, rank, tok[p])
                       ELSE M!Revived(pk[p], rank, tok[p])
        IN /\ \A p \in emails : IF M!WithEmail(p) = {} THEN pk[p] \notin used ELSE pk[p] \in M!WithEmail(p)
           /\ row' = [k \in Pk |-> IF \E p \in emails : pk[p] = k
                                   THEN next(CHOOSE p \in emails : pk[p] = k) ELSE row[k]]
           /\ used' = used \cup {pk[p] : p \in emails}
           /\ minted' = minted \cup {tok[p] : p \in emails}
  BY DEF M!SendInvitations
<1> DEFINE next(p) == IF M!WithEmail(p) = {} THEN M!Invited(p, rank, tok[p])
                      ELSE M!Revived(pk[p], rank, tok[p])
<1>2. UNCHANGED <<late, accounts, req, consent>> /\ raced' \in BOOLEAN
  BY DEF M!SendInvitations, M!Overlap, MembersInv, M!TypeOK
<1>3. ASSUME NEW p \in emails
      PROVE  next(p) \in M!Row /\ Sound(next(p)) /\ next(p).status = "pending"
  BY <1>1, RevivedIsSound, InvitedIsSound DEF MembersInv
<1>4. ASSUME NEW k \in Pk
      PROVE  \/ row'[k] = row[k] /\ \A p \in emails : pk[p] # k
             \/ \E p \in emails : pk[p] = k /\ row'[k] = next(p)
  <2>1. CASE \E p \in emails : pk[p] = k
    <3> DEFINE o == CHOOSE p \in emails : pk[p] = k
    <3>1. o \in emails /\ pk[o] = k
      BY <2>1
    <3>2. row'[k] = next(o)
      BY <1>1, <2>1
    <3> QED
      BY <3>1, <3>2
  <2>2. CASE ~\E p \in emails : pk[p] = k
    BY <1>1, <2>2
  <2> QED
    BY <2>1, <2>2
<1> HIDE DEF next
<1>5. row' \in [Pk -> M!Row \cup {Absent}]
  <2>1. row' = [k \in Pk |-> row'[k]]
    BY <1>1
  <2>2. \A k \in Pk : row'[k] \in M!Row \cup {Absent}
    BY <1>3, <1>4 DEF MembersInv, M!TypeOK
  <2> QED
    BY <2>1, <2>2
<1>6. \A k \in M!Rows' : /\ k \in used'
                         /\ Sound(row'[k])
                         /\ row'[k].status = "active" => row'[k] = row[k] /\ k \in M!Rows
  <2> SUFFICES ASSUME NEW k \in M!Rows'
               PROVE  /\ k \in used'
                      /\ Sound(row'[k])
                      /\ row'[k].status = "active" => row'[k] = row[k] /\ k \in M!Rows
    OBVIOUS
  <2>1. k \in Pk /\ row'[k] # Absent
    BY DEF M!Rows
  <2>2. CASE row'[k] = row[k] /\ \A p \in emails : pk[p] # k
    BY <1>1, <2>1, <2>2 DEF MembersInv, M!TypeOK, RowsOK, M!Rows
  <2>3. CASE \E p \in emails : pk[p] = k /\ row'[k] = next(p)
    BY <1>1, <1>3, <2>3
  <2> QED
    BY <1>4, <2>1, <2>2, <2>3
<1>7. M!TypeOK'
  <2>1. used' \subseteq Pk /\ minted' \subseteq Token /\ late' \subseteq minted'
    BY <1>1, <1>2 DEF MembersInv, M!TypeOK
  <2> QED
    BY <1>2, <1>5, <1>6, <2>1 DEF MembersInv, M!TypeOK, Sound
<1>8. RowsOK'
  BY <1>2, <1>6 DEF MembersInv, RowsOK, Accepted
<1>9. CopiesOK'
  BY <1>1, <1>2 DEF MembersInv, CopiesOK, CopyOK, Accepted
<1> QED
  BY <1>7, <1>8, <1>9 DEF MembersInv

\* A request that reads a row.
LEMMA StartStep ==
  ASSUME MembersInv, NEW q \in Request, NEW op \in M!Ops, NEW k \in M!Rows, NEW copy \in M!Row,
         M!Start(q, op, k, copy), Sound(copy), minted \subseteq minted', minted' \subseteq Token,
         IF op = "accept" THEN copy.user \in People /\ copy.user = copy.email
         ELSE Accepted(k, copy)
  PROVE  MembersInv'
<1>1. k \in Pk /\ k \in used
  BY DEF MembersInv, M!TypeOK, M!Rows
<1>2. UNCHANGED <<row, used, late, accounts, consent>> /\ raced' \in BOOLEAN
  BY DEF M!Start, M!Overlap, MembersInv, M!TypeOK
<1>3. req' = [req EXCEPT ![q] = [op |-> op, pk |-> k, copy |-> copy]]
  BY DEF M!Start
<1>4. M!TypeOK'
  BY <1>1, <1>2, <1>3 DEF MembersInv, M!TypeOK, M!Rows
<1>5. RowsOK'
  BY <1>2 DEF MembersInv, RowsOK, M!Rows, Accepted
<1>6. CopiesOK'
  <2> SUFFICES ASSUME NEW o \in Request, req'[o] # Idle
               PROVE  CopyOK(req[o])'
    BY DEF CopiesOK
  <2>1. CASE o = q
    <3>1. req'[o] = [op |-> op, pk |-> k, copy |-> copy]
      BY <1>3, <2>1 DEF MembersInv, M!TypeOK
    <3> QED
      BY <1>1, <1>2, <3>1 DEF CopyOK, Accepted
  <2>2. CASE o # q
    <3>1. req'[o] = req[o]
      BY <1>3, <2>2 DEF MembersInv, M!TypeOK
    <3> QED
      BY <1>2, <3>1 DEF MembersInv, CopiesOK, CopyOK, Accepted
  <2> QED
    BY <2>1, <2>2
<1> QED
  BY <1>4, <1>5, <1>6 DEF MembersInv

\* The nine reads: what a request has in memory is sound, and nothing in it is
\* active that nobody has accepted, but for the copy of an acceptance.
LEMMA ReadStep ==
  ASSUME MembersInv, NEW q \in Request, NEW p \in People, NEW k \in M!Rows, NEW rank \in M!Roles,
         \/ M!Accept(q, p, k) \/ M!Decline(q, p, k) \/ M!AnswerLate(q, k)
         \/ M!Resend(q, p, k) \/ M!Cancel(q, p, k) \/ M!RoleDelete(q, p, k)
         \/ M!RoleUpdate(q, p, k, rank)
  PROVE  MembersInv'
<1>1. row[k] \in M!Row /\ Sound(row[k]) /\ Accepted(k, row[k])
  BY DEF MembersInv, M!TypeOK, RowsOK, M!Rows
<1>2. minted \subseteq Token /\ late \subseteq minted /\ p # None
  BY MemberAssumption DEF MembersInv, M!TypeOK
<1>3. CASE M!Accept(q, p, k)
  <2> DEFINE copy == [row[k] EXCEPT !.user = p, !.status = "active"]
  <2>1. /\ copy \in M!Row
        /\ copy.status = "active" /\ copy.user = p
        /\ copy.email = row[k].email /\ copy.token = row[k].token
    BY <1>1 DEF M!Row, M!Statuses
  <2>2. row[k].email = p
    BY <1>1, <1>2, <1>3 DEF M!Accept, M!ValidFor, M!AddressedTo, Sound
  <2>3. M!Start(q, "accept", k, copy) /\ minted' = minted
    BY <1>3 DEF M!Accept
  <2> HIDE DEF copy
  <2>4. Sound(copy)
    BY <2>1, <2>2, <1>2 DEF Sound
  <2> QED
    BY <1>2, <2>1, <2>2, <2>3, <2>4, StartStep DEF M!Ops
<1>4. CASE M!Decline(q, p, k)
  <2> DEFINE copy == [row[k] EXCEPT !.user = p, !.status = "declined"]
  <2>1. /\ copy \in M!Row
        /\ copy.status = "declined" /\ copy.user = p
        /\ copy.email = row[k].email /\ copy.token = row[k].token
    BY <1>1 DEF M!Row, M!Statuses
  <2>2. row[k].email = p
    BY <1>1, <1>2, <1>4 DEF M!Decline, M!ValidFor, M!AddressedTo, Sound
  <2>3. M!Start(q, "decline", k, copy) /\ minted' = minted
    BY <1>4 DEF M!Decline
  <2> HIDE DEF copy
  <2>4. Sound(copy) /\ Accepted(k, copy)
    BY <2>1, <2>2, <1>2 DEF Sound, Accepted
  <2> QED
    BY <1>2, <2>1, <2>3, <2>4, StartStep DEF M!Ops
<1>5. CASE M!AnswerLate(q, k)
  <2> DEFINE copy == [row[k] EXCEPT !.status = "expired"]
  <2>1. /\ copy \in M!Row
        /\ copy.status = "expired" /\ copy.user = row[k].user
        /\ copy.email = row[k].email /\ copy.token = row[k].token
    BY <1>1 DEF M!Row, M!Statuses
  <2>2. M!Start(q, "expire", k, copy) /\ minted' = minted
    BY <1>5 DEF M!AnswerLate
  <2> HIDE DEF copy
  <2>3. row[k].token # None
    BY <1>2, <1>5, MemberAssumption DEF M!AnswerLate, M!Expired
  <2>4. Sound(copy) /\ Accepted(k, copy)
    BY <1>1, <2>1, <2>3 DEF Sound, Accepted
  <2> QED
    BY <1>2, <2>1, <2>2, <2>4, StartStep DEF M!Ops
<1>6. CASE M!Resend(q, p, k)
  <2>1. PICK t \in Token \ minted :
          minted' = minted \cup {t} /\ M!Start(q, "resend", k, M!ResetForSend(row[k], t))
    BY <1>6 DEF M!Resend
  <2> DEFINE copy == M!ResetForSend(row[k], t)
  <2>2. /\ copy \in M!Row
        /\ copy.status = "pending" /\ copy.email = row[k].email
    BY <1>1, ResetFields
  <2>3. row[k].email # None
    BY <1>1, <1>6 DEF M!Resend, Sound
  <2>4. Sound(copy) /\ Accepted(k, copy)
    BY <1>1, <2>2, <2>3, ResetIsSound DEF Accepted
  <2> HIDE DEF copy
  <2> QED
    BY <1>2, <2>1, <2>2, <2>4, StartStep DEF M!Ops, copy
<1>7. CASE M!Cancel(q, p, k)
  BY <1>1, <1>2, <1>7, StartStep DEF M!Cancel, M!Ops
<1>8. CASE M!RoleDelete(q, p, k)
  BY <1>1, <1>2, <1>8, StartStep DEF M!RoleDelete, M!Ops
<1>9. CASE M!RoleUpdate(q, p, k, rank)
  <2> DEFINE copy == [row[k] EXCEPT !.role = rank]
  <2>1. /\ copy \in M!Row
        /\ copy.status = row[k].status /\ copy.user = row[k].user
        /\ copy.email = row[k].email /\ copy.token = row[k].token
    BY <1>1 DEF M!Row
  <2>2. M!Start(q, "update", k, copy) /\ minted' = minted
    BY <1>9 DEF M!RoleUpdate
  <2> HIDE DEF copy
  <2>3. Sound(copy) /\ Accepted(k, copy)
    BY <1>1, <2>1 DEF Sound, Accepted
  <2> QED
    BY <1>2, <2>1, <2>2, <2>3, StartStep DEF M!Ops
<1> QED
  BY <1>3, <1>4, <1>5, <1>6, <1>7, <1>8, <1>9

\* The writes: a copy takes the place of a row, or a row goes.
LEMMA WriteStep ==
  ASSUME MembersInv, NEW q \in Request, M!Save(q) \/ M!SaveRefused(q) \/ M!Delete(q)
  PROVE  MembersInv'
<1> DEFINE k == req[q].pk
           copy == req[q].copy
<1>1. req[q] # Idle /\ k \in Pk /\ copy \in M!Row /\ CopyOK(req[q])
  BY DEF M!Save, M!SaveRefused, M!Delete, MembersInv, M!TypeOK, CopiesOK
<1>2. req' = [req EXCEPT ![q] = Idle] /\ UNCHANGED <<used, minted, late, accounts, raced>>
  BY DEF M!Save, M!SaveRefused, M!Delete, M!Done
<1>3. /\ consent \subseteq consent' /\ consent' \subseteq Pk \X People
      /\ req[q].op = "accept" /\ M!Save(q) => <<k, copy.user>> \in consent'
  BY <1>1 DEF M!Save, M!SaveRefused, M!Delete, MembersInv, M!TypeOK, CopyOK
<1>4. \/ row' = row
      \/ row' = [row EXCEPT ![k] = Absent]
      \/ row' = [row EXCEPT ![k] = copy] /\ M!Save(q)
  BY DEF M!Save, M!SaveRefused, M!Delete
<1>5. \A j \in M!Rows' : \/ j \in M!Rows /\ row'[j] = row[j]
                         \/ j = k /\ row'[j] = copy /\ M!Save(q)
  <2> HIDE DEF k, copy
  <2>1. row \in [Pk -> M!Row \cup {Absent}]
    BY DEF MembersInv, M!TypeOK
  <2>2. CASE row' = row
    BY <2>2 DEF M!Rows
  <2>3. CASE row' = [row EXCEPT ![k] = Absent]
    BY <1>1, <2>1, <2>3 DEF M!Rows
  <2>4. CASE row' = [row EXCEPT ![k] = copy] /\ M!Save(q)
    BY <1>1, <2>1, <2>4 DEF M!Rows
  <2> QED
    BY <1>4, <2>2, <2>3, <2>4
<1>6. row' \in [Pk -> M!Row \cup {Absent}] /\ req' \in [Request -> [op : M!Ops, pk : Pk, copy : M!Row] \cup {Idle}]
  BY <1>1, <1>2, <1>4 DEF MembersInv, M!TypeOK
<1>7. M!TypeOK'
  <2>1. ASSUME NEW j \in M!Rows'
        PROVE  j \in used' /\ (row'[j].status = "pending" => row'[j].token # None)
    <3>1. CASE j \in M!Rows /\ row'[j] = row[j]
      BY <1>2, <3>1 DEF MembersInv, M!TypeOK
    <3>2. CASE j = k /\ row'[j] = copy
      BY <1>1, <1>2, <3>2 DEF CopyOK, Sound
    <3> QED
      BY <1>5, <3>1, <3>2
  <2> QED
    BY <1>2, <1>3, <1>6, <2>1 DEF MembersInv, M!TypeOK
<1>8. RowsOK'
  <2> SUFFICES ASSUME NEW j \in M!Rows' PROVE Sound(row'[j]) /\ Accepted(j, row[j])'
    BY DEF RowsOK
  <2>1. CASE j \in M!Rows /\ row'[j] = row[j]
    BY <1>3, <2>1 DEF MembersInv, RowsOK, Accepted
  <2>2. CASE j = k /\ row'[j] = copy /\ M!Save(q)
    BY <1>1, <1>3, <2>2 DEF CopyOK, Accepted
  <2> QED
    BY <1>5, <2>1, <2>2
<1>9. CopiesOK'
  <2> SUFFICES ASSUME NEW o \in Request, req'[o] # Idle PROVE CopyOK(req[o])'
    BY DEF CopiesOK
  <2>1. req'[o] = req[o]
    BY <1>2 DEF MembersInv, M!TypeOK
  <2> QED
    BY <1>2, <1>3, <2>1 DEF MembersInv, CopiesOK, CopyOK, Accepted
<1> QED
  BY <1>7, <1>8, <1>9 DEF MembersInv

\* Members added by hand are inactive and have no invitation.
LEMMA RoleCreateStep ==
  ASSUME MembersInv, NEW actor \in People, NEW chosen \in SUBSET People, NEW rank \in M!Roles,
         M!RoleCreate(actor, chosen, rank)
  PROVE  MembersInv'
<1> DEFINE new(p) == [user |-> p, email |-> None, role |-> rank, status |-> "inactive", token |-> None]
<1>1. PICK pk \in [chosen -> Pk \ used] :
        /\ row' = [k \in Pk |-> IF \E p \in chosen : pk[p] = k
                                THEN [user |-> CHOOSE p \in chosen : pk[p] = k, email |-> None,
                                      role |-> rank, status |-> "inactive", token |-> None]
                                ELSE row[k]]
        /\ used' = used \cup {pk[p] : p \in chosen}
  BY DEF M!RoleCreate
<1>2. UNCHANGED <<minted, late, accounts, req, consent, raced>>
  BY DEF M!RoleCreate
<1>3. ASSUME NEW p \in chosen
      PROVE  new(p) \in M!Row /\ Sound(new(p)) /\ new(p).status = "inactive"
  BY DEF M!Row, M!Statuses, Sound
<1>4. ASSUME NEW k \in Pk
      PROVE  row'[k] = row[k] \/ \E p \in chosen : pk[p] = k /\ row'[k] = new(p)
  <2>1. CASE \E p \in chosen : pk[p] = k
    <3> DEFINE o == CHOOSE p \in chosen : pk[p] = k
    <3>1. o \in chosen /\ pk[o] = k
      BY <2>1
    <3>2. row'[k] = new(o)
      BY <1>1, <2>1
    <3> QED
      BY <3>1, <3>2
  <2>2. CASE ~\E p \in chosen : pk[p] = k
    BY <1>1, <2>2
  <2> QED
    BY <2>1, <2>2
<1> HIDE DEF new
<1>5. row' \in [Pk -> M!Row \cup {Absent}]
  <2>1. row' = [k \in Pk |-> row'[k]]
    BY <1>1
  <2>2. \A k \in Pk : row'[k] \in M!Row \cup {Absent}
    BY <1>3, <1>4 DEF MembersInv, M!TypeOK
  <2> QED
    BY <2>1, <2>2
<1>6. \A k \in M!Rows' : /\ k \in used'
                         /\ Sound(row'[k])
                         /\ row'[k].status = "active" => row'[k] = row[k] /\ k \in M!Rows
  <2> SUFFICES ASSUME NEW k \in M!Rows'
               PROVE  /\ k \in used'
                      /\ Sound(row'[k])
                      /\ row'[k].status = "active" => row'[k] = row[k] /\ k \in M!Rows
    OBVIOUS
  <2>1. k \in Pk /\ row'[k] # Absent
    BY DEF M!Rows
  <2>2. CASE row'[k] = row[k]
    BY <1>1, <2>1, <2>2 DEF MembersInv, M!TypeOK, RowsOK, M!Rows
  <2>3. CASE \E p \in chosen : pk[p] = k /\ row'[k] = new(p)
    BY <1>1, <1>3, <2>3
  <2> QED
    BY <1>4, <2>1, <2>2, <2>3
<1>7. M!TypeOK'
  <2>1. used' \subseteq Pk
    BY <1>1 DEF MembersInv, M!TypeOK
  <2> QED
    BY <1>2, <1>5, <1>6, <2>1 DEF MembersInv, M!TypeOK, Sound
<1>8. RowsOK'
  BY <1>2, <1>6 DEF MembersInv, RowsOK, Accepted
<1>9. CopiesOK'
  BY <1>1, <1>2 DEF MembersInv, CopiesOK, CopyOK, Accepted
<1> QED
  BY <1>7, <1>8, <1>9 DEF MembersInv

\* Time and registrations touch no row and no copy.
LEMMA OutsideStep ==
  ASSUME MembersInv, \/ \E t \in Token : M!Expire(t)
                     \/ \E p \in People : M!Register(p)
                     \/ UNCHANGED M!vars
  PROVE  MembersInv'
<1>1. UNCHANGED <<row, used, minted, req, consent, raced>>
  BY DEF M!Expire, M!Register, M!vars
<1>2. late' \subseteq minted /\ accounts' \subseteq People
  BY DEF M!Expire, M!Register, M!vars, MembersInv, M!TypeOK
<1>3. M!TypeOK'
  BY <1>1, <1>2 DEF MembersInv, M!TypeOK, M!Rows
<1>4. RowsOK'
  BY <1>1 DEF MembersInv, RowsOK, M!Rows, Accepted
<1>5. CopiesOK'
  BY <1>1 DEF MembersInv, CopiesOK, CopyOK, Accepted
<1> QED
  BY <1>3, <1>4, <1>5 DEF MembersInv

\* Every step preserves the invariant.
LEMMA MembersStep ==
  ASSUME MembersInv, M!Next \/ UNCHANGED M!vars PROVE MembersInv'
<1>1. ASSUME NEW actor \in People, NEW emails \in SUBSET People, NEW rank \in M!Roles,
             M!SendInvitations(actor, emails, rank)
      PROVE  MembersInv'
  BY <1>1, SendStep
<1>2. ASSUME NEW actor \in People, NEW chosen \in SUBSET People, NEW rank \in M!Roles,
             M!RoleCreate(actor, chosen, rank)
      PROVE  MembersInv'
  BY <1>2, RoleCreateStep
<1>3. ASSUME NEW q \in Request, NEW k \in M!Rows, NEW p \in People,
             \/ M!Accept(q, p, k) \/ M!Decline(q, p, k)
             \/ M!Resend(q, p, k) \/ M!Cancel(q, p, k) \/ M!RoleDelete(q, p, k)
             \/ \E rank \in M!Roles : M!RoleUpdate(q, p, k, rank)
      PROVE  MembersInv'
  <2>1. "admin" \in M!Roles
    BY DEF M!Roles
  <2> QED
    BY <1>3, <2>1, ReadStep
<1>4. ASSUME NEW q \in Request, NEW k \in M!Rows, M!AnswerLate(q, k)
      PROVE  MembersInv'
  BY <1>4, MemberAssumption, ReadStep DEF M!Roles
<1>5. ASSUME NEW q \in Request, M!Save(q) \/ M!SaveRefused(q) \/ M!Delete(q)
      PROVE  MembersInv'
  BY <1>5, WriteStep
<1>6. CASE \/ \E t \in Token : M!Expire(t)
           \/ \E p \in People : M!Register(p)
           \/ UNCHANGED M!vars
  BY <1>6, OutsideStep
<1> QED
  BY <1>1, <1>2, <1>3, <1>4, <1>5, <1>6 DEF M!Next

-----------------------------------------------------------------------------
\* The invariant implies what the run checks.
LEMMA MembersFollow == MembersInv => M!TypeOK /\ M!ActiveByConsent
BY DEF MembersInv, RowsOK, Accepted, M!ActiveByConsent

-----------------------------------------------------------------------------
(* How statuses change while requests do not overlap.  What the one request  *)
(* in flight has read is the row as it still is, so the invariant asks of    *)
(* its copy what StatusMachine asks of the save.                             *)

\* A change of status as documented.
Documented(old, new) ==
  \/ old.status = new.status
  \/ <<old.status, new.status>> \in M!Moves
  \/ ~AtomicRequests /\ new.status = "expired"

\* Without overlap there is one request, and what it plans is documented.
Alone == ~raced =>
  /\ \A q, o \in Request : req[q] # Idle /\ req[o] # Idle => q = o
  /\ \A q \in Request : req[q] # Idle =>
       /\ req[q].pk \in M!Rows
       /\ req[q].op \in {"cancel", "delete"} \/ Documented(row[req[q].pk], req[q].copy)

\* What StatusMachine says of one step.
AsDocumented == \A k \in M!Rows \cap M!Rows' : ~raced' => Documented(row[k], row'[k])

\* A request that begins plans a documented change.
LEMMA StartKeepsAlone ==
  ASSUME MembersInv, NEW q \in Request, NEW op \in M!Ops, NEW k \in M!Rows, NEW copy \in M!Row,
         M!Start(q, op, k, copy), op \in {"cancel", "delete"} \/ Documented(row[k], copy)
  PROVE  Alone' /\ AsDocumented
<1>1. /\ req' = [req EXCEPT ![q] = [op |-> op, pk |-> k, copy |-> copy]]
      /\ row' = row /\ (~raced' => \A o \in Request : req[o] = Idle)
  BY DEF M!Start, M!Overlap
<1>2. M!Rows' = M!Rows
  BY <1>1 DEF M!Rows
<1>3. req' = [o \in Request |-> IF o = q THEN [op |-> op, pk |-> k, copy |-> copy] ELSE req[o]]
  BY <1>1 DEF MembersInv, M!TypeOK
<1>4. Alone'
  <2> SUFFICES ASSUME ~raced', NEW o \in Request, req'[o] # Idle
               PROVE  o = q
    BY <1>1, <1>2, <1>3 DEF Alone, Documented
  <2> QED BY <1>1, <1>3
<1> QED BY <1>1, <1>4 DEF AsDocumented, Documented

\* The nine reads.
LEMMA ReadKeepsAlone ==
  ASSUME MembersInv, NEW q \in Request, NEW p \in People, NEW k \in M!Rows, NEW rank \in M!Roles,
         \/ M!Accept(q, p, k) \/ M!Decline(q, p, k) \/ M!AnswerLate(q, k)
         \/ M!Resend(q, p, k) \/ M!Cancel(q, p, k) \/ M!RoleDelete(q, p, k)
         \/ M!RoleUpdate(q, p, k, rank)
  PROVE  Alone' /\ AsDocumented
<1>1. row[k] \in M!Row
  BY DEF MembersInv, M!TypeOK, M!Rows
<1>2. CASE M!Accept(q, p, k)
  <2>1. /\ M!Start(q, "accept", k, [row[k] EXCEPT !.user = p, !.status = "active"])
        /\ row[k].status = "pending"
    BY <1>2 DEF M!Accept, M!ValidFor
  <2>2. /\ [row[k] EXCEPT !.user = p, !.status = "active"] \in M!Row
        /\ [row[k] EXCEPT !.user = p, !.status = "active"].status = "active"
    BY <1>1 DEF M!Row, M!Statuses
  <2>3. Documented(row[k], [row[k] EXCEPT !.user = p, !.status = "active"])
    BY <2>1, <2>2 DEF Documented, M!Moves
  <2> QED BY <2>1, <2>2, <2>3, StartKeepsAlone DEF M!Ops
<1>3. CASE M!Decline(q, p, k)
  <2>1. /\ M!Start(q, "decline", k, [row[k] EXCEPT !.user = p, !.status = "declined"])
        /\ row[k].status = "pending"
    BY <1>3 DEF M!Decline, M!ValidFor
  <2>2. /\ [row[k] EXCEPT !.user = p, !.status = "declined"] \in M!Row
        /\ [row[k] EXCEPT !.user = p, !.status = "declined"].status = "declined"
    BY <1>1 DEF M!Row, M!Statuses
  <2>3. Documented(row[k], [row[k] EXCEPT !.user = p, !.status = "declined"])
    BY <2>1, <2>2 DEF Documented, M!Moves
  <2> QED BY <2>1, <2>2, <2>3, StartKeepsAlone DEF M!Ops
<1>4. CASE M!AnswerLate(q, k)
  <2>1. M!Start(q, "expire", k, [row[k] EXCEPT !.status = "expired"]) /\ ~AtomicRequests
    BY <1>4 DEF M!AnswerLate
  <2>2. /\ [row[k] EXCEPT !.status = "expired"] \in M!Row
        /\ [row[k] EXCEPT !.status = "expired"].status = "expired"
    BY <1>1 DEF M!Row, M!Statuses
  <2>3. Documented(row[k], [row[k] EXCEPT !.status = "expired"])
    BY <2>1, <2>2 DEF Documented
  <2> QED BY <2>1, <2>2, <2>3, StartKeepsAlone DEF M!Ops
<1>5. CASE M!Resend(q, p, k)
  <2>1. PICK t \in Token \ minted : M!Start(q, "resend", k, M!ResetForSend(row[k], t))
    BY <1>5 DEF M!Resend
  <2>2. M!ResetForSend(row[k], t) \in M!Row /\ M!ResetForSend(row[k], t).status = "pending"
    BY <1>1, ResetFields
  <2>3. Documented(row[k], M!ResetForSend(row[k], t))
    BY <1>5, <2>2 DEF M!Resend, Documented, M!Moves
  <2> QED BY <2>1, <2>2, <2>3, StartKeepsAlone DEF M!Ops
<1>6. CASE M!Cancel(q, p, k)
  BY <1>1, <1>6, StartKeepsAlone DEF M!Cancel, M!Ops
<1>7. CASE M!RoleDelete(q, p, k)
  BY <1>1, <1>7, StartKeepsAlone DEF M!RoleDelete, M!Ops
<1>8. CASE M!RoleUpdate(q, p, k, rank)
  <2>1. M!Start(q, "update", k, [row[k] EXCEPT !.role = rank])
    BY <1>8 DEF M!RoleUpdate
  <2>2. [row[k] EXCEPT !.role = rank] \in M!Row /\ [row[k] EXCEPT !.role = rank].status = row[k].status
    BY <1>1 DEF M!Row
  <2>3. Documented(row[k], [row[k] EXCEPT !.role = rank])
    BY <2>2 DEF Documented
  <2> QED BY <2>1, <2>2, <2>3, StartKeepsAlone DEF M!Ops
<1> QED BY <1>2, <1>3, <1>4, <1>5, <1>6, <1>7, <1>8

\* The writes do what was planned.
LEMMA WriteKeepsAlone ==
  ASSUME MembersInv, Alone, NEW q \in Request, M!Save(q) \/ M!SaveRefused(q) \/ M!Delete(q)
  PROVE  Alone' /\ AsDocumented
<1>1. /\ req[q] # Idle /\ raced' = raced /\ row \in [Pk -> M!Row \cup {Absent}]
      /\ req' = [o \in Request |-> IF o = q THEN Idle ELSE req[o]]
  BY DEF M!Save, M!SaveRefused, M!Delete, M!Done, MembersInv, M!TypeOK
<1>2. Alone'
  <2>1. ~raced' => \A o \in Request : req'[o] = Idle
    BY <1>1 DEF Alone
  <2> QED BY <2>1 DEF Alone
<1>3. CASE M!Save(q)
  <2>1. /\ row' = [row EXCEPT ![req[q].pk] = req[q].copy]
        /\ req[q].op \notin {"cancel", "delete"}
    BY <1>3 DEF M!Save
  <2>2. \A k \in M!Rows : row'[k] = row[k] \/ (k = req[q].pk /\ row'[k] = req[q].copy)
    BY <1>1, <2>1 DEF M!Rows
  <2>3. ~raced' => Documented(row[req[q].pk], req[q].copy)
    BY <1>1, <2>1 DEF Alone
  <2> QED BY <1>2, <2>2, <2>3 DEF AsDocumented, Documented
<1>4. CASE M!SaveRefused(q)
  BY <1>2, <1>4 DEF M!SaveRefused, AsDocumented, Documented
<1>5. CASE M!Delete(q)
  <2>1. \A k \in M!Rows \cap M!Rows' : row'[k] = row[k]
    BY <1>1, <1>5 DEF M!Delete, M!Rows
  <2> QED BY <1>2, <2>1 DEF AsDocumented, Documented
<1> QED BY <1>3, <1>4, <1>5

\* Invitations are sent to rows that are not blocking, and while no request is in flight.
LEMMA SendKeepsAlone ==
  ASSUME MembersInv, NEW actor \in People, NEW emails \in SUBSET People, NEW rank \in M!Roles,
         M!SendInvitations(actor, emails, rank)
  PROVE  Alone' /\ AsDocumented
<1> DEFINE next(p, t, k) == IF M!WithEmail(p) = {} THEN M!Invited(p, rank, t) ELSE M!Revived(k, rank, t)
<1>1. PICK pk \in [emails -> Pk], tok \in [emails -> Token \ minted] :
        /\ \A p \in emails : IF M!WithEmail(p) = {} THEN pk[p] \notin used ELSE pk[p] \in M!WithEmail(p)
        /\ row' = [k \in Pk |-> IF \E p \in emails : pk[p] = k
                                THEN LET p == CHOOSE p \in emails : pk[p] = k
                                     IN  next(p, tok[p], pk[p])
                                ELSE row[k]]
  BY DEF M!SendInvitations
<1>2. req' = req /\ (~raced' => \A o \in Request : req[o] = Idle)
  BY DEF M!SendInvitations, M!Overlap
<1>3. Alone'
  BY <1>2 DEF Alone
<1>4. ASSUME NEW p \in emails, NEW t \in Token, NEW k \in M!WithEmail(p)
      PROVE  Documented(row[k], M!Revived(k, rank, t))
  <2>1. row[k] \in M!Row /\ ~M!Blocks(row[k]) /\ k \in M!Rows
    BY <1>4 DEF M!SendInvitations, M!WithEmail, MembersInv, M!TypeOK, M!Rows
  <2>2. M!ResetForSend(row[k], t) \in M!Row /\ M!ResetForSend(row[k], t).status = "pending"
    BY <2>1, ResetFields
  <2>3. M!Revived(k, rank, t).status = "pending"
    BY <2>2 DEF M!Revived, M!Row
  <2>4. row[k].status \in M!Statuses /\ row[k].status # "active"
    BY <2>1 DEF M!Row, M!Blocks
  <2> QED BY <2>3, <2>4 DEF Documented, M!Statuses, M!Moves
<1>5. AsDocumented
  <2> SUFFICES ASSUME NEW k \in M!Rows PROVE Documented(row[k], row'[k])
    BY DEF AsDocumented
  <2>1. k \in Pk /\ k \in used
    BY DEF M!Rows, MembersInv, M!TypeOK
  <2>2. CASE \E p \in emails : pk[p] = k
    <3>1. PICK p \in emails : pk[p] = k /\ row'[k] = next(p, tok[p], pk[p])
      <4> DEFINE o == CHOOSE p \in emails : pk[p] = k
      <4>1. o \in emails /\ pk[o] = k
        BY <2>2
      <4>2. row'[k] = next(o, tok[o], pk[o])
        BY <1>1, <2>1, <2>2
      <4> QED BY <4>1, <4>2
    <3>2. M!WithEmail(p) # {} /\ k \in M!WithEmail(p)
      BY <1>1, <2>1, <3>1
    <3> QED BY <1>1, <1>4, <3>1, <3>2
  <2>3. CASE ~ \E p \in emails : pk[p] = k
    BY <1>1, <2>1, <2>3 DEF Documented
  <2> QED BY <2>2, <2>3
<1> QED BY <1>3, <1>5

\* Members added by hand have rows of their own.
LEMMA RoleCreateKeepsAlone ==
  ASSUME MembersInv, Alone, NEW actor \in People, NEW chosen \in SUBSET People, NEW rank \in M!Roles,
         M!RoleCreate(actor, chosen, rank)
  PROVE  Alone' /\ AsDocumented
<1>1. PICK pk \in [chosen -> Pk \ used] :
        row' = [k \in Pk |-> IF \E p \in chosen : pk[p] = k
                             THEN [user |-> CHOOSE p \in chosen : pk[p] = k, email |-> None,
                                   role |-> rank, status |-> "inactive", token |-> None]
                             ELSE row[k]]
  BY DEF M!RoleCreate
<1>2. req' = req /\ raced' = raced
  BY DEF M!RoleCreate
<1>3. ASSUME NEW k \in M!Rows PROVE k \in M!Rows' /\ row'[k] = row[k]
  <2>1. k \in Pk /\ k \in used /\ row[k] # Absent
    BY DEF M!Rows, MembersInv, M!TypeOK
  <2>2. row'[k] = row[k]
    BY <1>1, <2>1
  <2> QED BY <2>1, <2>2 DEF M!Rows
<1> QED BY <1>2, <1>3 DEF Alone, AsDocumented, Documented

\* At the start there is no request, and every step keeps to what is documented.
LEMMA AloneInit == M!Init => Alone
BY DEF M!Init, Alone

\* So does every step.
LEMMA AloneStep ==
  ASSUME MembersInv, Alone, M!Next \/ UNCHANGED M!vars PROVE Alone' /\ AsDocumented
<1>1. ASSUME NEW q \in Request, NEW k \in M!Rows, NEW p \in People,
             \/ M!Accept(q, p, k) \/ M!Decline(q, p, k)
             \/ M!Resend(q, p, k) \/ M!Cancel(q, p, k) \/ M!RoleDelete(q, p, k)
             \/ \E rank \in M!Roles : M!RoleUpdate(q, p, k, rank)
      PROVE  Alone' /\ AsDocumented
  <2>1. "admin" \in M!Roles
    BY DEF M!Roles
  <2> QED BY <1>1, <2>1, ReadKeepsAlone
<1>2. ASSUME NEW q \in Request, NEW k \in M!Rows, M!AnswerLate(q, k)
      PROVE  Alone' /\ AsDocumented
  BY <1>2, MemberAssumption, ReadKeepsAlone DEF M!Roles
<1>3. CASE UNCHANGED <<row, req, raced>>
  <2>1. M!Rows' = M!Rows
    BY <1>3 DEF M!Rows
  <2> QED BY <1>3, <2>1 DEF Alone, AsDocumented, Documented
<1>4. CASE \/ \E t \in Token : M!Expire(t)
           \/ \E p \in People : M!Register(p)
           \/ UNCHANGED M!vars
  BY <1>3, <1>4 DEF M!Expire, M!Register, M!vars
<1> QED
  BY <1>1, <1>2, <1>4, SendKeepsAlone, RoleCreateKeepsAlone, WriteKeepsAlone DEF M!Next

-----------------------------------------------------------------------------
(* The parts together.  A behaviour is of one part, and only that part's      *)
(* variables move.                                                            *)

\* What holds of the part that the behaviour is of.
Inv ==
  /\ part = "keys" => KeysInv
  /\ part = "sign-ins" => SignInsInv
  /\ part = "views" => CallsInv
  /\ part = "links" => LinksInv
  /\ part = "videos" => VideosInv
  /\ part = "reads" => R!TypeOK
  /\ part = "rooms" => RoomsInv
  /\ part = "logs" => LogsInv
  /\ part = "members" => MembersInv /\ Alone

\* Every part begins well.
LEMMA InitHolds == Init => Inv
<1> SUFFICES ASSUME Init PROVE Inv
  OBVIOUS
<1>1. /\ part = "keys" => K!Init
      /\ part = "sign-ins" => I!Init
      /\ part = "views" => C!Init
      /\ part = "links" => L!Init
      /\ part = "videos" => V!Init
      /\ part = "reads" => R!Init
      /\ part = "rooms" => G!Init
      /\ part = "logs" => A!Init
      /\ part = "members" => M!Init
  BY DEF Init
<1> QED
  BY <1>1, KeysInit, SignInsInit, CallsInit, LinksInit, VideosInit, ReadsInit, RoomsInit, LogsInit,
     MembersInit, AloneInit
  DEF Inv

\* A step is one of the part that the behaviour is of.
LEMMA Steps ==
  ASSUME [Next]_vars
  PROVE  /\ part' = part
         /\ part = "keys" => K!Next \/ UNCHANGED K!vars
         /\ part = "sign-ins" => I!Next \/ UNCHANGED I!vars
         /\ part = "views" => C!Next \/ UNCHANGED C!vars
         /\ part = "links" => L!Next \/ UNCHANGED L!vars
         /\ part = "videos" => V!Next \/ UNCHANGED V!vars
         /\ part = "reads" => R!Next \/ UNCHANGED R!vars
         /\ part = "rooms" => G!Next \/ UNCHANGED G!vars
         /\ part = "logs" => A!Next \/ UNCHANGED A!vars
         /\ part = "members" => M!Next \/ UNCHANGED M!vars
         /\ part # "members" => row' = row
<1>1. CASE UNCHANGED vars
  <2>1. /\ UNCHANGED <<part, keyVars, signInVars, permissionVars, linkVars, videoVars>>
        /\ UNCHANGED <<readVars, roomVars, logVars, memberVars, form, req>>
    BY <1>1 DEF vars, seen
  <2>2. UNCHANGED K!vars
    BY <2>1 DEF keyVars, K!vars
  <2>3. UNCHANGED I!vars
    BY <2>1 DEF signInVars, I!vars
  <2>4. UNCHANGED C!vars
    BY <2>1 DEF permissionVars, C!vars
  <2>5. UNCHANGED L!vars
    BY <2>1 DEF linkVars, L!vars
  <2>6. UNCHANGED V!vars
    BY <2>1 DEF videoVars, V!vars
  <2>7. UNCHANGED R!vars
    BY <2>1 DEF readVars, R!vars
  <2>8. UNCHANGED G!vars
    BY <2>1 DEF roomVars, G!vars
  <2>9. UNCHANGED A!vars
    BY <2>1 DEF logVars, A!vars
  <2>10. UNCHANGED M!vars /\ row' = row
    BY <2>1 DEF memberVars, M!vars
  <2> QED BY <2>1, <2>2, <2>3, <2>4, <2>5, <2>6, <2>7, <2>8, <2>9, <2>10
<1>2. CASE Next
  <2>1. /\ part' = part
        /\ part = "keys" => K!Next
        /\ part = "sign-ins" => I!Next
        /\ part = "views" => C!Next
        /\ part = "links" => L!Next
        /\ part = "videos" => V!Next
        /\ part = "reads" => R!Next
        /\ part = "rooms" => G!Next
        /\ part = "logs" => A!Next
        /\ part = "members" => M!Next
        /\ part # "members" => UNCHANGED memberVars
    BY <1>2 DEF Next
  <2>2. part # "members" => row' = row
    BY <2>1 DEF memberVars
  <2> QED BY <2>1, <2>2
<1> QED BY <1>1, <1>2

\* And stays so, whatever the step.
LEMMA InvHolds == Spec => []Inv
<1>1. Inv /\ [Next]_vars => Inv'
  <2> SUFFICES ASSUME Inv, [Next]_vars PROVE Inv'
    OBVIOUS
  <2>1. /\ part = "keys" => KeysInv'
        /\ part = "sign-ins" => SignInsInv'
        /\ part = "views" => CallsInv'
        /\ part = "links" => LinksInv'
        /\ part = "videos" => VideosInv'
    BY Steps, KeysStep, SignInsStep, CallsStep, LinksStep, VideosStep DEF Inv
  <2>2. /\ part = "reads" => R!TypeOK'
        /\ part = "rooms" => RoomsInv'
        /\ part = "logs" => LogsInv'
        /\ part = "members" => MembersInv' /\ Alone'
    BY Steps, ReadsStep, RoomsStep, LogsStep, MembersStep, AloneStep DEF Inv
  <2>3. part' = part
    BY Steps
  <2> QED BY <2>1, <2>2, <2>3 DEF Inv
<1> QED BY <1>1, InitHolds, PTL DEF Spec

-----------------------------------------------------------------------------
\* However a rotation, forms and requests overlap, no key is left under a key nobody has; an account
\* at a provider enters as the user it made, as one whose address a trusted provider gives or as
\* one who was signed in when its code was exchanged, and nobody is referred twice; a decision
\* about a view is that of the permissions its caller had, whatever a process has learned; a short
\* link leads where whoever was given it meant.
THEOREM CredentialsAlwaysConsistent == Spec => []CredentialsConsistent
<1>1. Inv => CredentialsConsistent
  BY KeysFollow, SignInsFollow, CallsFollow, LinksFollow DEF Inv, CredentialsConsistent
<1> QED BY <1>1, InvHolds, PTL

\* However forms, tasks and retries overlap, but for tasks that save over what another writer put
\* there or that are lost: the field names a video that Cloudflare has, except until the clip of
\* a deleted original is saved and while the object is deleted; what it lacks is some task's work.
THEOREM VideosAlwaysConsistent == Spec => []VideosConsistent
<1>1. Inv => VideosConsistent
  BY VideosFollow DEF Inv, VideosConsistent
<1> QED BY <1>1, InvHolds, PTL

\* What a list shows its reader can open and no block hides; badges and lists of rooms are those
\* of the messages and participants; a group keeps an admin unless one of them removed the last
\* ones together with somebody else; a log says who did what and shows nothing that is gone.
THEOREM ViewsAlwaysConsistent == Spec => []ViewsConsistent
<1>1. Inv => ViewsConsistent
  BY ReadsFollow, RoomsFollow, LogsFollow DEF Inv, ViewsConsistent
<1> QED BY <1>1, InvHolds, PTL

\* However mutations interleave and whatever stale copies they save, rows are well formed, pending
\* invitations have a link, and active members have accepted an invitation addressed to them.
THEOREM MembersAlwaysConsistent == Spec => []MembersConsistent
<1>1. Inv => MembersConsistent
  BY MembersFollow DEF Inv, MembersConsistent
<1> QED BY <1>1, InvHolds, PTL

\* While requests do not overlap, statuses change as documented: an answered invitation is not
\* answered again, and a member does not fall back to being invited.
THEOREM StatusesAsDocumented == Spec => StatusMachine
<1>1. Inv /\ [Next]_vars =>
        [\A k \in M!Rows \cap M!Rows' : ~raced' /\ row'[k].status # row[k].status
           => \/ <<row[k].status, row'[k].status>> \in M!Moves
              \/ ~AtomicRequests /\ row'[k].status = "expired"]_(M!vars)
  <2> SUFFICES ASSUME Inv, [Next]_vars, NEW k \in M!Rows \cap M!Rows',
                      ~raced', row'[k].status # row[k].status
               PROVE  \/ <<row[k].status, row'[k].status>> \in M!Moves
                      \/ ~AtomicRequests /\ row'[k].status = "expired"
    OBVIOUS
  <2>1. part = "members"
    BY Steps
  <2> QED BY <2>1, Steps, AloneStep DEF Inv, AsDocumented, Documented
<1> QED BY <1>1, InvHolds, PTL DEF Spec, StatusMachine, M!StatusMachine
=============================================================================
