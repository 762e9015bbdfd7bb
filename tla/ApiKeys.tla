------------------------------- MODULE ApiKeys --------------------------------
(***************************************************************************)
(* baseapp_api_key: keys stored encrypted, found again by encrypting what a  *)
(* client presents, and an operator who rotates the encryption key, row by   *)
(* row and without a transaction, while people add, edit and delete keys.    *)
(***************************************************************************)
EXTENDS Integers, FiniteSets, TLC

CONSTANTS
  Secret,        \* API keys, each the row that holds it
  User,
  EncryptionKey, \* BA_API_KEY_ENCRYPTION_KEY
  None, Gone, MaxEdits

VARIABLES
  rows,      \* rows[s]: the row of API key s; None before it is issued
  active,    \* users that are active
  setting,   \* the encryption key the running processes have
  rotation,  \* a rotation under way, or None
  form,      \* a change in the admin between loading the row and saving it
  edits,
  rotated,   \* history: the outcome of the last rotation that reached its end
  crossed    \* history: API keys that a change in the admin and a rotation held at once

vars == <<rows, active, setting, rotation, form, edits, rotated, crossed>>

Expiry == {"never", "later", "past"}
KeyRow == [under : EncryptionKey, user : User, expiry : Expiry]

TypeOK ==
  /\ rows \in [Secret -> KeyRow \cup {None, Gone}]
  /\ active \subseteq User /\ setting \in EncryptionKey
  /\ rotation # None => rotation.left \subseteq Secret
  /\ edits \in 0..MaxEdits /\ crossed \subseteq Secret

Stored == {s \in Secret : rows[s] \notin {None, Gone}}

\* encrypt under the setting and filter: AES-SIV gives one text the same ciphertext each time.
Found(s) == s \in Stored /\ rows[s].under = setting
is_expired(s) == rows[s].expiry = "past"

\* BaseAPIKeyAuthentication.authenticate: the user, or None for a refusal.
authenticate(s) ==
  IF Found(s) /\ ~is_expired(s) /\ rows[s].user \in active THEN rows[s].user ELSE None

\* BaseHasAPIKey.has_permission.
has_permission(s) == Found(s) /\ ~is_expired(s)

\* GraphqlWsAPIKeyAuthenticatedConsumer.on_connect: whose socket it is, None for nobody's.
on_connect(s) ==
  LET user == IF Found(s) /\ ~is_expired(s) THEN rows[s].user ELSE None
  IN  IF user \in active THEN user ELSE None

-----------------------------------------------------------------------------
(* Keys. *)

\* APIKeyViewSet.create, and a key added in the admin.
Add(s, u, expiry) ==
  /\ rows[s] = None /\ u \in active /\ edits < MaxEdits
  /\ rows' = [rows EXCEPT ![s] = [under |-> setting, user |-> u, expiry |-> expiry]]
  /\ edits' = edits + 1
  /\ UNCHANGED <<active, setting, rotation, form, rotated, crossed>>

\* The admin loads the row it is going to change.
AdminLoad(s) ==
  /\ form = None /\ s \in Stored /\ edits < MaxEdits
  /\ form' = [key |-> s, row |-> rows[s]]
  /\ edits' = edits + 1
  /\ crossed' = IF rotation = None THEN crossed ELSE crossed \cup {s}
  /\ UNCHANGED <<rows, active, setting, rotation, rotated>>

\* It saves every column, the ciphertext it loaded among them, and a row deleted meanwhile
\* is inserted again.
save_model(expiry) ==
  /\ form # None
  /\ rows' = [rows EXCEPT ![form.key] = [form.row EXCEPT !.expiry = expiry]]
  /\ form' = None
  /\ UNCHANGED <<active, setting, rotation, edits, rotated, crossed>>

Delete(s) ==
  /\ s \in Stored /\ edits < MaxEdits
  /\ rows' = [rows EXCEPT ![s] = Gone] /\ edits' = edits + 1
  /\ UNCHANGED <<active, setting, rotation, form, rotated, crossed>>

Expire(s) ==
  /\ s \in Stored /\ rows[s].expiry = "later"
  /\ rows' = [rows EXCEPT ![s].expiry = "past"]
  /\ UNCHANGED <<active, setting, rotation, form, edits, rotated, crossed>>

Deactivate(u) ==
  /\ active' = active \ {u} /\ u \in active
  /\ UNCHANGED <<rows, setting, rotation, form, edits, rotated, crossed>>

-----------------------------------------------------------------------------
(* The encryption key is rotated and the setting follows. *)

\* rotate_encryption_key reads all rows at once.
Rotating == Stored

Rotate(old, new) ==
  /\ rotation = None /\ new # old
  /\ rotation' = [new |-> new, old |-> old, left |-> Rotating, read |-> rows, before |-> Stored]
  /\ crossed' = IF form = None THEN {} ELSE {form.key}
  /\ rotated' = None
  /\ UNCHANGED <<rows, active, setting, form, edits>>

\* One row: decrypted with the old key as it was read, encrypted with the new one, saved.
RotateRow(s) ==
  /\ rotation # None /\ s \in rotation.left
  /\ s \in Stored /\ rotation.read[s].under = rotation.old
  /\ rows' = [rows EXCEPT ![s].under = rotation.new]
  /\ rotation' = [rotation EXCEPT !.left = @ \ {s}]
  /\ UNCHANGED <<active, setting, form, edits, rotated, crossed>>

\* A row that the old key cannot read, one that is gone, or the operator stops the rotation;
\* what was rotated stays rotated.
Interrupt ==
  /\ rotation # None /\ rotation.left # {}
  /\ rotation' = None
  /\ UNCHANGED <<rows, active, setting, form, edits, rotated, crossed>>

Finish ==
  /\ rotation # None /\ rotation.left = {}
  /\ rotated' = [under |-> rotation.new, keys |-> (rotation.before \cap Stored) \ crossed]
  /\ rotation' = None
  /\ UNCHANGED <<rows, active, setting, form, edits, crossed>>

\* The deployment gives the processes another key.
Deploy(new) ==
  /\ new # setting /\ setting' = new
  /\ UNCHANGED <<rows, active, rotation, form, edits, rotated, crossed>>

Init ==
  /\ rows = [s \in Secret |-> None] /\ active = User /\ setting \in EncryptionKey
  /\ rotation = None /\ form = None /\ edits = 0
  /\ rotated = None /\ crossed = {}

Next ==
  \/ \E s \in Secret, u \in User, expiry \in {"never", "later"} : Add(s, u, expiry)
  \/ \E s \in Secret : AdminLoad(s) \/ Delete(s) \/ Expire(s) \/ RotateRow(s)
  \/ \E expiry \in Expiry : save_model(expiry)
  \/ \E u \in User : Deactivate(u)
  \/ \E old, new \in EncryptionKey : Rotate(old, new)
  \/ \E new \in EncryptionKey : Deploy(new)
  \/ Interrupt \/ Finish

Spec == Init /\ [][Next]_vars

-----------------------------------------------------------------------------
\* "Support for rotating encryption keys without losing existing API keys": after a rotation
\* that reached its end, each API key that was there when it began and that no change in the
\* admin overlapped is stored under the new encryption key, where the processes find it as
\* soon as they are given that one.
RotationKeepsKeys ==
  rotated # None =>
    \A s \in rotated.keys \cap Stored : s \notin crossed => rows[s].under = rotated.under

\* All readers agree on an API key: REST and sockets know the same user by it, and whom they
\* let in the permission class lets in too.
ReadersAgree ==
  \A s \in Secret :
    authenticate(s) = on_connect(s) /\ (authenticate(s) # None => has_permission(s))

KeysConsistent == RotationKeepsKeys /\ ReadersAgree
==============================================================================
