------------------------- MODULE ProfileInvitations --------------------------
(***************************************************************************)
(* The members of one profile (baseapp_profiles): ProfileUserRole rows,    *)
(* the invitations that lead to them, and the role mutations.              *)
(*                                                                         *)
(* Sending locks the rows it revives.  Every other mutation reads a row,   *)
(* checks it in memory and then saves every column of its copy, or deletes *)
(* by primary key: Model.save() of a copy whose row is gone inserts it     *)
(* again.  Each send mints a token and a deadline together, so a deadline  *)
(* is named by its token.                                                  *)
(***************************************************************************)
EXTENDS FiniteSets

CONSTANTS
  Person,          \* people, known by their e-mail address (compared without case)
  Owner,           \* the owner of the profile
  Pk,              \* primary keys a row may take (a sequence never reuses one)
  Token,           \* invitation tokens
  Request,         \* GraphQL requests in flight
  None,            \* NULL in any column
  Absent,          \* a primary key with no row
  Idle,            \* a request slot that is not in use
  AtomicRequests   \* ATOMIC_REQUESTS: does a raised error undo the writes?


VARIABLES
  row,        \* row[k]: the ProfileUserRole row with primary key k
  used,       \* primary keys handed out so far
  minted,     \* tokens generated so far
  late,       \* tokens whose deadline has passed
  accounts,   \* people with a user account
  req,        \* req[q]: what request q has read and is about to write
  consent,    \* history: <<k, p>>, p has accepted invitation k
  raced       \* history: two requests have overlapped

vars == <<row, used, minted, late, accounts, req, consent, raced>>

Roles == {"admin", "manager"}
Statuses == {"active", "pending", "inactive", "declined", "expired"}

Row == [user : Person \cup {None}, email : Person \cup {None}, role : Roles,
        status : Statuses, token : Token \cup {None}]

Ops == {"accept", "decline", "expire", "resend", "cancel", "update", "delete"}


Rows == {k \in Pk : row[k] # Absent}

\* The columns have their types, and every pending invitation has a link.
TypeOK ==
  /\ row \in [Pk -> Row \cup {Absent}]
  /\ used \subseteq Pk /\ minted \subseteq Token /\ late \subseteq minted
  /\ accounts \subseteq Person
  /\ req \in [Request -> [op : Ops, pk : Pk, copy : Row] \cup {Idle}]
  /\ consent \subseteq Pk \X Person
  /\ raced \in BOOLEAN
  /\ \A k \in Rows : k \in used /\ (row[k].status = "pending" => row[k].token # None)

-----------------------------------------------------------------------------
WithEmail(p) == {k \in Rows : row[k].email = p}
WithUser(p) == {k \in Rows : row[k].user = p}
Expired(r) == r.token \in late

\* add_, change_ and delete_profileuserrole: the owner, or whoever has an admin row,
\* whatever the status of that row.
Manages(p) == p = Owner \/ \E k \in WithUser(p) : row[k].role = "admin"

\* unique (user, profile), (profile, invited_email) and invitation_token.
Conflict(k, r) == \E j \in Rows \ {k} :
  \/ r.user # None /\ row[j].user = r.user
  \/ r.email # None /\ row[j].email = r.email
  \/ r.token # None /\ row[j].token = r.token

\* _reset_invitation_for_send, with the token t it generates.
ResetForSend(r, t) == [r EXCEPT !.status = "pending", !.token = t]

\* The account of a person, if there is one.
AccountOf(p) == IF p \in accounts THEN p ELSE None

\* _validate_invitation_for_response: is the invitation addressed to the user p?
AddressedToAnyone(r, p) == TRUE
AddressedTo(r, p) == IF r.user = None THEN r.email = p ELSE r.user = p

\* History: does the mutation that begins now overlap another?
Overlap == raced' = (raced \/ \E o \in Request : req[o] # Idle)

-----------------------------------------------------------------------------
(* ProfileSendInvitation: all the e-mails of a call in one transaction, under *)
(* FOR UPDATE, or none of them.                                               *)

\* An existing row that blocks the call: a member, or a valid pending invitation.
Blocks(r) == r.status = "active" \/ (r.status = "pending" /\ ~Expired(r))

Revived(k, role, t) ==
  LET r == ResetForSend(row[k], t) IN
  [r EXCEPT !.role = role, !.user = IF AccountOf(r.email) = None THEN r.user ELSE AccountOf(r.email)]

InvitedWithoutLink(p, role, t) ==
  [user |-> AccountOf(p), email |-> p, role |-> role, status |-> "pending", token |-> None]
Invited(p, role, t) ==
  [user |-> AccountOf(p), email |-> p, role |-> role, status |-> "pending", token |-> t]

SendInvitations(actor, emails, role) ==
  /\ actor \in accounts /\ Manages(actor)
  /\ emails # {}
  /\ \A p \in emails : \A k \in WithEmail(p) : ~Blocks(row[k])
  /\ \E pk \in [emails -> Pk], tok \in [emails -> Token \ minted] :
       /\ \A p \in emails : IF WithEmail(p) = {} THEN pk[p] \notin used ELSE pk[p] \in WithEmail(p)
       /\ \A p, o \in emails : p # o => pk[p] # pk[o] /\ tok[p] # tok[o]
       /\ LET next(p) == IF WithEmail(p) = {} THEN Invited(p, role, tok[p])
                         ELSE Revived(pk[p], role, tok[p])
          IN /\ \A p \in emails : ~Conflict(pk[p], next(p))
             /\ row' = [k \in Pk |-> IF \E p \in emails : pk[p] = k
                                     THEN next(CHOOSE p \in emails : pk[p] = k) ELSE row[k]]
       /\ used' = used \cup {pk[p] : p \in emails}
       /\ minted' = minted \cup {tok[p] : p \in emails}
  /\ Overlap
  /\ UNCHANGED <<late, accounts, req, consent>>

-----------------------------------------------------------------------------
(* The mutations that read, and later write, one row. *)

\* Request q has read row k and will write copy.
Start(q, op, k, copy) ==
  /\ req[q] = Idle
  /\ req' = [req EXCEPT ![q] = [op |-> op, pk |-> k, copy |-> copy]]
  /\ Overlap
  /\ UNCHANGED <<row, used, late, accounts, consent>>

\* _validate_invitation_for_response, past the expiry check.
ValidForUnchecked(r, p) == AddressedTo(r, p)
ValidFor(r, p) == r.status = "pending" /\ AddressedTo(r, p)

Accept(q, p, k) ==
  /\ p \in accounts /\ row[k].token # None /\ ~Expired(row[k])
  /\ ValidFor(row[k], p)
  /\ p # Owner
  /\ Start(q, "accept", k, [row[k] EXCEPT !.user = p, !.status = "active"])
  /\ UNCHANGED minted

Decline(q, p, k) ==
  /\ p \in accounts /\ row[k].token # None /\ ~Expired(row[k])
  /\ ValidFor(row[k], p)
  /\ Start(q, "decline", k, [row[k] EXCEPT !.user = p, !.status = "declined"])
  /\ UNCHANGED minted

\* Either answer to a late invitation, whatever its status: EXPIRED is saved and
\* an error raised, which undoes the save where a request is one transaction.
AnswerLate(q, k) ==
  /\ ~AtomicRequests
  /\ accounts # {} /\ Expired(row[k])
  /\ Start(q, "expire", k, [row[k] EXCEPT !.status = "expired"])
  /\ UNCHANGED minted

Resend(q, actor, k) ==
  /\ actor \in accounts /\ Manages(actor)
  /\ row[k].status \in {"expired", "pending"}
  /\ \E t \in Token \ minted :
       /\ minted' = minted \cup {t}
       /\ Start(q, "resend", k, ResetForSend(row[k], t))

Cancel(q, actor, k) ==
  /\ actor \in accounts /\ Manages(actor)
  /\ row[k].status = "pending"
  /\ Start(q, "cancel", k, row[k])
  /\ UNCHANGED minted

\* ProfileUserRoleUpdate and ProfileUserRoleDelete find the row by its user.
RoleUpdate(q, actor, k, role) ==
  /\ actor \in accounts /\ Manages(actor)
  /\ row[k].user # None
  /\ Start(q, "update", k, [row[k] EXCEPT !.role = role])
  /\ UNCHANGED minted

RoleDelete(q, actor, k) ==
  /\ actor \in accounts /\ Manages(actor)
  /\ row[k].user # None
  /\ Start(q, "delete", k, row[k])
  /\ UNCHANGED minted

Done(q) == req' = [req EXCEPT ![q] = Idle]

\* Model.save(): every column of the copy, inserted again when the row is gone.
Save(q) ==
  /\ req[q] # Idle /\ req[q].op \notin {"cancel", "delete"}
  /\ ~Conflict(req[q].pk, req[q].copy)
  /\ row' = [row EXCEPT ![req[q].pk] = req[q].copy]
  /\ consent' = IF req[q].op = "accept" THEN consent \cup {<<req[q].pk, req[q].copy.user>>}
                ELSE consent
  /\ Done(q)
  /\ UNCHANGED <<used, minted, late, accounts, raced>>

\* A unique constraint refuses the save and the request ends with an error.
SaveRefused(q) ==
  /\ req[q] # Idle /\ req[q].op \notin {"cancel", "delete"}
  /\ Conflict(req[q].pk, req[q].copy)
  /\ Done(q)
  /\ UNCHANGED <<row, used, minted, late, accounts, consent, raced>>

\* Model.delete(): by primary key, whatever the row has become.
Delete(q) ==
  /\ req[q] # Idle /\ req[q].op \in {"cancel", "delete"}
  /\ row' = [row EXCEPT ![req[q].pk] = Absent]
  /\ Done(q)
  /\ UNCHANGED <<used, minted, late, accounts, consent, raced>>

-----------------------------------------------------------------------------
\* ProfileUserRoleCreate: inactive rows for users that have none, by unique (user, profile).
RoleCreate(actor, users, role) ==
  /\ actor \in accounts /\ Manages(actor)
  /\ users # {} /\ users \subseteq accounts /\ Owner \notin users
  /\ \A p \in users : WithUser(p) = {}
  /\ \E pk \in [users -> Pk \ used] :
       /\ \A p, o \in users : p # o => pk[p] # pk[o]
       /\ row' = [k \in Pk |-> IF \E p \in users : pk[p] = k
                               THEN [user |-> CHOOSE p \in users : pk[p] = k, email |-> None,
                                     role |-> role, status |-> "inactive", token |-> None]
                               ELSE row[k]]
       /\ used' = used \cup {pk[p] : p \in users}
  /\ UNCHANGED <<minted, late, accounts, req, consent, raced>>

\* Time passes the deadline that was set with token t.
Expire(t) ==
  /\ t \in minted \ late
  /\ late' = late \cup {t}
  /\ UNCHANGED <<row, used, minted, accounts, req, consent, raced>>

\* Somebody signs up.
Register(p) ==
  /\ p \notin accounts
  /\ accounts' = accounts \cup {p}
  /\ UNCHANGED <<row, used, minted, late, req, consent, raced>>

Init ==
  /\ row = [k \in Pk |-> Absent]
  /\ used = {} /\ minted = {} /\ late = {}
  /\ accounts = {Owner}
  /\ req = [q \in Request |-> Idle]
  /\ consent = {} /\ raced = FALSE

Next ==
  \/ \E actor \in Person, emails \in SUBSET Person, role \in Roles : SendInvitations(actor, emails, role)
  \/ \E actor \in Person, users \in SUBSET Person, role \in Roles : RoleCreate(actor, users, role)
  \/ \E q \in Request, k \in Rows, p \in Person :
       \/ Accept(q, p, k) \/ Decline(q, p, k)
       \/ Resend(q, p, k) \/ Cancel(q, p, k) \/ RoleDelete(q, p, k)
       \/ \E role \in Roles : RoleUpdate(q, p, k, role)
  \/ \E q \in Request, k \in Rows : AnswerLate(q, k)
  \/ \E q \in Request : Save(q) \/ SaveRefused(q) \/ Delete(q)
  \/ \E t \in Token : Expire(t)
  \/ \E p \in Person : Register(p)

Spec == Init /\ [][Next]_vars

-----------------------------------------------------------------------------
(* What the members of a profile can count on. *)

\* Nobody is an active member who has not accepted an invitation addressed to it,
\* however requests interleave and whatever stale copies they save.
ActiveByConsent == \A k \in Rows :
  row[k].status = "active" => row[k].user = row[k].email /\ <<k, row[k].user>> \in consent

Moves == {<<"pending", "active">>, <<"pending", "declined">>, <<"pending", "expired">>,
          <<"expired", "pending">>, <<"declined", "pending">>, <<"inactive", "pending">>}

\* Unless requests overlap, a row goes through its statuses as documented by their
\* names: an answered invitation is not answered again, a member does not fall back
\* to being invited.  (Where an error does not undo writes, a late answer expires.)
StatusMachine ==
  [][\A k \in Rows \cap Rows' : ~raced' /\ row'[k].status # row[k].status
       => \/ <<row[k].status, row'[k].status>> \in Moves
          \/ ~AtomicRequests /\ row'[k].status = "expired"]_vars
=============================================================================
