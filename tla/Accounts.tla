------------------------------ MODULE Accounts ------------------------------
(* baseapp_auth: registration, login, password and e-mail changes, deletion.                 *)
(* A request loads the user's row (request.user or get_object) and saves ALL of it later, so *)
(* what it writes may be older than what others wrote meanwhile: a handler runs on the row   *)
(* as it is or, for the one slow request at a time, on the row as it was when that request   *)
(* arrived (one at a time is a bound).  Mail holds the signed tokens sent: what they sign,   *)
(* the mailbox they went to and when.  A day of the code is one tick of now.                 *)
EXTENDS Integers, FiniteSets

CONSTANTS User, Email, Password, None,
          Member,          \* the users who had an account before
          Superuser,       \* whose accounts are not scheduled for deletion
          Interval,        \* USER_PASSWORD_EXPIRATION_INTERVAL in days, 0 for never
          Delay,           \* ANONYMIZE_TASK_DELAY_DAYS
          Slack,           \* what force_expire_password adds to the interval (7 days)
          Lifetime,        \* max_age of the tokens of each kind, in days
          MaxNow, MaxMail  \* bounds: days, messages sent

VARIABLES account,   \* the row of every user, None when there is none
          mail,      \* the tokens sent
          session,   \* users who hold an authtoken or a JWT
          slow,      \* what the slow request has loaded
          task,      \* scheduled anonymize_and_delete_user_task: the user and the day
          now,
          clicked,   \* history: a verified token of u's that was mailed to e came back
          chosen     \* history: who set which password on which day

vars == <<account, mail, session, slow, task, now, clicked, chosen>>

Row == [email: Email, new_email: Email \cup {None}, is_new_email_confirmed: BOOLEAN,
        is_email_verified: BOOLEAN, password: Password, password_changed_date: Int, is_active: BOOLEAN]
TypeOK ==
  /\ account \in [User -> Row \cup {None}]
  /\ \A m \in mail : /\ m.kind \in DOMAIN Lifetime /\ m.user \in User /\ m.at \in 0..MaxNow
                    /\ m.to \in Email
  /\ session \subseteq User
  /\ slow \in [user: User, row: Row, session: BOOLEAN] \cup {None}
  /\ task \subseteq User \X Nat /\ now \in 0..MaxNow
  /\ clicked \subseteq User \X Email /\ chosen \subseteq User \X Password \X Int

Users == {u \in User : account[u] # None}

\* AbstractUser.password_expired, for a row that carries no annotation
password_expired(row) == Interval > 0 /\ now >= row.password_changed_date + Interval

\* UserQuerySet.add_is_password_expired: an interval of 0 makes every date the day itself
password_expiry_date(row) == row.password_changed_date + Interval

----------------------------------------------------------------------------
\* Tokens: what each generator signs of a row, and whether a token still fits it

ChangeEmailConfirmTokenGenerator(row) == <<row.new_email, row.is_new_email_confirmed>>
ChangeEmailVerifyTokenGenerator(row) == <<row.new_email, row.is_new_email_confirmed>>
ConfirmEmailTokenGenerator(row) == <<row.email>>
PreAuthTokenGenerator(row) == <<row.email>>
ChangeExpiredPasswordTokenGenerator(row) == <<row.email>>
default_token_generator(row) == <<row.email, row.password>>      \* django.contrib.auth

signing_value(kind, row) ==
  CASE kind = "change-email" -> ChangeEmailConfirmTokenGenerator(row)
    [] kind = "verify-email" -> ChangeEmailVerifyTokenGenerator(row)
    [] kind = "confirm_email" -> ConfirmEmailTokenGenerator(row)
    [] kind = "pre_auth" -> PreAuthTokenGenerator(row)
    [] kind = "expired" -> ChangeExpiredPasswordTokenGenerator(row)
    [] kind = "reset" -> default_token_generator(row)

IdOnly(u, row, m) == m.user = u
is_value_valid(u, row, m) == m.user = u /\ m.signs = signing_value(m.kind, row)

check_token(kind, u, row, m) ==
  m.kind = kind /\ now - m.at <= Lifetime[kind] /\ is_value_valid(u, row, m)

make_token(kind, u, row, to) ==
  [kind |-> kind, user |-> u, signs |-> signing_value(kind, row), to |-> to, at |-> now]

Send(messages) == Cardinality(mail \cup messages) <= MaxMail /\ mail' = mail \cup messages

send_change_email_confirm_email(u, row) == {make_token("change-email", u, row, row.email)}
send_change_email_verify_email(u, row) == {make_token("verify-email", u, row, row.new_email)}
send_welcome_email(u, row) == {make_token("confirm_email", u, row, row.email)}
send_password_reset_email(u, row) == {make_token("reset", u, row, row.email)}
send_password_expired_email(u, row) == {make_token("expired", u, row, row.email)}

----------------------------------------------------------------------------
\* Rows

\* Model.save() writes every column; a row deleted meanwhile is inserted again, unless its
\* profile went with it, which the foreign key refuses.
Store(u, row) == account' = [account EXCEPT ![u] = row]
Unique(u, row) == \A v \in Users \ {u} : account[v].email # row.email

\* User.save: tracker.has_changed("password") compares with what was loaded, and
\* set_password() salts the new hash, so a password that was set has always changed.
set_password(row, p) == [row EXCEPT !.password = p, !.password_changed_date = now]

create_user(e, p) ==
  [email |-> e, new_email |-> None, is_new_email_confirmed |-> FALSE, is_email_verified |-> FALSE,
   password |-> p, password_changed_date |-> now, is_active |-> TRUE]

\* What the serializers make of a row
ChangeEmailRequestSerializer(row, e) == [row EXCEPT !.new_email = e]
ChangeEmailConfirmSerializer(row) == [row EXCEPT !.is_new_email_confirmed = TRUE]
ChangeEmailVerifySerializer(row) ==
  [row EXCEPT !.email = row.new_email, !.new_email = None, !.is_new_email_confirmed = FALSE,
              !.is_email_verified = TRUE]
ConfirmEmailSerializer(row) == [row EXCEPT !.is_email_verified = TRUE]

Rest == <<session, task, now>>

Init ==
  /\ now = 0
  /\ \E address \in [Member -> Email], p \in Password :
       /\ \A u, v \in Member : address[u] = address[v] => u = v
       /\ account = [u \in User |->
            IF u \in Member THEN create_user(address[u], p) ELSE None]
       /\ chosen = {<<u, p, 0>> : u \in Member}
  /\ mail = {} /\ session = Member /\ slow = None
  /\ task = {} /\ clicked = {}

\* A request comes with a session (request.user; TokenAuthentication refuses inactive users)
\* or with a link that names the user (get_object, the user its token names).
Admitted(u, s) == u \in Users /\ (s => u \in session /\ account[u].is_active)

Arrive(u, s) ==
  /\ slow = None /\ Admitted(u, s)
  /\ slow' = [user |-> u, row |-> account[u], session |-> s]
  /\ UNCHANGED <<account, mail, Rest, clicked, chosen>>

\* A handler saves the row, sends messages and is remembered in the history variables; an
\* address taken meanwhile or a profile gone raises IntegrityError: all is rolled back.
Saved(u, row, messages, clicks, sets) ==
  /\ Unique(u, row) /\ Store(u, row) /\ Send(messages)
  /\ clicked' = clicked \cup clicks /\ chosen' = chosen \cup sets
Refused(u, row) ==
  (~Unique(u, row) \/ account[u] = None) /\ UNCHANGED <<account, mail, clicked, chosen>>
Save(u, row, messages, clicks, sets) == Saved(u, row, messages, clicks, sets) \/ Refused(u, row)

Answer(messages) == Send(messages) /\ UNCHANGED <<account, Rest, clicked, chosen>>

----------------------------------------------------------------------------
\* Handlers that need a session: change of the e-mail address (change_email/), ...

ChangeEmail_create(u, row, e) ==
  LET changed == ChangeEmailRequestSerializer(row, e)
  IN /\ \A v \in Users : account[v].email # e
     /\ Save(u, changed, send_change_email_confirm_email(u, changed), {}, {}) /\ UNCHANGED Rest

ChangeEmail_resend_confirm(u, row) ==
  /\ row.new_email # None /\ ~row.is_new_email_confirmed
  /\ Answer(send_change_email_confirm_email(u, row))

ChangeEmail_resend_verify(u, row) ==
  row.is_new_email_confirmed /\ Answer(send_change_email_verify_email(u, row))

ChangeEmail_cancel(u, row) ==
  /\ Save(u, [row EXCEPT !.new_email = None, !.is_new_email_confirmed = FALSE], {}, {}, {})
  /\ UNCHANGED Rest

ConfirmEmail_resend_confirm(u, row) ==
  ~row.is_email_verified /\ Answer(send_welcome_email(u, row))

\* ... passwords: what every way to set one does in the end (apply_password_validators
\* accepts every member of Password), ...
SetPassword(u, row, p) ==
  Save(u, set_password(row, p), {}, {}, {<<u, p, now>>}) /\ UNCHANGED Rest

ChangePassword_save(u, row, p) == SetPassword(u, row, p)

\* ... UserSerializer.update, columns no property reads but all of the row is saved, ...
Users_update(u, row) == Save(u, row, {}, {}, {}) /\ UNCHANGED Rest

\* ... and deletion.  (No owner of an organization: "organizations.account" vetoes first.)
delete_account(u, row) ==
  LET gone == [row EXCEPT !.is_active = FALSE]
  IN /\ \/ /\ Saved(u, gone, {}, {}, {})
           /\ task' = IF u \in Superuser THEN task ELSE task \cup {<<u, now + Delay>>}
        \/ Refused(u, gone) /\ UNCHANGED task
     /\ UNCHANGED <<session, now>>

BySession(u, row) ==
  \/ \E e \in Email : ChangeEmail_create(u, row, e)
  \/ ChangeEmail_resend_confirm(u, row) \/ ChangeEmail_resend_verify(u, row)
  \/ ChangeEmail_cancel(u, row) \/ ConfirmEmail_resend_confirm(u, row)
  \/ \E p \in Password : ChangePassword_save(u, row, p)
  \/ Users_update(u, row) \/ delete_account(u, row)

----------------------------------------------------------------------------
\* Handlers that need a token instead

ChangeEmail_confirm(u, row, m) ==
  LET confirmed == ChangeEmailConfirmSerializer(row)
  IN /\ check_token("change-email", u, row, m) /\ row.new_email # None
     /\ Save(u, confirmed, send_change_email_verify_email(u, confirmed), {}, {}) /\ UNCHANGED Rest

ChangeEmail_verify(u, row, m) ==
  /\ check_token("verify-email", u, row, m) /\ row.new_email # None
  /\ Save(u, ChangeEmailVerifySerializer(row), {}, {<<u, m.to>>}, {})
  /\ UNCHANGED Rest

ConfirmEmail_update(u, row, m) ==
  /\ check_token("confirm_email", u, row, m)
  /\ Save(u, ConfirmEmailSerializer(row), {}, {<<u, m.to>>}, {}) /\ UNCHANGED Rest

\* ResetPasswordSerializer: the token dies with the password and the address it was made for
ResetPassword_create(u, row, m, p) == check_token("reset", u, row, m) /\ SetPassword(u, row, p)

\* ChangeExpiredPasswordSerializer: authenticate() looks the current password up again
ChangeExpiredPassword_save(u, row, m, current, p) ==
  /\ check_token("expired", u, row, m) /\ current # p
  /\ \E v \in Users : /\ account[v].email = row.email
                     /\ account[v].is_active /\ account[v].password = current
  /\ SetPassword(u, row, p)

ByLink(u, row) ==
  \E m \in mail :
    \/ ChangeEmail_confirm(u, row, m) \/ ChangeEmail_verify(u, row, m) \/ ConfirmEmail_update(u, row, m)
    \/ \E p \in Password : ResetPassword_create(u, row, m, p)
    \/ \E p, c \in Password : ChangeExpiredPassword_save(u, row, m, c, p)

Handle(u, row, s) == IF s THEN BySession(u, row) ELSE ByLink(u, row)

\* The slow request gets to its handler; a refused one ends with Leave.
Finish == slow # None /\ Handle(slow.user, slow.row, slow.session) /\ slow' = None
Leave == slow # None /\ slow' = None /\ UNCHANGED <<account, mail, Rest, clicked, chosen>>
Serve(u, s) == Admitted(u, s) /\ Handle(u, account[u], s) /\ UNCHANGED slow

----------------------------------------------------------------------------
\* Requests that load and write at once

\* RegisterSerializer.save and send_welcome_email
Register_create(u, e, p) ==
  LET row == create_user(e, p)
  IN /\ account[u] = None /\ u \notin {x[1] : x \in chosen} /\ Unique(u, row)
     /\ Store(u, row) /\ Send(send_welcome_email(u, row))
     /\ chosen' = chosen \cup {<<u, p, now>>}
     /\ UNCHANGED <<slow, Rest, clicked>>

ForgotPassword_create(u) ==
  u \in Users /\ Answer(send_password_reset_email(u, account[u])) /\ UNCHANGED slow

LoginSerializer(u, p) == u \in Users /\ account[u].is_active /\ account[u].password = p

\* The answer to an expired password carries the token a password-expired message would.
redirect_if_user_has_expired_password(u) ==
  Send(send_password_expired_email(u, account[u])) /\ UNCHANGED session

\* with an authtoken or a JWT, behind a second factor or not
Login(u, p) ==
  /\ LoginSerializer(u, p)
  /\ IF password_expired(account[u])
     THEN redirect_if_user_has_expired_password(u)
     ELSE session' = session \cup {u} /\ UNCHANGED mail
  /\ UNCHANGED <<account, slow, task, now, clicked, chosen>>

\* BasePreAuthSerializer; who asks for these links is not in this repository
PreAuth(u) ==
  /\ u \in Users
  /\ \E m \in mail : check_token("pre_auth", u, account[u], m)
  /\ session' = session \cup {u}
  /\ UNCHANGED <<account, mail, slow, task, now, clicked, chosen>>

SendPreAuth(u) ==
  /\ u \in Users /\ Answer({make_token("pre_auth", u, account[u], account[u].email)})
  /\ UNCHANGED slow

----------------------------------------------------------------------------
\* Tasks and the admin

\* Runs on or after its day, whatever happened to the account since.  An error rolls the
\* transaction back and the task is not tried again.
anonymize_and_delete_user_task(t) ==
  LET u == t[1]
  IN /\ t \in task /\ t[2] <= now /\ task' = task \ {t}
     /\ \/ u \in Users /\ account' = [account EXCEPT ![u] = None] /\ session' = session \ {u}
        \/ UNCHANGED <<account, session>>
     /\ UNCHANGED <<mail, slow, now, clicked, chosen>>

force_expire_password(u) ==
  LET day == now - (Interval + Slack)
  IN /\ u \in Users
     /\ account' = [account EXCEPT ![u].password_changed_date = day]
     /\ Send(send_password_expired_email(u, account[u]))
     /\ chosen' = chosen \cup {<<u, account[u].password, day>>}
     /\ UNCHANGED <<slow, Rest, clicked>>

\* the admin's form for a user, of which only is_active matters here
save_model(u, active) ==
  /\ u \in Users /\ active # account[u].is_active
  /\ account' = [account EXCEPT ![u].is_active = active]
  /\ UNCHANGED <<mail, slow, Rest, clicked, chosen>>

notify_users_is_password_expired ==
  /\ Answer(UNION {send_password_expired_email(u, account[u]) :
                   u \in {v \in Users : password_expiry_date(account[v]) = now}})
  /\ UNCHANGED slow

Day == now < MaxNow /\ now' = now + 1 /\ UNCHANGED <<account, mail, session, slow, task, clicked, chosen>>

Next ==
  \/ \E u \in User, s \in BOOLEAN : Arrive(u, s) \/ Serve(u, s)
  \/ Finish \/ Leave
  \/ \E u \in User, e \in Email, p \in Password : Register_create(u, e, p)
  \/ \E u \in User, p \in Password : Login(u, p)
  \/ \E u \in User : ForgotPassword_create(u) \/ PreAuth(u) \/ SendPreAuth(u) \/ force_expire_password(u)
  \/ \E u \in User, a \in BOOLEAN : save_model(u, a)
  \/ \E t \in task : anonymize_and_delete_user_task(t)
  \/ notify_users_is_password_expired \/ Day

Spec == Init /\ [][Next]_vars

----------------------------------------------------------------------------
\* A verified account is at an address that answered: a token mailed to it for this very
\* account came back, whichever stale rows other requests saved in between.  (The three
\* token kinds sign the addresses, verify and confirm set the flag with the address.)
VerifiedProven ==
  \A u \in Users : account[u].is_email_verified => <<u, account[u].email>> \in clicked

\* The date of a row is the day its password was chosen (or the day an administrator made
\* it expire on), also after a stale row was saved over a newer one: no password outlives
\* its interval because of a save that changed something else.
PasswordDated ==
  \A u \in Users : <<u, account[u].password, account[u].password_changed_date>> \in chosen
==============================================================================
