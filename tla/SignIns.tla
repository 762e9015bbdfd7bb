-------------------------------- MODULE SignIns --------------------------------
(***************************************************************************)
(* Signing in with an account at a social provider: the code a client sends   *)
(* is exchanged once, the pipeline finds or creates a user, or takes the one   *)
(* who is signed in already, and a client that is asked for an e-mail address  *)
(* tries again with the same code.  Also who referred whom.                    *)
(***************************************************************************)
EXTENDS Integers, FiniteSets

CONSTANTS
  Email,    \* addresses, each the user that has it
  Account,  \* accounts at providers
  Gives,    \* Gives[a]: the address the provider gives for account a, or None
  Trusted,  \* accounts of the providers_to_trust
  Code, Of, \* Of[c]: the account that code c is for
  Request, None,
  Gone,     \* a user that a request under way holds and that is deleted
  MaxDeletes

VARIABLES
  atomic,    \* ATOMIC_REQUESTS: an error rolls back what the request wrote
  spent,     \* codes that the provider answered
  cache,     \* codes with a row of SocialAuthAccessTokenCache
  users,
  social,    \* social[a]: the user that account a is associated with
  referrals, \* <<referrer, referee>>: the rows of UserReferral
  req,       \* requests under way
  asked,     \* history: codes refused over the address, whose row no clean-up deleted
  made,      \* history: made[u]: the account that created user u
  brought,   \* history: <<account, user>>: a code exchanged while the user was signed in
  deletes

vars == <<atomic, spent, cache, users, social, referrals, req, asked, made, brought, deletes>>

TypeOK ==
  /\ atomic \in BOOLEAN /\ spent \subseteq Code /\ cache \subseteq spent
  /\ users \subseteq Email /\ social \in [Account -> users \cup {None}]
  /\ referrals \subseteq users \X users /\ asked \subseteq spent
  /\ made \in [Email -> Account \cup {None}] /\ brought \subseteq Account \X users
  /\ deletes \in 0..MaxDeletes

Running(q) == req[q] # None
Done(q) == req' = [req EXCEPT ![q] = None]

-----------------------------------------------------------------------------
(* A request to sign in. *)

\* get_user_from_referral_code.
get_user_from_referral_code(u) == IF u \in users THEN u ELSE None
validate_referral_code(u) == get_user_from_referral_code(u) # None

\* get_object: with a cached token the provider is not asked, and who is signed in does not
\* count; without one it exchanges the code, the first time only.  An address that the client
\* sends is left out where nothing reads it.
get_object(q, c, typed, referrer, caller) ==
  /\ ~Running(q) /\ (referrer # None => validate_referral_code(referrer))
  /\ c \in cache \/ c \notin spent
  /\ caller # None => caller \in users /\ c \notin cache
  /\ spent' = spent \cup {c}
  /\ brought' = IF caller = None THEN brought ELSE brought \cup {<<Of[c], caller>>}
  /\ req' = [req EXCEPT ![q] = [op |-> "pipeline", code |-> c, typed |-> typed,
                                referrer |-> referrer, caller |-> caller, email |-> None]]
  /\ typed # None => caller = None /\ Gives[Of[c]] = None
  /\ UNCHANGED <<atomic, cache, users, social, referrals, asked, made, deletes>>

\* social_user: an account of somebody else than the user who is signed in is an error.
AuthAlreadyAssociated(q) ==
  req[q].caller # None /\ social[Of[req[q].code]] \notin {None, req[q].caller}

\* associate_by_email after it: for a provider to trust, the user with the account's address,
\* whoever was found before.  Without an address that one fails.
KeyError(q) == Of[req[q].code] \in Trusted /\ Gives[Of[req[q].code]] = None
social_user(q) == IF req[q].caller # None THEN req[q].caller ELSE social[Of[req[q].code]]
associate_by_email(q) ==
  IF Of[req[q].code] \in Trusted /\ Gives[Of[req[q].code]] \in users
  THEN Gives[Of[req[q].code]] ELSE social_user(q)

\* The errors that end the pipeline before it writes anything; a user that is gone makes the
\* row of the association fail.
Failing(q) ==
  AuthAlreadyAssociated(q) \/ KeyError(q) \/ associate_by_email(q) \notin users \cup {None}

\* cache_access_token: where no user was found, before anything that may refuse the request.
cache_access_token(c) == cache \cup {c}

\* get_username: the address of a new user, and the refusals over it.
Username(q) == IF Gives[Of[req[q].code]] # None THEN Gives[Of[req[q].code]] ELSE req[q].typed
get_username(q) == Username(q) # None /\ Username(q) \notin users

\* The user that was found signs in, and has the account if nobody had: a row that another
\* request made meanwhile or a user that is gone would make the later insert fail.
SignIn(q) ==
  /\ Running(q) /\ req[q].op = "pipeline" /\ ~Failing(q) /\ associate_by_email(q) # None
  /\ social' = [social EXCEPT ![Of[req[q].code]] = IF @ = None THEN associate_by_email(q) ELSE @]
  /\ Done(q)
  /\ UNCHANGED <<atomic, spent, cache, users, referrals, asked, made, brought, deletes>>

\* A new user is going to be made.
SignUp(q) ==
  /\ Running(q) /\ req[q].op = "pipeline" /\ ~Failing(q)
  /\ associate_by_email(q) = None /\ get_username(q)
  /\ req' = [req EXCEPT ![q].op = "create", ![q].email = Username(q)]
  /\ cache' = IF atomic THEN cache ELSE cache_access_token(req[q].code)
  /\ UNCHANGED <<atomic, spent, users, social, referrals, asked, made, brought, deletes>>

\* create refuses the request over its address, EmailNotProvidedError or
\* EmailAlreadyExistsError; the ValidationError rolls back, too.
Refuse(q) ==
  /\ Running(q) /\ req[q].op = "pipeline" /\ ~Failing(q)
  /\ associate_by_email(q) = None /\ ~get_username(q)
  /\ cache' = IF atomic THEN cache ELSE cache_access_token(req[q].code)
  /\ asked' = asked \cup {req[q].code}
  /\ Done(q)
  /\ UNCHANGED <<atomic, spent, users, social, referrals, made, brought, deletes>>

Fail(q) ==
  /\ Running(q) /\ req[q].op = "pipeline" /\ Failing(q)
  /\ Done(q)
  /\ UNCHANGED <<atomic, spent, cache, users, social, referrals, asked, made, brought, deletes>>

\* The rest of the pipeline.  create_user fails if the address is taken, associate_user if the
\* account is: unless that rolls it back, the user stays, without an account.  Without a
\* referrer link_user_to_referrer writes nothing; one that is gone is an error.
link_user_to_referrer(q) ==
  IF req[q].referrer = None THEN {} ELSE {<<req[q].referrer, req[q].email>>}

CreateUser(q) ==
  LET a == Of[req[q].code]
      gone == req[q].referrer # None /\ ~validate_referral_code(req[q].referrer)
      failing == social[a] # None \/ gone
  IN  /\ Running(q) /\ req[q].op = "create"
      /\ IF req[q].email \in users \/ (failing /\ atomic) THEN UNCHANGED <<users, social, made>>
         ELSE /\ users' = users \cup {req[q].email}
              /\ social' = [social EXCEPT ![a] = IF @ = None THEN req[q].email ELSE @]
              /\ made' = [made EXCEPT ![req[q].email] = IF social[a] = None THEN a ELSE None]
      /\ IF req[q].email \in users \/ failing THEN UNCHANGED <<cache, referrals>>
         ELSE /\ referrals' = referrals \cup link_user_to_referrer(q)
              /\ cache' = IF atomic THEN cache_access_token(req[q].code) ELSE cache
      /\ Done(q)
      /\ UNCHANGED <<atomic, spent, asked, brought, deletes>>

\* The hourly task deletes rows that are an hour old.
clean_up_social_auth_cache(c) ==
  /\ c \in cache /\ cache' = cache \ {c} /\ asked' = asked \ {c}
  /\ UNCHANGED <<atomic, spent, users, social, referrals, req, made, brought, deletes>>

-----------------------------------------------------------------------------
(* A user that says on the first day who referred it. *)

validate_referred_by_code(q, u, referrer) ==
  /\ ~Running(q) /\ u \in users /\ validate_referral_code(referrer) /\ referrer # u
  /\ \A r \in referrals : r[2] # u
  /\ req' = [req EXCEPT ![q] = [op |-> "referred", caller |-> u, referrer |-> referrer]]
  /\ UNCHANGED <<atomic, spent, cache, users, social, referrals, asked, made, brought, deletes>>

\* A row for the same referee, or one of the two deleted, makes the insert fail.
update(q) ==
  /\ Running(q) /\ req[q].op = "referred"
  /\ referrals' = IF {req[q].caller, req[q].referrer} \subseteq users
                     /\ \A r \in referrals : r[2] # req[q].caller
                  THEN referrals \cup {<<req[q].referrer, req[q].caller>>} ELSE referrals
  /\ Done(q)
  /\ UNCHANGED <<atomic, spent, cache, users, social, asked, made, brought, deletes>>

\* A user is deleted, and what refers to it.  To the requests that hold it, a user made later
\* for the same address is another one.
Held(x, u) == IF x = u THEN Gone ELSE x
Delete(u) ==
  /\ u \in users /\ deletes < MaxDeletes /\ deletes' = deletes + 1
  /\ users' = users \ {u} /\ made' = [made EXCEPT ![u] = None]
  /\ social' = [a \in Account |-> IF social[a] = u THEN None ELSE social[a]]
  /\ referrals' = {r \in referrals : u \notin {r[1], r[2]}}
  /\ brought' = {b \in brought : b[2] # u}
  /\ req' = [q \in Request |-> IF req[q] = None THEN None
                ELSE [req[q] EXCEPT !.referrer = Held(req[q].referrer, u),
                                    !.caller = Held(req[q].caller, u)]]
  /\ UNCHANGED <<atomic, spent, cache, asked>>

Init ==
  /\ atomic \in BOOLEAN /\ spent = {} /\ cache = {} /\ users = {} /\ referrals = {}
  /\ social = [a \in Account |-> None] /\ req = [q \in Request |-> None]
  /\ asked = {} /\ made = [u \in Email |-> None] /\ brought = {} /\ deletes = 0

Next ==
  \/ \E q \in Request, c \in Code, typed, referrer, caller \in Email \cup {None} :
       get_object(q, c, typed, referrer, caller)
  \/ \E q \in Request : SignIn(q) \/ SignUp(q) \/ Refuse(q) \/ Fail(q) \/ CreateUser(q)
  \/ \E c \in Code : clean_up_social_auth_cache(c)
  \/ \E q \in Request, u, referrer \in Email : validate_referred_by_code(q, u, referrer)
  \/ \E q \in Request : update(q)
  \/ \E u \in Email : Delete(u)

Spec == Init /\ [][Next]_vars

-----------------------------------------------------------------------------
\* "so we don't have to exchange credentials for an access token more than once": a client
\* that was refused over the address can come back with the same code until the clean-up,
\* where a refusal does not roll the row back.
RefusedMayRetry == ~atomic => asked \subseteq cache

\* An account signs in as the user it made, as one whose address a trusted provider gives for
\* it, or as one who was signed in when a code for it was exchanged, however many requests
\* create the same user or association at once and whoever is deleted meanwhile.
AssociatedByRight ==
  \A a \in Account : social[a] # None =>
    \/ made[social[a]] = a
    \/ a \in Trusted /\ Gives[a] = social[a]
    \/ <<a, social[a]>> \in brought

\* Nobody is referred twice, and nobody by itself.
ReferredOnce == \A r, s \in referrals : r[1] # r[2] /\ (r[2] = s[2] => r = s)

SignInsConsistent == RefusedMayRetry /\ AssociatedByRight /\ ReferredOnce
==============================================================================
