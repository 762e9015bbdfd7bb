------------------------------ MODULE Payments ------------------------------
(* baseapp_payments: the local Customer and Subscription rows, what they mirror at Stripe,   *)
(* and the webhook events in between, which Stripe delivers at least once and in any order.  *)
(* Users and profiles are numbered; a user's e-mail address is the user's number here.       *)
EXTENDS Integers, Sequences, FiniteSets

CONSTANTS User, ProfileOf,           \* the ids of the users and, one to one, of their profiles
          Product, Card, Request, None,
          MaxCustomers, MaxSubscriptions   \* bounds on what is ever created at Stripe

VARIABLES customers,      \* at Stripe: e-mail address, whether it still exists, its cards
          subscriptions,  \* at Stripe: the customer, the product, whether it is still active
          Customer,       \* rows: entity_id and remote_customer_id
          Subscription,   \* rows: remote_customer_id and remote_subscription_id
          creating,       \* StripeCustomerSerializer.create between Stripe and the row
          validated,      \* what a request to subscribe has passed validate() with
          events,         \* webhook events that Stripe will deliver (again)
          removed,        \* history: subscriptions whose row only the detail route deleted
          cancelled,      \* history: subscriptions whose deletion a webhook has applied
          late,           \* history: of those, the ones whose creation was applied after it
          overlapped      \* history: customer and product of two requests validated at once

remote == <<customers, subscriptions>>
rows == <<Customer, Subscription>>
history == <<removed, cancelled, late, overlapped>>
vars == <<remote, rows, creating, validated, events, history>>

Cid == 1..MaxCustomers
Sid == 1..MaxSubscriptions

TypeOK ==
  /\ customers \in Seq([email: User, live: BOOLEAN, cards: SUBSET Card, default: Card \cup {None}])
  /\ subscriptions \in Seq([customer: Cid, product: Product, active: BOOLEAN, card: Card \cup {None}])
  /\ Len(customers) <= MaxCustomers /\ Len(subscriptions) <= MaxSubscriptions
  /\ Customer \subseteq Nat \X Cid /\ Subscription \subseteq Cid \X Sid
  /\ creating \subseteq User \X Cid /\ validated \in [Request -> Cid \X Product \cup {<<>>}]
  /\ events \subseteq {"customer.created", "customer.deleted", "subscription.created", "subscription.deleted"} \X Nat
  /\ removed \cup cancelled \cup late \subseteq Sid /\ overlapped \subseteq Cid \X Product

Init ==
  /\ customers = <<>> /\ subscriptions = <<>> /\ Customer = {} /\ Subscription = {}
  /\ creating = {} /\ validated = [r \in Request |-> <<>>] /\ events = {}
  /\ removed = {} /\ cancelled = {} /\ late = {} /\ overlapped = {}

HasRow(entity) == \E x \in Customer : x[1] = entity
Active(c, p) == {s \in 1..Len(subscriptions) : /\ subscriptions[s].customer = c /\ subscriptions[s].active
                                               /\ subscriptions[s].product = p}

\* StripeService.checkCustomerIdForUser
checkCustomerIdForUser(c, u) == customers[c].live /\ <<ProfileOf[u], c>> \in Customer

----------------------------------------------------------------------------
\* Customers.  BaseCustomer is unique per entity, not per remote_customer_id.

\* StripeCustomerSerializer.create asks Stripe first, whether there is a row already or not ...
create_customer(u) ==
  /\ Len(customers) < MaxCustomers
  /\ customers' = Append(customers, [email |-> u, live |-> TRUE, cards |-> {}, default |-> None])
  /\ creating' = creating \cup {<<u, Len(customers) + 1>>}
  /\ events' = events \cup {<<"customer.created", Len(customers) + 1>>}
  /\ UNCHANGED <<subscriptions, rows, validated, history>>

\* ... and inserts the row then; the unique constraint or a failure leaves Stripe as it is.
CreateRow(u, c) ==
  /\ <<u, c>> \in creating /\ creating' = creating \ {<<u, c>>}
  /\ \/ ~HasRow(ProfileOf[u]) /\ Customer' = Customer \cup {<<ProfileOf[u], c>>}
     \/ UNCHANGED Customer
  /\ UNCHANGED <<remote, Subscription, validated, events, history>>

\* StripeCustomerViewset.retrieve("me"): Stripe's search, which lags behind, by e-mail address
retrieve_me(u) ==
  /\ ~HasRow(ProfileOf[u])
  /\ \E c \in 1..Len(customers) : /\ customers[c].live /\ customers[c].email = u
                                  /\ Customer' = Customer \cup {<<ProfileOf[u], c>>}
  /\ UNCHANGED <<remote, Subscription, creating, validated, events, history>>

----------------------------------------------------------------------------
\* Subscriptions

\* StripeSubscriptionSerializer.validate lists the customer's subscriptions at Stripe ...
OwnerOnly(u, c, p) == checkCustomerIdForUser(c, u)
Valid(u, c, p) == checkCustomerIdForUser(c, u) /\ Active(c, p) = {}
validate(r, u, c, p) ==
  /\ validated[r] = <<>> /\ c \in 1..Len(customers) /\ Valid(u, c, p)
  /\ validated' = [validated EXCEPT ![r] = <<c, p>>]
  /\ overlapped' = IF \E q \in Request : validated[q] = <<c, p>> THEN overlapped \cup {<<c, p>>} ELSE overlapped
  /\ UNCHANGED <<remote, rows, creating, events, removed, cancelled, late>>

\* ... and create() makes one there, complete or not, or fails.  The row is the webhook's to make.
create_subscription(r) ==
  /\ validated[r] # <<>> /\ validated' = [validated EXCEPT ![r] = <<>>]
  /\ \/ /\ Len(subscriptions) < MaxSubscriptions
        /\ subscriptions' = Append(subscriptions, [customer |-> validated[r][1], product |-> validated[r][2],
                                             active |-> TRUE, card |-> None])
        /\ events' = events \cup {<<"subscription.created", Len(subscriptions) + 1>>}
     \/ UNCHANGED <<subscriptions, events>>
  /\ UNCHANGED <<customers, rows, creating, history>>

Cancel(s) ==
  /\ subscriptions' = [subscriptions EXCEPT ![s].active = FALSE]
  /\ events' = IF subscriptions[s].active THEN events \cup {<<"subscription.deleted", s>>} ELSE events

\* StripeSubscriptionViewset.delete: the customer whose entity_id is the USER's id; after
\* Stripe has cancelled, the row goes, unless the request dies first.
delete_subscription(u, c, s) ==
  /\ <<u, c>> \in Customer /\ <<c, s>> \in Subscription
  /\ Cancel(s)
  /\ \/ Subscription' = Subscription \ {<<c, s>>}
     \/ UNCHANGED Subscription
  /\ UNCHANGED <<customers, Customer, creating, validated, history>>

\* StripeSubscriptionPatchSerializer: Stripe refuses a card that is not the subscriber's.
partial_update(u, c, s, d) ==
  /\ checkCustomerIdForUser(c, u) /\ d \in customers[c].cards /\ <<c, s>> \in Subscription
  /\ subscriptions' = [subscriptions EXCEPT ![s].card = d]
  /\ UNCHANGED <<customers, rows, creating, validated, events, history>>

\* DELETE of the detail route is DestroyModelMixin's: the row and nothing at Stripe
destroy(c, s) ==
  /\ <<c, s>> \in Subscription /\ Subscription' = Subscription \ {<<c, s>>}
  /\ removed' = removed \cup {s}
  /\ UNCHANGED <<remote, Customer, creating, validated, events, cancelled, late, overlapped>>

----------------------------------------------------------------------------
\* Payment methods live at Stripe only

create_setup_intent(u, c, d) ==      \* and the browser's completion of the intent
  /\ checkCustomerIdForUser(c, u) /\ d \notin customers[c].cards
  /\ customers' = [customers EXCEPT ![c].cards = @ \cup {d}]
  /\ UNCHANGED <<subscriptions, rows, creating, validated, events, history>>

update_payment_method(u, c, d) ==    \* Stripe refuses a card of another customer
  /\ checkCustomerIdForUser(c, u) /\ d \in customers[c].cards
  /\ customers' = [customers EXCEPT ![c].default = d]
  /\ UNCHANGED <<subscriptions, rows, creating, validated, events, history>>

\* is_default is what the query string says: any text, "false" too, clears the default, and
\* stays so if Stripe then fails to detach the card.
delete_payment_method(u, c, d, is_default, detached) ==
  /\ checkCustomerIdForUser(c, u) /\ d \in customers[c].cards /\ (is_default \/ detached)
  /\ customers' = [customers EXCEPT ![c].cards = IF detached THEN @ \ {d} ELSE @,
                                    ![c].default = IF is_default \/ @ = d THEN None ELSE @]
  /\ UNCHANGED <<subscriptions, rows, creating, validated, events, history>>

----------------------------------------------------------------------------
\* Webhooks.  Deliver(e) with again is a delivery that Stripe repeats: the answer was an
\* error or got lost.

Owner(c) == ProfileOf[customers[c].email]

customer_created(c, again) ==
  LET known == \E x \in Customer : x[2] = c
  IN /\ IF known \/ HasRow(Owner(c))         \* the second is an IntegrityError, answered with 500
        THEN UNCHANGED Customer ELSE Customer' = Customer \cup {<<Owner(c), c>>}
     /\ (~known /\ HasRow(Owner(c))) => again
     /\ UNCHANGED <<Subscription, history>>

customer_deleted(c) ==
  /\ Customer' = {x \in Customer : x[2] # c} /\ UNCHANGED <<Subscription, history>>

subscription_created(s) ==
  /\ Subscription' = IF \E x \in Subscription : x[2] = s THEN Subscription
                     ELSE Subscription \cup {<<subscriptions[s].customer, s>>}
  /\ late' = IF s \in cancelled THEN late \cup {s} ELSE late
  /\ UNCHANGED <<Customer, removed, cancelled, overlapped>>

subscription_deleted(s) ==
  /\ Subscription' = {x \in Subscription : x[2] # s}
  /\ cancelled' = cancelled \cup {s}
  /\ UNCHANGED <<Customer, removed, late, overlapped>>

webhook_handler(e, again) ==
  /\ \/ e[1] = "customer.created" /\ customer_created(e[2], again)
     \/ e[1] = "customer.deleted" /\ customer_deleted(e[2])
     \/ e[1] = "subscription.created" /\ subscription_created(e[2])
     \/ e[1] = "subscription.deleted" /\ subscription_deleted(e[2])
  /\ events' = IF again THEN events ELSE events \ {e}
  /\ UNCHANGED <<remote, creating, validated>>

----------------------------------------------------------------------------
\* Stripe on its own: a cancellation in the portal or for non-payment, a deleted customer

StripeCancels(s) ==
  subscriptions[s].active /\ Cancel(s) /\ UNCHANGED <<customers, rows, creating, validated, history>>

StripeDeletes(c) ==
  /\ customers[c].live /\ \A s \in 1..Len(subscriptions) : subscriptions[s].customer = c => ~subscriptions[s].active
  /\ customers' = [customers EXCEPT ![c].live = FALSE]
  /\ events' = events \cup {<<"customer.deleted", c>>}
  /\ UNCHANGED <<subscriptions, rows, creating, validated, history>>

Next ==
  \/ \E u \in User : create_customer(u) \/ retrieve_me(u)
  \/ \E x \in creating : CreateRow(x[1], x[2])
  \/ \E r \in Request : create_subscription(r) \/ \E u \in User, c \in Cid, p \in Product : validate(r, u, c, p)
  \/ \E x \in Subscription : destroy(x[1], x[2]) \/ \E u \in User : delete_subscription(u, x[1], x[2])
  \/ \E u \in User, c \in 1..Len(customers), d \in Card :
       \/ create_setup_intent(u, c, d) \/ update_payment_method(u, c, d)
       \/ \E b, detached \in BOOLEAN : delete_payment_method(u, c, d, b, detached)
       \/ \E s \in 1..Len(subscriptions) : partial_update(u, c, s, d)
  \/ \E e \in events, b \in BOOLEAN : webhook_handler(e, b)
  \/ \E s \in 1..Len(subscriptions) : StripeCancels(s)
  \/ \E c \in 1..Len(customers) : StripeDeletes(c)

Spec == Init /\ [][Next]_vars

----------------------------------------------------------------------------
\* A customer has two active subscriptions to one product only where two requests were
\* between validate() and create() for them at the same time.
OneEachUnlessOverlapped ==
  \A c \in Cid, p \in Product : Cardinality(Active(c, p)) > 1 => <<c, p>> \in overlapped

\* Once Stripe has no event left for a subscription, its row is there exactly if it is active,
\* except where the detail route deleted the row or the creation was applied last.
SubscriptionsMirrored ==
  \A s \in 1..Len(subscriptions) :
    (\A e \in events : e[1] \in {"subscription.created", "subscription.deleted"} => e[2] # s) =>
      LET mirrored == <<subscriptions[s].customer, s>> \in Subscription
      IN /\ subscriptions[s].active /\ s \notin removed => mirrored
         /\ ~subscriptions[s].active /\ s \notin late => ~mirrored

\* A row links a customer to the profile of the user whose address the customer has,
\* whichever of the request, the search and the webhook made it, and no entity has two.
CustomersLinked ==
  /\ \A x \in Customer : x[1] = Owner(x[2])
  /\ \A x, y \in Customer : x[1] = y[1] => x = y

PaymentsConsistent == OneEachUnlessOverlapped /\ SubscriptionsMirrored /\ CustomersLinked
==============================================================================
