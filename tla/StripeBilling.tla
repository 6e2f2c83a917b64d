------------------------------ MODULE StripeBilling ------------------------------
(***************************************************************************)
(* Paid plans (lib/services/stripeBilling.ts): one checkout at a time,      *)
(* fenced by a reservation of the billing account, and the webhook that     *)
(* mirrors the contract of the user (api/stripe/webhook/route.ts).          *)
(*                                                                          *)
(* Requests come from several tabs; events come twice, late and out of      *)
(* order, their handlers overlap and stop between any two steps.  The       *)
(* contract is read from Stripe before the account is written.              *)
(***************************************************************************)
EXTENDS Integers, Sequences, FiniteSets, SequencesExt

CONSTANTS Tabs, Hooks, MaxReservations, MaxContracts, MaxEvents, MaxGrants,
          MaxClaims     \* of one event

\* The bound on reservations, which are numbered from 1.
ASSUME StripeAssumption == MaxReservations \in Nat

VARIABLES
  contracts,  \* the subscriptions of the user at Stripe
  sessions,   \* the checkout session of each reservation at Stripe
  events,     \* the events of Stripe, each with the second it is dated to
  rows,       \* the row of each event
  account,    \* the billing account
  grants,     \* complimentary grants so far: the user has one when odd
  checkout,   \* checkout requests under way
  offered,    \* the sessions whose page the user has
  hook        \* webhook handlers under way

stripeVars == <<contracts, sessions, events, rows, account, grants, checkout, offered, hook>>

Live(status) == status \in {"active", "past_due"}
Granted == grants % 2 = 1

\* What the account entitles to: reconcileBillingAccountInTransaction.
PlanSource == IF Granted THEN "COMPLIMENTARY"
              ELSE IF account.status = "active" THEN "STRIPE" ELSE "FREE"

NoSession == 0
NoReservations == [id |-> 0, session |-> NoSession, expiry |-> "over", fence |-> "FREE"]
NoCheckout == [stage |-> "idle", id |-> 0, session |-> NoSession, fence |-> "FREE", again |-> FALSE]
NoHook == [event |-> 0, token |-> 0, stage |-> "idle", status |-> "none"]

-----------------------------------------------------------------------------
\* Stripe and the user.

\* A second may have several events.
Seconds == IF events = <<>> THEN {1} ELSE {Last(events).second, Last(events).second + 1}

\* A change of a contract is an event.
Emits(contract, kind) ==
  /\ Len(events) < MaxEvents
  /\ \E s \in Seconds :
       events' = Append(events, [contract |-> contract, kind |-> kind, second |-> s])
  /\ rows' = Append(rows, [status |-> "none", token |-> 0, live |-> FALSE])

\* The user pays on a page that is still open.
Pays(id) ==
  /\ id \in offered /\ sessions[id] = "open" /\ Len(contracts) < MaxContracts
  /\ sessions' = [sessions EXCEPT ![id] = "complete"]
  /\ contracts' = Append(contracts, "active")
  /\ Emits(Len(contracts) + 1, "updated")
  /\ UNCHANGED <<account, grants, checkout, offered, hook>>

Renews(c) ==
  /\ \/ contracts[c] = "active" /\ contracts' = [contracts EXCEPT ![c] = "past_due"]
     \/ contracts[c] = "past_due" /\ contracts' = [contracts EXCEPT ![c] = "active"]
  /\ Emits(c, "updated")
  /\ UNCHANGED <<sessions, account, grants, checkout, offered, hook>>

Cancels(c) ==
  /\ Live(contracts[c])
  /\ contracts' = [contracts EXCEPT ![c] = "canceled"]
  /\ Emits(c, "deleted")
  /\ UNCHANGED <<sessions, account, grants, checkout, offered, hook>>

Grant ==
  /\ grants < MaxGrants
  /\ grants' = grants + 1
  /\ UNCHANGED <<contracts, sessions, events, rows, account, checkout, offered, hook>>

\* The reservation gets too short to create a session for it, then it expires,
\* and its session with it.
ReservationAges ==
  /\ account.resv.id # 0 /\ account.resv.expiry # "over"
  /\ account' = [account EXCEPT !.resv.expiry = IF @ = "long" THEN "short" ELSE "over"]
  /\ sessions' = [sessions EXCEPT ![account.resv.id] =
                    IF account.resv.expiry = "short" /\ @ = "open" THEN "expired" ELSE @]
  /\ UNCHANGED <<contracts, events, rows, grants, checkout, offered, hook>>

-----------------------------------------------------------------------------
\* createStripeCheckoutSession.

CheckoutAllowed == ~Live(account.status) /\ PlanSource # "COMPLIMENTARY"

At(t, stage) == checkout' = [checkout EXCEPT ![t].stage = stage]

\* An active reservation is taken up again, for its session is created once.
Reserves(t) ==
  IF account.resv.expiry # "over" THEN account.resv
  ELSE [id |-> account.last + 1, session |-> NoSession, expiry |-> "long", fence |-> PlanSource]

ClaimCheckout(t) ==
  /\ \/ checkout[t].stage = "idle"
     \/ checkout[t].stage = "again"
  /\ LET resv == Reserves(t)
         refused == \/ ~CheckoutAllowed
                    \/ resv = account.resv /\ resv.session = NoSession /\ resv.expiry = "short"
     IN IF refused
        THEN /\ checkout[t].stage = "again" /\ UNCHANGED account
             /\ checkout' = [checkout EXCEPT ![t] = NoCheckout]
        ELSE /\ resv.id <= MaxReservations
             /\ account' = [account EXCEPT !.resv = resv, !.last = IF @ > resv.id THEN @ ELSE resv.id]
             /\ checkout' = [checkout EXCEPT ![t] =
                  [stage |-> IF resv.session = NoSession THEN "create" ELSE "retrieve",
                   id |-> resv.id, session |-> resv.session, fence |-> resv.fence,
                   again |-> checkout[t].stage = "again"]]
  /\ UNCHANGED <<contracts, sessions, events, rows, grants, offered, hook>>

\* The session of the reservation: still open, paid, or of no use.
RetrieveSession(t) ==
  /\ checkout[t].stage = "retrieve"
  /\ LET status == sessions[checkout[t].session] IN
     \/ /\ status = "open"
        /\ offered' = offered \cup {checkout[t].session}
        /\ checkout' = [checkout EXCEPT ![t] = NoCheckout]
     \/ /\ status = "complete"
        /\ checkout' = [checkout EXCEPT ![t] = NoCheckout]
        /\ UNCHANGED offered
     \/ /\ status = "expired"
        /\ At(t, "clear")
        /\ UNCHANGED offered
  /\ UNCHANGED <<contracts, sessions, events, rows, account, grants, hook>>

ClearReservation(t) ==
  /\ checkout[t].stage = "clear"
  /\ account' = IF account.resv.id = checkout[t].id
                THEN [account EXCEPT !.resv = NoReservations] ELSE account
  /\ checkout' = [checkout EXCEPT ![t] =
                    IF checkout[t].again THEN NoCheckout ELSE [NoCheckout EXCEPT !.stage = "again"]]
  /\ UNCHANGED <<contracts, sessions, events, rows, grants, offered, hook>>

\* Created once for a reservation, whatever request asks; a session that was
\* asked for too late is refused.
CreateSession(t) ==
  /\ checkout[t].stage = "create"
  /\ LET id == checkout[t].id IN
     IF sessions[id] = "none" /\ ~(account.resv.id = id /\ account.resv.expiry = "long")
     THEN /\ checkout' = [checkout EXCEPT ![t] = NoCheckout]
          /\ UNCHANGED sessions
     ELSE /\ sessions' = [sessions EXCEPT ![id] = IF @ = "none" THEN "open" ELSE @]
          /\ At(t, "attach")
  /\ UNCHANGED <<contracts, events, rows, account, grants, offered, hook>>

\* The entitlement is still the one that the reservation was made under.
MayAttach(t) ==
  /\ PlanSource = checkout[t].fence /\ CheckoutAllowed
  /\ account.resv.id = checkout[t].id
  /\ \/ account.resv.session = checkout[t].id
     \/ account.resv.session = NoSession /\ account.resv.expiry # "over"

AttachSession(t) ==
  /\ checkout[t].stage = "attach"
  /\ IF MayAttach(t)
     THEN /\ account' = [account EXCEPT !.resv.session = checkout[t].id]
          /\ offered' = offered \cup {checkout[t].id}
          /\ checkout' = [checkout EXCEPT ![t] = NoCheckout]
     ELSE At(t, "expire") /\ UNCHANGED <<account, offered>>
  /\ UNCHANGED <<contracts, sessions, events, rows, grants, hook>>

ExpireSession(t) ==
  /\ checkout[t].stage = "expire"
  /\ sessions' = [sessions EXCEPT ![checkout[t].id] = IF @ = "open" THEN "expired" ELSE @]
  /\ checkout' = [checkout EXCEPT ![t] = NoCheckout]
  /\ UNCHANGED <<contracts, events, rows, account, grants, offered, hook>>

CheckoutStops(t) ==
  /\ checkout[t].stage # "idle"
  /\ checkout' = [checkout EXCEPT ![t] = NoCheckout]
  /\ UNCHANGED <<contracts, sessions, events, rows, account, grants, offered, hook>>

-----------------------------------------------------------------------------
\* The webhook.

Step(h, stage) == hook' = [hook EXCEPT ![h].stage = stage]

\* A delivery of an event claims its row, or takes over one that failed or whose
\* lease has expired; an update reads the contract, a deletion brings it along.
ClaimEvent(h, e) ==
  /\ hook[h] = NoHook /\ rows[e].token < MaxClaims
  /\ rows[e].status \in {"none", "FAILED"} \/ (rows[e].status = "PROCESSING" /\ ~rows[e].live)
  /\ rows' = [rows EXCEPT ![e] = [status |-> "PROCESSING", token |-> @.token + 1, live |-> TRUE]]
  /\ hook' = [hook EXCEPT ![h] =
       [event |-> e, token |-> rows[e].token + 1, status |-> "canceled",
        stage |-> IF events[e].kind = "deleted" THEN "apply" ELSE "read"]]
  /\ UNCHANGED <<contracts, sessions, events, account, grants, checkout, offered>>

ReadContract(h) ==
  /\ hook[h].stage = "read"
  /\ hook' = [hook EXCEPT ![h].stage = "apply",
                          ![h].status = contracts[events[hook[h].event].contract]]
  /\ UNCHANGED <<contracts, sessions, events, rows, account, grants, checkout, offered>>

\* Mutant: only a duplicate of the last event is left out.
StaleOnlyDuplicate(e) == e = account.lastEvent

\* The account has taken this event last, or one of a later second; the events of
\* one second have no order.
StaleEvent(e) ==
  /\ account.lastEvent # 0
  /\ e = account.lastEvent \/ events[e].second < events[account.lastEvent].second

\* One transaction: the contract as it was read, and the checkout is over.  How
\* often the account was written so is only counted.
ApplyEvent(h) ==
  /\ hook[h].stage = "apply"
  /\ LET e == hook[h].event
         c == events[e].contract
     IN account' = IF StaleEvent(e) \/ (events[e].kind = "deleted" /\ account.contract # c)
                   THEN account
                   ELSE [account EXCEPT !.contract = c, !.status = hook[h].status,
                                        !.lastEvent = e, !.resv = NoReservations,
                                        !.writes = @ + 1]
  /\ Step(h, "mark")
  /\ UNCHANGED <<contracts, sessions, events, rows, grants, checkout, offered>>

\* The row is marked by the holder of its token only.
MarkEvent(h) ==
  /\ hook[h].stage = "mark"
  /\ rows' = [rows EXCEPT ![hook[h].event] =
       IF @.status = "PROCESSING" /\ @.token = hook[h].token
       THEN [@ EXCEPT !.status = "SUCCEEDED"] ELSE @]
  /\ hook' = [hook EXCEPT ![h] = NoHook]
  /\ UNCHANGED <<contracts, sessions, events, account, grants, checkout, offered>>

\* A step throws: the event has failed and comes again; or the handler is gone.
HookFails(h) ==
  /\ hook[h].stage \in {"read", "apply", "mark"}
  /\ \/ rows' = [rows EXCEPT ![hook[h].event] =
          IF @.status = "PROCESSING" /\ @.token = hook[h].token
          THEN [@ EXCEPT !.status = "FAILED"] ELSE @]
     \/ UNCHANGED rows
  /\ hook' = [hook EXCEPT ![h] = NoHook]
  /\ UNCHANGED <<contracts, sessions, events, account, grants, checkout, offered>>

LeaseExpires(e) ==
  /\ rows[e].status = "PROCESSING" /\ rows[e].live
  /\ rows' = [rows EXCEPT ![e].live = FALSE]
  /\ UNCHANGED <<contracts, sessions, events, account, grants, checkout, offered, hook>>

StripeInit ==
  /\ contracts = <<>> /\ events = <<>> /\ rows = <<>>
  /\ sessions = [id \in 1..MaxReservations |-> "none"]
  /\ account = [contract |-> 0, status |-> "none", lastEvent |-> 0, writes |-> 0,
                last |-> 0, resv |-> NoReservations]
  /\ grants = 0 /\ offered = {}
  /\ checkout = [t \in Tabs |-> NoCheckout]
  /\ hook = [h \in Hooks |-> NoHook]

StripeNext ==
  \/ Grant \/ ReservationAges
  \/ \E id \in 1..MaxReservations : Pays(id)
  \/ \E c \in DOMAIN contracts : Renews(c) \/ Cancels(c)
  \/ \E t \in Tabs : \/ ClaimCheckout(t) \/ RetrieveSession(t) \/ ClearReservation(t)
                     \/ CreateSession(t) \/ AttachSession(t) \/ ExpireSession(t) \/ CheckoutStops(t)
  \/ \E h \in Hooks : \/ ReadContract(h) \/ ApplyEvent(h) \/ MarkEvent(h) \/ HookFails(h)
                      \/ \E e \in DOMAIN events : ClaimEvent(h, e)
  \/ \E e \in DOMAIN events : LeaseExpires(e)

StripeSpec == StripeInit /\ [][StripeNext]_stripeVars

-----------------------------------------------------------------------------
\* When every event has been handled, the account is what Stripe says of the
\* contract, though handlers overlap and each reads before it writes.  Only a
\* later event of this contract can be missing: a deletion that was handled
\* before the account knew of the contract, or one of the second of the event
\* that was taken last, for which the code has no order.
AccountConverges ==
  (contracts # <<>> /\ \A e \in DOMAIN rows : rows[e].status = "SUCCEEDED")
    => \/ account.status = contracts[account.contract]
       \/ \E e \in DOMAIN events :
            /\ events[e].contract = account.contract /\ account.lastEvent < e
            /\ \/ events[e].kind = "deleted"
               \/ events[e].second = events[account.lastEvent].second

\* The pages that are open though the account has no reservation for them.
Forgotten == {id \in offered : sessions[id] = "open" /\ id # account.resv.id}

\* The user has one checkout page that is open: a second request finds the
\* first, whatever stopped between creating and attaching its session.  But an
\* event clears the reservation, and does not close the page: only the events
\* that the account has taken leave open pages behind.
OnePageOpen == Cardinality(Forgotten) <= account.writes

\* What stripeBilling.ts keeps between an account and Stripe: they agree in the end, and no
\* checkout opens a second page, but for those that an event left behind.
StripeHolds == AccountConverges /\ OnePageOpen
=============================================================================
