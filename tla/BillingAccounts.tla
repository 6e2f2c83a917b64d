--------------------------- MODULE BillingAccounts ---------------------------
(***************************************************************************)
(* The billing account of one user: the credits of the allowance period,   *)
(* the reservations of analysis runs and their settlement, the             *)
(* entitlements (Stripe, administrators and complimentary grants) the      *)
(* account is reconciled with, and the moments at which its period         *)
(* restarts.                                                               *)
(*                                                                         *)
(* Every operation is one serializable transaction, so one action.  Time   *)
(* is a counter; the ledger is kept as what its entries say of each run.   *)
(***************************************************************************)
EXTENDS Integers, FiniteSets

CONSTANTS
  Runs,      \* analysis runs, each reserved at most once
  MaxPrice,  \* the largest number of credits a run may cost
  Plans,     \* BillingPlan
  Limit,     \* monthlyServerCreditsLimit of each plan; it also ranks them
  Floors,    \* reserves below which a reservation must not take the balance
  Month,     \* the length of a period that the application computes
  MaxNow,    \* bound: the clock stops here, and periods end at MaxNow + Month
  NoPeriod   \* Stripe reports no period

Prices == 1..MaxPrice

ASSUME BillingAssumption ==
  /\ IsFiniteSet(Runs)
  /\ MaxPrice \in Nat
  /\ "FREE" \in Plans
  /\ Limit \in [Plans -> Nat]
  /\ Floors \subseteq Nat
  /\ Month \in Nat \ {0}
  /\ MaxNow \in Nat
  /\ NoPeriod \notin [start : 0..MaxNow, end : 0..(MaxNow + Month)]

VARIABLES
  account,      \* the columns of the BillingAccount row that hold credits
  stripe,       \* its Stripe columns: the plan that has access, and its period
  grant,        \* the best plan of the administrator role and the plan grants
  reservation,  \* what the ledger says of each run
  now

vars == <<account, stripe, grant, reservation, now>>

-----------------------------------------------------------------------------
Period == [start : 0..MaxNow, end : 0..(MaxNow + Month)]

AccountRow == [plan    : Plans,
               balance : Nat,
               used    : Nat,
               start   : Nat,
               renew   : Nat]

StripeRow == [plan : Plans, period : Period \cup {NoPeriod}]

ReservationRow == [state   : {"none", "reserved", "consumed", "released",
                              "refunded"},
                   credits : 0..MaxPrice,
                   period  : Nat]

Init ==
  /\ account = [plan |-> "FREE", balance |-> Limit["FREE"], used |-> 0,
                start |-> 0, renew |-> Month]
  /\ stripe = [plan |-> "FREE", period |-> NoPeriod]
  /\ grant = "FREE"
  /\ reservation = [r \in Runs |-> [state |-> "none", credits |-> 0,
                                    period |-> 0]]
  /\ now = 0

-----------------------------------------------------------------------------
(* The sums over the ledger, as numbers of single credits.                 *)

\* The credits that the ledger entries of period p hold in the given state.
Credits(state, p) ==
  {u \in Runs \X Prices : /\ reservation[u[1]].state = state
                          /\ reservation[u[1]].period = p
                          /\ u[2] <= reservation[u[1]].credits}

\* outstandingReserved of the period
Outstanding(p) == Cardinality(Credits("reserved", p))

\* netConsumed of the period
Charged(p) == Cardinality(Credits("consumed", p))

Positive(n)  == IF n > 0 THEN n ELSE 0
Lesser(m, n) == IF m < n THEN m ELSE n

\* What limit leaves after what is used and what is held.
Remaining(limit, used, held) == Positive(limit - used - held)

-----------------------------------------------------------------------------
(* Reconciliation of the account with its entitlements.                    *)

Higher(p, q) == IF Limit[p] >= Limit[q] THEN p ELSE q

\* resolveEffectiveBillingEntitlement
Effective(s, granted) == Higher(Higher("FREE", s.plan), granted)

\* Stripe's allowance period differs from the account's.
StripeMoves(a, s) ==
  /\ s.plan # "FREE" /\ s.period # NoPeriod
  /\ s.period.start < s.period.end
  /\ [start |-> a.start, end |-> a.renew] # s.period

\* Nobody pays, and the account's period is over.
ClockMoves(a, s, at) == s.plan = "FREE" /\ a.renew <= at

\* The full allowance of a new period.
Restarted(plan, from, to) ==
  [plan |-> plan, balance |-> Limit[plan], used |-> 0,
   start |-> from, renew |-> to]

\* The same period under another plan: at most what the new limit leaves, and
\* at most the increase of the limit on top.
Replanned(a, plan) ==
  [a EXCEPT !.plan = plan,
            !.balance = Lesser(Remaining(Limit[plan], a.used,
                                         Outstanding(a.start)),
                               @ + Positive(Limit[plan] - Limit[a.plan]))]

\* reconcileBillingAccountInTransaction
Reconciled(a, s, granted, at) ==
  LET plan == Effective(s, granted)
  IN  IF StripeMoves(a, s)
      THEN Restarted(plan, s.period.start, s.period.end)
      ELSE IF ClockMoves(a, s, at) THEN Restarted(plan, at, at + Month)
      ELSE IF plan # a.plan THEN Replanned(a, plan) ELSE a

Current == Reconciled(account, stripe, grant, now)

-----------------------------------------------------------------------------
(* Reservations.                                                           *)

Move(r, state) == reservation' = [reservation EXCEPT ![r].state = state]

\* reserveServerAnalysisCredits; a refusal rolls the transaction back.
Reserve(r, credits, floor) ==
  LET a == Current
  IN  /\ reservation[r].state = "none"
      /\ a.balance >= credits + floor
      /\ a.used + Outstanding(a.start) + credits <= Limit[a.plan]
      /\ account' = [a EXCEPT !.balance = @ - credits]
      /\ reservation' = [reservation EXCEPT ![r] =
                           [state |-> "reserved", credits |-> credits,
                            period |-> a.start]]
      /\ UNCHANGED <<stripe, grant, now>>

\* Mutant: the settlement counts in the period in which it happens.
SettlesSome(r, a) == reservation[r].period <= a.start

\* The settlement of r counts in the period of the account.
SettlesCurrent(r, a) == reservation[r].period = a.start

\* consumeServerAnalysisCredits
Consume(r) ==
  LET a == Current
  IN  /\ reservation[r].state = "reserved"
      /\ account' = IF SettlesCurrent(r, a)
                    THEN [a EXCEPT !.used = @ + reservation[r].credits] ELSE a
      /\ Move(r, "consumed")
      /\ UNCHANGED <<stripe, grant, now>>

\* restorableCurrentCredits: no more than was taken, and not above what the
\* limit leaves afterwards.
Restorable(a, used, held, credits) ==
  Positive(Lesser(credits, Remaining(Limit[a.plan], used, held) - a.balance))

\* releaseServerAnalysisCredits
Release(r) ==
  LET a == Current
      c == reservation[r].credits
  IN  /\ reservation[r].state = "reserved"
      /\ account' =
           IF SettlesCurrent(r, a)
           THEN [a EXCEPT !.balance =
                   @ + Restorable(a, a.used, Positive(Outstanding(a.start) - c),
                                  c)]
           ELSE a
      /\ Move(r, "released")
      /\ UNCHANGED <<stripe, grant, now>>

\* refundServerAnalysisCredits
Refund(r) ==
  LET a == Current
      c == reservation[r].credits
  IN  /\ reservation[r].state = "consumed"
      /\ SettlesCurrent(r, a) => a.used >= c
      /\ account' =
           IF SettlesCurrent(r, a)
           THEN [a EXCEPT !.balance =
                   @ + Restorable(a, a.used - c, Outstanding(a.start), c),
                          !.used = @ - c]
           ELSE a
      /\ Move(r, "refunded")
      /\ UNCHANGED <<stripe, grant, now>>

-----------------------------------------------------------------------------
(* Entitlements and time.                                                  *)

\* getEffectiveBillingAccount and every other read of the account
Read ==
  /\ account' = Current
  /\ UNCHANGED <<stripe, grant, reservation, now>>

\* An invitation's grant is accepted or revoked: the account is reconciled in
\* the same transaction.
ChangeGrant(plan) ==
  /\ grant' = plan
  /\ account' = Reconciled(account, stripe, plan, now)
  /\ UNCHANGED <<stripe, reservation, now>>

\* A grant ends by its date, or the administrator role changes; the account is
\* reconciled when it is next used.
GrantDate(plan) ==
  /\ grant' = plan
  /\ UNCHANGED <<account, stripe, reservation, now>>

\* No reservation was made in the period that started at s.
Unused(s) == \A r \in Runs : reservation[r].state # "none"
                             => reservation[r].period # s

\* What Stripe reports, of whatever subscription: a period that has begun,
\* and contains the present if the subscription gives access.
Reported(plan, p) ==
  p # NoPeriod => /\ p.start <= now /\ p.start < p.end
                  /\ plan # "FREE" => now < p.end

\* Stripe's periods are told apart by their starts, and none starts in the
\* millisecond in which the application started one.
OwnOrNew(p) ==
  \/ p = [start |-> account.start, end |-> account.renew]
  \/ Unused(p.start)

\* An older period than the stored one is not stored.
Stored(p) ==
  IF p # NoPeriod /\ stripe.period # NoPeriod /\ p.end < stripe.period.end
  THEN stripe.period ELSE p

\* upsertBillingAccountFromStripe; plan is FREE for a subscription without
\* access.
ApplyStripe(plan, p) ==
  LET s == [plan |-> plan, period |-> Stored(p)]
  IN  /\ Reported(plan, p)
      /\ plan # "FREE" /\ s.period # NoPeriod => OwnOrNew(s.period)
      /\ stripe' = s
      /\ account' = Reconciled(account, s, grant, now)
      /\ UNCHANGED <<grant, reservation, now>>

\* markStripeSubscriptionDeleted, as of the creation of the event
StripeDeleted(p, at) ==
  LET s == [plan |-> "FREE", period |-> p]
  IN  /\ Reported("FREE", p) /\ at <= now
      /\ stripe' = s
      /\ account' = Reconciled(account, s, grant, at)
      /\ UNCHANGED <<grant, reservation, now>>

Tick ==
  /\ now < MaxNow
  /\ now' = now + 1
  /\ UNCHANGED <<account, stripe, grant, reservation>>

-----------------------------------------------------------------------------
Settlement == \E r \in Runs : Consume(r) \/ Release(r) \/ Refund(r)

Entitlement ==
  \/ \E plan \in Plans : ChangeGrant(plan) \/ GrantDate(plan)
  \/ \E p \in Period \cup {NoPeriod} :
       \/ \E plan \in Plans : ApplyStripe(plan, p)
       \/ \E at \in 0..MaxNow : StripeDeleted(p, at)

Next ==
  \/ \E r \in Runs, credits \in Prices, floor \in Floors :
       Reserve(r, credits, floor)
  \/ Settlement
  \/ Entitlement
  \/ Read
  \/ Tick

Spec == Init /\ [][Next]_vars

-----------------------------------------------------------------------------
TypeOK ==
  /\ account \in AccountRow
  /\ stripe \in StripeRow
  /\ grant \in Plans
  /\ reservation \in [Runs -> ReservationRow]
  /\ now \in 0..MaxNow

(* No credit is made or lost: through reservations, settlements of this and  *)
(* of earlier periods, changes of plan in both directions and restarts, the  *)
(* balance stays exactly what the limit leaves after what is used and held.  *)
BalanceExact ==
  account.balance = Remaining(Limit[account.plan], account.used,
                              Outstanding(account.start))

(* The usage counter agrees with the ledger: settling a reservation of an    *)
(* earlier period neither charges nor restores the present one.              *)
UsedMatchesLedger == account.used = Charged(account.start)

(* No period ever commits more than the largest allowance, whatever is       *)
(* settled late, refunded, upgraded, downgraded or restarted.                *)
PeriodWithinAllowance ==
  \A r \in Runs : LET p == reservation[r].period IN
    \E plan \in Plans : Outstanding(p) + Charged(p) <= Limit[plan]

(* A period, once left, is not entered again with a fresh allowance: the     *)
(* account moves to a period in which nothing has been reserved.             *)
NewPeriodIsUnused ==
  [][account'.start # account.start =>
       \A r \in Runs : reservation[r].state # "none"
                        => reservation[r].period # account'.start]_vars

(* scripts/reconcile-credit-ledger.mjs:45-47 reports an account whose        *)
(* "monthly usage exceeds limit" as an anomaly.                              *)
UsageWithinLimit == account.used <= Limit[account.plan]

(* What billingAccounts.ts keeps of an account: exact columns, periods that  *)
(* commit no more than an allowance, and no period that is entered again.    *)
AccountsHold ==
  /\ [](TypeOK /\ BalanceExact /\ UsedMatchesLedger /\ PeriodWithinAllowance)
  /\ NewPeriodIsUnused
=============================================================================
