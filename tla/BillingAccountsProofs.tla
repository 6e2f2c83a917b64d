------------------------ MODULE BillingAccountsProofs ------------------------
(***************************************************************************)
(* Proofs about BillingAccounts, for any runs, prices, plans, limits and   *)
(* clock, and about AutoAnalysisBacklog, which spends what an account has  *)
(* left, for any players, games, pages, scans and plans.                   *)
(*                                                                         *)
(* The sums over the ledger are cardinalities; one lemma says how they     *)
(* change when the entries of one run do.  Reconciliation is the heart of  *)
(* every operation: what it yields is proved once, for any entitlements.   *)
(*                                                                         *)
(* No game on automatic is forgotten because each that waits has a scan in *)
(* front of it (Scans), a sweep in front of its player (Sweeps) or a job   *)
(* whose end will send one (EndComes), until something is lost             *)
(* (PromisesKept).                                                         *)
(***************************************************************************)
EXTENDS BillingAccounts, AutoAnalysisBacklog,
  FiniteSetTheorems, WellFoundedInduction, TLAPS

-----------------------------------------------------------------------------
(* The sums over the ledger.                                               *)

\* Credits, for ledger entries f.
CreditsIn(f, state, p) ==
  {u \in Runs \X Prices : /\ f[u[1]].state = state
                          /\ f[u[1]].period = p
                          /\ u[2] <= f[u[1]].credits}

\* What the entries of one run contribute.
Share(row, state, p) ==
  IF row.state = state /\ row.period = p THEN row.credits ELSE 0

\* The credits of all entries f but those of run r.
Others(f, r, state, p) ==
  {u \in CreditsIn(f, state, p) : u[1] # r}

(* The entries of one run contribute their number of credits.              *)
LEMMA OwnCredits ==
  ASSUME NEW r \in Runs, NEW c \in 0..MaxPrice
  PROVE  LET own == {u \in {r} \X Prices : u[2] <= c}
         IN  IsFiniteSet(own) /\ Cardinality(own) = c
<1> DEFINE own == {u \in {r} \X Prices : u[2] <= c}
<1>1. c \in Nat /\ MaxPrice \in Nat /\ c <= MaxPrice
  BY BillingAssumption
<1>2. own = {r} \X (1..c)
  BY <1>1 DEF Prices
<1>3. IsFiniteSet(1..c) /\ Cardinality(1..c) = c
  BY <1>1, FS_Interval
<1>4. IsFiniteSet({r}) /\ Cardinality({r}) = 1
  BY FS_Singleton
<1>5. IsFiniteSet({r} \X (1..c)) /\ Cardinality({r} \X (1..c)) = 1 * c
  BY <1>3, <1>4, FS_Product, ZenonT(30)
<1>. QED
  BY <1>1, <1>2, <1>5

(* The credits in one state and period are finitely many.                  *)
LEMMA CreditsFinite ==
  ASSUME NEW f, NEW state, NEW p
  PROVE  /\ IsFiniteSet(CreditsIn(f, state, p))
         /\ Cardinality(CreditsIn(f, state, p)) \in Nat
<1>1. IsFiniteSet(Prices)
  BY BillingAssumption, FS_Interval DEF Prices
<1>2. IsFiniteSet(Runs \X Prices)
  BY <1>1, BillingAssumption, FS_Product
<1>3. CreditsIn(f, state, p) \in SUBSET (Runs \X Prices)
  BY DEF CreditsIn
<1>4. IsFiniteSet(CreditsIn(f, state, p))
  BY <1>2, <1>3, FS_Subset
<1>. QED
  BY <1>4, FS_CardinalityType

(* A sum is the share of one run and what the other runs contribute.       *)
LEMMA SumSplits ==
  ASSUME NEW f \in [Runs -> ReservationRow], NEW r \in Runs,
         NEW state, NEW p
  PROVE  /\ IsFiniteSet(Others(f, r, state, p))
         /\ Cardinality(Others(f, r, state, p)) \in Nat
         /\ Cardinality(CreditsIn(f, state, p)) =
              Cardinality(Others(f, r, state, p)) + Share(f[r], state, p)
<1> DEFINE own  == {u \in CreditsIn(f, state, p) : u[1] = r}
           rest == Others(f, r, state, p)
<1>1. IsFiniteSet(CreditsIn(f, state, p))
  BY CreditsFinite
<1>2. rest \in SUBSET CreditsIn(f, state, p) /\ own \in SUBSET CreditsIn(f, state, p)
  BY DEF Others
<1>3. IsFiniteSet(rest) /\ IsFiniteSet(own)
  BY <1>1, <1>2, FS_Subset
<1>4. Cardinality(rest) \in Nat
  BY <1>3, FS_CardinalityType
<1>5. CreditsIn(f, state, p) = rest \cup own /\ rest \cap own = {}
  BY DEF Others
<1>6. Cardinality(CreditsIn(f, state, p)) = Cardinality(rest) + Cardinality(own)
  <2>1. Cardinality(rest \cup own) =
          Cardinality(rest) + Cardinality(own) - Cardinality(rest \cap own)
    BY <1>3, FS_Union
  <2>2. Cardinality(rest \cap own) = 0
    BY <1>5, FS_EmptySet
  <2>3. Cardinality(own) \in Nat
    BY <1>3, FS_CardinalityType
  <2>4. Cardinality(CreditsIn(f, state, p)) = Cardinality(rest \cup own)
    BY <1>5
  <2> HIDE DEF rest, own
  <2>. QED
    BY <1>4, <2>1, <2>2, <2>3, <2>4
<1>7. Cardinality(own) = Share(f[r], state, p)
  <2>1. f[r].credits \in 0..MaxPrice
    BY DEF ReservationRow
  <2>2. CASE f[r].state = state /\ f[r].period = p
    <3>1. own = {u \in {r} \X Prices : u[2] <= f[r].credits}
      BY <2>2 DEF CreditsIn
    <3>2. Cardinality({u \in {r} \X Prices : u[2] <= f[r].credits}) = f[r].credits
      BY <2>1, OwnCredits
    <3>. QED
      BY <2>2, <3>1, <3>2 DEF Share
  <2>3. CASE ~(f[r].state = state /\ f[r].period = p)
    <3>1. own = {}
      BY <2>3 DEF CreditsIn
    <3>. QED
      BY <2>3, <3>1, FS_EmptySet DEF Share
  <2>. QED
    BY <2>2, <2>3
<1>. QED
  BY <1>3, <1>4, <1>6, <1>7

(* When the entries of one run change, its sums change by its share.       *)
LEMMA SumChanges ==
  ASSUME NEW f \in [Runs -> ReservationRow], NEW r \in Runs,
         NEW row \in ReservationRow, NEW state, NEW p
  PROVE  LET g == [f EXCEPT ![r] = row]
         IN  /\ Cardinality(CreditsIn(g, state, p)) =
                  Cardinality(CreditsIn(f, state, p))
                    - Share(f[r], state, p) + Share(row, state, p)
             /\ Share(f[r], state, p) <= Cardinality(CreditsIn(f, state, p))
<1> DEFINE g == [f EXCEPT ![r] = row]
<1>1. g \in [Runs -> ReservationRow] /\ g[r] = row
  OBVIOUS
<1>2. \A q \in Runs : q # r => g[q] = f[q]
  OBVIOUS
<1>3. Others(g, r, state, p) = Others(f, r, state, p)
  <2>1. \A u \in Runs \X Prices : u[1] \in Runs
    OBVIOUS
  <2>. QED
    BY <1>2, <2>1 DEF Others, CreditsIn
<1>4. Cardinality(CreditsIn(g, state, p)) =
        Cardinality(Others(g, r, state, p)) + Share(g[r], state, p)
  BY <1>1, SumSplits, ZenonT(30)
<1>5. /\ Cardinality(Others(f, r, state, p)) \in Nat
      /\ Cardinality(CreditsIn(f, state, p)) =
           Cardinality(Others(f, r, state, p)) + Share(f[r], state, p)
  BY SumSplits
<1>6. Share(f[r], state, p) \in Int /\ Share(row, state, p) \in Int
  BY BillingAssumption DEF Share, ReservationRow
<1> HIDE DEF g
<1>. QED
  BY <1>1, <1>3, <1>4, <1>5, <1>6 DEF g

\* Outstanding and Charged, for ledger entries f.
Held(f, p) == Cardinality(CreditsIn(f, "reserved", p))
Used(f, p) == Cardinality(CreditsIn(f, "consumed", p))

(* The sums of the module are those over its entries.                      *)
LEMMA Sums ==
  ASSUME NEW p
  PROVE  /\ Outstanding(p) = Held(reservation, p)
         /\ Charged(p) = Used(reservation, p)
<1>1. /\ Credits("reserved", p) = CreditsIn(reservation, "reserved", p)
      /\ Credits("consumed", p) = CreditsIn(reservation, "consumed", p)
  BY DEF Credits, CreditsIn
<1>. QED
  BY <1>1 DEF Outstanding, Charged, Held, Used

(* The change of both sums.                                                *)
LEMMA SumsChange ==
  ASSUME NEW f \in [Runs -> ReservationRow], NEW r \in Runs,
         NEW row \in ReservationRow, NEW p
  PROVE  LET g == [f EXCEPT ![r] = row]
         IN  /\ Held(g, p) = Held(f, p) - Share(f[r], "reserved", p)
                                       + Share(row, "reserved", p)
             /\ Used(g, p) = Used(f, p) - Share(f[r], "consumed", p)
                                       + Share(row, "consumed", p)
             /\ Share(f[r], "reserved", p) <= Held(f, p)
             /\ Share(f[r], "consumed", p) <= Used(f, p)
<1>1. LET g == [f EXCEPT ![r] = row]
      IN  /\ Cardinality(CreditsIn(g, "reserved", p)) =
               Cardinality(CreditsIn(f, "reserved", p))
                 - Share(f[r], "reserved", p) + Share(row, "reserved", p)
          /\ Share(f[r], "reserved", p) <= Cardinality(CreditsIn(f, "reserved", p))
  BY SumChanges
<1>2. LET g == [f EXCEPT ![r] = row]
      IN  /\ Cardinality(CreditsIn(g, "consumed", p)) =
               Cardinality(CreditsIn(f, "consumed", p))
                 - Share(f[r], "consumed", p) + Share(row, "consumed", p)
          /\ Share(f[r], "consumed", p) <= Cardinality(CreditsIn(f, "consumed", p))
  BY SumChanges
<1>. QED
  BY <1>1, <1>2, Zenon DEF Held, Used

(* Sums are numbers.                                                       *)
LEMMA SumTypes ==
  ASSUME NEW f, NEW p
  PROVE  Held(f, p) \in Nat /\ Used(f, p) \in Nat
BY CreditsFinite DEF Held, Used

(* A period without reservations sums to nothing.                          *)
LEMMA UnusedIsEmpty ==
  ASSUME NEW p, Unused(p)
  PROVE  Held(reservation, p) = 0 /\ Used(reservation, p) = 0
<1>1. /\ CreditsIn(reservation, "reserved", p) = {}
      /\ CreditsIn(reservation, "consumed", p) = {}
  BY DEF CreditsIn, Unused
<1>. QED
  BY <1>1, FS_EmptySet DEF Held, Used

-----------------------------------------------------------------------------
(* Reconciliation.                                                         *)

\* An account that agrees with the ledger entries f and the time t.
Sound(a, f, t) ==
  /\ a \in AccountRow
  /\ a.start <= t /\ a.start < a.renew
  /\ \A r \in Runs : f[r].state # "none" => f[r].period < a.renew
  /\ a.used = Used(f, a.start)
  /\ a.balance = Remaining(Limit[a.plan], a.used, Held(f, a.start))

\* Entitlements that the account can be reconciled with.
Admissible(s) ==
  /\ s \in StripeRow
  /\ s.plan # "FREE" /\ s.period # NoPeriod =>
       /\ OwnOrNew(s.period)
       /\ s.period = [start |-> account.start, end |-> account.renew]
          \/ (s.period.start <= now /\ now < s.period.end)

\* The account is in the period that is paid for.
InPaidPeriod(a, s) ==
  s.plan # "FREE" /\ s.period # NoPeriod
  => s.period = [start |-> a.start, end |-> a.renew]

\* No reservation is in the future.
LedgerPast(f, t) ==
  \A r \in Runs : f[r].state # "none" => f[r].period <= t

(* The effective plan is a plan.                                           *)
LEMMA EffectiveType ==
  ASSUME NEW s \in StripeRow, NEW granted \in Plans
  PROVE  Effective(s, granted) \in Plans
BY BillingAssumption DEF Effective, Higher, StripeRow

(* What remains is a number, and no more than the limit.                   *)
LEMMA RemainingType ==
  ASSUME NEW limit \in Nat, NEW used \in Nat, NEW held \in Nat
  PROVE  /\ Remaining(limit, used, held) \in Nat
         /\ Remaining(limit, used, held) <= limit
BY DEF Remaining, Positive

(* The balance after a change of plan is what the new limit leaves.        *)
LEMMA ReplannedBalance ==
  ASSUME NEW old \in Nat, NEW new \in Nat, NEW used \in Nat, NEW held \in Nat
  PROVE  Lesser(Remaining(new, used, held),
                Remaining(old, used, held) + Positive(new - old))
           = Remaining(new, used, held)
BY DEF Lesser, Remaining, Positive

(* Updates of an account row.                                              *)
LEMMA AccountUpdates ==
  ASSUME NEW a \in AccountRow, NEW plan \in Plans,
         NEW balance \in Nat, NEW used \in Nat
  PROVE  /\ [a EXCEPT !.plan = plan, !.balance = balance] \in AccountRow
         /\ [a EXCEPT !.balance = balance] \in AccountRow
         /\ [a EXCEPT !.used = used] \in AccountRow
         /\ [a EXCEPT !.balance = balance, !.used = used] \in AccountRow
BY Zenon DEF AccountRow

(* An account that restarts in an unused period is sound.                  *)
LEMMA RestartedSound ==
  ASSUME NEW plan \in Plans, NEW from \in Nat, NEW to \in Nat, now \in Nat,
         from <= now, from < to, Unused(from),
         \A r \in Runs : reservation[r].state # "none"
                         => reservation[r].period < to
  PROVE  LET a == Restarted(plan, from, to)
         IN  Sound(a, reservation, now) /\ a.start = from /\ a.renew = to
<1> DEFINE a == Restarted(plan, from, to)
<1>1. Limit[plan] \in Nat
  BY BillingAssumption
<1>2. /\ a.plan = plan /\ a.balance = Limit[plan] /\ a.used = 0
      /\ a.start = from /\ a.renew = to
  BY DEF Restarted
<1>3. a \in AccountRow
  BY <1>1 DEF Restarted, AccountRow
<1>4. Held(reservation, from) = 0 /\ Used(reservation, from) = 0
  BY UnusedIsEmpty
<1>5. Remaining(Limit[plan], 0, 0) = Limit[plan]
  BY <1>1 DEF Remaining, Positive
<1> HIDE DEF a
<1>6. Sound(a, reservation, now)
  BY <1>2, <1>3, <1>4, <1>5 DEF Sound
<1>. QED
  BY <1>2, <1>6 DEF a

(* A change of plan keeps the account sound: credits neither appear nor    *)
(* vanish, whichever way the limit goes.                                   *)
LEMMA ReplannedSound ==
  ASSUME Sound(account, reservation, now), NEW plan \in Plans
  PROVE  LET a == Replanned(account, plan)
         IN  Sound(a, reservation, now) /\ a.start = account.start /\ a.renew = account.renew
<1> DEFINE a == Replanned(account, plan)
           held == Held(reservation, account.start)
<1>1. Limit[plan] \in Nat /\ Limit[account.plan] \in Nat
  BY BillingAssumption DEF Sound, AccountRow
<1>2. held \in Nat /\ account.used \in Nat /\ account.balance \in Nat
  BY SumTypes DEF Sound, AccountRow
<1>3. account.balance = Remaining(Limit[account.plan], account.used, held)
  BY DEF Sound
<1>4. Lesser(Remaining(Limit[plan], account.used, held),
             account.balance + Positive(Limit[plan] - Limit[account.plan]))
        = Remaining(Limit[plan], account.used, held)
  BY <1>1, <1>2, <1>3, ReplannedBalance
<1>5. account \in AccountRow
  BY DEF Sound
<1> DEFINE balance == Lesser(Remaining(Limit[plan], account.used, held),
                             account.balance
                               + Positive(Limit[plan] - Limit[account.plan]))
<1>6. balance \in Nat
  <2>1. Remaining(Limit[plan], account.used, held) \in Nat
    BY <1>1, <1>2, RemainingType
  <2>. QED
    BY <1>4, <2>1, Zenon
<1>7. a = [account EXCEPT !.plan = plan, !.balance = balance]
  BY Sums DEF Replanned
<1>8. /\ a.plan = plan /\ a.used = account.used
      /\ a.start = account.start /\ a.renew = account.renew
      /\ a.balance = balance
  BY <1>5, <1>7, Zenon DEF AccountRow
<1> HIDE DEF a, balance
<1>9. a \in AccountRow
  BY <1>5, <1>6, <1>7, AccountUpdates, Zenon
<1>10. Sound(a, reservation, now)
  BY <1>4, <1>8, <1>9, Zenon DEF Sound, balance
<1>. QED
  BY <1>8, <1>10 DEF a

(* Reconciliation with admissible entitlements yields a sound account in   *)
(* the paid period, and moves it to an unused period only.                 *)
LEMMA ReconciledSound ==
  ASSUME Sound(account, reservation, now), LedgerPast(reservation, now), now \in Nat,
         reservation \in [Runs -> ReservationRow],
         NEW s, Admissible(s), NEW granted \in Plans, NEW at \in Nat, at <= now
  PROVE  LET a == Reconciled(account, s, granted, at)
         IN  /\ Sound(a, reservation, now) /\ InPaidPeriod(a, s)
             /\ a.start # account.start => Unused(a.start)
<1> DEFINE a == Reconciled(account, s, granted, at)
           plan == Effective(s, granted)
<1>1. s \in StripeRow /\ plan \in Plans
  BY EffectiveType DEF Admissible
<1>2. account \in AccountRow /\ account.start \in Nat /\ account.renew \in Nat
  BY DEF Sound, AccountRow
<1> HIDE DEF plan
<1>3. CASE StripeMoves(account, s)
  <2> DEFINE from == s.period.start
             to   == s.period.end
  <2>1. s.plan # "FREE" /\ s.period # NoPeriod
        /\ s.period # [start |-> account.start, end |-> account.renew]
    BY <1>3 DEF StripeMoves
  <2>2. Unused(from) /\ from <= now /\ now < to
    BY <2>1 DEF Admissible, OwnOrNew
  <2>3. s.period \in Period
    BY <1>1, <2>1 DEF StripeRow
  <2>4. from \in Nat /\ to \in Nat
    BY <2>3, BillingAssumption DEF Period
  <2>5. a = Restarted(plan, from, to)
    BY <1>3 DEF Reconciled, plan
  <2>6. \A r \in Runs : reservation[r].period \in Nat
    BY DEF ReservationRow
  <2>7. \A r \in Runs : reservation[r].state # "none" => reservation[r].period < to
    BY <2>2, <2>4, <2>6 DEF LedgerPast
  <2>8. from < to
    BY <2>2, <2>4
  <2>9. s.period = [start |-> from, end |-> to]
    BY <2>3 DEF Period
  <2> HIDE DEF a, from, to
  <2>10. Sound(a, reservation, now) /\ a.start = from /\ a.renew = to
    BY <1>1, <2>2, <2>4, <2>5, <2>7, <2>8, RestartedSound
  <2>. QED
    BY <2>2, <2>9, <2>10 DEF InPaidPeriod, a
<1>4. CASE ~StripeMoves(account, s) /\ ClockMoves(account, s, at)
  <2>1. a = Restarted(plan, at, at + Month)
    BY <1>4 DEF Reconciled, plan
  <2>2. account.renew <= at /\ s.plan = "FREE"
    BY <1>4 DEF ClockMoves
  <2>3. Month \in Nat /\ Month > 0
    BY BillingAssumption
  <2>4. \A r \in Runs : /\ reservation[r].period \in Nat
                        /\ reservation[r].state # "none"
                           => reservation[r].period < account.renew
    BY DEF ReservationRow, Sound
  <2>5. Unused(at)
    BY <1>2, <2>2, <2>4 DEF Unused
  <2>6. /\ at + Month \in Nat /\ at < at + Month
        /\ \A r \in Runs : reservation[r].state # "none"
                           => reservation[r].period < at + Month
    BY <1>2, <2>2, <2>3, <2>4
  <2> HIDE DEF a
  <2>7. Sound(a, reservation, now) /\ a.start = at
    BY <1>1, <2>1, <2>5, <2>6, RestartedSound
  <2>. QED
    BY <2>2, <2>5, <2>7 DEF InPaidPeriod, a
<1>5. CASE ~StripeMoves(account, s) /\ ~ClockMoves(account, s, at)
  <2>1. InPaidPeriod(account, s)
    <3> SUFFICES ASSUME s.plan # "FREE", s.period # NoPeriod,
                        s.period # [start |-> account.start, end |-> account.renew]
                 PROVE  FALSE
      BY DEF InPaidPeriod
    <3>1. s.period.start <= now /\ now < s.period.end
      BY DEF Admissible
    <3>2. s.period.start \in Nat /\ s.period.end \in Nat
      BY <1>1, BillingAssumption DEF StripeRow, Period
    <3>3. s.period.start < s.period.end
      BY <3>1, <3>2
    <3>. QED
      BY <1>5, <3>3 DEF StripeMoves
  <2>2. CASE plan # account.plan
    <3>1. a = Replanned(account, plan)
      BY <1>5, <2>2 DEF Reconciled, plan
    <3> HIDE DEF a
    <3>2. Sound(a, reservation, now) /\ a.start = account.start /\ a.renew = account.renew
      BY <1>1, <3>1, ReplannedSound
    <3>. QED
      BY <2>1, <3>2 DEF InPaidPeriod, a
  <2>3. CASE plan = account.plan
    <3>1. a = account
      BY <1>5, <2>3 DEF Reconciled, plan
    <3>. QED
      BY <2>1, <3>1
  <2>. QED
    BY <2>2, <2>3
<1>. QED
  BY <1>3, <1>4, <1>5

-----------------------------------------------------------------------------
(* The operations on reservations, for ledger entries f and time t.        *)

\* Entries f after r is reserved for c credits in the period from start, and
\* after its state has become to.
Placed(f, r, c, start) ==
  [f EXCEPT ![r] = [state |-> "reserved", credits |-> c, period |-> start]]
Moved(f, r, to) == [f EXCEPT ![r].state = to]

\* What the entries of r hold in period p, whatever their state.
Part(f, r, p) == IF f[r].period = p THEN f[r].credits ELSE 0

(* A part is a number.                                                     *)
LEMMA PartType ==
  ASSUME NEW f \in [Runs -> ReservationRow], NEW r \in Runs, NEW p
  PROVE  Part(f, r, p) \in Nat
BY BillingAssumption DEF Part, ReservationRow

(* The sums after the state of the entries of one run has changed.         *)
LEMMA MovedSums ==
  ASSUME NEW f \in [Runs -> ReservationRow], NEW r \in Runs,
         NEW to \in {"consumed", "released", "refunded"}, NEW p
  PROVE  /\ Held(Moved(f, r, to), p) = Held(f, p) - Share(f[r], "reserved", p)
         /\ Used(Moved(f, r, to), p) = Used(f, p) - Share(f[r], "consumed", p)
              + (IF to = "consumed" THEN Part(f, r, p) ELSE 0)
         /\ Share(f[r], "reserved", p) <= Held(f, p)
         /\ Share(f[r], "consumed", p) <= Used(f, p)
<1> DEFINE row == [f[r] EXCEPT !.state = to]
           g == [f EXCEPT ![r] = row]
<1>1. f[r] \in ReservationRow
  OBVIOUS
<1>2. row \in ReservationRow
  BY <1>1, Zenon DEF ReservationRow
<1>3. row.state = to /\ row.credits = f[r].credits /\ row.period = f[r].period
  BY <1>1 DEF ReservationRow
<1>4. Moved(f, r, to) = g
  BY DEF Moved
<1> HIDE DEF row
<1>5. /\ Share(row, "reserved", p) = 0
      /\ Share(row, "consumed", p) = IF to = "consumed" THEN Part(f, r, p) ELSE 0
  BY <1>3 DEF Share, Part
<1>6. /\ Held(g, p) = Held(f, p) - Share(f[r], "reserved", p)
                                 + Share(row, "reserved", p)
      /\ Used(g, p) = Used(f, p) - Share(f[r], "consumed", p)
                                 + Share(row, "consumed", p)
      /\ Share(f[r], "reserved", p) <= Held(f, p)
      /\ Share(f[r], "consumed", p) <= Used(f, p)
  BY <1>2, SumsChange, Zenon
<1>7. /\ Held(f, p) \in Nat /\ Used(f, p) \in Nat
      /\ Share(f[r], "reserved", p) \in Nat /\ Share(f[r], "consumed", p) \in Nat
  BY <1>1, SumTypes, BillingAssumption DEF Share, ReservationRow
<1> HIDE DEF g
<1>. QED
  BY <1>4, <1>5, <1>6, <1>7

(* The entries remain entries, and their periods remain the same.          *)
LEMMA MovedRows ==
  ASSUME NEW f \in [Runs -> ReservationRow], NEW r \in Runs,
         NEW to \in {"consumed", "released", "refunded"}, f[r].state # "none"
  PROVE  /\ Moved(f, r, to) \in [Runs -> ReservationRow]
         /\ \A q \in Runs : /\ Moved(f, r, to)[q].period = f[q].period
                            /\ Moved(f, r, to)[q].state # "none"
                               => f[q].state # "none"
<1>1. f[r] \in ReservationRow
  OBVIOUS
<1>2. [f[r] EXCEPT !.state = to] \in ReservationRow
  BY <1>1, Zenon DEF ReservationRow
<1>3. [f[r] EXCEPT !.state = to].period = f[r].period
  BY <1>1, Zenon DEF ReservationRow
<1>. QED
  BY <1>2, <1>3 DEF Moved

(* A settlement of a reservation.                                          *)
LEMMA SettledSums ==
  ASSUME NEW f \in [Runs -> ReservationRow], NEW r \in Runs,
         f[r].state = "reserved", NEW p
  PROVE  /\ Part(f, r, p) <= Held(f, p)
         /\ Held(Moved(f, r, "consumed"), p) = Held(f, p) - Part(f, r, p)
         /\ Used(Moved(f, r, "consumed"), p) = Used(f, p) + Part(f, r, p)
         /\ Held(Moved(f, r, "released"), p) = Held(f, p) - Part(f, r, p)
         /\ Used(Moved(f, r, "released"), p) = Used(f, p)
<1>1. /\ Share(f[r], "reserved", p) = Part(f, r, p)
      /\ Share(f[r], "consumed", p) = 0
  BY DEF Share, Part
<1>2. Held(f, p) \in Nat /\ Used(f, p) \in Nat /\ Part(f, r, p) \in Nat
  BY SumTypes, PartType
<1>. QED
  BY <1>1, <1>2, MovedSums

(* A refund of a consumption.                                              *)
LEMMA RefundedSums ==
  ASSUME NEW f \in [Runs -> ReservationRow], NEW r \in Runs,
         f[r].state = "consumed", NEW p
  PROVE  /\ Part(f, r, p) <= Used(f, p)
         /\ Held(Moved(f, r, "refunded"), p) = Held(f, p)
         /\ Used(Moved(f, r, "refunded"), p) = Used(f, p) - Part(f, r, p)
<1>1. /\ Share(f[r], "reserved", p) = 0
      /\ Share(f[r], "consumed", p) = Part(f, r, p)
  BY DEF Share, Part
<1>2. Held(f, p) \in Nat /\ Used(f, p) \in Nat /\ Part(f, r, p) \in Nat
  BY SumTypes, PartType
<1>. QED
  BY <1>1, <1>2, MovedSums

(* What a reservation adds.                                                *)
LEMMA PlacedSums ==
  ASSUME NEW f \in [Runs -> ReservationRow], NEW r \in Runs,
         NEW c \in Prices, NEW start \in Nat, f[r].state = "none", NEW p
  PROVE  /\ Placed(f, r, c, start) \in [Runs -> ReservationRow]
         /\ Held(Placed(f, r, c, start), p) = Held(f, p) + (IF start = p THEN c ELSE 0)
         /\ Used(Placed(f, r, c, start), p) = Used(f, p)
<1> DEFINE row == [state |-> "reserved", credits |-> c, period |-> start]
           g == [f EXCEPT ![r] = row]
<1>1. row \in ReservationRow /\ c \in Nat
  BY BillingAssumption DEF ReservationRow, Prices
<1>2. /\ Share(f[r], "reserved", p) = 0
      /\ Share(f[r], "consumed", p) = 0
      /\ Share(row, "reserved", p) = IF start = p THEN c ELSE 0
      /\ Share(row, "consumed", p) = 0
  BY DEF Share
<1>3. Placed(f, r, c, start) = g
  BY DEF Placed
<1> HIDE DEF row
<1>4. /\ Held(g, p) = Held(f, p) - Share(f[r], "reserved", p)
                                 + Share(row, "reserved", p)
      /\ Used(g, p) = Used(f, p) - Share(f[r], "consumed", p)
                                 + Share(row, "consumed", p)
  BY <1>1, SumsChange, Zenon
<1>5. g \in [Runs -> ReservationRow]
  BY <1>1
<1>6. Held(f, p) \in Nat /\ Used(f, p) \in Nat
  BY SumTypes
<1> HIDE DEF g
<1>. QED
  BY <1>1, <1>2, <1>3, <1>4, <1>5, <1>6

(* What a reservation takes off the balance.                               *)
LEMMA TakenBalance ==
  ASSUME NEW limit \in Nat, NEW used \in Nat, NEW held \in Nat, NEW c \in Nat \ {0},
         Remaining(limit, used, held) >= c
  PROVE  Remaining(limit, used, held) - c = Remaining(limit, used, held + c)
BY DEF Remaining, Positive

(* A reservation keeps an account sound.                                   *)
LEMMA ReserveSound ==
  ASSUME NEW f \in [Runs -> ReservationRow], NEW t \in Nat, NEW a,
         Sound(a, f, t), LedgerPast(f, t), NEW r \in Runs, NEW c \in Prices,
         f[r].state = "none", a.balance >= c
  PROVE  LET b == [a EXCEPT !.balance = @ - c]
             g == Placed(f, r, c, a.start)
         IN  Sound(b, g, t) /\ LedgerPast(g, t)
<1> DEFINE b == [a EXCEPT !.balance = @ - c]
           g == Placed(f, r, c, a.start)
<1>1. /\ a \in AccountRow /\ a.start \in Nat /\ a.used \in Nat
      /\ a.balance \in Nat /\ a.plan \in Plans
  BY DEF Sound, AccountRow
<1>2. c \in Nat \ {0} /\ Limit[a.plan] \in Nat
  BY <1>1, BillingAssumption DEF Prices
<1>3. Held(f, a.start) \in Nat /\ Used(f, a.start) \in Nat
  BY SumTypes
<1>4. /\ Held(g, a.start) = Held(f, a.start) + c
      /\ Used(g, a.start) = Used(f, a.start)
  BY <1>1, PlacedSums
<1>5. a.balance - c \in Nat
  BY <1>1, <1>2
<1>6. b = [a EXCEPT !.balance = a.balance - c]
  OBVIOUS
<1>7. /\ b.plan = a.plan /\ b.used = a.used /\ b.start = a.start
      /\ b.renew = a.renew /\ b.balance = a.balance - c
  BY <1>1, <1>6, Zenon DEF AccountRow
<1>8. b \in AccountRow
  BY <1>1, <1>5, <1>6, AccountUpdates, Zenon
<1>9. a.balance = Remaining(Limit[a.plan], a.used, Held(f, a.start))
  BY DEF Sound
<1>10. a.balance - c = Remaining(Limit[a.plan], a.used, Held(f, a.start) + c)
  BY <1>1, <1>2, <1>3, <1>9, TakenBalance
<1>11. \A q \in Runs : g[q].state # "none" =>
         g[q].period <= t /\ g[q].period < a.renew
  BY DEF Sound, LedgerPast, Placed
<1> HIDE DEF b, g
<1>12. Sound(b, g, t)
  BY <1>4, <1>7, <1>8, <1>10, <1>11 DEF Sound
<1>. QED
  BY <1>11, <1>12 DEF LedgerPast, b, g

(* A consumption keeps an account sound.                                   *)
LEMMA ConsumeSound ==
  ASSUME NEW f \in [Runs -> ReservationRow], NEW t \in Nat, NEW a,
         Sound(a, f, t), LedgerPast(f, t), NEW r \in Runs,
         f[r].state = "reserved"
  PROVE  LET b == IF f[r].period = a.start
                  THEN [a EXCEPT !.used = @ + f[r].credits] ELSE a
             g == Moved(f, r, "consumed")
         IN  Sound(b, g, t) /\ LedgerPast(g, t)
<1> DEFINE b == IF f[r].period = a.start
                THEN [a EXCEPT !.used = @ + f[r].credits] ELSE a
           g == Moved(f, r, "consumed")
           c == Part(f, r, a.start)
<1>1. /\ a \in AccountRow /\ a.start \in Nat /\ a.used \in Nat
      /\ a.balance \in Nat /\ a.plan \in Plans
  BY DEF Sound, AccountRow
<1>2. f[r].credits \in Nat /\ Limit[a.plan] \in Nat
  BY <1>1, BillingAssumption DEF ReservationRow
<1>3. Held(f, a.start) \in Nat /\ Used(f, a.start) \in Nat
  BY SumTypes
<1>7. c \in Nat
  BY PartType
<1>4. /\ Held(g, a.start) = Held(f, a.start) - c
      /\ Used(g, a.start) = Used(f, a.start) + c
  BY SettledSums
<1>5. /\ b \in AccountRow /\ b.plan = a.plan /\ b.start = a.start
      /\ b.renew = a.renew /\ b.balance = a.balance /\ b.used = a.used + c
  <2>1. CASE f[r].period = a.start
    <3> DEFINE used == a.used + f[r].credits
    <3>1. used \in Nat
      BY <1>1, <1>2
    <3>2. b = [a EXCEPT !.used = used]
      BY <2>1
    <3> HIDE DEF used, b
    <3>3. b \in AccountRow
      BY <1>1, <3>1, <3>2, AccountUpdates, Zenon
    <3>4. /\ b.plan = a.plan /\ b.start = a.start /\ b.renew = a.renew
          /\ b.balance = a.balance /\ b.used = used
      BY <1>1, <3>2, Zenon DEF AccountRow
    <3>. QED
      BY <2>1, <3>3, <3>4 DEF used, Part
  <2>2. CASE f[r].period # a.start
    BY <1>1, <2>2 DEF Part
  <2>. QED
    BY <2>1, <2>2
<1>6. \A q \in Runs : /\ g[q].period = f[q].period
                      /\ g[q].state # "none" => f[q].state # "none"
  BY MovedRows
<1> HIDE DEF b, g, c
<1>8. a.balance = Remaining(Limit[a.plan], a.used + c, Held(f, a.start) - c)
  <2>1. a.balance = Remaining(Limit[a.plan], a.used, Held(f, a.start))
    BY DEF Sound
  <2>. QED
    BY <1>1, <1>2, <1>3, <1>7, <2>1 DEF Remaining, Positive
<1>9. b.used = Used(g, b.start)
  BY <1>4, <1>5 DEF Sound
<1>10. b.balance = Remaining(Limit[b.plan], b.used, Held(g, b.start))
  BY <1>4, <1>5, <1>8
<1>11. Sound(b, g, t)
  BY <1>5, <1>6, <1>9, <1>10 DEF Sound
<1>. QED
  BY <1>6, <1>11 DEF LedgerPast, b, g

(* A release keeps an account sound.                                       *)
LEMMA ReleaseSound ==
  ASSUME NEW f \in [Runs -> ReservationRow], NEW t \in Nat, NEW a,
         Sound(a, f, t), LedgerPast(f, t), NEW r \in Runs,
         f[r].state = "reserved"
  PROVE  LET back == Restorable(a, a.used,
                                Positive(Held(f, a.start) - f[r].credits),
                                f[r].credits)
             b == IF f[r].period = a.start
                  THEN [a EXCEPT !.balance = @ + back] ELSE a
             g == Moved(f, r, "released")
         IN  Sound(b, g, t) /\ LedgerPast(g, t)
<1> DEFINE back == Restorable(a, a.used,
                              Positive(Held(f, a.start) - f[r].credits),
                              f[r].credits)
           b == IF f[r].period = a.start
                THEN [a EXCEPT !.balance = @ + back] ELSE a
           g == Moved(f, r, "released")
           c == Part(f, r, a.start)
<1>1. /\ a \in AccountRow /\ a.start \in Nat /\ a.used \in Nat
      /\ a.balance \in Nat /\ a.plan \in Plans
  BY DEF Sound, AccountRow
<1>2. f[r].credits \in Nat /\ Limit[a.plan] \in Nat
  BY <1>1, BillingAssumption DEF ReservationRow
<1>3. Held(f, a.start) \in Nat /\ Used(f, a.start) \in Nat
  BY SumTypes
<1>4. /\ Held(g, a.start) = Held(f, a.start) - c
      /\ Used(g, a.start) = Used(f, a.start)
      /\ c <= Held(f, a.start)
  BY SettledSums
<1>5. a.balance = Remaining(Limit[a.plan], a.used, Held(f, a.start))
  BY DEF Sound
<1>6. /\ b \in AccountRow /\ b.plan = a.plan /\ b.start = a.start
      /\ b.renew = a.renew /\ b.used = a.used
      /\ b.balance = Remaining(Limit[a.plan], a.used, Held(f, a.start) - c)
  <2>1. CASE f[r].period = a.start
    <3> DEFINE balance == a.balance + back
    <3>1. f[r].credits <= Held(f, a.start) /\ c = f[r].credits
      BY <1>4, <2>1 DEF Part
    <3>2. balance = Remaining(Limit[a.plan], a.used, Held(f, a.start) - c)
      <4> DEFINE limit == Limit[a.plan]
                 held == Held(f, a.start)
                 credits == f[r].credits
                 full == Remaining(limit, a.used, held)
      <4>1. back = Positive(Lesser(credits,
                       Remaining(limit, a.used, Positive(held - credits)) - full))
        BY <1>5 DEF Restorable
      <4>2. limit \in Nat /\ held \in Nat /\ credits \in Nat /\ credits <= held
        BY <1>2, <1>3, <3>1
      <4> HIDE DEF limit, held, credits, back
      <4>3. full + Positive(Lesser(credits,
                       Remaining(limit, a.used, Positive(held - credits)) - full))
              = Remaining(limit, a.used, held - credits)
        BY <1>1, <4>2 DEF Remaining, Positive, Lesser
      <4>4. a.balance + back = Remaining(limit, a.used, held - credits)
        BY <1>5, <4>1, <4>3 DEF limit, held
      <4>. QED
        BY <3>1, <4>4 DEF limit, held, credits
    <3>3. balance \in Nat
      <4>1. Held(f, a.start) - c \in Nat
        BY <1>2, <1>3, <3>1
      <4>2. Remaining(Limit[a.plan], a.used, Held(f, a.start) - c) \in Nat
        BY <1>1, <1>2, <4>1, RemainingType, Zenon
      <4>. QED
        BY <3>2, <4>2, Zenon
    <3>4. b = [a EXCEPT !.balance = balance]
      BY <2>1
    <3> HIDE DEF balance, b
    <3>5. b \in AccountRow
      BY <1>1, <3>3, <3>4, AccountUpdates, Zenon
    <3>6. /\ b.plan = a.plan /\ b.start = a.start /\ b.renew = a.renew
          /\ b.balance = balance /\ b.used = a.used
      BY <1>1, <3>4, Zenon DEF AccountRow
    <3>. QED
      BY <3>2, <3>5, <3>6
  <2>2. CASE f[r].period # a.start
    BY <1>1, <1>3, <1>5, <2>2 DEF Part
  <2>. QED
    BY <2>1, <2>2
<1>7. \A q \in Runs : /\ g[q].period = f[q].period
                      /\ g[q].state # "none" => f[q].state # "none"
  BY MovedRows
<1> HIDE DEF b, g, c
<1>8. b.used = Used(g, b.start)
  BY <1>4, <1>6 DEF Sound
<1>9. b.balance = Remaining(Limit[b.plan], b.used, Held(g, b.start))
  BY <1>4, <1>6
<1>10. Sound(b, g, t)
  BY <1>6, <1>7, <1>8, <1>9 DEF Sound
<1>. QED
  BY <1>7, <1>10 DEF LedgerPast, b, g

(* A refund keeps an account sound.                                        *)
LEMMA RefundSound ==
  ASSUME NEW f \in [Runs -> ReservationRow], NEW t \in Nat, NEW a,
         Sound(a, f, t), LedgerPast(f, t), NEW r \in Runs,
         f[r].state = "consumed"
  PROVE  LET back == Restorable(a, a.used - f[r].credits, Held(f, a.start),
                                f[r].credits)
             b == IF f[r].period = a.start
                  THEN [a EXCEPT !.balance = @ + back,
                                 !.used = @ - f[r].credits]
                  ELSE a
             g == Moved(f, r, "refunded")
         IN  Sound(b, g, t) /\ LedgerPast(g, t)
<1> DEFINE back == Restorable(a, a.used - f[r].credits, Held(f, a.start),
                              f[r].credits)
           b == IF f[r].period = a.start
                THEN [a EXCEPT !.balance = @ + back,
                               !.used = @ - f[r].credits]
                ELSE a
           g == Moved(f, r, "refunded")
           c == Part(f, r, a.start)
<1>1. /\ a \in AccountRow /\ a.start \in Nat /\ a.used \in Nat
      /\ a.balance \in Nat /\ a.plan \in Plans
  BY DEF Sound, AccountRow
<1>2. f[r].credits \in Nat /\ Limit[a.plan] \in Nat
  BY <1>1, BillingAssumption DEF ReservationRow
<1>3. Held(f, a.start) \in Nat /\ Used(f, a.start) \in Nat /\ c \in Nat
  BY SumTypes, PartType
<1>4. /\ Held(g, a.start) = Held(f, a.start)
      /\ Used(g, a.start) = Used(f, a.start) - c
      /\ c <= Used(f, a.start)
  BY RefundedSums
<1>5. /\ a.balance = Remaining(Limit[a.plan], a.used, Held(f, a.start))
      /\ a.used = Used(f, a.start)
  BY DEF Sound
<1>6. /\ b \in AccountRow /\ b.plan = a.plan /\ b.start = a.start
      /\ b.renew = a.renew /\ b.used = a.used - c
      /\ b.balance = Remaining(Limit[a.plan], a.used - c, Held(f, a.start))
  <2>1. CASE f[r].period = a.start
    <3> DEFINE balance == a.balance + back
               used == a.used - f[r].credits
    <3>1. f[r].credits <= a.used /\ c = f[r].credits
      BY <1>4, <1>5, <2>1 DEF Part
    <3>2. used \in Nat
      BY <1>1, <1>2, <3>1
    <3>3. balance = Remaining(Limit[a.plan], used, Held(f, a.start))
      <4> DEFINE limit == Limit[a.plan]
                 held == Held(f, a.start)
                 credits == f[r].credits
                 full == Remaining(limit, a.used, held)
      <4>1. back = Positive(Lesser(credits,
                       Remaining(limit, a.used - credits, held) - full))
        BY <1>5 DEF Restorable
      <4>2. limit \in Nat /\ held \in Nat /\ credits \in Nat /\ credits <= a.used
        BY <1>2, <1>3, <3>1
      <4> HIDE DEF limit, held, credits, back
      <4>3. full + Positive(Lesser(credits,
                       Remaining(limit, a.used - credits, held) - full))
              = Remaining(limit, a.used - credits, held)
        BY <1>1, <4>2 DEF Remaining, Positive, Lesser
      <4>4. a.balance + back = Remaining(limit, a.used - credits, held)
        BY <1>5, <4>1, <4>3 DEF limit, held
      <4>. QED
        BY <4>4 DEF limit, held, credits
    <3>4. balance \in Nat
      <4>1. Remaining(Limit[a.plan], used, Held(f, a.start)) \in Nat
        BY <1>2, <1>3, <3>2, RemainingType, Zenon
      <4>. QED
        BY <3>3, <4>1, Zenon
    <3>5. b = [a EXCEPT !.balance = balance, !.used = used]
      BY <2>1
    <3> HIDE DEF balance, used, b
    <3>6. b \in AccountRow
      BY <1>1, <3>2, <3>4, <3>5, AccountUpdates, Zenon
    <3>7. /\ b.plan = a.plan /\ b.start = a.start /\ b.renew = a.renew
          /\ b.balance = balance /\ b.used = used
      BY <1>1, <3>5, Zenon DEF AccountRow
    <3>8. used = a.used - c
      BY <3>1 DEF used
    <3>. QED
      BY <3>3, <3>6, <3>7, <3>8
  <2>2. CASE f[r].period # a.start
    BY <1>1, <1>3, <1>5, <2>2 DEF Part
  <2>. QED
    BY <2>1, <2>2
<1>7. \A q \in Runs : /\ g[q].period = f[q].period
                      /\ g[q].state # "none" => f[q].state # "none"
  BY MovedRows
<1> HIDE DEF b, g, c
<1>8. b.used = Used(g, b.start)
  BY <1>4, <1>5, <1>6
<1>9. b.balance = Remaining(Limit[b.plan], b.used, Held(g, b.start))
  BY <1>4, <1>6
<1>10. Sound(b, g, t)
  BY <1>6, <1>7, <1>8, <1>9 DEF Sound
<1>. QED
  BY <1>7, <1>10 DEF LedgerPast, b, g

-----------------------------------------------------------------------------
(* The inductive invariant.                                                *)

\* No period holds more than an allowance.
Within(f) ==
  \A p \in Nat : \E plan \in Plans : Held(f, p) + Used(f, p) <= Limit[plan]

IInv ==
  /\ stripe \in StripeRow
  /\ grant \in Plans
  /\ reservation \in [Runs -> ReservationRow]
  /\ now \in 0..MaxNow
  /\ Sound(account, reservation, now)
  /\ InPaidPeriod(account, stripe)
  /\ stripe.period # NoPeriod => stripe.period.start <= now
  /\ LedgerPast(reservation, now)
  /\ Within(reservation)

(* Every operation starts from the reconciled account, which is sound.     *)
LEMMA CurrentSound ==
  ASSUME IInv
  PROVE  /\ Sound(Current, reservation, now) /\ InPaidPeriod(Current, stripe)
         /\ Current.start # account.start => Unused(Current.start)
<1>1. Admissible(stripe)
  BY DEF IInv, Admissible, OwnOrNew, InPaidPeriod
<1>2. now \in Nat /\ now <= now
  BY BillingAssumption DEF IInv
<1>. QED
  BY <1>1, <1>2, ReconciledSound DEF IInv, Current

(* The initial state.                                                      *)
LEMMA InitInv == Init => IInv
<1> SUFFICES ASSUME Init PROVE IInv
  OBVIOUS
<1>1. /\ Limit["FREE"] \in Nat /\ "FREE" \in Plans /\ Month \in Nat /\ Month > 0
      /\ MaxPrice \in Nat /\ MaxNow \in Nat
  BY BillingAssumption
<1>2. /\ stripe \in StripeRow /\ grant \in Plans /\ now = 0
      /\ reservation \in [Runs -> ReservationRow]
  BY <1>1 DEF Init, StripeRow, ReservationRow
<1>3. \A r \in Runs : reservation[r].state = "none"
  BY DEF Init
<1>4. \A p : Unused(p)
  BY <1>3 DEF Unused
<1>5. \A p : Held(reservation, p) = 0 /\ Used(reservation, p) = 0
  BY <1>4, UnusedIsEmpty
<1>6. account = Restarted("FREE", 0, Month)
  BY DEF Init, Restarted
<1>7. Sound(account, reservation, now)
  <2>1. \A r \in Runs : reservation[r].state # "none"
                        => reservation[r].period < Month
    BY <1>3
  <2>. QED
    BY <1>1, <1>2, <1>4, <1>6, <2>1, RestartedSound
<1>8. InPaidPeriod(account, stripe) /\ stripe.period = NoPeriod
  BY DEF Init, InPaidPeriod
<1>9. LedgerPast(reservation, now) /\ Within(reservation)
  BY <1>1, <1>3, <1>5 DEF LedgerPast, Within
<1>. QED
  BY <1>1, <1>2, <1>7, <1>8, <1>9 DEF IInv

(* A step that leaves the ledger alone and reconciles the account with     *)
(* admissible entitlements preserves the invariant.                        *)
LEMMA EntitlementStep ==
  ASSUME IInv, NEW s, Admissible(s), NEW granted \in Plans,
         NEW at \in Nat, at <= now,
         s.period # NoPeriod => s.period.start <= now,
         stripe' = s, grant' = granted,
         account' = Reconciled(account, s, granted, at),
         UNCHANGED <<reservation, now>>
  PROVE  IInv' /\ (account'.start # account.start => Unused(account'.start))
<1>1. now \in Nat
  BY BillingAssumption DEF IInv
<1>2. /\ Sound(account', reservation, now) /\ InPaidPeriod(account', s)
      /\ account'.start # account.start => Unused(account'.start)
  BY <1>1, ReconciledSound DEF IInv
<1>3. s \in StripeRow
  BY DEF Admissible
<1>. QED
  BY <1>2, <1>3, Zenon DEF IInv

(* A step on a reservation, from the reconciled account, preserves it.     *)
LEMMA LedgerStep ==
  ASSUME IInv, Sound(account', reservation', now), LedgerPast(reservation', now),
         reservation' \in [Runs -> ReservationRow], Within(reservation'),
         account'.start = Current.start, account'.renew = Current.renew,
         UNCHANGED <<stripe, grant, now>>
  PROVE  IInv' /\ (account'.start # account.start => Unused(account'.start))
<1>1. /\ InPaidPeriod(Current, stripe)
      /\ Current.start # account.start => Unused(Current.start)
  BY CurrentSound
<1>2. InPaidPeriod(account', stripe)
  BY <1>1 DEF InPaidPeriod
<1>. QED
  BY <1>1, <1>2, Zenon DEF IInv

(* The row that a step takes the account from.                             *)
LEMMA CurrentFields ==
  ASSUME IInv
  PROVE  /\ Current \in AccountRow /\ Current.start \in Nat
         /\ Current.used \in Nat /\ Current.balance \in Nat
         /\ Limit[Current.plan] \in Nat
         /\ Current.plan \in Plans
         /\ Current.used = Used(reservation, Current.start)
         /\ now \in Nat
BY CurrentSound, BillingAssumption DEF Sound, AccountRow, IInv

(* A reservation preserves the invariant: it takes no more than the limit  *)
(* leaves.                                                                 *)
LEMMA ReserveStep ==
  ASSUME IInv, NEW r \in Runs, NEW c \in Prices, NEW floor \in Floors,
         Reserve(r, c, floor)
  PROVE  IInv' /\ (account'.start # account.start => Unused(account'.start))
<1> DEFINE a == Current
           g == Placed(reservation, r, c, a.start)
<1>1. /\ reservation \in [Runs -> ReservationRow]
      /\ LedgerPast(reservation, now) /\ Within(reservation)
  BY DEF IInv
<1>2. /\ Sound(a, reservation, now) /\ a \in AccountRow
      /\ a.start \in Nat /\ a.used \in Nat /\ a.balance \in Nat
      /\ a.plan \in Plans /\ Limit[a.plan] \in Nat /\ now \in Nat
      /\ a.used = Used(reservation, a.start)
  BY CurrentSound, CurrentFields
<1>3. /\ reservation[r].state = "none" /\ a.balance >= c + floor
      /\ a.used + Outstanding(a.start) + c <= Limit[a.plan]
      /\ account' = [a EXCEPT !.balance = @ - c]
      /\ reservation' = g
      /\ UNCHANGED <<stripe, grant, now>>
  BY Zenon DEF Reserve, Placed
<1>4. c \in Nat /\ floor \in Nat
  BY BillingAssumption DEF Prices
<1>5. a.balance >= c
  BY <1>2, <1>3, <1>4
<1> HIDE DEF a
<1>6. Sound([a EXCEPT !.balance = @ - c], g, now) /\ LedgerPast(g, now)
  BY <1>1, <1>2, <1>3, <1>5, ReserveSound
<1>7. [a EXCEPT !.balance = @ - c].start = a.start
      /\ [a EXCEPT !.balance = @ - c].renew = a.renew
  BY <1>2, Zenon DEF AccountRow
<1>8. /\ g \in [Runs -> ReservationRow]
      /\ \A p : /\ Held(g, p) = Held(reservation, p)
                                  + (IF a.start = p THEN c ELSE 0)
                /\ Used(g, p) = Used(reservation, p)
  BY <1>1, <1>2, <1>3, PlacedSums
<1> HIDE DEF g
<1>9. Within(g)
  <2> SUFFICES ASSUME NEW p \in Nat
               PROVE  \E plan \in Plans : Held(g, p) + Used(g, p) <= Limit[plan]
    BY DEF Within
  <2>1. Held(reservation, p) \in Nat /\ Used(reservation, p) \in Nat
    BY SumTypes
  <2>2. CASE p = a.start
    <3>1. Outstanding(a.start) = Held(reservation, a.start)
      BY Sums
    <3>2. Held(g, p) + Used(g, p) <= Limit[a.plan]
      BY <1>2, <1>3, <1>4, <1>8, <2>1, <2>2, <3>1
    <3>. QED
      BY <1>2, <3>2
  <2>3. CASE p # a.start
    <3>1. Held(g, p) = Held(reservation, p) /\ Used(g, p) = Used(reservation, p)
      BY <1>8, <2>1, <2>3
    <3>. QED
      BY <1>1, <3>1 DEF Within
  <2>. QED
    BY <2>2, <2>3
<1>10. /\ Sound(account', reservation', now) /\ LedgerPast(reservation', now)
       /\ reservation' \in [Runs -> ReservationRow] /\ Within(reservation')
       /\ account'.start = Current.start /\ account'.renew = Current.renew
  BY <1>3, <1>6, <1>7, <1>8, <1>9, Zenon DEF a
<1>. QED
  BY <1>3, <1>10, LedgerStep

(* Settlements and refunds commit no more in any period than before.       *)
LEMMA MovedWithin ==
  ASSUME NEW f \in [Runs -> ReservationRow], NEW r \in Runs, Within(f),
         NEW to \in {"consumed", "released", "refunded"},
         f[r].state = "reserved" \/ (f[r].state = "consumed" /\ to = "refunded"),
         to = "refunded" => f[r].state = "consumed"
  PROVE  Within(Moved(f, r, to))
<1> SUFFICES ASSUME NEW p \in Nat
             PROVE  \E plan \in Plans : Held(Moved(f, r, to), p)
                                          + Used(Moved(f, r, to), p) <= Limit[plan]
  BY DEF Within
<1> DEFINE g == Moved(f, r, to)
<1>1. /\ Held(f, p) \in Nat /\ Used(f, p) \in Nat /\ Part(f, r, p) \in Nat
      /\ Held(g, p) \in Nat /\ Used(g, p) \in Nat
  BY SumTypes, PartType
<1>2. Held(g, p) + Used(g, p) <= Held(f, p) + Used(f, p)
  <2>1. CASE f[r].state = "reserved"
    <3>1. to = "consumed" \/ to = "released"
      BY <2>1
    <3>2. /\ Held(Moved(f, r, "consumed"), p) = Held(f, p) - Part(f, r, p)
          /\ Used(Moved(f, r, "consumed"), p) = Used(f, p) + Part(f, r, p)
          /\ Held(Moved(f, r, "released"), p) = Held(f, p) - Part(f, r, p)
          /\ Used(Moved(f, r, "released"), p) = Used(f, p)
      BY <2>1, SettledSums
    <3>. QED
      BY <1>1, <3>1, <3>2
  <2>2. CASE f[r].state = "consumed" /\ to = "refunded"
    <3>1. /\ Held(Moved(f, r, "refunded"), p) = Held(f, p)
          /\ Used(Moved(f, r, "refunded"), p) = Used(f, p) - Part(f, r, p)
      BY <2>2, RefundedSums
    <3>. QED
      BY <1>1, <2>2, <3>1
  <2>. QED
    BY <2>1, <2>2
<1> HIDE DEF g
<1>3. PICK plan \in Plans : Held(f, p) + Used(f, p) <= Limit[plan]
  BY DEF Within
<1>4. Limit[plan] \in Nat
  BY BillingAssumption
<1>5. Held(g, p) + Used(g, p) <= Limit[plan]
  BY <1>1, <1>2, <1>3, <1>4
<1>. QED
  BY <1>5 DEF g

(* A consumption preserves the invariant.                                  *)
LEMMA ConsumeStep ==
  ASSUME IInv, NEW r \in Runs, Consume(r)
  PROVE  IInv' /\ (account'.start # account.start => Unused(account'.start))
<1> DEFINE a == Current
           c == reservation[r].credits
           b == IF reservation[r].period = a.start
                THEN [a EXCEPT !.used = @ + c] ELSE a
           g == Moved(reservation, r, "consumed")
<1>1. /\ reservation \in [Runs -> ReservationRow]
      /\ LedgerPast(reservation, now) /\ Within(reservation)
  BY DEF IInv
<1>2. Sound(a, reservation, now) /\ a \in AccountRow /\ now \in Nat
  BY CurrentSound, CurrentFields
<1>3. /\ reservation[r].state = "reserved"
      /\ account' = b /\ reservation' = g
      /\ UNCHANGED <<stripe, grant, now>>
  BY Zenon DEF Consume, SettlesCurrent, Move, Moved
<1> HIDE DEF a
<1>4. Sound(b, g, now) /\ LedgerPast(g, now)
  BY <1>1, <1>2, <1>3, ConsumeSound
<1>5. b.start = a.start /\ b.renew = a.renew
  BY <1>2, Zenon DEF AccountRow
<1>6. g \in [Runs -> ReservationRow]
  BY <1>1, <1>3, MovedRows
<1>7. Within(g)
  BY <1>1, <1>3, MovedWithin
<1> HIDE DEF b, g
<1>. QED
  BY <1>3, <1>4, <1>5, <1>6, <1>7, LedgerStep DEF a

(* A release preserves the invariant.                                      *)
LEMMA ReleaseStep ==
  ASSUME IInv, NEW r \in Runs, Release(r)
  PROVE  IInv' /\ (account'.start # account.start => Unused(account'.start))
<1> DEFINE a == Current
           c == reservation[r].credits
           back == Restorable(a, a.used,
                              Positive(Held(reservation, a.start) - c), c)
           b == IF reservation[r].period = a.start
                THEN [a EXCEPT !.balance = @ + back] ELSE a
           g == Moved(reservation, r, "released")
<1>1. /\ reservation \in [Runs -> ReservationRow]
      /\ LedgerPast(reservation, now) /\ Within(reservation)
  BY DEF IInv
<1>2. Sound(a, reservation, now) /\ a \in AccountRow /\ now \in Nat
  BY CurrentSound, CurrentFields
<1>3. Outstanding(a.start) = Held(reservation, a.start)
  BY Sums
<1>4. /\ reservation[r].state = "reserved"
      /\ account' = b /\ reservation' = g
      /\ UNCHANGED <<stripe, grant, now>>
  BY <1>3 DEF Release, SettlesCurrent, Move, Moved
<1> HIDE DEF a
<1>5. Sound(b, g, now) /\ LedgerPast(g, now)
  BY <1>1, <1>2, <1>4, ReleaseSound
<1>6. b.start = a.start /\ b.renew = a.renew
  BY <1>2, Zenon DEF AccountRow
<1>7. g \in [Runs -> ReservationRow]
  BY <1>1, <1>4, MovedRows
<1>8. Within(g)
  BY <1>1, <1>4, MovedWithin
<1> HIDE DEF b, g
<1>. QED
  BY <1>4, <1>5, <1>6, <1>7, <1>8, LedgerStep DEF a

(* A refund preserves the invariant.                                       *)
LEMMA RefundStep ==
  ASSUME IInv, NEW r \in Runs, Refund(r)
  PROVE  IInv' /\ (account'.start # account.start => Unused(account'.start))
<1> DEFINE a == Current
           c == reservation[r].credits
           back == Restorable(a, a.used - c, Held(reservation, a.start), c)
           b == IF reservation[r].period = a.start
                THEN [a EXCEPT !.balance = @ + back, !.used = @ - c] ELSE a
           g == Moved(reservation, r, "refunded")
<1>1. /\ reservation \in [Runs -> ReservationRow]
      /\ LedgerPast(reservation, now) /\ Within(reservation)
  BY DEF IInv
<1>2. Sound(a, reservation, now) /\ a \in AccountRow /\ now \in Nat
  BY CurrentSound, CurrentFields
<1>3. Outstanding(a.start) = Held(reservation, a.start)
  BY Sums
<1>4. /\ reservation[r].state = "consumed"
      /\ account' = b /\ reservation' = g
      /\ UNCHANGED <<stripe, grant, now>>
  BY <1>3 DEF Refund, SettlesCurrent, Move, Moved
<1> HIDE DEF a
<1>5. Sound(b, g, now) /\ LedgerPast(g, now)
  BY <1>1, <1>2, <1>4, RefundSound
<1>6. b.start = a.start /\ b.renew = a.renew
  BY <1>2, Zenon DEF AccountRow
<1>7. g \in [Runs -> ReservationRow]
  BY <1>1, <1>4, MovedRows
<1>8. Within(g)
  BY <1>1, <1>4, MovedWithin
<1> HIDE DEF b, g
<1>. QED
  BY <1>4, <1>5, <1>6, <1>7, <1>8, LedgerStep DEF a

(* What Stripe reports preserves the invariant: a stored period that is    *)
(* kept instead of an older one still contains the present.                *)
LEMMA ApplyStripeStep ==
  ASSUME IInv, NEW plan \in Plans, NEW p \in Period \cup {NoPeriod},
         ApplyStripe(plan, p)
  PROVE  IInv' /\ (account'.start # account.start => Unused(account'.start))
<1> DEFINE s == [plan |-> plan, period |-> Stored(p)]
<1>1. /\ Reported(plan, p)
      /\ plan # "FREE" /\ s.period # NoPeriod => OwnOrNew(s.period)
      /\ stripe' = s /\ account' = Reconciled(account, s, grant, now)
      /\ UNCHANGED <<grant, reservation, now>>
  BY Zenon DEF ApplyStripe
<1>2. /\ stripe \in StripeRow /\ grant \in Plans /\ now \in Nat
      /\ stripe.period # NoPeriod => stripe.period.start <= now
  BY BillingAssumption DEF IInv
<1>3. Stored(p) = p \/ (/\ Stored(p) = stripe.period /\ stripe.period # NoPeriod
                        /\ p # NoPeriod /\ p.end < stripe.period.end)
  BY DEF Stored
<1>4. s \in StripeRow /\ s.plan = plan /\ s.period = Stored(p)
  BY <1>2, <1>3 DEF StripeRow
<1>5. Stored(p) # NoPeriod => Stored(p).start <= now
  BY <1>1, <1>2, <1>3 DEF Reported
<1>6. ASSUME plan # "FREE", Stored(p) # NoPeriod PROVE now < Stored(p).end
  <2>1. p # NoPeriod => p.end \in Nat
    BY BillingAssumption DEF Period
  <2>2. Stored(p).end \in Nat
    BY <1>2, <1>3, <1>6, <2>1, BillingAssumption DEF StripeRow, Period
  <2>3. CASE Stored(p) = p
    BY <1>1, <1>6, <2>3 DEF Reported
  <2>4. CASE /\ Stored(p) = stripe.period /\ p # NoPeriod
             /\ p.end < stripe.period.end
    <3>1. now < p.end
      BY <1>1, <1>6, <2>4 DEF Reported
    <3>. QED
      BY <1>2, <2>1, <2>2, <2>4, <3>1
  <2>. QED
    BY <1>3, <2>3, <2>4
<1> HIDE DEF s
<1>7. Admissible(s)
  BY <1>1, <1>4, <1>5, <1>6 DEF Admissible
<1>8. now <= now
  BY <1>2
<1>. QED
  BY <1>1, <1>2, <1>4, <1>5, <1>7, <1>8, EntitlementStep

(* The end of the subscription preserves the invariant.                    *)
LEMMA StripeDeletedStep ==
  ASSUME IInv, NEW p \in Period \cup {NoPeriod}, NEW at \in 0..MaxNow,
         StripeDeleted(p, at)
  PROVE  IInv' /\ (account'.start # account.start => Unused(account'.start))
<1> DEFINE s == [plan |-> "FREE", period |-> p]
<1>1. /\ Reported("FREE", p) /\ at <= now
      /\ stripe' = s /\ account' = Reconciled(account, s, grant, at)
      /\ UNCHANGED <<grant, reservation, now>>
  BY Zenon DEF StripeDeleted
<1>2. grant \in Plans /\ at \in Nat
  BY BillingAssumption DEF IInv
<1>3. s \in StripeRow /\ s.plan = "FREE" /\ s.period = p
  BY BillingAssumption DEF StripeRow
<1>4. p # NoPeriod => p.start <= now
  BY <1>1 DEF Reported
<1> HIDE DEF s
<1>5. Admissible(s)
  BY <1>3 DEF Admissible
<1>. QED
  BY <1>1, <1>2, <1>3, <1>4, <1>5, EntitlementStep

(* Reading, changes of grants and time preserve the invariant.             *)
LEMMA OtherSteps ==
  ASSUME IInv, Read \/ Tick
               \/ (\E plan \in Plans : ChangeGrant(plan) \/ GrantDate(plan))
  PROVE  IInv' /\ (account'.start # account.start => Unused(account'.start))
<1>2. now \in Nat /\ now <= now /\ grant \in Plans
  BY BillingAssumption DEF IInv
<1>1. Admissible(stripe)
  BY DEF IInv, Admissible, OwnOrNew, InPaidPeriod
<1>7. stripe.period # NoPeriod => stripe.period.start <= now
  BY DEF IInv
<1>3. CASE Read
  BY <1>2, <1>3, <1>1, <1>7, EntitlementStep DEF Read, Current
<1>4. ASSUME NEW plan \in Plans, ChangeGrant(plan)
      PROVE  IInv' /\ (account'.start # account.start => Unused(account'.start))
  BY <1>2, <1>4, <1>1, <1>7, EntitlementStep DEF ChangeGrant
<1>5. ASSUME NEW plan \in Plans, GrantDate(plan)
      PROVE  IInv' /\ (account'.start # account.start => Unused(account'.start))
  BY <1>5, Zenon DEF GrantDate, IInv
<1>6. CASE Tick
  <2>1. /\ now' = now + 1 /\ now < MaxNow
        /\ UNCHANGED <<account, stripe, grant, reservation>>
    BY <1>6 DEF Tick
  <2>2. now' \in 0..MaxNow /\ now <= now'
    BY <1>2, <2>1, BillingAssumption
  <2>3. Sound(account, reservation, now')
    <3>1. account.start \in Nat /\ account.start <= now
      BY DEF IInv, Sound, AccountRow
    <3>2. account.start <= now'
      BY <1>2, <2>1, <3>1
    <3>. QED
      BY <3>2 DEF IInv, Sound
  <2>4. stripe.period # NoPeriod => stripe.period.start <= now'
    <3>1. stripe.period # NoPeriod => stripe.period.start \in Nat
      BY BillingAssumption DEF IInv, StripeRow, Period
    <3>. QED
      BY <1>2, <1>7, <2>1, <3>1
  <2>5. LedgerPast(reservation, now')
    <3>1. \A r \in Runs : reservation[r].period \in Nat
      BY DEF IInv, ReservationRow
    <3>. QED
      BY <1>2, <2>1, <3>1 DEF IInv, LedgerPast
  <2>. QED
    BY <2>1, <2>2, <2>3, <2>4, <2>5, Zenon DEF IInv
<1>. QED
  BY <1>3, <1>4, <1>5, <1>6

(* Every step preserves the invariant, and moves the account to unused     *)
(* periods only.                                                           *)
LEMMA StepInv ==
  ASSUME IInv, [Next]_vars
  PROVE  IInv' /\ (account'.start # account.start => Unused(account'.start))
<1>1. ASSUME NEW r \in Runs, NEW credits \in Prices, NEW floor \in Floors,
             Reserve(r, credits, floor)
      PROVE  IInv' /\ (account'.start # account.start => Unused(account'.start))
  BY <1>1, ReserveStep
<1>2. CASE Settlement
  BY <1>2, ConsumeStep, ReleaseStep, RefundStep DEF Settlement
<1>3. CASE Entitlement
  BY <1>3, ApplyStripeStep, StripeDeletedStep, OtherSteps DEF Entitlement
<1>4. CASE Read \/ Tick
  BY <1>4, OtherSteps
<1>5. CASE UNCHANGED vars
  BY <1>5, Zenon DEF vars, IInv
<1>. QED
  BY <1>1, <1>2, <1>3, <1>4, <1>5 DEF Next

-----------------------------------------------------------------------------
(* The theorems.                                                           *)

(* The inductive invariant.                                                *)
THEOREM AccountInvariant == Spec => []IInv
<1>1. IInv /\ [Next]_vars => IInv'
  BY StepInv
<1>. QED
  BY InitInv, <1>1, PTL DEF Spec

(* The columns keep their types; in particular no subtraction makes the    *)
(* balance or the usage negative.                                          *)
THEOREM ColumnsTyped == Spec => []TypeOK
<1>1. IInv => TypeOK
  BY DEF IInv, Sound, TypeOK
<1>. QED
  BY AccountInvariant, <1>1, PTL

(* The balance is at all times what the limit leaves.                      *)
THEOREM NoCreditMadeOrLost == Spec => []BalanceExact
<1>1. IInv => BalanceExact
  BY Sums DEF IInv, Sound, BalanceExact
<1>. QED
  BY AccountInvariant, <1>1, PTL

(* The usage counter is at all times the sum of the period's charges.      *)
THEOREM UsageAgrees == Spec => []UsedMatchesLedger
<1>1. IInv => UsedMatchesLedger
  BY Sums DEF IInv, Sound, UsedMatchesLedger
<1>. QED
  BY AccountInvariant, <1>1, PTL

(* No allowance period commits more credits than an allowance has.         *)
THEOREM AllowanceKept == Spec => []PeriodWithinAllowance
<1>1. ASSUME IInv PROVE PeriodWithinAllowance
  <2>1. \A r \in Runs : reservation[r].period \in Nat
    BY <1>1 DEF IInv, ReservationRow
  <2>. QED
    BY <1>1, <2>1, Sums DEF IInv, Within, PeriodWithinAllowance
<1>. QED
  BY AccountInvariant, <1>1, PTL

(* A period that was left is not entered again with a fresh allowance.     *)
THEOREM PeriodsNotReopened == Spec => NewPeriodIsUnused
<1>1. IInv /\ [Next]_vars =>
        [account'.start # account.start =>
           \A r \in Runs : reservation[r].state # "none"
                            => reservation[r].period # account'.start]_vars
  BY StepInv DEF Unused
<1>. QED
  BY AccountInvariant, <1>1, PTL DEF Spec, NewPeriodIsUnused

(* An account holds: its columns, balance, usage and periods are at all      *)
(* times what its reservations say, and no period is entered again.          *)
THEOREM AccountsKept == Spec => AccountsHold
BY ColumnsTyped, NoCreditMadeOrLost, UsageAgrees, AllowanceKept, PeriodsNotReopened, PTL DEF AccountsHold

-----------------------------------------------------------------------------
(* The automatic backlog.                                                  *)

Jobless == {"none", "cancelled"}
JobStatuses == Unfinished \cup Finished \cup Jobless \cup {"absent"}
BacklogRows == [status : JobStatuses, tries : Nat, run : Nat]
BacklogCursors == {0} \cup BacklogGames
Works == [stage : {"idle", "enqueue", "dispatch", "run", "after"},
          pick : BacklogCursors, next : BacklogCursors]

BacklogTypes ==
  /\ rules \in [Players -> SUBSET {ClassOf[g] : g \in BacklogGames}]
  /\ DOMAIN allowance = Players
  /\ job \in [BacklogGames -> BacklogRows]
  /\ inbox \in SUBSET Messages /\ work \in [Messages -> Works] /\ faults \in Nat

\* What has run was tried; and what is announced has finished.
JobOK(g) ==
  /\ Is(g, {"running", "waiting", "lapsed"}) => job[g].tries > 0
  /\ \A r \in Nat : <<g, r>> \in woken => \/ r < job[g].run
                                          \/ (r = job[g].run /\ Is(g, Finished))

\* A handler of a player's backlog has picked a game of that player.
PickOK(u, c) ==
  LET w == work[Reconcile(u, c)] IN
  w.stage \in {"idle", "enqueue", "dispatch"} /\ w.pick \in {0} \cup BacklogOf[u]

\* A game that is on automatic, that could be paid for and has no job.
Waits(u, g) ==
  g \in Long /\ Is(g, Jobless) /\ ClassOf[g] \in rules[u] /\ Room(u) > 0

\* A scan that will come to a game: its message is on its way, or a handler sends it;
\* or a handler is about to queue another game of the player.
Scans(u, g) ==
  \E c \in BacklogCursors :
    \/ c < g /\ Reconcile(u, c) \in inbox
    \/ LET w == work[Reconcile(u, c)] IN
       \/ w.stage = "enqueue" /\ w.pick # 0 /\ Is(w.pick, Jobless)
       \/ w.stage # "idle" /\ w.next # 0 /\ w.next < g

Sweeps(u) == \E c \in {0} \cup Players : c < u /\ Sweep(c) \in inbox

\* A job that has not ended, or whose end is not announced yet.
EndComes(h) ==
  \/ Is(h, Unfinished)
  \/ /\ Is(h, Finished) /\ <<h, job[h].run>> \notin woken
     /\ JobMessage(h) \in inbox \/ work[JobMessage(h)] # NoWork

Promised(u, g) == Scans(u, g) \/ Sweeps(u) \/ \E h \in BacklogOf[u] : EndComes(h)

JobsTrue ==
  /\ OffIsOff
  /\ \A g \in BacklogGames : JobOK(g)
  /\ \A u \in Players, c \in BacklogCursors : PickOK(u, c)

PromisesKept ==
  /\ Heartbeat \in inbox
  /\ \A u \in Players : \A g \in BacklogOf[u] : Waits(u, g) => Promised(u, g)

BacklogInv == BacklogTypes /\ JobsTrue /\ (faults = 0 => PromisesKept)

\* A step that leaves what a player may have and the games that it waits for.
Keeps(u) ==
  /\ rules'[u] = rules[u] /\ allowance'[u] = allowance[u]
  /\ \A h \in BacklogOf[u] :
       /\ Is(h, Jobless)' <=> Is(h, Jobless)
       /\ Is(h, Unfinished \cup {"succeeded"})' <=> Is(h, Unfinished \cup {"succeeded"})

\* A step that leaves the scans of a player under way.
KeepsScans(u) ==
  \A c \in BacklogCursors :
    /\ Reconcile(u, c) \in inbox => Reconcile(u, c) \in inbox'
    /\ work'[Reconcile(u, c)] = work[Reconcile(u, c)]

KeepsSweeps == \A c \in {0} \cup Players : Sweep(c) \in inbox => Sweep(c) \in inbox'

KeepsEnds(u) == \A h \in BacklogOf[u] : EndComes(h) => EndComes(h)'

\* A set of numbers has a least one, and under a bound a greatest one.
LEMMA LeastOf ==
  ASSUME NEW S \in SUBSET Nat, S # {}
  PROVE  \E i \in S : \A j \in S : i <= j
<1>1. \E i \in S : \A j \in S : ~(<<j, i>> \in OpToRel(<, Nat))
  BY NatLessThanWellFounded, WFMin
<1>2. PICK i \in S : \A j \in S : ~(<<j, i>> \in OpToRel(<, Nat))
  BY <1>1
<1>3. \A j \in S : ~(j < i)
  BY <1>2, Zenon DEF OpToRel
<1> QED BY <1>3

LEMMA GreatestOf ==
  ASSUME NEW S \in SUBSET Nat, S # {}, NEW n \in Nat, \A x \in S : x <= n
  PROVE  \E i \in S : \A j \in S : j <= i
<1> DEFINE T == {n - x : x \in S}
<1>1. ASSUME NEW x \in S PROVE n - x \in Nat /\ n - x \in T
  <2>1. x \in Nat /\ x <= n
    OBVIOUS
  <2>2. n - x \in Nat
    BY <2>1
  <2> QED BY <2>2
<1>a. \A t \in T : \E x \in S : t = n - x
  OBVIOUS
<1> HIDE DEF T
<1>b. T \in SUBSET Nat /\ T # {}
  BY <1>1, <1>a
<1>2. PICK t \in T : \A u \in T : t <= u
  BY <1>b, LeastOf
<1>3. PICK i \in S : t = n - i
  BY <1>2, <1>a
<1>4. ASSUME NEW j \in S PROVE j <= i
  <2>1. n - j \in T
    BY <1>1
  <2>2. t <= n - j
    BY <1>2, <2>1
  <2> QED BY <1>3, <2>2
<1> QED BY <1>4

\* Of a set of numbers, those with few below them lie below one that has too many.
LEMMA LowestKept ==
  ASSUME NEW S \in SUBSET Nat, IsFiniteSet(S), NEW n \in Nat \ {0},
         NEW P, P = {x \in S : Cardinality({y \in S : y < x}) < n},
         NEW g \in S, g \notin P
  PROVE  Max(P) \in P /\ Max(P) < g
<1> DEFINE B(x) == {y \in S : y < x}
<1>0. \A x \in S : x \in Nat
  OBVIOUS
<1>p. \A x \in P : x \in S
  OBVIOUS
<1>1. \A x \in S : IsFiniteSet(B(x)) /\ Cardinality(B(x)) \in Nat
  <2> SUFFICES ASSUME NEW x \in S PROVE IsFiniteSet(B(x)) /\ Cardinality(B(x)) \in Nat
    OBVIOUS
  <2>1. B(x) \subseteq S
    OBVIOUS
  <2> QED BY <2>1, FS_Subset, FS_CardinalityType
<1>2. ASSUME NEW x \in P PROVE x < g
  <2>1. x \in S /\ Cardinality(B(x)) < n
    OBVIOUS
  <2>2. ~(Cardinality(B(g)) < n)
    OBVIOUS
  <2>3. g <= x => B(g) \subseteq B(x)
    <3> SUFFICES ASSUME g <= x, NEW y \in S, y < g PROVE y < x
      OBVIOUS
    <3>1. x \in Nat /\ y \in Nat /\ g \in Nat
      BY <1>0, <2>1
    <3> QED BY <3>1
  <2>4. g <= x => Cardinality(B(g)) <= Cardinality(B(x))
    BY <2>1, <2>3, <1>1, FS_Subset
  <2>5. x \in Nat /\ g \in Nat
    BY <1>0, <2>1
  <2> HIDE DEF B
  <2> QED BY <2>1, <2>2, <2>4, <2>5, <1>1
<1>3. P # {}
  <2>1. PICK i \in S : \A j \in S : i <= j
    BY LeastOf
  <2>2. B(i) = {}
    <3> SUFFICES ASSUME NEW y \in S, y < i PROVE FALSE
      OBVIOUS
    <3>1. y \in Nat /\ i \in Nat /\ i <= y
      BY <1>0, <2>1
    <3> QED BY <3>1
  <2>3. Cardinality(B(i)) = 0
    BY <2>2, FS_EmptySet
  <2> QED BY <2>3
<1>4. P \in SUBSET Nat /\ \A x \in P : x <= g
  <2>1. P \in SUBSET Nat
    BY <1>p, <1>0
  <2>2. ASSUME NEW x \in P PROVE x <= g
    <3>1. x \in Nat /\ g \in Nat /\ x < g
      BY <1>0, <1>p, <1>2
    <3> QED BY <3>1
  <2> QED BY <2>1, <2>2
<1>5. \E i \in P : \A j \in P : j <= i
  BY <1>3, <1>4, GreatestOf
<1>6. \E i \in P : \A j \in P : i >= j
  BY <1>4, <1>5
<1>7. Max(P) \in P
  BY <1>6 DEF Max
<1> QED BY <1>2, <1>7

LEMMA PlayersOf ==
  /\ Players \subseteq Nat \ {0} /\ IsFiniteSet(Players)
  /\ BacklogGames \subseteq Nat \ {0} /\ BacklogCursors \subseteq Nat
  /\ \A u \in Players : /\ BacklogOf[u] \subseteq BacklogGames /\ IsFiniteSet(BacklogOf[u])
                        /\ \A c \in BacklogCursors : Reconcile(u, c) \in Messages
  /\ \A c \in {0} \cup Players : Sweep(c) \in Messages
  /\ \A g \in BacklogGames : JobMessage(g) \in Messages
  /\ Heartbeat \in Messages
  /\ \A g \in BacklogGames : PlayerOf(g) \in Players /\ g \in BacklogOf[PlayerOf(g)]
  /\ \A u \in Players : \A g \in BacklogOf[u] : PlayerOf(g) = u
<1>1. \A g \in BacklogGames : \E u \in Players : g \in BacklogOf[u]
  BY DEF BacklogGames
<1>2. \A g \in BacklogGames : PlayerOf(g) \in Players /\ g \in BacklogOf[PlayerOf(g)]
  BY <1>1 DEF PlayerOf
<1>3. \A u \in Players : BacklogOf[u] \subseteq BacklogGames
  BY DEF BacklogGames
<1>4. \A u \in Players : \A g \in BacklogOf[u] : PlayerOf(g) = u
  BY <1>2, <1>3, BacklogAssumption
<1> QED BY <1>2, <1>3, <1>4, BacklogAssumption DEF Messages, BacklogCursors, BacklogGames

\* What waits after such a step has waited before it.
LEMMA WaitedBefore ==
  ASSUME NEW u \in Players, NEW g \in BacklogOf[u], Keeps(u), Waits(u, g)'
  PROVE  Waits(u, g)
<1>1. Committed(u)' = Committed(u)
  BY DEF Committed, Keeps
<1>2. Room(u)' = Room(u)
  BY <1>1 DEF Room, Keeps
<1> QED BY <1>2 DEF Waits, Keeps

LEMMA ScansKept ==
  ASSUME BacklogTypes, JobsTrue, NEW u \in Players, NEW g, Keeps(u), KeepsScans(u), Scans(u, g)
  PROVE  Scans(u, g)'
<1>1. PICK c \in BacklogCursors :
        \/ c < g /\ Reconcile(u, c) \in inbox
        \/ /\ work[Reconcile(u, c)].stage = "enqueue" /\ work[Reconcile(u, c)].pick # 0
           /\ Is(work[Reconcile(u, c)].pick, Jobless)
        \/ /\ work[Reconcile(u, c)].stage # "idle" /\ work[Reconcile(u, c)].next # 0
           /\ work[Reconcile(u, c)].next < g
  BY DEF Scans
<1> DEFINE w == work[Reconcile(u, c)]
<1>2. w.pick \in {0} \cup BacklogOf[u]
  BY DEF JobsTrue, PickOK
<1>3. w' = w
  BY DEF KeepsScans
<1>4. w.pick # 0 /\ Is(w.pick, Jobless) => Is(w.pick, Jobless)'
  <2> HIDE DEF w
  <2> SUFFICES ASSUME w.pick # 0, Is(w.pick, Jobless) PROVE Is(w.pick, Jobless)'
    OBVIOUS
  <2>1. PICK h \in BacklogOf[u] : h = w.pick
    BY <1>2
  <2>2. Is(h, Jobless)
    BY <2>1
  <2>3. Is(h, Jobless)'
    BY <2>2 DEF Keeps
  <2> QED BY <2>1, <2>3, <1>3 DEF Is
<1>5. CASE c < g /\ Reconcile(u, c) \in inbox
  BY <1>5 DEF Scans, KeepsScans
<1>6. CASE w.stage = "enqueue" /\ w.pick # 0 /\ Is(w.pick, Jobless)
  BY <1>6, <1>3, <1>4 DEF Scans
<1>7. CASE w.stage # "idle" /\ w.next # 0 /\ w.next < g
  BY <1>7, <1>3 DEF Scans
<1> QED BY <1>1, <1>5, <1>6, <1>7

LEMMA PromiseKept ==
  ASSUME BacklogTypes, JobsTrue, NEW u \in Players, NEW g \in BacklogOf[u],
         Keeps(u), KeepsScans(u), KeepsSweeps, KeepsEnds(u), Waits(u, g) => Promised(u, g)
  PROVE  Waits(u, g)' => Promised(u, g)'
<1> SUFFICES ASSUME Waits(u, g)' PROVE Promised(u, g)'
  OBVIOUS
<1>1. Promised(u, g)
  BY WaitedBefore
<1>2. Scans(u, g) => Scans(u, g)'
  BY ScansKept
<1>3. Sweeps(u) => Sweeps(u)'
  BY DEF Sweeps, KeepsSweeps
<1>4. (\E h \in BacklogOf[u] : EndComes(h)) => (\E h \in BacklogOf[u] : EndComes(h)')
  BY DEF KeepsEnds
<1> QED BY <1>1, <1>2, <1>3, <1>4 DEF Promised

\* A message that starts the backlog of a player over comes to every game.
LEMMA StartedOver ==
  ASSUME NEW u \in Players, NEW g \in BacklogOf[u], Reconcile(u, 0) \in inbox'
  PROVE  Promised(u, g)'
<1>1. g \in Nat \ {0}
  BY PlayersOf
<1>2. 0 \in BacklogCursors /\ 0 < g
  BY <1>1 DEF BacklogCursors
<1> QED BY <1>2 DEF Promised, Scans

\* Only what is queued is claimed.
LEMMA ClaimedQueued ==
  ASSUME NEW jobs, NEW u \in Players, NEW h \in Claimed(jobs, u)
  PROVE  h \in BacklogOf[u] /\ jobs[h].status = "queued"
<1> DEFINE Q == {g \in BacklogOf[u] : jobs[g].status \in {"queued"}}
<1>1. Q # {} /\ h = Min(Q)
  BY DEF Claimed
<1>2. Q \in SUBSET Nat
  BY PlayersOf
<1>3. PICK i \in Q : \A j \in Q : i <= j
  BY <1>1, <1>2, LeastOf
<1>4. Min(Q) \in Q
  BY <1>3 DEF Min
<1> QED BY <1>1, <1>4

\* What a claim does to the jobs, and what it sends.
LEMMA DispatchShape ==
  ASSUME BacklogTypes, NEW players \in SUBSET Players, NEW sent \in SUBSET Messages,
         NEW wakeups \in SUBSET Messages, Dispatches(players, sent, wakeups)
  PROVE  /\ job' \in [BacklogGames -> BacklogRows]
         /\ inbox' \in SUBSET Messages /\ faults' \in Nat
         /\ faults' = 0 => faults = 0
         /\ sent \subseteq inbox' /\ (faults' = faults => wakeups \subseteq inbox')
         /\ \A h \in BacklogGames :
              /\ job'[h].tries = job[h].tries /\ job'[h].run = job[h].run
              /\ \/ job'[h].status = job[h].status
                 \/ Is(h, {"queued"}) /\ job'[h].status = "leased"
                 \/ Is(h, {"lapsed"}) /\ job'[h].status = "waiting"
                 \/ /\ Is(h, {"lapsed"}) /\ job'[h].status = "failed"
                    /\ faults' = faults => Reconcile(PlayerOf(h), 0) \in inbox'
<1> DEFINE jobs == Leased(Recovered, players)
           failed == {x \in BacklogGames : jobs[x].status = "failed" /\ ~Is(x, {"failed"})}
           leased == {x \in BacklogGames : jobs[x].status = "leased" /\ ~Is(x, {"leased"})}
           releases == {Reconcile(PlayerOf(g), 0) : g \in failed}
           deliveries == {JobMessage(g) : g \in leased}
           claimed == UNION {Claimed(Recovered, u) : u \in players}
<1>1. /\ job' = jobs
      /\ \/ inbox' = sent \cup deliveries \cup releases \cup wakeups /\ faults' = faults
         \/ /\ faults' = faults + 1
            /\ inbox' = sent \cup deliveries
  BY DEF Dispatches
<1>2. releases \subseteq Messages /\ deliveries \subseteq Messages
  <2>1. \A x \in BacklogGames : Reconcile(PlayerOf(x), 0) \in Messages /\ JobMessage(x) \in Messages
    BY PlayersOf DEF BacklogCursors
  <2> QED BY <2>1
<1>3. \A h \in claimed : h \in BacklogGames /\ Recovered[h].status = "queued"
  BY ClaimedQueued, PlayersOf
<1>4. \A h \in BacklogGames :
        jobs[h] = IF h \in claimed THEN [Recovered[h] EXCEPT !.status = "leased"] ELSE Recovered[h]
  BY DEF Leased
<1>t. job \in [BacklogGames -> BacklogRows] /\ faults \in Nat
  BY DEF BacklogTypes
<1>5. \A h \in BacklogGames :
        /\ Recovered[h] \in BacklogRows
        /\ Recovered[h].tries = job[h].tries /\ Recovered[h].run = job[h].run
        /\ \/ Recovered[h].status = job[h].status /\ ~Is(h, {"lapsed"})
           \/ Is(h, {"lapsed"}) /\ Recovered[h].status \in {"waiting", "failed"}
  <2> SUFFICES ASSUME NEW h \in BacklogGames
               PROVE /\ Recovered[h] \in BacklogRows
                     /\ Recovered[h].tries = job[h].tries /\ Recovered[h].run = job[h].run
                     /\ \/ Recovered[h].status = job[h].status /\ ~Is(h, {"lapsed"})
                        \/ Is(h, {"lapsed"}) /\ Recovered[h].status \in {"waiting", "failed"}
    OBVIOUS
  <2>0. job[h] \in BacklogRows
    BY <1>t
  <2>1. CASE ~Is(h, {"lapsed"})
    <3>1. Recovered[h] = job[h]
      BY <2>1 DEF Recovered
    <3> QED BY <2>0, <2>1, <3>1
  <2>2. CASE Is(h, {"lapsed"})
    <3>1. PICK s \in {"waiting", "failed"} : Recovered[h] = [job[h] EXCEPT !.status = s]
      BY <2>2 DEF Recovered
    <3> QED BY <2>0, <2>2, <3>1 DEF BacklogRows, JobStatuses, Unfinished, Finished
  <2> QED BY <2>1, <2>2
<1> HIDE DEF claimed
<1>6. \A h \in BacklogGames :
        /\ jobs[h] \in BacklogRows
        /\ jobs[h].tries = job[h].tries /\ jobs[h].run = job[h].run
        /\ \/ jobs[h].status = job[h].status
           \/ Is(h, {"queued"}) /\ jobs[h].status = "leased"
           \/ Is(h, {"lapsed"}) /\ jobs[h].status \in {"waiting", "failed"}
  <2> SUFFICES ASSUME NEW h \in BacklogGames
               PROVE /\ jobs[h] \in BacklogRows
                     /\ jobs[h].tries = job[h].tries /\ jobs[h].run = job[h].run
                     /\ \/ jobs[h].status = job[h].status
                        \/ Is(h, {"queued"}) /\ jobs[h].status = "leased"
                        \/ Is(h, {"lapsed"}) /\ jobs[h].status \in {"waiting", "failed"}
    OBVIOUS
  <2> HIDE DEF jobs
  <2>1. CASE h \notin claimed
    BY <2>1, <1>4, <1>5
  <2>2. CASE h \in claimed
    <3>1. jobs[h] = [Recovered[h] EXCEPT !.status = "leased"] /\ Recovered[h].status = "queued"
      BY <2>2, <1>3, <1>4
    <3>2. Is(h, {"queued"})
      BY <3>1, <1>5 DEF Is
    <3>3. "leased" \in JobStatuses
      BY DEF JobStatuses, Unfinished, UnderLease
    <3> HIDE DEF jobs
    <3> QED BY <3>1, <3>2, <3>3, <1>5 DEF BacklogRows
  <2> QED BY <2>1, <2>2
<1>7. \A h \in BacklogGames : Is(h, {"lapsed"}) /\ jobs[h].status = "failed" => h \in failed
  BY DEF Is
<1>8. \A h \in failed : Reconcile(PlayerOf(h), 0) \in releases
  OBVIOUS
<1>9. jobs = [h \in BacklogGames |-> jobs[h]]
  BY DEF Leased
<1> HIDE DEF jobs, failed, releases, deliveries, leased
<1>10. job' \in [BacklogGames -> BacklogRows]
  BY <1>1, <1>6, <1>9
<1>11. /\ inbox' \in SUBSET Messages /\ faults' \in Nat /\ (faults' = 0 => faults = 0)
       /\ sent \subseteq inbox'
       /\ (faults' = faults => wakeups \subseteq inbox' /\ releases \subseteq inbox')
  BY <1>1, <1>2, <1>t
<1> QED BY <1>1, <1>6, <1>7, <1>8, <1>10, <1>11

\* A claim that does not start the backlog of a player over leaves what it waits for.
LEMMA DispatchKeeps ==
  ASSUME BacklogTypes, NEW players \in SUBSET Players, NEW sent \in SUBSET Messages,
         NEW wakeups \in SUBSET Messages, Dispatches(players, sent, wakeups),
         UNCHANGED <<rules, allowance>>, faults' = faults,
         NEW u \in Players, Reconcile(u, 0) \notin inbox'
  PROVE  /\ Keeps(u)
         /\ \A h \in BacklogOf[u] : /\ job'[h].run = job[h].run
                                    /\ Is(h, Unfinished)' <=> Is(h, Unfinished)
                                    /\ Is(h, Finished)' <=> Is(h, Finished)
<1>1. ASSUME NEW h \in BacklogOf[u]
      PROVE /\ job'[h].run = job[h].run
            /\ \/ job'[h].status = job[h].status
               \/ Is(h, {"queued"}) /\ job'[h].status = "leased"
               \/ Is(h, {"lapsed"}) /\ job'[h].status = "waiting"
  <2>1. h \in BacklogGames /\ PlayerOf(h) = u
    BY PlayersOf
  <2> QED BY <2>1, DispatchShape
<1>2. ASSUME NEW h \in BacklogOf[u]
      PROVE /\ job'[h].run = job[h].run
            /\ Is(h, Unfinished)' <=> Is(h, Unfinished)
            /\ Is(h, Finished)' <=> Is(h, Finished)
            /\ Is(h, Jobless)' <=> Is(h, Jobless)
            /\ Is(h, Unfinished \cup {"succeeded"})' <=> Is(h, Unfinished \cup {"succeeded"})
  BY <1>1 DEF Is, Unfinished, UnderLease, Finished, Jobless
<1> QED BY <1>2 DEF Keeps

\* A step of a job that leaves its run; and one that announces an end.
LEMMA JobKept ==
  ASSUME NEW h \in BacklogGames, JobOK(h), job'[h].run = job[h].run,
         Is(h, {"running", "waiting", "lapsed"})' => job'[h].tries > 0,
         Is(h, Finished) => Is(h, Finished)',
         \A r \in Nat : <<h, r>> \in woken' =>
           <<h, r>> \in woken \/ (r = job[h].run /\ Is(h, Finished))
  PROVE  JobOK(h)'
<1>1. ASSUME NEW r \in Nat, <<h, r>> \in woken'
      PROVE  r < job'[h].run \/ (r = job'[h].run /\ Is(h, Finished)')
  BY <1>1 DEF JobOK
<1> QED BY <1>1 DEF JobOK

LEMMA DispatchTrue ==
  ASSUME BacklogTypes, JobsTrue, NEW players \in SUBSET Players, NEW sent \in SUBSET Messages,
         NEW wakeups \in SUBSET Messages, Dispatches(players, sent, wakeups), UNCHANGED rules,
         \A h \in BacklogGames : \A r \in Nat :
           <<h, r>> \in woken' =>
           <<h, r>> \in woken \/ (r = job[h].run /\ Is(h, Finished))
  PROVE  OffIsOff' /\ \A h \in BacklogGames : JobOK(h)'
<1>1. ASSUME NEW h \in BacklogGames
      PROVE /\ job'[h].tries = job[h].tries /\ job'[h].run = job[h].run
            /\ \/ job'[h].status = job[h].status
               \/ Is(h, {"queued"}) /\ job'[h].status = "leased"
               \/ Is(h, {"lapsed"}) /\ job'[h].status \in {"failed", "waiting"}
  BY DispatchShape
<1>2. ASSUME NEW h \in BacklogGames PROVE JobOK(h)'
  <2>1. JobOK(h)
    BY DEF JobsTrue
  <2>2. Is(h, {"running", "waiting", "lapsed"})' => job'[h].tries > 0
    BY <2>1, <1>1 DEF JobOK, Is
  <2>3. Is(h, Finished) => Is(h, Finished)'
    BY <1>1 DEF Is, Finished
  <2> QED BY <1>1, <2>1, <2>2, <2>3, JobKept
<1>3. OffIsOff'
  <2> SUFFICES ASSUME NEW u \in Players, rules'[u] = {}, NEW h \in BacklogOf[u],
                      Is(h, {"queued", "leased"})'
               PROVE  job'[h].tries > 0
    BY DEF OffIsOff
  <2>1. h \in BacklogGames
    BY PlayersOf
  <2>2. Is(h, {"queued", "leased"})
    BY <2>1, <1>1 DEF Is
  <2>3. job[h].tries > 0
    BY <2>2 DEF JobsTrue, OffIsOff
  <2> QED BY <2>1, <2>3, <1>1
<1> QED BY <1>2, <1>3

LEMMA PicksKept ==
  ASSUME JobsTrue,
         \A u \in Players, c \in BacklogCursors :
           \/ work'[Reconcile(u, c)] = work[Reconcile(u, c)]
           \/ work'[Reconcile(u, c)] = NoWork
  PROVE  \A u \in Players, c \in BacklogCursors : PickOK(u, c)'
<1> SUFFICES ASSUME NEW u \in Players, NEW c \in BacklogCursors PROVE PickOK(u, c)'
  OBVIOUS
<1>1. PickOK(u, c)
  BY DEF JobsTrue
<1>2. NoWork.stage = "idle" /\ NoWork.pick = 0
  BY DEF NoWork
<1> QED BY <1>1, <1>2 DEF PickOK

LEMMA JobsStay ==
  ASSUME JobsTrue, UNCHANGED <<rules, job, woken>>,
         \A u \in Players, c \in BacklogCursors :
           \/ work'[Reconcile(u, c)] = work[Reconcile(u, c)]
           \/ work'[Reconcile(u, c)] = NoWork
  PROVE  JobsTrue'
<1>1. OffIsOff' /\ \A h \in BacklogGames : JobOK(h)'
  BY DEF JobsTrue, OffIsOff, JobOK, Is
<1> QED BY <1>1, PicksKept DEF JobsTrue

LEMMA EndsStay ==
  ASSUME NEW h, EndComes(h), job'[h].run = job[h].run,
         <<h, job[h].run>> \in woken' => <<h, job[h].run>> \in woken,
         Is(h, Unfinished) => Is(h, Unfinished)', Is(h, Finished) => Is(h, Finished)',
         JobMessage(h) \in inbox \/ work[JobMessage(h)] # NoWork =>
           JobMessage(h) \in inbox' \/ work'[JobMessage(h)] # NoWork
  PROVE  EndComes(h)'
BY DEF EndComes

\* The promises to all players, from those to each of them.
LEMMA PromisesStay ==
  ASSUME BacklogInv, faults = 0, Heartbeat \in inbox',
         \A u \in Players : \A g \in BacklogOf[u] :
           (Waits(u, g) => Promised(u, g)) => (Waits(u, g)' => Promised(u, g)')
  PROVE  PromisesKept'
BY DEF BacklogInv, PromisesKept

LEMMA SendsShape ==
  ASSUME faults \in Nat, inbox \in SUBSET Messages, NEW messages \in SUBSET Messages, Sends(messages)
  PROVE  /\ inbox' \in SUBSET Messages /\ faults' \in Nat /\ inbox \subseteq inbox'
         /\ faults' = 0 => faults = 0 /\ messages \subseteq inbox'
BY DEF Sends

\* The daily sweep.
LEMMA DailyHolds ==
  ASSUME BacklogInv, Daily
  PROVE  BacklogInv'
<1>1. BacklogTypes /\ JobsTrue
  BY DEF BacklogInv
<1>2. {Sweep(0), Heartbeat} \in SUBSET Messages
  BY PlayersOf
<1>3. /\ inbox' \in SUBSET Messages /\ faults' \in Nat /\ inbox \subseteq inbox'
      /\ faults' = 0 => faults = 0
  BY <1>1, <1>2, SendsShape DEF Daily, BacklogTypes
<1>4. UNCHANGED <<rules, allowance, job, work, woken>>
  BY DEF Daily
<1>5. BacklogTypes'
  BY <1>1, <1>3, <1>4 DEF BacklogTypes
<1>6. JobsTrue'
  BY <1>1, <1>4, JobsStay
<1>7. ASSUME faults' = 0 PROVE PromisesKept'
  <2>0. faults = 0 /\ Heartbeat \in inbox'
    BY <1>3, <1>7 DEF BacklogInv, PromisesKept
  <2>1. ASSUME NEW u \in Players, NEW g \in BacklogOf[u], Waits(u, g) => Promised(u, g)
        PROVE  Waits(u, g)' => Promised(u, g)'
    <3>1. Keeps(u)
      BY <1>4 DEF Keeps, Is
    <3>2. KeepsScans(u) /\ KeepsSweeps
      BY <1>3, <1>4 DEF KeepsScans, KeepsSweeps
    <3>3. KeepsEnds(u)
      BY <1>3, <1>4 DEF KeepsEnds, EndComes, Is
    <3> QED BY <1>1, <2>1, <3>1, <3>2, <3>3, PromiseKept
  <2> QED BY <2>0, <2>1, PromisesStay
<1> QED BY <1>5, <1>6, <1>7 DEF BacklogInv

\* A sweep wakes the players of its page; those behind it are left to the next sweep.
LEMMA SweepHolds ==
  ASSUME BacklogInv, NEW c \in {0} \cup Players, SweepPlayers(c)
  PROVE  BacklogInv'
<1>1. BacklogTypes /\ JobsTrue
  BY DEF BacklogInv
<1> DEFINE behind == {u \in Players : u > c}
           page == {u \in behind : Cardinality({v \in behind : v < u}) < SweepPage}
           wakeups == {Reconcile(u, 0) : u \in {v \in page : rules[v] # {}}}
           rest == IF page = behind THEN {} ELSE {Sweep(Max(page))}
<1>2. /\ UNCHANGED <<rules, allowance, job, work, woken>>
      /\ \/ inbox' = (inbox \ {Sweep(c)}) \cup wakeups \cup rest /\ UNCHANGED faults
         \/ /\ faults' = faults + 1
            /\ inbox' \in {(inbox \ {Sweep(c)}) \cup rest, (inbox \ {Sweep(c)}) \cup wakeups}
  BY DEF SweepPlayers
<1>a. behind \in SUBSET Nat /\ IsFiniteSet(behind) /\ behind \subseteq Players
  <2>1. behind \subseteq Players /\ behind \in SUBSET Nat
    BY PlayersOf
  <2> QED BY <2>1, PlayersOf, FS_Subset
<1>b. \A u \in behind \ page : Max(page) \in page /\ Max(page) < u
  BY <1>a, LowestKept, BacklogAssumption
<1>3. wakeups \subseteq Messages
  <2>1. \A u \in Players : Reconcile(u, 0) \in Messages
    BY PlayersOf DEF BacklogCursors
  <2>2. page \subseteq Players
    BY <1>a
  <2> QED BY <2>1, <2>2
<1>4. rest \subseteq Messages
  <2>1. CASE page = behind
    BY <2>1
  <2>2. CASE page # behind
    <3>1. PICK u : u \in behind \ page
      BY <2>2
    <3>2. Max(page) \in Players
      BY <3>1, <1>a, <1>b
    <3>3. Sweep(Max(page)) \in Messages
      BY <3>2, PlayersOf
    <3> QED BY <3>3, <2>2
  <2> QED BY <2>1, <2>2
<1>5. \A u \in page : rules[u] # {} => Reconcile(u, 0) \in wakeups
  OBVIOUS
<1>6. \A u \in behind \ page : Max(page) \in Players /\ Max(page) < u /\ Sweep(Max(page)) \in rest
  BY <1>a, <1>b
<1>7. \A u \in Players : c < u => u \in behind
  BY PlayersOf
<1> HIDE DEF wakeups, rest, page, behind
<1>8. /\ inbox' \in SUBSET Messages /\ faults' \in Nat
      /\ faults' = 0 => faults = 0 /\ inbox' = (inbox \ {Sweep(c)}) \cup wakeups \cup rest
  BY <1>1, <1>2, <1>3, <1>4 DEF BacklogTypes
<1>9. BacklogTypes'
  BY <1>1, <1>2, <1>8 DEF BacklogTypes
<1>10. JobsTrue'
  BY <1>1, <1>2, JobsStay
<1>11. ASSUME faults' = 0 PROVE PromisesKept'
  <2>0. faults = 0 /\ inbox' = (inbox \ {Sweep(c)}) \cup wakeups \cup rest
    BY <1>8, <1>11
  <2>1. Heartbeat \in inbox'
    BY <2>0 DEF BacklogInv, PromisesKept, Heartbeat, Sweep
  <2>2. ASSUME NEW u \in Players, NEW g \in BacklogOf[u], Waits(u, g) => Promised(u, g), Waits(u, g)'
        PROVE  Promised(u, g)'
    <3>1. Keeps(u)
      BY <1>2 DEF Keeps, Is
    <3>2. KeepsScans(u)
      BY <1>2, <2>0 DEF KeepsScans, Reconcile, Sweep
    <3>3. KeepsEnds(u)
      BY <1>2, <2>0 DEF KeepsEnds, EndComes, Is, JobMessage, Sweep
    <3>4. Waits(u, g) /\ Promised(u, g)
      BY <2>2, <3>1, WaitedBefore
    <3>5. CASE Scans(u, g)
      BY <1>1, <3>1, <3>2, <3>5, ScansKept DEF Promised
    <3>6. CASE \E h \in BacklogOf[u] : EndComes(h)
      BY <3>3, <3>6 DEF Promised, KeepsEnds
    <3>7. CASE Sweeps(u)
      <4>1. PICK d \in {0} \cup Players : d < u /\ Sweep(d) \in inbox
        BY <3>7 DEF Sweeps
      <4>2. CASE Sweep(d) # Sweep(c)
        <5>1. Sweep(d) \in inbox'
          BY <4>1, <4>2, <2>0
        <5> QED BY <4>1, <5>1 DEF Promised, Sweeps
      <4>3. CASE Sweep(d) = Sweep(c)
        <5>1. u \in behind
          BY <4>1, <4>3, <1>7 DEF Sweep
        <5>2. rules[u] # {}
          BY <3>4 DEF Waits
        <5>3. CASE u \in page
          <6>1. Reconcile(u, 0) \in inbox'
            BY <5>2, <5>3, <1>5, <2>0
          <6> QED BY <6>1, StartedOver
        <5>4. CASE u \notin page
          <6>1. Max(page) \in Players /\ Max(page) < u /\ Sweep(Max(page)) \in inbox'
            BY <5>1, <5>4, <1>6, <2>0
          <6> QED BY <6>1 DEF Promised, Sweeps
        <5> QED BY <5>3, <5>4
      <4> QED BY <4>2, <4>3
    <3> QED BY <3>4, <3>5, <3>6, <3>7 DEF Promised
  <2> QED BY <2>0, <2>1, <2>2, PromisesStay
<1> QED BY <1>9, <1>10, <1>11 DEF BacklogInv

\* The jobs of another player are left alone, and so is what it waits for.
LEMMA OthersKept ==
  ASSUME BacklogInv, NEW v \in Players, NEW u \in Players, u # v, NEW g \in BacklogOf[u],
         rules'[u] = rules[u], allowance'[u] = allowance[u],
         \A h \in BacklogGames \ BacklogOf[v] : job'[h] = job[h],
         inbox \subseteq inbox', UNCHANGED <<work, woken>>, Waits(u, g) => Promised(u, g)
  PROVE  Waits(u, g)' => Promised(u, g)'
<1>1. \A h \in BacklogOf[u] : job'[h] = job[h]
  BY PlayersOf, BacklogAssumption
<1>2. Keeps(u)
  BY <1>1 DEF Keeps, Is
<1>3. KeepsScans(u) /\ KeepsSweeps
  BY DEF KeepsScans, KeepsSweeps
<1>4. KeepsEnds(u)
  BY <1>1 DEF KeepsEnds, EndComes, Is
<1>5. BacklogTypes /\ JobsTrue
  BY DEF BacklogInv
<1> QED BY <1>2, <1>3, <1>4, <1>5, PromiseKept

\* A change of the policy, of the plan or of the library starts the player's backlog over.
LEMMA ChangeHolds ==
  ASSUME BacklogInv, NEW v \in Players,
         NEW classes \in SUBSET {ClassOf[g] : g \in BacklogGames}, ChangeRules(v, classes)
  PROVE  BacklogInv'
<1>1. BacklogTypes /\ JobsTrue
  BY DEF BacklogInv
<1> DEFINE Drops(g) == g \in BacklogOf[v] /\ Is(g, {"queued", "waiting", "leased"})
<1>2. /\ rules' = [rules EXCEPT ![v] = classes]
      /\ job' = [g \in BacklogGames |->
           IF Drops(g) THEN [job[g] EXCEPT !.status = "cancelled"] ELSE job[g]]
      /\ UNCHANGED <<allowance, work, woken>>
  BY DEF ChangeRules
<1>3. /\ inbox' \in SUBSET Messages /\ faults' \in Nat /\ inbox \subseteq inbox'
      /\ faults' = 0 => faults = 0 /\ (classes # {} => Reconcile(v, 0) \in inbox')
  <2> DEFINE messages == IF classes = {} THEN {} ELSE {Reconcile(v, 0)}
  <2>1. messages \in SUBSET Messages /\ (classes # {} => Reconcile(v, 0) \in messages)
    BY PlayersOf DEF BacklogCursors
  <2>2. Sends(messages)
    BY DEF ChangeRules
  <2> HIDE DEF messages
  <2> QED BY <1>1, <2>1, <2>2, SendsShape DEF BacklogTypes
<1>t. job \in [BacklogGames -> BacklogRows]
      /\ rules \in [Players -> SUBSET {ClassOf[g] : g \in BacklogGames}]
  BY <1>1 DEF BacklogTypes
<1>4. ASSUME NEW h \in BacklogGames
      PROVE /\ job'[h] \in BacklogRows /\ job'[h].tries = job[h].tries /\ job'[h].run = job[h].run
            /\ \/ Drops(h) /\ job'[h].status = "cancelled"
               \/ ~Drops(h) /\ job'[h] = job[h]
  <2>0. job[h] \in BacklogRows
    BY <1>t
  <2>1. CASE Drops(h)
    <3>1. job'[h] = [job[h] EXCEPT !.status = "cancelled"]
      BY <1>2, <2>1
    <3> HIDE DEF Drops
    <3> QED BY <2>0, <2>1, <3>1 DEF BacklogRows, JobStatuses, Jobless
  <2>2. CASE ~Drops(h)
    <3>1. job'[h] = job[h]
      BY <1>2, <2>2
    <3> QED BY <2>0, <2>2, <3>1
  <2> QED BY <2>1, <2>2
<1>5. job' \in [BacklogGames -> BacklogRows]
  BY <1>2, <1>4
<1>6. rules' \in [Players -> SUBSET {ClassOf[g] : g \in BacklogGames}]
      /\ rules'[v] = classes /\ \A u \in Players : u # v => rules'[u] = rules[u]
  BY <1>2, <1>t
<1>7. BacklogTypes'
  BY <1>1, <1>2, <1>3, <1>5, <1>6 DEF BacklogTypes
<1>8. JobsTrue'
  <2>1. ASSUME NEW h \in BacklogGames PROVE JobOK(h)'
    <3>1. JobOK(h)
      BY <1>1 DEF JobsTrue
    <3>2. Is(h, {"running", "waiting", "lapsed"})' => job'[h].tries > 0
      BY <1>4, <3>1 DEF JobOK, Is
    <3>3. Is(h, Finished) => Is(h, Finished)'
      BY <1>4 DEF Is, Finished
    <3> QED BY <1>2, <1>4, <3>1, <3>2, <3>3, JobKept
  <2>2. OffIsOff'
    <3> SUFFICES ASSUME NEW u \in Players, rules'[u] = {}, NEW h \in BacklogOf[u],
                        Is(h, {"queued", "leased"})'
                 PROVE  job'[h].tries > 0
      BY DEF OffIsOff
    <3>1. h \in BacklogGames
      BY PlayersOf
    <3>2. job'[h] = job[h] /\ ~Drops(h) /\ Is(h, {"queued", "leased"})
      BY <3>1, <1>4 DEF Is
    <3>3. u # v
      BY <3>2 DEF Is
    <3>4. rules[u] = {}
      BY <3>3, <1>6
    <3> QED BY <3>2, <3>4, <1>1 DEF JobsTrue, OffIsOff
  <2>3. \A u \in Players, c \in BacklogCursors : PickOK(u, c)'
    BY <1>1, <1>2, PicksKept
  <2> QED BY <2>1, <2>2, <2>3 DEF JobsTrue
<1>9. ASSUME faults' = 0 PROVE PromisesKept'
  <2>0. faults = 0 /\ Heartbeat \in inbox'
    BY <1>3, <1>9 DEF BacklogInv, PromisesKept
  <2>1. ASSUME NEW u \in Players, NEW g \in BacklogOf[u], Waits(u, g) => Promised(u, g)
        PROVE  Waits(u, g)' => Promised(u, g)'
    <3>1. CASE u # v
      <4>1. \A h \in BacklogGames \ BacklogOf[v] : job'[h] = job[h]
        BY <1>4
      <4> QED BY <1>2, <1>3, <1>6, <2>1, <3>1, <4>1, OthersKept
    <3>2. CASE u = v /\ classes = {}
      BY <3>2, <1>6 DEF Waits
    <3>3. CASE u = v /\ classes # {}
      BY <3>3, <1>3, <1>9, StartedOver
    <3> QED BY <3>1, <3>2, <3>3
  <2> QED BY <2>0, <2>1, PromisesStay
<1> QED BY <1>7, <1>8, <1>9 DEF BacklogInv

LEMMA RenewHolds ==
  ASSUME BacklogInv, NEW v \in Players, Renew(v)
  PROVE  BacklogInv'
<1>1. BacklogTypes /\ JobsTrue
  BY DEF BacklogInv
<1>2. UNCHANGED <<rules, job, work, woken>> /\ allowance' = [allowance EXCEPT ![v] = Max(Allowances)]
  BY DEF Renew
<1>3. /\ inbox' \in SUBSET Messages /\ faults' \in Nat /\ inbox \subseteq inbox'
      /\ faults' = 0 => faults = 0 /\ (rules[v] # {} => Reconcile(v, 0) \in inbox')
  <2> DEFINE messages == IF rules[v] = {} THEN {} ELSE {Reconcile(v, 0)}
  <2>1. messages \in SUBSET Messages /\ (rules[v] # {} => Reconcile(v, 0) \in messages)
    BY PlayersOf DEF BacklogCursors
  <2>2. Sends(messages)
    BY DEF Renew
  <2> HIDE DEF messages
  <2> QED BY <1>1, <2>1, <2>2, SendsShape DEF BacklogTypes
<1>4. DOMAIN allowance' = Players /\ \A u \in Players : u # v => allowance'[u] = allowance[u]
  BY <1>1, <1>2 DEF BacklogTypes
<1>5. BacklogTypes'
  BY <1>1, <1>2, <1>3, <1>4 DEF BacklogTypes
<1>6. JobsTrue'
  BY <1>1, <1>2, JobsStay
<1>7. ASSUME faults' = 0 PROVE PromisesKept'
  <2>0. faults = 0 /\ Heartbeat \in inbox'
    BY <1>3, <1>7 DEF BacklogInv, PromisesKept
  <2>1. ASSUME NEW u \in Players, NEW g \in BacklogOf[u], Waits(u, g) => Promised(u, g)
        PROVE  Waits(u, g)' => Promised(u, g)'
    <3>1. CASE u # v
      BY <1>2, <1>3, <1>4, <2>1, <3>1, OthersKept
    <3>2. CASE u = v /\ rules[v] = {}
      BY <3>2, <1>2 DEF Waits
    <3>3. CASE u = v /\ rules[v] # {}
      BY <3>3, <1>3, <1>7, StartedOver
    <3> QED BY <3>1, <3>2, <3>3
  <2> QED BY <2>0, <2>1, PromisesStay
<1> QED BY <1>5, <1>6, <1>7 DEF BacklogInv

LEMMA ImportsHolds ==
  ASSUME BacklogInv, NEW i \in BacklogGames, Imports(i)
  PROVE  BacklogInv'
<1>1. BacklogTypes /\ JobsTrue
  BY DEF BacklogInv
<1> DEFINE v == PlayerOf(i)
<1>2. UNCHANGED <<rules, allowance, work, woken>> /\ job' = [job EXCEPT ![i].status = "none"]
      /\ Is(i, {"absent"})
  BY DEF Imports
<1>v. v \in Players /\ i \in BacklogOf[v]
  BY PlayersOf
<1> HIDE DEF v
<1>3. /\ inbox' \in SUBSET Messages /\ faults' \in Nat /\ inbox \subseteq inbox'
      /\ faults' = 0 => faults = 0 /\ (rules[v] # {} => Reconcile(v, 0) \in inbox')
  <2> DEFINE messages == IF rules[v] = {} THEN {} ELSE {Reconcile(v, 0)}
  <2>1. messages \in SUBSET Messages /\ (rules[v] # {} => Reconcile(v, 0) \in messages)
    BY PlayersOf, <1>v DEF BacklogCursors
  <2>2. Sends(messages)
    BY DEF Imports, v
  <2> HIDE DEF messages
  <2> QED BY <1>1, <2>1, <2>2, SendsShape DEF BacklogTypes
<1>t. job \in [BacklogGames -> BacklogRows]
  BY <1>1 DEF BacklogTypes
<1>4. /\ job' \in [BacklogGames -> BacklogRows]
      /\ \A h \in BacklogGames : h # i => job'[h] = job[h]
      /\ job'[i].status = "none" /\ job'[i].run = job[i].run
  <2>1. [job[i] EXCEPT !.status = "none"] \in BacklogRows
    BY <1>t DEF BacklogRows, JobStatuses, Jobless
  <2>2. job' = [job EXCEPT ![i] = [job[i] EXCEPT !.status = "none"]]
    BY <1>2
  <2>3. job[i] \in BacklogRows
    BY <1>t
  <2> QED BY <1>t, <2>1, <2>2, <2>3 DEF BacklogRows
<1>5. BacklogTypes'
  BY <1>1, <1>2, <1>3, <1>4 DEF BacklogTypes
<1>6. JobsTrue'
  <2>1. ASSUME NEW h \in BacklogGames PROVE JobOK(h)'
    <3>1. JobOK(h)
      BY <1>1 DEF JobsTrue
    <3>2. Is(h, {"running", "waiting", "lapsed"})' => job'[h].tries > 0
      BY <1>4, <3>1 DEF JobOK, Is
    <3>3. Is(h, Finished) => Is(h, Finished)'
      BY <1>2, <1>4 DEF Is, Finished
    <3> QED BY <1>2, <1>4, <3>1, <3>2, <3>3, JobKept
  <2>2. OffIsOff'
    <3> SUFFICES ASSUME NEW u \in Players, rules'[u] = {}, NEW h \in BacklogOf[u],
                        Is(h, {"queued", "leased"})'
                 PROVE  job'[h].tries > 0
      BY DEF OffIsOff
    <3>1. h \in BacklogGames
      BY PlayersOf
    <3>2. job'[h] = job[h] /\ Is(h, {"queued", "leased"})
      BY <3>1, <1>4 DEF Is
    <3> QED BY <3>2, <1>1, <1>2 DEF JobsTrue, OffIsOff
  <2>3. \A u \in Players, c \in BacklogCursors : PickOK(u, c)'
    BY <1>1, <1>2, PicksKept
  <2> QED BY <2>1, <2>2, <2>3 DEF JobsTrue
<1>7. ASSUME faults' = 0 PROVE PromisesKept'
  <2>0. faults = 0 /\ Heartbeat \in inbox'
    BY <1>3, <1>7 DEF BacklogInv, PromisesKept
  <2>1. ASSUME NEW u \in Players, NEW g \in BacklogOf[u], Waits(u, g) => Promised(u, g)
        PROVE  Waits(u, g)' => Promised(u, g)'
    <3>1. CASE u # v
      <4>1. \A h \in BacklogGames \ BacklogOf[v] : job'[h] = job[h]
        BY <1>4, <1>v
      <4> QED BY <1>v, <1>2, <1>3, <2>1, <3>1, <4>1, OthersKept
    <3>2. CASE u = v /\ rules[v] = {}
      BY <3>2, <1>2 DEF Waits
    <3>3. CASE u = v /\ rules[v] # {}
      BY <3>3, <1>3, <1>7, StartedOver
    <3> QED BY <3>1, <3>2, <3>3
  <2> QED BY <2>0, <2>1, PromisesStay
<1> QED BY <1>5, <1>6, <1>7 DEF BacklogInv

\* A lapsed lease and a job that falls due stay under way.
LEMMA LapsesHolds ==
  ASSUME BacklogInv, NEW i \in BacklogGames, LeaseLapses(i) \/ FallsDue(i)
  PROVE  BacklogInv'
<1>1. BacklogTypes /\ JobsTrue
  BY DEF BacklogInv
<1>t. job \in [BacklogGames -> BacklogRows] /\ faults \in Nat
  BY <1>1 DEF BacklogTypes
<1>2. /\ UNCHANGED <<rules, allowance, inbox, work, woken>> /\ faults' \in Nat
         /\ (faults' = 0 => faults = 0)
      /\ \E s \in {"queued", "lapsed"} :
           /\ job' = [job EXCEPT ![i].status = s]
           /\ s = "lapsed" => Is(i, {"running"})
           /\ s = "queued" => Is(i, {"leased", "waiting"})
  <2>1. CASE FallsDue(i)
    BY <2>1, <1>t DEF FallsDue, Is
  <2>2. CASE LeaseLapses(i)
    <3>1. /\ UNCHANGED <<rules, allowance, inbox, work, woken>> /\ faults' \in Nat
             /\ (faults' = 0 => faults = 0)
      BY <2>2, <1>t DEF LeaseLapses
    <3>2. CASE Is(i, {"running"})
      <4>1. job' = [job EXCEPT ![i].status = "lapsed"]
        BY <2>2, <3>2 DEF LeaseLapses, Is
      <4> QED BY <3>1, <3>2, <4>1
    <3>3. CASE ~Is(i, {"running"})
      <4>1. job' = [job EXCEPT ![i].status = "queued"] /\ Is(i, {"leased"})
        BY <2>2, <3>3 DEF LeaseLapses, Is, UnderLease
      <4>2. Is(i, {"leased", "waiting"})
        BY <4>1 DEF Is
      <4> QED BY <3>1, <4>1, <4>2
    <3> QED BY <3>2, <3>3
  <2> QED BY <2>1, <2>2
<1>3. PICK s \in {"queued", "lapsed"} :
           /\ job' = [job EXCEPT ![i].status = s]
           /\ s = "lapsed" => Is(i, {"running"})
           /\ s = "queued" => Is(i, {"leased", "waiting"})
  BY <1>2
<1>4. /\ job' \in [BacklogGames -> BacklogRows]
      /\ \A h \in BacklogGames : h # i => job'[h] = job[h]
      /\ job'[i].status = s /\ job'[i].run = job[i].run /\ job'[i].tries = job[i].tries
  <2>1. [job[i] EXCEPT !.status = s] \in BacklogRows
    BY <1>t DEF BacklogRows, JobStatuses, Unfinished
  <2>2. job' = [job EXCEPT ![i] = [job[i] EXCEPT !.status = s]]
    BY <1>3
  <2>3. job[i] \in BacklogRows
    BY <1>t
  <2> QED BY <1>t, <2>1, <2>2, <2>3 DEF BacklogRows
<1>5. BacklogTypes'
  BY <1>1, <1>2, <1>4 DEF BacklogTypes
<1>6. \A h \in BacklogGames :
        /\ Is(h, Unfinished)' <=> Is(h, Unfinished)
        /\ Is(h, Finished)' <=> Is(h, Finished)
        /\ Is(h, Jobless)' <=> Is(h, Jobless)
        /\ Is(h, Unfinished \cup {"succeeded"})' <=> Is(h, Unfinished \cup {"succeeded"})
  BY <1>3, <1>4 DEF Is, Unfinished, UnderLease, Finished, Jobless
<1>7. JobsTrue'
  <2>1. ASSUME NEW h \in BacklogGames PROVE JobOK(h)'
    <3>1. JobOK(h)
      BY <1>1 DEF JobsTrue
    <3>2. Is(h, {"running", "waiting", "lapsed"})' => job'[h].tries > 0
      BY <1>3, <1>4, <3>1 DEF JobOK, Is
    <3>3. Is(h, Finished) => Is(h, Finished)'
      BY <1>6
    <3> QED BY <1>2, <1>4, <3>1, <3>2, <3>3, JobKept
  <2>2. OffIsOff'
    <3> SUFFICES ASSUME NEW u \in Players, rules'[u] = {}, NEW h \in BacklogOf[u],
                        Is(h, {"queued", "leased"})'
                 PROVE  job'[h].tries > 0
      BY DEF OffIsOff
    <3>1. h \in BacklogGames /\ rules[u] = {} /\ job'[h].tries = job[h].tries
      BY PlayersOf, <1>2, <1>4
    <3>2. Is(h, {"queued", "leased"}) => job[h].tries > 0
      BY <1>1, <3>1 DEF JobsTrue, OffIsOff
    <3>3. Is(h, {"waiting"}) => job[h].tries > 0
      BY <1>1, <3>1 DEF JobsTrue, JobOK, Is
    <3>4. Is(h, {"queued", "leased"}) \/ Is(h, {"waiting"})
      BY <1>3, <1>4, <3>1 DEF Is
    <3> QED BY <3>1, <3>2, <3>3, <3>4
  <2>3. \A u \in Players, c \in BacklogCursors : PickOK(u, c)'
    BY <1>1, <1>2, PicksKept
  <2> QED BY <2>1, <2>2, <2>3 DEF JobsTrue
<1>8. ASSUME faults' = 0 PROVE PromisesKept'
  <2>0. faults = 0 /\ Heartbeat \in inbox'
    BY <1>2, <1>8 DEF BacklogInv, PromisesKept
  <2>1. ASSUME NEW u \in Players, NEW g \in BacklogOf[u], Waits(u, g) => Promised(u, g)
        PROVE  Waits(u, g)' => Promised(u, g)'
    <3>0. \A h \in BacklogOf[u] : h \in BacklogGames
      BY PlayersOf
    <3>1. Keeps(u)
      BY <3>0, <1>2, <1>6 DEF Keeps
    <3>2. KeepsScans(u) /\ KeepsSweeps
      BY <1>2 DEF KeepsScans, KeepsSweeps
    <3>3. KeepsEnds(u)
      <4> SUFFICES ASSUME NEW h \in BacklogOf[u], EndComes(h) PROVE EndComes(h)'
        BY DEF KeepsEnds
      <4>1. h \in BacklogGames /\ job'[h].run = job[h].run
        BY <3>0, <1>4
      <4> QED BY <4>1, <1>2, <1>6, EndsStay
    <3> QED BY <1>1, <2>1, <3>1, <3>2, <3>3, PromiseKept
  <2> QED BY <2>0, <2>1, PromisesStay
<1> QED BY <1>5, <1>7, <1>8 DEF BacklogInv

\* The heartbeat recovers what has lapsed and claims for every player.
LEMMA BeatsHolds ==
  ASSUME BacklogInv, Beats
  PROVE  BacklogInv'
<1>1. BacklogTypes /\ JobsTrue
  BY DEF BacklogInv
<1>t. inbox \in SUBSET Messages
  BY <1>1 DEF BacklogTypes
<1>2. UNCHANGED <<rules, allowance, work, woken>> /\ Dispatches(Players, inbox, {})
  BY DEF Beats
<1>3. /\ job' \in [BacklogGames -> BacklogRows]
      /\ inbox' \in SUBSET Messages /\ faults' \in Nat
      /\ faults' = 0 => faults = 0
      /\ inbox \subseteq inbox'
  BY <1>1, <1>t, <1>2, DispatchShape
<1>4. BacklogTypes'
  BY <1>1, <1>2, <1>3 DEF BacklogTypes
<1>5. OffIsOff' /\ \A h \in BacklogGames : JobOK(h)'
  BY <1>1, <1>t, <1>2, DispatchTrue
<1>6. JobsTrue'
  BY <1>1, <1>2, <1>5, PicksKept DEF JobsTrue
<1>7. ASSUME faults' = 0 PROVE PromisesKept'
  <2>0. faults = 0 /\ Heartbeat \in inbox'
    BY <1>3, <1>7 DEF BacklogInv, PromisesKept
  <2>1. ASSUME NEW u \in Players, NEW g \in BacklogOf[u], Waits(u, g) => Promised(u, g)
        PROVE  Waits(u, g)' => Promised(u, g)'
    <3>1. CASE Reconcile(u, 0) \in inbox'
      BY <3>1, StartedOver
    <3>2. CASE Reconcile(u, 0) \notin inbox'
      <4>1. /\ Keeps(u)
            /\ \A h \in BacklogOf[u] : /\ job'[h].run = job[h].run
                                       /\ Is(h, Unfinished)' <=> Is(h, Unfinished)
                                       /\ Is(h, Finished)' <=> Is(h, Finished)
        BY <1>1, <1>t, <1>2, <1>7, <2>0, <3>2, DispatchKeeps
      <4>2. KeepsScans(u) /\ KeepsSweeps
        BY <1>2, <1>3 DEF KeepsScans, KeepsSweeps
      <4>3. KeepsEnds(u)
        BY <1>2, <1>3, <4>1, EndsStay DEF KeepsEnds
      <4> QED BY <1>1, <2>1, <4>1, <4>2, <4>3, PromiseKept
    <3> QED BY <3>1, <3>2
  <2> QED BY <2>0, <2>1, PromisesStay
<1> QED BY <1>4, <1>6, <1>7 DEF BacklogInv

\* Where the next scan starts: behind what this one has seen, before what it has not.
LEMMA BehindScanIs ==
  ASSUME NEW u \in Players, NEW c \in BacklogCursors
  PROVE  /\ Scanned(u, c) \subseteq Candidates(u, c) /\ Candidates(u, c) \subseteq BacklogOf[u]
         /\ BehindScan(u, c) \in BacklogCursors
         /\ \A g \in Candidates(u, c) \ Scanned(u, c) : BehindScan(u, c) # 0 /\ BehindScan(u, c) < g
<1> DEFINE S == Candidates(u, c)
           P == Scanned(u, c)
<1>1. S \subseteq BacklogOf[u] /\ P \subseteq S
  BY DEF Candidates, Scanned
<1>2. BacklogOf[u] \subseteq Nat \ {0} /\ IsFiniteSet(BacklogOf[u]) /\ BacklogOf[u] \subseteq BacklogGames
  BY PlayersOf
<1>3. S \in SUBSET Nat /\ IsFiniteSet(S)
  <2>1. S \in SUBSET Nat
    BY <1>1, <1>2
  <2> QED BY <2>1, <1>1, <1>2, FS_Subset
<1>4. P = {x \in S : Cardinality({y \in S : y < x}) < ScanLimit}
  BY DEF Scanned
<1>5. BehindScan(u, c) = IF P = S THEN 0 ELSE Max(P)
  BY DEF BehindScan
<1> HIDE DEF S, P
<1>6. ASSUME NEW g \in S \ P
      PROVE  Max(P) \in P /\ Max(P) < g
  BY <1>3, <1>4, <1>6, LowestKept, BacklogAssumption
<1>7. ASSUME NEW g \in S \ P
      PROVE  BehindScan(u, c) \in BacklogOf[u] /\ BehindScan(u, c) < g
  <2>1. P # S
    BY <1>7
  <2> QED BY <2>1, <1>1, <1>5, <1>6
<1>8. BehindScan(u, c) \in BacklogCursors
  <2>1. CASE P = S
    BY <2>1, <1>5 DEF BacklogCursors
  <2>2. CASE P # S
    <3>1. PICK g : g \in S \ P
      BY <2>2, <1>1
    <3>2. BehindScan(u, c) \in BacklogOf[u]
      BY <3>1, <1>7
    <3> QED BY <3>2, <1>2 DEF BacklogCursors
  <2> QED BY <2>1, <2>2
<1>9. ASSUME NEW g \in S \ P PROVE BehindScan(u, c) # 0 /\ BehindScan(u, c) < g
  <2>1. BehindScan(u, c) \in BacklogOf[u] /\ BehindScan(u, c) < g
    BY <1>7
  <2> QED BY <2>1, <1>2
<1> QED BY <1>1, <1>8, <1>9 DEF S, P

\* A handler that reads the backlog picks a game, or goes on behind what it has seen.
LEMMA ReadsHolds ==
  ASSUME BacklogInv, NEW v \in Players, NEW c \in BacklogCursors, ReadsBacklog(v, c)
  PROVE  BacklogInv'
<1>1. BacklogTypes /\ JobsTrue
  BY DEF BacklogInv
<1> DEFINE m == Reconcile(v, c)
           eligible == Scanned(v, c) \cap Long
           pays == rules[v] # {} /\ Room(v) > 0
           quiet == ~\E g \in BacklogOf[v] : Is(g, Unfinished)
<1>2. /\ UNCHANGED <<rules, allowance, job, woken, faults>> /\ inbox' = inbox \ {m}
      /\ work[m] = NoWork
  BY DEF ReadsBacklog
<1>3. PICK p \in IF eligible = {} \/ ~pays THEN {0} ELSE eligible :
        work' = [work EXCEPT ![m] = [stage |-> "enqueue", pick |-> p,
                                     next |-> IF pays /\ quiet THEN BehindScan(v, c) ELSE 0]]
  BY DEF ReadsBacklog
<1>4. PICK n \in BacklogCursors :
        /\ work' = [work EXCEPT ![m] = [stage |-> "enqueue", pick |-> p, next |-> n]]
        /\ pays /\ quiet => n = BehindScan(v, c)
  <2>1. 0 \in BacklogCursors
    BY DEF BacklogCursors
  <2> HIDE DEF pays, quiet
  <2>2. CASE pays /\ quiet
    BY <2>2, <1>3, BehindScanIs
  <2>3. CASE ~(pays /\ quiet)
    BY <2>1, <2>3, <1>3
  <2> QED BY <2>2, <2>3
<1>5. p \in {0} \cup BacklogOf[v] /\ p \in BacklogCursors
  <2>1. eligible \subseteq BacklogOf[v]
    BY BehindScanIs
  <2>2. BacklogOf[v] \subseteq BacklogGames
    BY PlayersOf
  <2> QED BY <2>1, <2>2, <1>3 DEF BacklogCursors
<1>m. m \in Messages
  BY PlayersOf
<1>6. /\ work' \in [Messages -> Works]
      /\ work'[m] = [stage |-> "enqueue", pick |-> p, next |-> n]
      /\ \A x \in Messages : x # m => work'[x] = work[x]
  <2> HIDE DEF m
  <2>1. work \in [Messages -> Works]
    BY <1>1 DEF BacklogTypes
  <2>2. [stage |-> "enqueue", pick |-> p, next |-> n] \in Works
    BY <1>5 DEF Works
  <2> QED BY <2>1, <2>2, <1>4, <1>m
<1>7. BacklogTypes'
  <2>1. inbox' \in SUBSET Messages
    BY <1>1, <1>2 DEF BacklogTypes
  <2> QED BY <1>1, <1>2, <1>6, <2>1 DEF BacklogTypes
<1>8. JobsTrue'
  <2>1. OffIsOff' /\ \A h \in BacklogGames : JobOK(h)'
    BY <1>1, <1>2 DEF JobsTrue, OffIsOff, JobOK, Is
  <2>2. ASSUME NEW u \in Players, NEW d \in BacklogCursors PROVE PickOK(u, d)'
    <3>1. CASE u = v /\ d = c
      BY <3>1, <1>5, <1>6 DEF PickOK
    <3>2. CASE ~(u = v /\ d = c)
      <4>1. Reconcile(u, d) # m /\ Reconcile(u, d) \in Messages
        BY <3>2, PlayersOf DEF Reconcile
      <4>2. work'[Reconcile(u, d)] = work[Reconcile(u, d)]
        BY <4>1, <1>6
      <4> QED BY <4>2, <1>1 DEF PickOK, JobsTrue
    <3> QED BY <3>1, <3>2
  <2> QED BY <2>1, <2>2 DEF JobsTrue
<1>9. ASSUME faults' = 0 PROVE PromisesKept'
  <2>0. faults = 0 /\ Heartbeat \in inbox'
    BY <1>2, <1>9 DEF BacklogInv, PromisesKept, Heartbeat, Reconcile
  <2>1. ASSUME NEW u \in Players, NEW g \in BacklogOf[u], Waits(u, g) => Promised(u, g), Waits(u, g)'
        PROVE  Promised(u, g)'
    <3>1. Keeps(u)
      BY <1>2 DEF Keeps, Is
    <3>2. Waits(u, g) /\ Promised(u, g)
      BY <2>1, <3>1, WaitedBefore
    <3>3. CASE Sweeps(u)
      BY <3>3, <1>2 DEF Promised, Sweeps, Sweep, Reconcile
    <3>4. CASE \E h \in BacklogOf[u] : EndComes(h)
      <4>1. PICK h \in BacklogOf[u] : EndComes(h)
        BY <3>4
      <4>2. JobMessage(h) \in Messages /\ JobMessage(h) # m
        BY PlayersOf DEF JobMessage, Reconcile
      <4>3. work'[JobMessage(h)] = work[JobMessage(h)]
            /\ (JobMessage(h) \in inbox => JobMessage(h) \in inbox')
        BY <4>2, <1>2, <1>6
      <4>4. EndComes(h)'
        BY <4>1, <4>3, <1>2, EndsStay DEF Is
      <4> QED BY <4>4 DEF Promised
    <3>5. CASE u # v /\ Scans(u, g)
      <4>1. \A d \in BacklogCursors : Reconcile(u, d) # m /\ Reconcile(u, d) \in Messages
        BY <3>5, PlayersOf DEF Reconcile
      <4>2. KeepsScans(u)
        BY <4>1, <1>2, <1>6 DEF KeepsScans
      <4> QED BY <1>1, <3>1, <3>5, <4>2, ScansKept DEF Promised
    <3>6. CASE u = v /\ Scans(u, g)
      <4>1. PICK d \in BacklogCursors :
              \/ d < g /\ Reconcile(u, d) \in inbox
              \/ /\ work[Reconcile(u, d)].stage = "enqueue" /\ work[Reconcile(u, d)].pick # 0
                 /\ Is(work[Reconcile(u, d)].pick, Jobless)
              \/ /\ work[Reconcile(u, d)].stage # "idle" /\ work[Reconcile(u, d)].next # 0
                 /\ work[Reconcile(u, d)].next < g
        BY <3>6 DEF Scans
      <4>2. CASE d # c
        <5>1. Reconcile(u, d) # m /\ Reconcile(u, d) \in Messages
          BY <4>2, PlayersOf DEF Reconcile
        <5>2. work'[Reconcile(u, d)] = work[Reconcile(u, d)]
              /\ (Reconcile(u, d) \in inbox => Reconcile(u, d) \in inbox')
          BY <5>1, <1>2, <1>6
        <5>3. Scans(u, g)'
          BY <4>1, <5>2, <1>2 DEF Scans, Is
        <5> QED BY <5>3 DEF Promised
      <4>3. CASE d = c
        <5>1. c < g
          BY <4>1, <4>3, <3>6, <1>2 DEF NoWork
        <5>2. pays
          BY <3>2, <3>6 DEF Waits
        <5>3. g \in Candidates(v, c) /\ g \in Long
          <6>1. g \in BacklogOf[v] /\ c \in Nat /\ g \in Nat
            BY <3>6, PlayersOf
          <6> QED BY <6>1, <5>1, <3>2, <3>6 DEF Waits, Candidates, Jobless
        <5>4. CASE eligible # {}
          <6>1. p \in Candidates(v, c) /\ p # 0
            <7>1. p \in eligible
              BY <5>2, <5>4, <1>3
            <7>2. eligible \subseteq Candidates(v, c) /\ Candidates(v, c) \subseteq BacklogOf[v]
              BY BehindScanIs
            <7> QED BY <7>1, <7>2, PlayersOf
          <6>2. Is(p, Jobless)'
            BY <6>1, <1>2 DEF Candidates, Is, Jobless
          <6>3. work'[m].stage = "enqueue" /\ work'[m].pick = p
            BY <1>6
          <6>4. Scans(u, g)'
            BY <6>1, <6>2, <6>3, <3>6 DEF Scans
          <6> QED BY <6>4 DEF Promised
        <5>5. CASE eligible = {} /\ ~quiet
          <6>1. PICK h \in BacklogOf[u] : Is(h, Unfinished)
            BY <5>5, <3>6
          <6>2. EndComes(h)'
            BY <6>1, <1>2 DEF EndComes, Is
          <6> QED BY <6>2 DEF Promised
        <5>6. CASE eligible = {} /\ quiet
          <6>1. n = BehindScan(v, c)
            BY <5>2, <5>6, <1>4
          <6>2. g \in Candidates(v, c) \ Scanned(v, c)
            BY <5>3, <5>6
          <6>3. n # 0 /\ n < g
            BY <6>1, <6>2, BehindScanIs
          <6>4. work'[m].stage # "idle" /\ work'[m].next = n
            BY <1>6
          <6>5. Scans(u, g)'
            BY <6>3, <6>4, <3>6 DEF Scans
          <6> QED BY <6>5 DEF Promised
        <5> QED BY <5>4, <5>5, <5>6
      <4> QED BY <4>2, <4>3
    <3> QED BY <3>2, <3>3, <3>4, <3>5, <3>6 DEF Promised
  <2> QED BY <2>0, <2>1, PromisesStay
<1> QED BY <1>7, <1>8, <1>9 DEF BacklogInv

\* A handler that queues the game it has picked, or finds that it may not.
LEMMA EnqueuesHolds ==
  ASSUME BacklogInv, NEW v \in Players, NEW c \in BacklogCursors, Enqueues(v, c)
  PROVE  BacklogInv'
<1>1. BacklogTypes /\ JobsTrue
  BY DEF BacklogInv
<1> DEFINE m == Reconcile(v, c)
<1>m. m \in Messages
  BY PlayersOf
<1>w. work \in [Messages -> Works] /\ work[m] \in Works
  BY <1>1, <1>m DEF BacklogTypes
<1>p. PICK p \in {0} \cup BacklogOf[v] : p = work[m].pick
  BY <1>1 DEF JobsTrue, PickOK
<1> DEFINE accepted == p # 0 /\ Accepts(v, p)
<1>2. /\ UNCHANGED <<rules, allowance, inbox, woken, faults>> /\ work[m].stage = "enqueue"
      /\ job' = IF accepted
               THEN [job EXCEPT ![p] = [status |-> "queued", tries |-> 0, run |-> @.run + 1]] ELSE job
      /\ work' = [work EXCEPT ![m].stage = "dispatch", ![m].next = IF accepted THEN 0 ELSE @]
  BY <1>p DEF Enqueues
<1> HIDE DEF accepted
<1>3. PICK n \in BacklogCursors :
        /\ work' = [work EXCEPT ![m] = [work[m] EXCEPT !.stage = "dispatch", !.next = n]]
        /\ ~accepted => n = work[m].next
  <2>1. 0 \in BacklogCursors /\ work[m].next \in BacklogCursors
    BY <1>w DEF BacklogCursors, Works
  <2> HIDE DEF m
  <2>2. CASE accepted
    <3>1. work' = [work EXCEPT ![m] = [work[m] EXCEPT !.stage = "dispatch", !.next = 0]]
      BY <1>2, <2>2
    <3> QED BY <3>1, <2>1, <2>2
  <2>3. CASE ~accepted
    <3>1. work' = [work EXCEPT ![m] = [work[m] EXCEPT !.stage = "dispatch", !.next = work[m].next]]
      BY <1>2, <2>3
    <3> QED BY <3>1, <2>1
  <2> QED BY <2>2, <2>3
<1>4. /\ work' \in [Messages -> Works]
      /\ work'[m].stage = "dispatch" /\ work'[m].pick = p /\ work'[m].next = n
      /\ \A x \in Messages : x # m => work'[x] = work[x]
  <2> HIDE DEF m
  <2>2. [work[m] EXCEPT !.stage = "dispatch", !.next = n] \in Works
    BY <1>w DEF Works
  <2>3. [work[m] EXCEPT !.stage = "dispatch", !.next = n].pick = p
    BY <1>w, <1>p DEF Works
  <2>4. /\ [work[m] EXCEPT !.stage = "dispatch", !.next = n].stage = "dispatch"
        /\ [work[m] EXCEPT !.stage = "dispatch", !.next = n].next = n
    BY <1>w DEF Works
  <2>5. work'[m] = [work[m] EXCEPT !.stage = "dispatch", !.next = n]
    BY <1>3, <1>m, <1>w
  <2> QED BY <2>2, <2>3, <2>4, <2>5, <1>3, <1>w, <1>m
<1>t. job \in [BacklogGames -> BacklogRows]
  BY <1>1 DEF BacklogTypes
<1>5. accepted => p \in BacklogOf[v] /\ p \in BacklogGames /\ Is(p, Jobless) /\ rules[v] # {}
      /\ Room(v) > 0
  BY <1>p, PlayersOf DEF accepted, Accepts, Jobless
<1>6. /\ job' \in [BacklogGames -> BacklogRows]
      /\ \A h \in BacklogGames :
           \/ ~(accepted /\ h = p) /\ job'[h] = job[h]
           \/ accepted /\ h = p /\ job'[h] = [status |-> "queued", tries |-> 0, run |-> job[h].run + 1]
  <2>1. CASE ~accepted
    BY <2>1, <1>2, <1>t
  <2>2. CASE accepted
    <3>1. job[p] \in BacklogRows /\ p \in BacklogGames
      BY <1>5, <1>t, <2>2
    <3>2. [status |-> "queued", tries |-> 0, run |-> job[p].run + 1] \in BacklogRows
      BY <3>1 DEF BacklogRows, JobStatuses, Unfinished
    <3>3. job' = [job EXCEPT ![p] = [status |-> "queued", tries |-> 0, run |-> job[p].run + 1]]
      BY <1>2, <2>2
    <3> QED BY <3>1, <3>2, <3>3, <1>t, <2>2
  <2> QED BY <2>1, <2>2
<1>7. BacklogTypes'
  BY <1>1, <1>2, <1>4, <1>6 DEF BacklogTypes
<1>8. JobsTrue'
  <2>1. ASSUME NEW h \in BacklogGames PROVE JobOK(h)'
    <3>1. JobOK(h)
      BY <1>1 DEF JobsTrue
    <3>2. CASE job'[h] = job[h]
      BY <3>1, <3>2, <1>2 DEF JobOK, Is
    <3>3. CASE job'[h] = [status |-> "queued", tries |-> 0, run |-> job[h].run + 1]
      <4>1. ~Is(h, {"running", "waiting", "lapsed"})'
        BY <3>3 DEF Is
      <4>2. job'[h].run = job[h].run + 1 /\ job[h].run \in Nat
        BY <3>3, <1>t DEF BacklogRows
      <4>3. \A r \in Nat : <<h, r>> \in woken' => r < job'[h].run
        BY <3>1, <4>2, <1>2 DEF JobOK
      <4> QED BY <4>1, <4>3 DEF JobOK
    <3> QED BY <3>2, <3>3, <1>6
  <2>2. OffIsOff'
    <3> SUFFICES ASSUME NEW u \in Players, rules'[u] = {}, NEW h \in BacklogOf[u],
                        Is(h, {"queued", "leased"})'
                 PROVE  job'[h].tries > 0
      BY DEF OffIsOff
    <3>1. h \in BacklogGames /\ PlayerOf(h) = u /\ rules[u] = {}
      BY PlayersOf, <1>2
    <3>2. ~(accepted /\ h = p)
      BY <3>1, <1>5, PlayersOf
    <3>3. job'[h] = job[h]
      BY <3>1, <3>2, <1>6
    <3> QED BY <3>1, <3>3, <1>1 DEF JobsTrue, OffIsOff, Is
  <2>3. ASSUME NEW u \in Players, NEW d \in BacklogCursors PROVE PickOK(u, d)'
    <3>1. CASE u = v /\ d = c
      BY <3>1, <1>p, <1>4 DEF PickOK
    <3>2. CASE ~(u = v /\ d = c)
      <4>1. Reconcile(u, d) # m /\ Reconcile(u, d) \in Messages
        BY <3>2, PlayersOf DEF Reconcile
      <4>2. work'[Reconcile(u, d)] = work[Reconcile(u, d)]
        BY <4>1, <1>4
      <4> QED BY <4>2, <1>1 DEF PickOK, JobsTrue
    <3> QED BY <3>1, <3>2
  <2> QED BY <2>1, <2>2, <2>3 DEF JobsTrue
<1>9. ASSUME faults' = 0 PROVE PromisesKept'
  <2>0. faults = 0 /\ Heartbeat \in inbox'
    BY <1>2, <1>9 DEF BacklogInv, PromisesKept
  <2>1. ASSUME NEW u \in Players, NEW g \in BacklogOf[u], Waits(u, g) => Promised(u, g), Waits(u, g)'
        PROVE  Promised(u, g)'
    <3>1. CASE u = v /\ accepted
      <4>1. job'[p].status = "queued" /\ p \in BacklogOf[u]
        BY <3>1, <1>5, <1>6
      <4>2. EndComes(p)'
        BY <4>1 DEF EndComes, Is, Unfinished
      <4> QED BY <4>1, <4>2 DEF Promised
    <3>2. CASE ~(u = v /\ accepted)
      <4>0. \A h \in BacklogOf[u] : h \in BacklogGames /\ PlayerOf(h) = u
            /\ JobMessage(h) \in Messages /\ JobMessage(h) # m
        BY PlayersOf DEF JobMessage, Reconcile
      <4>1. ASSUME NEW h \in BacklogOf[u] PROVE job'[h] = job[h]
        <5>1. h \in BacklogGames /\ PlayerOf(h) = u
          BY <4>0
        <5>2. accepted => PlayerOf(p) = v
          BY <1>5, PlayersOf
        <5>3. ~(accepted /\ h = p)
          BY <3>2, <5>1, <5>2
        <5> QED BY <5>1, <5>3, <1>6
      <4>2. Keeps(u)
        BY <4>1, <1>2 DEF Keeps, Is
      <4>3. Waits(u, g) /\ Promised(u, g)
        BY <2>1, <4>2, WaitedBefore
      <4>4. CASE Sweeps(u)
        BY <4>4, <1>2 DEF Promised, Sweeps
      <4>5. CASE \E h \in BacklogOf[u] : EndComes(h)
        <5>1. PICK h \in BacklogOf[u] : EndComes(h)
          BY <4>5
        <5>2. EndComes(h)'
          BY <5>1, <4>0, <4>1, <1>2, <1>4, EndsStay DEF Is
        <5> QED BY <5>2 DEF Promised
      <4>6. CASE u # v /\ Scans(u, g)
        <5>1. \A d \in BacklogCursors : Reconcile(u, d) # m /\ Reconcile(u, d) \in Messages
          BY <4>6, PlayersOf DEF Reconcile
        <5>2. KeepsScans(u)
          BY <5>1, <1>2, <1>4 DEF KeepsScans
        <5> QED BY <1>1, <4>2, <4>6, <5>2, ScansKept DEF Promised
      <4>7. CASE u = v /\ Scans(u, g)
        <5>1. PICK d \in BacklogCursors :
                \/ d < g /\ Reconcile(u, d) \in inbox
                \/ /\ work[Reconcile(u, d)].stage = "enqueue" /\ work[Reconcile(u, d)].pick # 0
                   /\ Is(work[Reconcile(u, d)].pick, Jobless)
                \/ /\ work[Reconcile(u, d)].stage # "idle" /\ work[Reconcile(u, d)].next # 0
                   /\ work[Reconcile(u, d)].next < g
          BY <4>7 DEF Scans
        <5>a. ~accepted /\ job' = job
          BY <3>2, <4>7, <1>2
        <5>2. CASE d < g /\ Reconcile(u, d) \in inbox
          <6>1. Scans(u, g)'
            BY <5>2, <1>2 DEF Scans
          <6> QED BY <6>1 DEF Promised
        <5>3. CASE d # c
          <6>1. Reconcile(u, d) # m /\ Reconcile(u, d) \in Messages
            BY <5>3, PlayersOf DEF Reconcile
          <6>2. work'[Reconcile(u, d)] = work[Reconcile(u, d)]
            BY <6>1, <1>4
          <6>3. Scans(u, g)'
            BY <5>1, <6>2, <5>a, <1>2 DEF Scans, Is
          <6> QED BY <6>3 DEF Promised
        <5>4. CASE d = c /\ ~(d < g /\ Reconcile(u, d) \in inbox)
          <6>1. Room(v) > 0 /\ rules[v] # {}
            BY <4>3, <4>7 DEF Waits
          <6>2. ~(p # 0 /\ Is(p, Jobless))
            BY <6>1, <5>a DEF accepted, Accepts, Jobless
          <6>3. work[m].next # 0 /\ work[m].next < g
            BY <5>1, <5>4, <6>2, <4>7, <1>p
          <6>4. n = work[m].next
            BY <5>a, <1>3
          <6>5. work'[m].stage # "idle" /\ work'[m].next # 0 /\ work'[m].next < g
            BY <6>3, <6>4, <1>4
          <6>6. Scans(u, g)'
            BY <6>5, <4>7 DEF Scans
          <6> QED BY <6>6 DEF Promised
        <5> QED BY <5>2, <5>3, <5>4
      <4> QED BY <4>3, <4>4, <4>5, <4>6, <4>7 DEF Promised
    <3> QED BY <3>1, <3>2
  <2> QED BY <2>0, <2>1, PromisesStay
<1> QED BY <1>7, <1>8, <1>9 DEF BacklogInv

\* A handler that has read the backlog claims; if it has queued nothing it goes on.
LEMMA GoesOnHolds ==
  ASSUME BacklogInv, NEW v \in Players, NEW c \in BacklogCursors, DispatchesBacklog(v, c)
  PROVE  BacklogInv'
<1>1. BacklogTypes /\ JobsTrue
  BY DEF BacklogInv
<1> DEFINE m == Reconcile(v, c)
           n == work[m].next
           wakeups == IF n = 0 THEN {} ELSE {Reconcile(v, n)}
<1>m. m \in Messages
  BY PlayersOf
<1>w. work \in [Messages -> Works] /\ work[m] \in Works /\ n \in BacklogCursors
  BY <1>1, <1>m DEF BacklogTypes, Works
<1>2. UNCHANGED <<rules, allowance, woken>> /\ Dispatches({v}, inbox, wakeups)
      /\ work' = [work EXCEPT ![m] = NoWork]
  BY DEF DispatchesBacklog, Done
<1>3. {v} \in SUBSET Players /\ inbox \in SUBSET Messages /\ wakeups \in SUBSET Messages
  <2>1. Reconcile(v, n) \in Messages
    BY <1>w, PlayersOf
  <2> QED BY <2>1, <1>1 DEF BacklogTypes
<1>4. n # 0 => Reconcile(v, n) \in wakeups
  OBVIOUS
<1> HIDE DEF wakeups
<1>5. /\ job' \in [BacklogGames -> BacklogRows]
      /\ inbox' \in SUBSET Messages /\ faults' \in Nat
      /\ faults' = 0 => faults = 0
      /\ inbox \subseteq inbox' /\ (faults' = faults => wakeups \subseteq inbox')
  BY <1>1, <1>2, <1>3, DispatchShape
<1>6. work' \in [Messages -> Works] /\ work'[m] = NoWork
      /\ \A x \in Messages : x # m => work'[x] = work[x]
  <2>1. NoWork \in Works
    BY DEF NoWork, Works, BacklogCursors
  <2> HIDE DEF m
  <2> QED BY <2>1, <1>2, <1>m, <1>w
<1>7. BacklogTypes'
  BY <1>1, <1>2, <1>5, <1>6 DEF BacklogTypes
<1>8. JobsTrue'
  <2>1. OffIsOff' /\ \A h \in BacklogGames : JobOK(h)'
    BY <1>1, <1>2, <1>3, DispatchTrue
  <2>2. \A u \in Players, d \in BacklogCursors :
          work'[Reconcile(u, d)] = work[Reconcile(u, d)] \/ work'[Reconcile(u, d)] = NoWork
    <3> SUFFICES ASSUME NEW u \in Players, NEW d \in BacklogCursors
                 PROVE  work'[Reconcile(u, d)] = work[Reconcile(u, d)] \/ work'[Reconcile(u, d)] = NoWork
      OBVIOUS
    <3>1. Reconcile(u, d) \in Messages
      BY PlayersOf
    <3> HIDE DEF m
    <3> QED BY <3>1, <1>6
  <2> QED BY <1>1, <2>1, <2>2, PicksKept DEF JobsTrue
<1>9. ASSUME faults' = 0 PROVE PromisesKept'
  <2>0. faults = 0 /\ Heartbeat \in inbox'
    BY <1>5, <1>9 DEF BacklogInv, PromisesKept
  <2>1. ASSUME NEW u \in Players, NEW g \in BacklogOf[u], Waits(u, g) => Promised(u, g), Waits(u, g)'
        PROVE  Promised(u, g)'
    <3>1. CASE Reconcile(u, 0) \in inbox'
      BY <3>1, StartedOver
    <3>2. CASE Reconcile(u, 0) \notin inbox'
      <4>1. /\ Keeps(u)
            /\ \A h \in BacklogOf[u] : /\ job'[h].run = job[h].run
                                       /\ Is(h, Unfinished)' <=> Is(h, Unfinished)
                                       /\ Is(h, Finished)' <=> Is(h, Finished)
        BY <1>1, <1>2, <1>3, <1>9, <2>0, <3>2, DispatchKeeps
      <4>2. Promised(u, g)
        BY <2>1, <4>1, WaitedBefore
      <4>3. CASE Sweeps(u)
        BY <4>3, <1>5 DEF Promised, Sweeps
      <4>4. CASE \E h \in BacklogOf[u] : EndComes(h)
        <5>1. PICK h \in BacklogOf[u] : EndComes(h)
          BY <4>4
        <5>2. JobMessage(h) \in Messages /\ JobMessage(h) # m
          BY PlayersOf DEF JobMessage, Reconcile
        <5>3. work'[JobMessage(h)] = work[JobMessage(h)]
          BY <5>2, <1>6
        <5>4. EndComes(h)'
          BY <5>1, <5>3, <4>1, <1>2, <1>5, EndsStay
        <5> QED BY <5>4 DEF Promised
      <4>5. CASE Scans(u, g)
        <5>1. PICK d \in BacklogCursors :
                \/ d < g /\ Reconcile(u, d) \in inbox
                \/ /\ work[Reconcile(u, d)].stage = "enqueue" /\ work[Reconcile(u, d)].pick # 0
                   /\ Is(work[Reconcile(u, d)].pick, Jobless)
                \/ /\ work[Reconcile(u, d)].stage # "idle" /\ work[Reconcile(u, d)].next # 0
                   /\ work[Reconcile(u, d)].next < g
          BY <4>5 DEF Scans
        <5>2. CASE d < g /\ Reconcile(u, d) \in inbox
          <6>1. Scans(u, g)'
            BY <5>2, <1>5 DEF Scans
          <6> QED BY <6>1 DEF Promised
        <5>3. CASE Reconcile(u, d) # m /\ ~(d < g /\ Reconcile(u, d) \in inbox)
          <6>1. work'[Reconcile(u, d)] = work[Reconcile(u, d)]
            BY <5>3, <1>6, PlayersOf
          <6>2. work[Reconcile(u, d)].pick \in {0} \cup BacklogOf[u]
            BY <1>1 DEF JobsTrue, PickOK
          <6>3. \A h \in BacklogOf[u] : Is(h, Jobless) => Is(h, Jobless)'
            BY <4>1 DEF Keeps
          <6>4. CASE /\ work[Reconcile(u, d)].stage = "enqueue" /\ work[Reconcile(u, d)].pick # 0
                     /\ Is(work[Reconcile(u, d)].pick, Jobless)
            <7>1. PICK h \in BacklogOf[u] : h = work[Reconcile(u, d)].pick
              BY <6>2, <6>4
            <7>2. Is(h, Jobless)'
              BY <7>1, <6>3, <6>4
            <7>3. /\ work'[Reconcile(u, d)].stage = "enqueue" /\ work'[Reconcile(u, d)].pick = h
                  /\ h # 0
              BY <7>1, <6>1, <6>4
            <7>4. Scans(u, g)'
              BY <7>2, <7>3 DEF Scans
            <7> QED BY <7>4 DEF Promised
          <6>5. CASE /\ work[Reconcile(u, d)].stage # "idle" /\ work[Reconcile(u, d)].next # 0
                     /\ work[Reconcile(u, d)].next < g
            <7>1. Scans(u, g)'
              BY <6>1, <6>5 DEF Scans
            <7> QED BY <7>1 DEF Promised
          <6> QED BY <5>1, <5>3, <6>4, <6>5
        <5>4. CASE Reconcile(u, d) = m /\ ~(d < g /\ Reconcile(u, d) \in inbox)
          <6>1. u = v
            BY <5>4 DEF Reconcile
          <6>2. work[m].stage = "dispatch"
            BY DEF DispatchesBacklog
          <6>3. n # 0 /\ n < g
            BY <5>1, <5>4, <6>2
          <6>4. Reconcile(u, n) \in inbox'
            BY <6>1, <6>3, <1>4, <1>5, <1>9, <2>0
          <6>5. \E e \in BacklogCursors : e < g /\ Reconcile(u, e) \in inbox'
            BY <6>3, <6>4, <1>w
          <6>6. Scans(u, g)'
            BY <6>5 DEF Scans
          <6> QED BY <6>6 DEF Promised
        <5> QED BY <5>2, <5>3, <5>4
      <4> QED BY <4>2, <4>3, <4>4, <4>5 DEF Promised
    <3> QED BY <3>1, <3>2
  <2> QED BY <2>0, <2>1, PromisesStay
<1> QED BY <1>7, <1>8, <1>9 DEF BacklogInv

\* A delivery starts its job, if the claim still stands.
LEMMA StartsHolds ==
  ASSUME BacklogInv, NEW i \in BacklogGames, StartsJob(i)
  PROVE  BacklogInv'
<1>1. BacklogTypes /\ JobsTrue
  BY DEF BacklogInv
<1> DEFINE m == JobMessage(i)
<1>m. m \in Messages
  BY PlayersOf
<1>t. job \in [BacklogGames -> BacklogRows] /\ job[i] \in BacklogRows
      /\ work \in [Messages -> Works] /\ work[m] \in Works
  BY <1>1, <1>m DEF BacklogTypes
<1>2. /\ UNCHANGED <<rules, allowance, woken, faults>> /\ work[m] = NoWork /\ inbox' = inbox \ {m}
      /\ job' = IF Is(i, {"leased"})
                THEN [job EXCEPT ![i].status = "running", ![i].tries = @ + 1] ELSE job
      /\ work' = [work EXCEPT ![m].stage = IF Is(i, {"leased"}) THEN "run" ELSE "after"]
  BY DEF StartsJob
<1>3. /\ work' \in [Messages -> Works] /\ work'[m] # NoWork
      /\ \A x \in Messages : x # m => work'[x] = work[x]
  <2>1. PICK s \in {"run", "after"} : work' = [work EXCEPT ![m].stage = s]
    <3>1. CASE Is(i, {"leased"})
      BY <3>1, <1>2
    <3>2. CASE ~Is(i, {"leased"})
      BY <3>2, <1>2
    <3> QED BY <3>1, <3>2
  <2> HIDE DEF m
  <2>2. [work[m] EXCEPT !.stage = s] \in Works /\ [work[m] EXCEPT !.stage = s].stage # "idle"
    BY <1>t DEF Works
  <2>3. work' = [work EXCEPT ![m] = [work[m] EXCEPT !.stage = s]]
    BY <2>1
  <2>4. work'[m] = [work[m] EXCEPT !.stage = s]
    BY <2>3, <1>t, <1>m
  <2> QED BY <2>2, <2>3, <2>4, <1>t, <1>m DEF NoWork
<1>4. /\ job' \in [BacklogGames -> BacklogRows]
      /\ \A h \in BacklogGames :
           \/ job'[h] = job[h]
           \/ /\ Is(h, {"leased"}) /\ job'[h].status = "running"
              /\ job'[h].tries = job[h].tries + 1 /\ job'[h].run = job[h].run
  <2>1. CASE ~Is(i, {"leased"})
    BY <2>1, <1>2, <1>t
  <2>2. CASE Is(i, {"leased"})
    <3>1. job' = [job EXCEPT ![i] = [job[i] EXCEPT !.status = "running", !.tries = job[i].tries + 1]]
      BY <1>2, <2>2
    <3>2. [job[i] EXCEPT !.status = "running", !.tries = job[i].tries + 1] \in BacklogRows
      <4>1. job[i].tries + 1 \in Nat
        BY <1>t DEF BacklogRows
      <4>2. "running" \in JobStatuses
        BY DEF JobStatuses, Unfinished, UnderLease
      <4> QED BY <4>1, <4>2, <1>t DEF BacklogRows
    <3>3. /\ [job[i] EXCEPT !.status = "running", !.tries = job[i].tries + 1].status = "running"
          /\ [job[i] EXCEPT !.status = "running", !.tries = job[i].tries + 1].tries = job[i].tries + 1
          /\ [job[i] EXCEPT !.status = "running", !.tries = job[i].tries + 1].run = job[i].run
      BY <1>t DEF BacklogRows
    <3> QED BY <3>1, <3>2, <3>3, <1>t, <2>2
  <2> QED BY <2>1, <2>2
<1>5. BacklogTypes'
  <2>1. inbox' \in SUBSET Messages
    BY <1>1, <1>2 DEF BacklogTypes
  <2> QED BY <1>1, <1>2, <1>3, <1>4, <2>1 DEF BacklogTypes
<1>6. \A h \in BacklogGames :
        /\ job'[h].run = job[h].run
        /\ Is(h, Unfinished)' <=> Is(h, Unfinished)
        /\ Is(h, Finished)' <=> Is(h, Finished)
        /\ Is(h, Jobless)' <=> Is(h, Jobless)
        /\ Is(h, Unfinished \cup {"succeeded"})' <=> Is(h, Unfinished \cup {"succeeded"})
  BY <1>4 DEF Is, Unfinished, UnderLease, Finished, Jobless
<1>7. JobsTrue'
  <2>1. ASSUME NEW h \in BacklogGames PROVE JobOK(h)'
    <3>1. JobOK(h)
      BY <1>1 DEF JobsTrue
    <3>2. Is(h, {"running", "waiting", "lapsed"})' => job'[h].tries > 0
      <4>1. job[h].tries \in Nat
        BY <1>t DEF BacklogRows
      <4> QED BY <4>1, <1>4, <3>1 DEF JobOK, Is
    <3> QED BY <1>2, <1>6, <3>1, <3>2, JobKept
  <2>2. OffIsOff'
    <3> SUFFICES ASSUME NEW u \in Players, rules'[u] = {}, NEW h \in BacklogOf[u],
                        Is(h, {"queued", "leased"})'
                 PROVE  job'[h].tries > 0
      BY DEF OffIsOff
    <3>1. h \in BacklogGames /\ rules[u] = {}
      BY PlayersOf, <1>2
    <3>2. job'[h] = job[h] /\ Is(h, {"queued", "leased"})
      BY <3>1, <1>4 DEF Is
    <3> QED BY <3>1, <3>2, <1>1 DEF JobsTrue, OffIsOff
  <2>3. \A u \in Players, d \in BacklogCursors : work'[Reconcile(u, d)] = work[Reconcile(u, d)]
    BY <1>3, PlayersOf DEF Reconcile, JobMessage
  <2> QED BY <1>1, <2>1, <2>2, <2>3, PicksKept DEF JobsTrue
<1>8. ASSUME faults' = 0 PROVE PromisesKept'
  <2>0. faults = 0 /\ Heartbeat \in inbox'
    BY <1>2, <1>8 DEF BacklogInv, PromisesKept, Heartbeat, JobMessage
  <2>1. ASSUME NEW u \in Players, NEW g \in BacklogOf[u], Waits(u, g) => Promised(u, g)
        PROVE  Waits(u, g)' => Promised(u, g)'
    <3>0. \A h \in BacklogOf[u] : h \in BacklogGames
      BY PlayersOf
    <3>1. Keeps(u)
      BY <3>0, <1>2, <1>6 DEF Keeps
    <3>2. KeepsScans(u)
      BY <1>2, <1>3, PlayersOf DEF KeepsScans, Reconcile, JobMessage
    <3>3. KeepsSweeps
      BY <1>2 DEF KeepsSweeps, Sweep, JobMessage
    <3>4. KeepsEnds(u)
      <4> SUFFICES ASSUME NEW h \in BacklogOf[u], EndComes(h) PROVE EndComes(h)'
        BY DEF KeepsEnds
      <4>1. h \in BacklogGames /\ JobMessage(h) \in Messages
        BY <3>0, PlayersOf
      <4>2. CASE JobMessage(h) = m
        BY <4>1, <4>2, <1>2, <1>3, <1>6, EndsStay
      <4>3. CASE JobMessage(h) # m
        <5>1. work'[JobMessage(h)] = work[JobMessage(h)]
              /\ (JobMessage(h) \in inbox => JobMessage(h) \in inbox')
          BY <4>1, <4>3, <1>2, <1>3
        <5> QED BY <4>1, <5>1, <1>2, <1>6, EndsStay
      <4> QED BY <4>2, <4>3
    <3> QED BY <1>1, <2>1, <3>1, <3>2, <3>3, <3>4, PromiseKept
  <2> QED BY <2>0, <2>1, PromisesStay
<1> QED BY <1>5, <1>7, <1>8 DEF BacklogInv

\* A run ends; its end is announced after it.
LEMMA EndsHolds ==
  ASSUME BacklogInv, NEW i \in BacklogGames, NEW status \in {"succeeded", "failed", "waiting"},
         EndsJob(i, status)
  PROVE  BacklogInv'
<1>1. BacklogTypes /\ JobsTrue
  BY DEF BacklogInv
<1> DEFINE m == JobMessage(i)
<1>m. m \in Messages
  BY PlayersOf
<1>t. /\ job \in [BacklogGames -> BacklogRows] /\ job[i] \in BacklogRows /\ faults \in Nat
      /\ work \in [Messages -> Works] /\ work[m] \in Works /\ inbox \in SUBSET Messages
  BY <1>1, <1>m DEF BacklogTypes
<1>2. /\ UNCHANGED <<rules, allowance, woken>>
      /\ job' = IF Is(i, {"running"}) THEN [job EXCEPT ![i].status = status] ELSE job
      /\ inbox' = IF status = "failed" /\ Is(i, {"running"})
                  THEN inbox \cup {Reconcile(PlayerOf(i), 0)} ELSE inbox
      /\ faults' = IF status = "succeeded" THEN faults ELSE faults + 1
      /\ work' = [work EXCEPT ![m].stage = "after"]
  BY DEF EndsJob
<1>3. /\ work' \in [Messages -> Works] /\ work'[m] # NoWork
      /\ \A x \in Messages : x # m => work'[x] = work[x]
  <2> HIDE DEF m
  <2>2. [work[m] EXCEPT !.stage = "after"] \in Works /\ [work[m] EXCEPT !.stage = "after"].stage # "idle"
    BY <1>t DEF Works
  <2>3. work' = [work EXCEPT ![m] = [work[m] EXCEPT !.stage = "after"]]
    BY <1>2
  <2>4. work'[m] = [work[m] EXCEPT !.stage = "after"]
    BY <2>3, <1>t, <1>m
  <2> QED BY <2>2, <2>3, <2>4, <1>t, <1>m DEF NoWork
<1>4. /\ job' \in [BacklogGames -> BacklogRows]
      /\ \A h \in BacklogGames :
           \/ job'[h] = job[h]
           \/ /\ h = i /\ Is(h, {"running"}) /\ job'[h].status = status
              /\ job'[h].tries = job[h].tries /\ job'[h].run = job[h].run
  <2>1. CASE ~Is(i, {"running"})
    BY <2>1, <1>2, <1>t
  <2>2. CASE Is(i, {"running"})
    <3>1. job' = [job EXCEPT ![i] = [job[i] EXCEPT !.status = status]]
      BY <1>2, <2>2
    <3>2. [job[i] EXCEPT !.status = status] \in BacklogRows
      BY <1>t DEF BacklogRows, JobStatuses, Unfinished, UnderLease, Finished
    <3>3. /\ [job[i] EXCEPT !.status = status].status = status
          /\ [job[i] EXCEPT !.status = status].tries = job[i].tries
          /\ [job[i] EXCEPT !.status = status].run = job[i].run
      BY <1>t DEF BacklogRows
    <3> QED BY <3>1, <3>2, <3>3, <1>t, <2>2
  <2> QED BY <2>1, <2>2
<1>5. /\ inbox' \in SUBSET Messages /\ inbox \subseteq inbox'
      /\ faults' \in Nat /\ (faults' = 0 => faults = 0 /\ status = "succeeded")
  <2>1. Reconcile(PlayerOf(i), 0) \in Messages
    BY PlayersOf DEF BacklogCursors
  <2> QED BY <2>1, <1>2, <1>t
<1>6. BacklogTypes'
  BY <1>1, <1>2, <1>3, <1>4, <1>5 DEF BacklogTypes
<1>7. JobsTrue'
  <2>1. ASSUME NEW h \in BacklogGames PROVE JobOK(h)'
    <3>1. JobOK(h)
      BY <1>1 DEF JobsTrue
    <3>2. Is(h, {"running", "waiting", "lapsed"})' => job'[h].tries > 0
      BY <1>4, <3>1 DEF JobOK, Is
    <3>3. Is(h, Finished) => Is(h, Finished)'
      BY <1>4 DEF Is, Finished
    <3> QED BY <1>2, <1>4, <3>1, <3>2, <3>3, JobKept
  <2>2. OffIsOff'
    <3> SUFFICES ASSUME NEW u \in Players, rules'[u] = {}, NEW h \in BacklogOf[u],
                        Is(h, {"queued", "leased"})'
                 PROVE  job'[h].tries > 0
      BY DEF OffIsOff
    <3>1. h \in BacklogGames /\ rules[u] = {}
      BY PlayersOf, <1>2
    <3>2. job'[h] = job[h] /\ Is(h, {"queued", "leased"})
      BY <3>1, <1>4 DEF Is
    <3> QED BY <3>1, <3>2, <1>1 DEF JobsTrue, OffIsOff
  <2>3. \A u \in Players, d \in BacklogCursors : work'[Reconcile(u, d)] = work[Reconcile(u, d)]
    BY <1>3, PlayersOf DEF Reconcile, JobMessage
  <2> QED BY <1>1, <2>1, <2>2, <2>3, PicksKept DEF JobsTrue
<1>8. ASSUME faults' = 0 PROVE PromisesKept'
  <2>0. faults = 0 /\ status = "succeeded" /\ Heartbeat \in inbox'
    BY <1>5, <1>8 DEF BacklogInv, PromisesKept
  <2>1. ASSUME NEW u \in Players, NEW g \in BacklogOf[u], Waits(u, g) => Promised(u, g)
        PROVE  Waits(u, g)' => Promised(u, g)'
    <3>0. \A h \in BacklogOf[u] : h \in BacklogGames
      BY PlayersOf
    <3>1. Keeps(u)
      <4>1. ASSUME NEW h \in BacklogOf[u]
            PROVE /\ Is(h, Jobless)' <=> Is(h, Jobless)
                  /\ Is(h, Unfinished \cup {"succeeded"})' <=> Is(h, Unfinished \cup {"succeeded"})
        BY <3>0, <2>0, <1>4 DEF Is, Jobless, Unfinished, UnderLease
      <4> QED BY <4>1, <1>2 DEF Keeps
    <3>2. KeepsScans(u) /\ KeepsSweeps
      BY <1>3, <1>5, PlayersOf DEF KeepsScans, KeepsSweeps, Reconcile, JobMessage
    <3>4. KeepsEnds(u)
      <4> SUFFICES ASSUME NEW h \in BacklogOf[u], EndComes(h) PROVE EndComes(h)'
        BY DEF KeepsEnds
      <4>1. h \in BacklogGames /\ JobMessage(h) \in Messages
        BY <3>0, PlayersOf
      <4>2. JobMessage(h) \in inbox \/ work[JobMessage(h)] # NoWork
            => JobMessage(h) \in inbox' \/ work'[JobMessage(h)] # NoWork
        BY <4>1, <1>3, <1>5
      <4>3. CASE job'[h] = job[h]
        BY <4>2, <4>3, <1>2, EndsStay DEF Is
      <4>4. CASE h = i /\ Is(h, {"running"}) /\ job'[h].status = status /\ job'[h].run = job[h].run
        <5>1. JobOK(h) /\ job[h].run \in Nat /\ ~Is(h, Finished)
          BY <1>1, <1>t, <4>1, <4>4 DEF JobsTrue, BacklogRows, Is, Finished
        <5>2. <<h, job[h].run>> \notin woken
          BY <5>1 DEF JobOK
        <5>3. Is(h, Finished)'
          BY <4>4, <2>0 DEF Is, Finished
        <5> QED BY <4>4, <5>2, <5>3, <1>2, <1>3 DEF EndComes
      <4> QED BY <4>1, <4>3, <4>4, <1>4
    <3> QED BY <1>1, <2>1, <3>1, <3>2, <3>4, PromiseKept
  <2> QED BY <2>0, <2>1, PromisesStay
<1> QED BY <1>6, <1>7, <1>8 DEF BacklogInv

\* What a handler of a delivery does last: it claims, and announces the end of the run.
LEMMA AfterHolds ==
  ASSUME BacklogInv, NEW i \in BacklogGames, AfterJob(i)
  PROVE  BacklogInv'
<1>1. BacklogTypes /\ JobsTrue
  BY DEF BacklogInv
<1> DEFINE m == JobMessage(i)
           wakes == Is(i, Finished) /\ <<i, job[i].run>> \notin woken
           wakeups == IF wakes THEN {Reconcile(PlayerOf(i), 0)} ELSE {}
<1>m. m \in Messages
  BY PlayersOf
<1>w. work \in [Messages -> Works] /\ work[m] \in Works
  BY <1>1, <1>m DEF BacklogTypes
<1>2. /\ UNCHANGED <<rules, allowance>> /\ Dispatches(Players, inbox, wakeups)
      /\ work' = [work EXCEPT ![m] = NoWork]
      /\ woken' = IF wakes /\ faults' = faults THEN woken \cup {<<i, job[i].run>>} ELSE woken
  BY DEF AfterJob, Done, Is
<1>3. Players \in SUBSET Players /\ inbox \in SUBSET Messages /\ wakeups \in SUBSET Messages
  <2>1. Reconcile(PlayerOf(i), 0) \in Messages
    BY PlayersOf DEF BacklogCursors
  <2> QED BY <2>1, <1>1 DEF BacklogTypes
<1>4. wakes => Reconcile(PlayerOf(i), 0) \in wakeups
  OBVIOUS
<1> HIDE DEF wakeups
<1>5. /\ job' \in [BacklogGames -> BacklogRows]
      /\ inbox' \in SUBSET Messages /\ faults' \in Nat
      /\ faults' = 0 => faults = 0
      /\ inbox \subseteq inbox' /\ (faults' = faults => wakeups \subseteq inbox')
  BY <1>1, <1>2, <1>3, DispatchShape
<1>6. work' \in [Messages -> Works] /\ work'[m] = NoWork
      /\ \A x \in Messages : x # m => work'[x] = work[x]
  <2>1. NoWork \in Works
    BY DEF NoWork, Works, BacklogCursors
  <2> HIDE DEF m
  <2> QED BY <2>1, <1>2, <1>m, <1>w
<1>7. BacklogTypes'
  BY <1>1, <1>2, <1>5, <1>6 DEF BacklogTypes
<1>8. JobsTrue'
  <2>0. \A h \in BacklogGames : \A r \in Nat : <<h, r>> \in woken' =>
          <<h, r>> \in woken \/ (r = job[h].run /\ Is(h, Finished))
    BY <1>2
  <2>1. OffIsOff' /\ \A h \in BacklogGames : JobOK(h)'
    BY <1>1, <1>2, <1>3, <2>0, DispatchTrue
  <2>2. \A u \in Players, d \in BacklogCursors : work'[Reconcile(u, d)] = work[Reconcile(u, d)]
    BY <1>6, PlayersOf DEF Reconcile, JobMessage
  <2> QED BY <1>1, <2>1, <2>2, PicksKept DEF JobsTrue
<1>9. ASSUME faults' = 0 PROVE PromisesKept'
  <2>0. faults = 0 /\ Heartbeat \in inbox'
    BY <1>5, <1>9 DEF BacklogInv, PromisesKept
  <2>1. ASSUME NEW u \in Players, NEW g \in BacklogOf[u], Waits(u, g) => Promised(u, g)
        PROVE  Waits(u, g)' => Promised(u, g)'
    <3>1. CASE Reconcile(u, 0) \in inbox'
      BY <3>1, StartedOver
    <3>2. CASE Reconcile(u, 0) \notin inbox'
      <4>1. /\ Keeps(u)
            /\ \A h \in BacklogOf[u] : /\ job'[h].run = job[h].run
                                       /\ Is(h, Unfinished)' <=> Is(h, Unfinished)
                                       /\ Is(h, Finished)' <=> Is(h, Finished)
        BY <1>1, <1>2, <1>3, <1>9, <2>0, <3>2, DispatchKeeps
      <4>2. KeepsScans(u) /\ KeepsSweeps
        BY <1>5, <1>6, PlayersOf DEF KeepsScans, KeepsSweeps, Reconcile, JobMessage
      <4>3. KeepsEnds(u)
        <5> SUFFICES ASSUME NEW h \in BacklogOf[u], EndComes(h) PROVE EndComes(h)'
          BY DEF KeepsEnds
        <5>1. h \in BacklogGames /\ JobMessage(h) \in Messages /\ PlayerOf(h) = u
          BY PlayersOf
        <5>2. CASE h = i
          <6>1. ~wakes
            BY <5>1, <5>2, <3>2, <1>4, <1>5, <1>9, <2>0
          <6>2. Is(h, Unfinished)'
            BY <6>1, <5>2, <4>1 DEF EndComes
          <6> QED BY <6>2 DEF EndComes
        <5>3. CASE h # i
          <6>1. JobMessage(h) # m
            BY <5>3 DEF JobMessage
          <6>2. work'[JobMessage(h)] = work[JobMessage(h)]
            BY <5>1, <6>1, <1>6
          <6>3. <<h, job[h].run>> \in woken' => <<h, job[h].run>> \in woken
            BY <5>3, <1>2
          <6> QED BY <6>2, <6>3, <4>1, <1>5, EndsStay
        <5> QED BY <5>2, <5>3
      <4> QED BY <1>1, <2>1, <4>1, <4>2, <4>3, PromiseKept
    <3> QED BY <3>1, <3>2
  <2> QED BY <2>0, <2>1, PromisesStay
<1> QED BY <1>7, <1>8, <1>9 DEF BacklogInv

\* What is lost is a fault; nothing is promised then.
LEMMA LossHolds ==
  ASSUME BacklogInv, NEW m \in Messages, StopsWork(m) \/ GivesUp(m)
  PROVE  BacklogInv'
<1>1. BacklogTypes /\ JobsTrue
  BY DEF BacklogInv
<1>2. /\ UNCHANGED <<rules, allowance, job, woken>> /\ faults' = faults + 1
      /\ inbox' \in SUBSET Messages /\ (work' = work \/ work' = [work EXCEPT ![m] = NoWork])
  BY <1>1 DEF StopsWork, GivesUp, Done, BacklogTypes
<1>3. work' \in [Messages -> Works] /\ \A x \in Messages : work'[x] = work[x] \/ work'[x] = NoWork
  <2>1. NoWork \in Works
    BY DEF NoWork, Works, BacklogCursors
  <2> QED BY <2>1, <1>1, <1>2 DEF BacklogTypes
<1>4. BacklogTypes'
  BY <1>1, <1>2, <1>3 DEF BacklogTypes
<1>5. JobsTrue'
  <2>1. \A u \in Players, d \in BacklogCursors :
          work'[Reconcile(u, d)] = work[Reconcile(u, d)] \/ work'[Reconcile(u, d)] = NoWork
    BY <1>3, PlayersOf
  <2> QED BY <1>1, <1>2, <2>1, JobsStay
<1>6. faults' # 0
  BY <1>1, <1>2 DEF BacklogTypes
<1> QED BY <1>4, <1>5, <1>6 DEF BacklogInv

LEMMA BacklogBegins == BacklogInit => BacklogInv
<1> SUFFICES ASSUME BacklogInit PROVE BacklogInv
  OBVIOUS
<1>1. \A g \in BacklogGames : job[g].status \in {"absent", "none"} /\ job[g].run = 0 /\ job[g].tries = 0
  BY DEF BacklogInit
<1>2. \A m \in Messages : work[m] = NoWork
  BY DEF BacklogInit
<1>3. BacklogTypes
  <2>1. job \in [BacklogGames -> BacklogRows]
    BY DEF BacklogInit, BacklogRows, JobStatuses, Jobless
  <2>2. work \in [Messages -> Works]
    BY DEF BacklogInit, NoWork, Works, BacklogCursors
  <2>3. inbox \in SUBSET Messages
    BY PlayersOf DEF BacklogInit
  <2> QED BY <2>1, <2>2, <2>3 DEF BacklogInit, BacklogTypes
<1>4. JobsTrue
  <2>1. OffIsOff
    BY <1>1, PlayersOf DEF OffIsOff, Is
  <2>2. \A g \in BacklogGames : JobOK(g)
    BY <1>1 DEF JobOK, Is, BacklogInit
  <2>3. \A u \in Players, c \in BacklogCursors : PickOK(u, c)
    BY <1>2, PlayersOf DEF PickOK, NoWork
  <2> QED BY <2>1, <2>2, <2>3 DEF JobsTrue
<1>5. PromisesKept
  <2>1. ASSUME NEW u \in Players PROVE Sweeps(u)
    <3>1. 0 < u
      BY PlayersOf
    <3> QED BY <3>1 DEF Sweeps, BacklogInit
  <2> QED BY <2>1 DEF PromisesKept, Promised, BacklogInit
<1> QED BY <1>3, <1>4, <1>5 DEF BacklogInv

LEMMA BacklogSteps == BacklogInv /\ [BacklogNext]_backlogVars => BacklogInv'
<1> SUFFICES ASSUME BacklogInv, [BacklogNext]_backlogVars PROVE BacklogInv'
  OBVIOUS
<1>1. CASE Daily
  BY <1>1, DailyHolds
<1>2. CASE Beats
  BY <1>2, BeatsHolds
<1>3. CASE \E c \in {0} \cup Players : SweepPlayers(c)
  BY <1>3, SweepHolds
<1>4. ASSUME NEW u \in Players, Renew(u) PROVE BacklogInv'
  BY <1>4, RenewHolds
<1>5. ASSUME NEW u \in Players, NEW classes \in SUBSET {ClassOf[g] : g \in BacklogGames},
             ChangeRules(u, classes)
      PROVE  BacklogInv'
  BY <1>5, ChangeHolds
<1>6. ASSUME NEW u \in Players, NEW c \in {0} \cup BacklogGames, HandlesBacklog(u, c)
      PROVE  BacklogInv'
  BY <1>6, ReadsHolds, EnqueuesHolds, GoesOnHolds DEF HandlesBacklog, BacklogCursors
<1>7. ASSUME NEW g \in BacklogGames,
             \/ Imports(g) \/ LeaseLapses(g) \/ FallsDue(g) \/ HandlesJob(g)
             \/ EndsJob(g, "failed") \/ EndsJob(g, "waiting")
      PROVE  BacklogInv'
  <2>1. CASE Imports(g)
    BY <2>1, ImportsHolds
  <2>2. CASE LeaseLapses(g) \/ FallsDue(g)
    BY <2>2, LapsesHolds
  <2>3. CASE StartsJob(g)
    BY <2>3, StartsHolds
  <2>4. CASE AfterJob(g)
    BY <2>4, AfterHolds
  <2>5. ASSUME NEW s \in {"succeeded", "failed", "waiting"}, EndsJob(g, s) PROVE BacklogInv'
    BY <2>5, EndsHolds
  <2> QED BY <1>7, <2>1, <2>2, <2>3, <2>4, <2>5 DEF HandlesJob
<1>8. CASE \E m \in Messages : StopsWork(m) \/ GivesUp(m)
  BY <1>8, LossHolds
<1>9. CASE UNCHANGED backlogVars
  <2>1. UNCHANGED <<rules, allowance, job, inbox, work, woken, changes, faults>>
    BY <1>9 DEF backlogVars
  <2> QED BY <2>1 DEF BacklogInv, BacklogTypes, JobsTrue, PromisesKept, OffIsOff, JobOK, PickOK, Waits,
                     Promised, Scans, Sweeps, EndComes, Is, Room, Committed
<1> QED BY <1>1, <1>2, <1>3, <1>4, <1>5, <1>6, <1>7, <1>8, <1>9 DEF BacklogNext

\* What is promised wakes the player.
LEMMA BacklogTold == BacklogInv => BacklogHolds
<1> SUFFICES ASSUME BacklogInv PROVE BacklogHolds
  OBVIOUS
<1>1. BacklogTypes /\ OffIsOff
  BY DEF BacklogInv, JobsTrue
<1>w. DOMAIN work = Messages
  BY <1>1 DEF BacklogTypes
<1>2. ASSUME faults = 0, NEW g \in Long, Is(g, {"none", "cancelled"}),
             ClassOf[g] \in rules[PlayerOf(g)], Room(PlayerOf(g)) > 0
      PROVE  Woken(PlayerOf(g))
  <2>1. g \in BacklogGames
    BY BacklogAssumption DEF BacklogGames
  <2>2. PICK u \in Players : u = PlayerOf(g) /\ g \in BacklogOf[u]
    BY <2>1, PlayersOf
  <2>3. Waits(u, g)
    BY <1>2, <2>2 DEF Waits, Jobless
  <2>4. Promised(u, g) /\ Heartbeat \in inbox
    BY <1>2, <2>2, <2>3 DEF BacklogInv, PromisesKept
  <2>5. CASE Scans(u, g)
    <3>1. PICK c \in BacklogCursors : Reconcile(u, c) \in inbox \/ work[Reconcile(u, c)].stage # "idle"
      BY <2>5 DEF Scans
    <3>2. Reconcile(u, c) \in inbox \cup {n \in DOMAIN work : work[n] # NoWork}
      BY <3>1, <1>w, PlayersOf DEF NoWork
    <3>3. Reconcile(u, c)[1] = "reconcile" /\ Reconcile(u, c)[2] = u
      BY DEF Reconcile
    <3>4. Woken(u)
      BY <3>2, <3>3 DEF Woken
    <3> QED BY <3>4, <2>2
  <2>6. CASE Sweeps(u)
    <3>1. PICK c \in {0} \cup Players : c < u /\ Sweep(c) \in inbox
      BY <2>6 DEF Sweeps
    <3>2. Sweep(c)[1] = "sweep" /\ Sweep(c)[3] = c
      BY DEF Sweep
    <3>3. Woken(u)
      BY <3>1, <3>2 DEF Woken
    <3> QED BY <3>3, <2>2
  <2>7. CASE \E h \in BacklogOf[u] : EndComes(h)
    <3>1. Woken(u)
      BY <2>4, <2>7 DEF EndComes, Woken
    <3> QED BY <3>1, <2>2
  <2> QED BY <2>4, <2>5, <2>6, <2>7 DEF Promised
<1>3. NoneForgotten
  BY <1>2 DEF NoneForgotten
<1> QED BY <1>1, <1>3 DEF BacklogHolds

\* Nothing that a player has turned off is started; and as long as nothing is lost, no
\* game that is on automatic and could be paid for waits for the next day's cron
\* (autoAnalysisBacklog.ts), for any players, games, pages, scans and plans.
THEOREM BacklogKept == BacklogSpec => []BacklogHolds
<1>1. BacklogSpec => []BacklogInv
  BY BacklogBegins, BacklogSteps, PTL DEF BacklogSpec
<1>2. []BacklogInv => []BacklogHolds
  BY BacklogTold, PTL
<1> QED BY <1>1, <1>2, PTL

================================================================================
