--------------------------- MODULE EmailReservations ---------------------------
(***************************************************************************)
(* The e-mails of notifications (lib/notifications/delivery.ts), the        *)
(* reservations that fence their hand-over to the provider                  *)
(* (lib/notifications/emailReservations.ts) and the provider's events       *)
(* (api/webhooks/smtp2go/route.ts).                                         *)
(*                                                                          *)
(* The provider knows no idempotency key.  An invocation may stop between   *)
(* any two of its steps, its leases may expire while it still runs, queue   *)
(* messages and provider events may come twice and in any order.            *)
(***************************************************************************)
EXTENDS Integers, Sequences, FiniteSets, FiniteSetsExt

CONSTANTS Deliveries,    \* e-mail deliveries of one user
          Practice,      \* those about practice: one in a local day
          Priority,      \* those about billing, on the reserved part of the budget
          Workers,
          DailyLimit, Reserve,     \* of the provider's daily budget
          MaxAttempts,             \* MAX_DELIVERY_ATTEMPTS
          MaxDays, MaxDispatches,
          NoReservation

ASSUME MailAssumption ==
  /\ DailyLimit \in Nat \ {0} /\ Reserve \in 0..DailyLimit
  /\ MaxAttempts \in Nat /\ MaxDays \in Nat \ {0}

VARIABLES
  delivery,       \* status, token and attempts of each row
  dispatches,     \* tokens drawn for it; every message of a token stays around
  worker,         \* the invocations that process a message
  reservations,   \* in the order of their creation
  budget,         \* the day's counters
  today,
  blocked,        \* what the user's preferences block
  mails           \* what the provider has accepted

mailVars == <<delivery, dispatches, worker, reservations, budget, today, blocked, mails>>

Days == 1..MaxDays
Final == {"SENT", "FAILED", "DELIVERED", "BOUNCED", "COMPLAINED", "SUPPRESSED", "CANCELLED"}
Idle == [of |-> NoReservation, token |-> 0, stage |-> "idle", window |-> 0, at |-> 0]

-----------------------------------------------------------------------------
\* Reservations.

Optional(d) == d \notin Priority

\* Mutant: evidence of a hand-over expires like a reservation.
ExpiredAnyway(r) == r.status \in {"RESERVED", "HANDOFF"} /\ ~r.live

Expired(r) == r.status = "RESERVED" /\ ~r.live

\* The budget without the slots of released reservations.
SlotsOf(which) ==
  [day \in Days |->
    LET of == {i \in which : reservations[i].day = day} IN
    [all |-> budget[day].all - Cardinality(of),
     optional |-> budget[day].optional
                  - Cardinality({i \in of : Optional(reservations[i].of)})]]

Released(which) ==
  [i \in DOMAIN reservations |->
     IF i \in which THEN [reservations[i] EXCEPT !.status = "RELEASED"] ELSE reservations[i]]

\* Reservations whose owners are gone, released before every claim.
Lapsed == {i \in DOMAIN reservations : Expired(reservations[i])}

\* The attempts of a delivery, and the practice e-mails of a window, that are
\* neither released nor lapsed.
Holding == {i \in DOMAIN reservations : reservations[i].status # "RELEASED"} \ Lapsed
AttemptsOf(d) == {i \in Holding : reservations[i].of = d}
WindowOwners(window) == {i \in Holding : window # 0 /\ reservations[i].window = window}

\* claimEmailReservation: replayed, refused, postponed, cancelled or claimed.
Claim(d, window) ==
  LET same == {reservations[i].status : i \in AttemptsOf(d)}
      free == SlotsOf(Lapsed)[today]
  IN CASE "SENT" \in same -> "sent"
       [] "SENT" \notin same /\ same \cap {"HANDOFF", "AMBIGUOUS"} # {} -> "failed"
       [] same = {"RESERVED"} -> "postponed"
       [] same = {} /\ \/ free.all >= DailyLimit
                       \/ Optional(d) /\ free.optional >= DailyLimit - Reserve -> "postponed"
       [] OTHER -> IF WindowOwners(window) # {} THEN "cancelled" ELSE "reserved"

NewReservation(d, window) ==
  [of |-> d, status |-> "RESERVED", live |-> TRUE, day |-> today, window |-> window]

Reservation(w) == reservations[worker[w].at]

SetReservation(w, status) ==
  reservations' = [reservations EXCEPT ![worker[w].at].status = status]

-----------------------------------------------------------------------------
\* Dispatch.

\* A due row gets a token and a message, or goes back when there is no queue.
Dispatch(d) ==
  /\ delivery[d].status = "PENDING" /\ dispatches[d] < MaxDispatches
  /\ dispatches' = [dispatches EXCEPT ![d] = @ + 1]
  /\ \/ delivery' = [delivery EXCEPT ![d].status = "QUEUED", ![d].token = dispatches[d] + 1]
     \/ UNCHANGED delivery
  /\ UNCHANGED <<worker, reservations, budget, today, blocked, mails>>

\* A row whose lease has expired is due again; its invocation may still run.
Recover(d) ==
  /\ delivery[d].status \in {"QUEUED", "PROCESSING"}
  /\ delivery' = [delivery EXCEPT ![d].status = "PENDING", ![d].token = 0]
  /\ UNCHANGED <<dispatches, worker, reservations, budget, today, blocked, mails>>

ReservationExpires(i) ==
  /\ reservations[i].live
  /\ reservations' = [reservations EXCEPT ![i].live = FALSE]
  /\ UNCHANGED <<delivery, dispatches, worker, budget, today, blocked, mails>>

Tomorrow ==
  /\ today < MaxDays
  /\ today' = today + 1
  /\ UNCHANGED <<delivery, dispatches, worker, reservations, budget, blocked, mails>>

-----------------------------------------------------------------------------
\* An invocation.

To(w, stage) == worker' = [worker EXCEPT ![w].stage = stage]

Take(w, d, token) ==
  /\ worker[w] = Idle
  /\ delivery[d].status = "QUEUED" /\ delivery[d].token = token
  /\ delivery' = [delivery EXCEPT ![d].status = "PROCESSING", ![d].attempts = @ + 1]
  /\ worker' = [worker EXCEPT ![w] = [Idle EXCEPT !.of = d, !.token = token, !.stage = "check"]]
  /\ UNCHANGED <<dispatches, reservations, budget, today, blocked, mails>>

\* The preferences, the hour of the day and what is still due: the row may be
\* cancelled or postponed, and a practice e-mail gets its window.
CheckMail(w) ==
  /\ worker[w].stage = "check"
  /\ LET d == worker[w].of IN
     \/ /\ blocked = "all" \/ (blocked = "optional" /\ Optional(d))
        /\ To(w, "cancelled")
     \/ /\ d \in Practice /\ blocked = "none"
        /\ \/ To(w, "cancelled") \/ To(w, "postponed")
     \/ /\ blocked = "none" \/ (blocked = "optional" /\ ~Optional(d))
        /\ worker' = [worker EXCEPT ![w].stage = "claim",
                                    ![w].window = IF d \in Practice THEN today ELSE 0]
  /\ UNCHANGED <<delivery, dispatches, reservations, budget, today, blocked, mails>>

ClaimMail(w) ==
  /\ worker[w].stage = "claim"
  /\ LET d == worker[w].of
         outcome == Claim(d, worker[w].window)
         kept == Released(Lapsed)
         left == SlotsOf(Lapsed)
     IN IF outcome = "reserved"
        THEN /\ reservations' = Append(kept, NewReservation(d, worker[w].window))
             /\ budget' = [left EXCEPT
                  ![today].all = @ + 1,
                  ![today].optional = @ + (IF Optional(d) THEN 1 ELSE 0)]
             /\ worker' = [worker EXCEPT ![w].stage = "reserved", ![w].at = Len(kept) + 1]
        ELSE /\ reservations' = kept /\ budget' = left
             /\ To(w, outcome)
  /\ UNCHANGED <<delivery, dispatches, today, blocked, mails>>

\* The irreversible step needs the reservation as it was claimed.
MayHandOff(w) == Reservation(w).status = "RESERVED"

HandOff(w) ==
  /\ worker[w].stage = "reserved"
  /\ IF MayHandOff(w) THEN SetReservation(w, "HANDOFF") /\ To(w, "handed")
     ELSE To(w, "retry") /\ UNCHANGED reservations
  /\ UNCHANGED <<delivery, dispatches, budget, today, blocked, mails>>

\* The provider accepts, rejects, or its answer is lost with what it did.
Provider(w) ==
  /\ worker[w].stage = "handed"
  /\ LET mail == [of |-> worker[w].of, window |-> worker[w].window] IN
     \/ /\ mails' = Append(mails, mail)
        /\ To(w, "accepted") \/ To(w, "ambiguous")
     \/ /\ UNCHANGED mails
        /\ To(w, "rejected") \/ To(w, "exhausted") \/ To(w, "ambiguous")
  /\ UNCHANGED <<delivery, dispatches, reservations, budget, today, blocked>>

\* The result is stored with the reservation, or its storing fails: then the
\* evidence of the hand-over stays.
Persist(w) ==
  /\ \/ /\ worker[w].stage \in {"accepted", "ambiguous"}
        /\ IF Reservation(w).status = "HANDOFF"
           THEN /\ SetReservation(w, IF worker[w].stage = "accepted" THEN "SENT" ELSE "AMBIGUOUS")
                /\ To(w, IF worker[w].stage = "accepted" THEN "sent" ELSE "failed")
           ELSE To(w, "failed") /\ UNCHANGED reservations
        /\ UNCHANGED budget
     \/ /\ worker[w].stage \in {"accepted", "ambiguous"}
        /\ To(w, "failed")
        /\ UNCHANGED <<reservations, budget>>
     \/ /\ worker[w].stage \in {"rejected", "exhausted"}
        /\ IF Reservation(w).status \in {"RESERVED", "HANDOFF"}
           THEN reservations' = Released({worker[w].at}) /\ budget' = SlotsOf({worker[w].at})
           ELSE UNCHANGED <<reservations, budget>>
        /\ To(w, IF worker[w].stage = "exhausted" THEN "postponed" ELSE "retry")
  /\ UNCHANGED <<delivery, dispatches, today, blocked, mails>>

\* The row is still the invocation's.
Owns(w) ==
  /\ delivery[worker[w].of].status = "PROCESSING"
  /\ delivery[worker[w].of].token = worker[w].token

FinalStatus(w) ==
  CASE worker[w].stage = "sent" -> "SENT"
    [] worker[w].stage = "cancelled" -> "CANCELLED"
    [] worker[w].stage = "failed" -> "FAILED"
    [] worker[w].stage = "retry" /\ delivery[worker[w].of].attempts >= MaxAttempts -> "FAILED"
    [] OTHER -> "PENDING"

EndMail(w) ==
  /\ worker[w].stage \in {"sent", "cancelled", "failed", "retry", "postponed"}
  /\ delivery' = IF Owns(w)
                 THEN [delivery EXCEPT ![worker[w].of].status = FinalStatus(w),
                                       ![worker[w].of].token = 0]
                 ELSE delivery
  /\ worker' = [worker EXCEPT ![w] = Idle]
  /\ UNCHANGED <<dispatches, reservations, budget, today, blocked, mails>>

CrashMail(w) ==
  /\ worker[w] # Idle
  /\ worker' = [worker EXCEPT ![w] = Idle]
  /\ UNCHANGED <<delivery, dispatches, reservations, budget, today, blocked, mails>>

-----------------------------------------------------------------------------
\* Events of the provider about what it has accepted.

Precedence ==
  [PENDING |-> 0, QUEUED |-> 0, PROCESSING |-> 0, SENT |-> 1, FAILED |-> 2, DELIVERED |-> 3,
   BOUNCED |-> 4, COMPLAINED |-> 5, SUPPRESSED |-> 5, CANCELLED |-> 5]

Events ==
  [delivered |-> "DELIVERED", soft |-> "FAILED", hard |-> "BOUNCED", spam |-> "COMPLAINED",
   unsubscribe |-> "SUPPRESSED", reject |-> "FAILED"]

Told(d, status) ==
  IF Precedence[delivery[d].status] < Precedence[status]
  THEN [delivery[d] EXCEPT !.status = status] ELSE delivery[d]

\* What waits is not sent any more after a bounce, a complaint or an unsubscribe.
Stops(event, d) ==
  /\ delivery[d].status \in {"PENDING", "QUEUED"}
  /\ event \in {"hard", "spam"} \/ (event = "unsubscribe" /\ Optional(d))

Stopped(event) == IF event = "unsubscribe" THEN "CANCELLED" ELSE "SUPPRESSED"

Webhook(event, m) ==
  /\ LET told == [delivery EXCEPT ![mails[m].of] = Told(mails[m].of, Events[event])] IN
     delivery' = [d \in Deliveries |->
       IF Stops(event, d) /\ told[d].status \in {"PENDING", "QUEUED"}
       THEN [told[d] EXCEPT !.status = Stopped(event), !.token = 0] ELSE told[d]]
  /\ blocked' = CASE event \in {"hard", "spam"} -> "all"
                  [] event = "unsubscribe" /\ blocked = "none" -> "optional"
                  [] OTHER -> blocked
  /\ UNCHANGED <<dispatches, worker, reservations, budget, today, mails>>

MailInit ==
  /\ delivery = [d \in Deliveries |-> [status |-> "PENDING", token |-> 0, attempts |-> 0]]
  /\ dispatches = [d \in Deliveries |-> 0]
  /\ worker = [w \in Workers |-> Idle]
  /\ reservations = <<>>
  /\ budget = [day \in Days |-> [all |-> 0, optional |-> 0]]
  /\ today = 1 /\ blocked = "none" /\ mails = <<>>

MailNext ==
  \/ Tomorrow
  \/ \E d \in Deliveries : Dispatch(d) \/ Recover(d)
  \/ \E i \in DOMAIN reservations : ReservationExpires(i)
  \/ \E w \in Workers : \/ CheckMail(w) \/ ClaimMail(w) \/ HandOff(w) \/ Provider(w)
                        \/ Persist(w) \/ EndMail(w) \/ CrashMail(w)
                        \/ \E d \in Deliveries : \E token \in 1..dispatches[d] : Take(w, d, token)
  \/ \E event \in DOMAIN Events, m \in DOMAIN mails : Webhook(event, m)

MailSpec == MailInit /\ [][MailNext]_mailVars

-----------------------------------------------------------------------------
\* The provider accepts an e-mail at most once, and one practice e-mail of a
\* local day, whatever stops and whatever comes twice.
MailedOnce ==
  \A i, j \in DOMAIN mails :
    i # j => /\ mails[i].of # mails[j].of
             /\ mails[i].window # 0 => mails[i].window # mails[j].window

\* The day's counters are the reservations that hold a slot: a slot is neither
\* lost nor given back twice, and optional mail leaves the reserved part alone.
BudgetIsTrue ==
  \A day \in DOMAIN budget :
    LET of == {i \in DOMAIN reservations :
                 reservations[i].day = day /\ reservations[i].status # "RELEASED"}
        optional == {i \in of : Optional(reservations[i].of)}
    IN /\ budget[day] = [all |-> Cardinality(of), optional |-> Cardinality(optional)]
       /\ Cardinality(of) <= DailyLimit
       /\ Cardinality(optional) <= DailyLimit - Reserve

\* What the provider has told is not overwritten by an invocation that ends late,
\* nor by an event that arrives late.
StatusNeverBack ==
  [][\A d \in DOMAIN delivery :
       Precedence[delivery'[d].status] >= Precedence[delivery[d].status]]_mailVars

\* What the service keeps of e-mails (notifications/delivery.ts, emailReservations.ts): none is
\* sent twice, the budget is exact, and a status that was told stays.
MailHolds == [](MailedOnce /\ BudgetIsTrue) /\ StatusNeverBack
=============================================================================
