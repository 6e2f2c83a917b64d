----------------------------- MODULE ServicesProofs -----------------------------
(***************************************************************************)
(* Proofs about services around the analysis: e-mails (EmailReservations),  *)
(* premium invitations (PremiumInvitations), the import of older games      *)
(* (HistoryImport), paid plans (StripeBilling) and the weekly puzzle        *)
(* (WeeklyMaster), for any deliveries, workers, postmen, devices, games,    *)
(* tabs, handlers, candidates and limits.                                   *)
(*                                                                         *)
(* An e-mail is sent once because every mail that the provider accepted is  *)
(* backed by a reservation that nobody can release any more (MailsBacked),  *)
(* and because no two reservations that are not released are of one         *)
(* delivery or of one practice window (HeldOnce).                           *)
(* The budget is exact because a slot is taken with its row and given back  *)
(* with a row that is still held (FreedSlots, AddedSlot).                   *)
(*                                                                         *)
(* An invitation is mailed once per attempt because who mails holds the     *)
(* attempt handed over, unmailed and as its owner (SendsTrue), and what is  *)
(* shown of it is of its own attempt because an attempt never serves two    *)
(* invitations (OneInvitation) and a generation is left behind only when    *)
(* its delivery is known (GenerationsKnown).                                *)
(*                                                                         *)
(* An import loses no game because the games that a traversal has behind    *)
(* it are in the library, on the page or left by a user who was asked       *)
(* (DialogOK), and a next page begins where this one ends (PageBehind).     *)
(*                                                                         *)
(* The account follows Stripe because a handler that read a contract before *)
(* it changed is behind the event of that change (HookKept, AccountKept);   *)
(* and pages do not pile up because a reservation that is over has no open  *)
(* page (ReservationKept), and only an applied event drops one that is not. *)
(*                                                                         *)
(* The slot of the weekly puzzle is what was published last and before that *)
(* (SlotKept), for a publication of any worker or editor moves both.        *)
(***************************************************************************)
EXTENDS EmailReservations, PremiumInvitations, HistoryImport, StripeBilling, WeeklyMaster,
  FiniteSetTheorems, SequenceTheorems, WellFoundedInduction, TLAPS

Status == {"PENDING", "QUEUED", "PROCESSING"} \cup Final
Attempting == {"reserved", "handed", "accepted", "ambiguous", "rejected", "exhausted"}
Ending == {"sent", "cancelled", "failed", "retry", "postponed"}
Stages == {"idle", "check", "claim"} \cup Attempting \cup Ending

Rows == [of : Deliveries, status : {"RESERVED", "HANDOFF", "SENT", "AMBIGUOUS", "RELEASED"},
         live : BOOLEAN, day : Days, window : Nat]
Invocations == [of : Deliveries \cup {NoReservation}, token : Nat, stage : Stages,
                window : Nat, at : Nat]

TypeOK ==
  /\ delivery \in [Deliveries -> [status : Status, token : Nat, attempts : Nat]]
  /\ dispatches \in [Deliveries -> Nat]
  /\ worker \in [Workers -> Invocations]
  /\ \A w \in Workers : worker[w].stage # "idle" => worker[w].of \in Deliveries
  /\ reservations \in Seq(Rows)
  /\ budget \in [Days -> [all : Int, optional : Int]]
  /\ today \in Days
  /\ blocked \in {"none", "optional", "all"}
  /\ mails \in Seq([of : Deliveries, window : Nat])

Held(rs, i) == rs[i].status # "RELEASED"

\* One reservation of a delivery and of a practice window at a time.
HeldOnce(rs) ==
  \A i, j \in DOMAIN rs :
    i # j /\ Held(rs, i) /\ Held(rs, j)
      => rs[i].of # rs[j].of /\ (rs[i].window # 0 => rs[i].window # rs[j].window)

\* The reservation r of an invocation v that tries to send: evidence of the
\* hand-over from then on.
Fenced(v, r) ==
  /\ r.of = v.of /\ r.window = v.window
  /\ r.status \in (IF v.stage = "reserved" THEN {"RESERVED", "RELEASED"} ELSE {"HANDOFF"})

AttemptsOK ==
  /\ \A w \in Workers : worker[w].stage \in Attempting =>
       worker[w].at \in DOMAIN reservations /\ Fenced(worker[w], reservations[worker[w].at])
  /\ \A v, w \in Workers :
       v # w /\ worker[v].stage \in Attempting /\ worker[w].stage \in Attempting
         => worker[v].at # worker[w].at

\* i is the reservation of the mail, and no invocation is left to release it.
Backs(i, mail) ==
  /\ reservations[i].of = mail.of /\ reservations[i].window = mail.window
  /\ reservations[i].status \in {"HANDOFF", "SENT", "AMBIGUOUS"}
  /\ \A w \in Workers : worker[w].stage \in {"handed", "rejected", "exhausted"}
                        => worker[w].at # i

MailsBacked ==
  \A m \in DOMAIN mails : \E i \in DOMAIN reservations : Backs(i, mails[m])

MailInv == TypeOK /\ AttemptsOK /\ HeldOnce(reservations) /\ MailsBacked /\ MailedOnce

-----------------------------------------------------------------------------
(* The operators.                                                          *)

LEMMA DayNumbers == Days \subseteq Nat /\ 1 \in Days
BY MailAssumption DEF Days

LEMMA RowNumbers ==
  ASSUME NEW rs \in Seq(Rows)
  PROVE  /\ Len(rs) \in Nat /\ DOMAIN rs = 1..Len(rs)
         /\ \A i \in DOMAIN rs : rs[i] \in Rows
BY LenProperties, ElementOfSeq

\* Released: the rows of a set, and nothing else, lose their reservation.
LEMMA ReleasedRows ==
  ASSUME reservations \in Seq(Rows), NEW which
  PROVE  /\ Released(which) \in Seq(Rows)
         /\ Len(Released(which)) = Len(reservations)
         /\ DOMAIN Released(which) = DOMAIN reservations
         /\ \A i \in DOMAIN reservations :
              /\ Released(which)[i].of = reservations[i].of
              /\ Released(which)[i].day = reservations[i].day
              /\ Released(which)[i].window = reservations[i].window
              /\ Released(which)[i].live = reservations[i].live
              /\ Released(which)[i].status
                   = IF i \in which THEN "RELEASED" ELSE reservations[i].status
<1> DEFINE t == Released(which)
           row(i) == IF i \in which THEN [reservations[i] EXCEPT !.status = "RELEASED"]
                     ELSE reservations[i]
           n == Len(reservations)
<1>1. n \in Nat /\ DOMAIN reservations = 1..n /\ \A i \in 1..n : reservations[i] \in Rows
  BY RowNumbers
<1>2. t = [i \in 1..n |-> row(i)]
  BY <1>1, Zenon DEF Released
<1>3. ASSUME NEW i \in 1..n PROVE row(i) \in Rows
  BY <1>1 DEF Rows
<1>4. t \in [1..n -> Rows]
  BY <1>2, <1>3
<1>5. t \in Seq(Rows)
  BY <1>1, <1>4, SeqDef
<1>6. DOMAIN t = 1..n
  BY <1>2
<1>7. Len(t) = n
  BY <1>1, <1>5, <1>6, LenProperties
<1>8. ASSUME NEW i \in 1..n
      PROVE  /\ t[i].of = reservations[i].of
             /\ t[i].day = reservations[i].day
             /\ t[i].window = reservations[i].window
             /\ t[i].live = reservations[i].live
             /\ t[i].status = IF i \in which THEN "RELEASED" ELSE reservations[i].status
  <2>1. t[i] = row(i)
    BY <1>2
  <2>2. reservations[i] \in Rows
    BY <1>1
  <2> QED BY <2>1, <2>2 DEF Rows
<1> QED BY <1>1, <1>5, <1>6, <1>7, <1>8

\* SetReservation: the status of one row.
Marked(i, status) == [reservations EXCEPT ![i].status = status]

LEMMA MarkedRows ==
  ASSUME reservations \in Seq(Rows), NEW i \in DOMAIN reservations,
         NEW status \in {"RESERVED", "HANDOFF", "SENT", "AMBIGUOUS", "RELEASED"}
  PROVE  /\ Marked(i, status) \in Seq(Rows)
         /\ DOMAIN Marked(i, status) = DOMAIN reservations
         /\ \A j \in DOMAIN reservations :
              /\ Marked(i, status)[j].of = reservations[j].of
              /\ Marked(i, status)[j].day = reservations[j].day
              /\ Marked(i, status)[j].window = reservations[j].window
              /\ Marked(i, status)[j].status = IF j = i THEN status ELSE reservations[j].status
<1> DEFINE row == [reservations[i] EXCEPT !.status = status]
           t == Marked(i, status)
<1>1. /\ Len(reservations) \in Nat /\ DOMAIN reservations = 1..Len(reservations)
      /\ \A j \in DOMAIN reservations : reservations[j] \in Rows
  BY RowNumbers
<1>2. /\ row \in Rows /\ row.of = reservations[i].of /\ row.day = reservations[i].day
      /\ row.window = reservations[i].window /\ row.status = status
  BY <1>1 DEF Rows
<1>3. t = [reservations EXCEPT ![i] = row]
  BY Zenon DEF Marked
<1> HIDE DEF row, t
<1>4. /\ t \in Seq(Rows) /\ Len(t) = Len(reservations)
      /\ \A j \in DOMAIN reservations : t[j] = IF j = i THEN row ELSE reservations[j]
  BY <1>1, <1>2, <1>3, ExceptSeq
<1>5. DOMAIN t = DOMAIN reservations
  BY <1>1, <1>4, RowNumbers
<1> QED BY <1>2, <1>4, <1>5 DEF t

LEMMA Appended ==
  ASSUME NEW S, NEW seq \in Seq(S), NEW e \in S
  PROVE  /\ Append(seq, e) \in Seq(S)
         /\ Len(seq) \in Nat /\ DOMAIN seq = 1..Len(seq)
         /\ DOMAIN Append(seq, e) = 1..(Len(seq) + 1)
         /\ \A i \in DOMAIN seq : Append(seq, e)[i] = seq[i]
         /\ Append(seq, e)[Len(seq) + 1] = e
BY LenProperties

\* What a claim answers, and what it has seen when it reserves.
LEMMA ClaimOutcome ==
  ASSUME TypeOK, NEW d \in Deliveries, NEW window
  PROVE  /\ Claim(d, window) \in {"sent", "failed", "postponed", "cancelled", "reserved"}
         /\ Claim(d, window) = "reserved" =>
              /\ AttemptsOf(d) = {} /\ WindowOwners(window) = {}
              /\ ~(SlotsOf(Lapsed)[today].all >= DailyLimit)
              /\ Optional(d) => ~(SlotsOf(Lapsed)[today].optional >= DailyLimit - Reserve)
<1> DEFINE same == {reservations[i].status : i \in AttemptsOf(d)}
           free == SlotsOf(Lapsed)[today]
           full == free.all >= DailyLimit \/ (Optional(d) /\ free.optional >= DailyLimit - Reserve)
           owned == WindowOwners(window) # {}
<1>1. /\ same = {"RESERVED"} => "SENT" \notin same /\ same \cap {"HANDOFF", "AMBIGUOUS"} = {}
      /\ same = {} => /\ "SENT" \notin same /\ same \cap {"HANDOFF", "AMBIGUOUS"} = {}
                      /\ same # {"RESERVED"}
  <2> HIDE DEF same
  <2> QED OBVIOUS
<1>2. Claim(d, window) =
        IF "SENT" \in same THEN "sent"
        ELSE IF same \cap {"HANDOFF", "AMBIGUOUS"} # {} THEN "failed"
        ELSE IF same = {"RESERVED"} THEN "postponed"
        ELSE IF same = {} /\ full THEN "postponed"
        ELSE IF owned THEN "cancelled" ELSE "reserved"
  BY <1>1, ZenonT(30) DEF Claim
<1>3. same \subseteq {"RESERVED", "HANDOFF", "SENT", "AMBIGUOUS"}
  BY RowNumbers DEF TypeOK, AttemptsOf, Holding, Rows
<1>4. same = {} => AttemptsOf(d) = {}
  OBVIOUS
<1> HIDE DEF same, free, full, owned
<1>5. Claim(d, window) = "reserved" =>
        "SENT" \notin same /\ same \cap {"HANDOFF", "AMBIGUOUS"} = {} /\ same # {"RESERVED"}
        /\ ~(same = {} /\ full) /\ ~owned
  BY <1>2
<1>6. Claim(d, window) = "reserved" => same = {} /\ ~full /\ ~owned
  BY <1>3, <1>5
<1>7. Claim(d, window) \in {"sent", "failed", "postponed", "cancelled", "reserved"}
  BY <1>2
<1> QED BY <1>4, <1>6, <1>7 DEF full, free, owned

-----------------------------------------------------------------------------
(* Steps of one invocation.                                                *)

\* AttemptsOK is kept when the reservations of the others are kept, or released
\* before their hand-over, and the invocation's own is its own.
LEMMA AttemptsStep ==
  ASSUME TypeOK, AttemptsOK, NEW w \in Workers,
         \A v \in Workers \ {w} : worker'[v] = worker[v],
         DOMAIN reservations \subseteq DOMAIN reservations',
         \A i \in DOMAIN reservations :
           /\ reservations'[i].of = reservations[i].of
           /\ reservations'[i].window = reservations[i].window,
         \A v \in Workers \ {w} : worker[v].stage \in Attempting =>
           LET i == worker[v].at IN
             \/ reservations'[i].status = reservations[i].status
             \/ reservations[i].status = "RESERVED" /\ reservations'[i].status = "RELEASED",
         worker'[w].stage \in Attempting =>
           /\ worker'[w].at \in DOMAIN reservations'
           /\ Fenced(worker'[w], reservations'[worker'[w].at])
           /\ \A v \in Workers \ {w} : worker[v].stage \in Attempting
                                       => worker[v].at # worker'[w].at
  PROVE  AttemptsOK'
<1>1. ASSUME NEW v \in Workers, worker'[v].stage \in Attempting
      PROVE  /\ worker'[v].at \in DOMAIN reservations'
             /\ Fenced(worker'[v], reservations'[worker'[v].at])
  <2>1. CASE v = w
    BY <1>1, <2>1
  <2>2. CASE v # w
    <3>1. /\ worker'[v] = worker[v] /\ worker[v].at \in DOMAIN reservations
          /\ Fenced(worker[v], reservations[worker[v].at])
      BY <1>1, <2>2 DEF AttemptsOK
    <3>2. \/ reservations'[worker[v].at].status = reservations[worker[v].at].status
          \/ /\ reservations[worker[v].at].status = "RESERVED"
             /\ reservations'[worker[v].at].status = "RELEASED"
      BY <1>1, <2>2, <3>1
    <3> QED BY <3>1, <3>2 DEF Fenced
  <2> QED BY <2>1, <2>2
<1>2. ASSUME NEW u \in Workers, NEW v \in Workers, u # v,
             worker'[u].stage \in Attempting, worker'[v].stage \in Attempting
      PROVE  worker'[u].at # worker'[v].at
  BY <1>2 DEF AttemptsOK
<1> QED BY <1>1, <1>2 DEF AttemptsOK

\* A mail stays backed when its reservation keeps its status, and no invocation
\* comes to hold it that may still release it.
LEMMA MailsStep ==
  ASSUME MailsBacked, mails' = mails, NEW w \in Workers,
         \A v \in Workers \ {w} : worker'[v] = worker[v],
         DOMAIN reservations \subseteq DOMAIN reservations',
         \A i \in DOMAIN reservations :
           /\ reservations'[i].of = reservations[i].of
           /\ reservations'[i].window = reservations[i].window,
         \A i \in DOMAIN reservations, m \in DOMAIN mails : Backs(i, mails[m]) =>
           /\ reservations'[i].status \in {"HANDOFF", "SENT", "AMBIGUOUS"}
           /\ worker'[w].stage \in {"handed", "rejected", "exhausted"} => worker'[w].at # i
  PROVE  MailsBacked'
<1>1. ASSUME NEW m \in DOMAIN mails PROVE \E i \in DOMAIN reservations' : Backs(i, mails[m])'
  <2>1. PICK i \in DOMAIN reservations : Backs(i, mails[m])
    BY DEF MailsBacked
  <2>2. \A v \in Workers : worker'[v].stage \in {"handed", "rejected", "exhausted"}
                           => worker'[v].at # i
    BY <2>1 DEF Backs
  <2>3. Backs(i, mails[m])'
    BY <2>1, <2>2 DEF Backs
  <2> QED BY <2>1, <2>3
<1> QED BY <1>1 DEF MailsBacked

\* Rows that are only released, or marked while they are held.
LEMMA HeldStep ==
  ASSUME NEW rs, NEW ts, HeldOnce(rs), DOMAIN ts = DOMAIN rs,
         \A i \in DOMAIN rs : /\ ts[i].of = rs[i].of /\ ts[i].window = rs[i].window
                              /\ Held(ts, i) => Held(rs, i)
  PROVE  HeldOnce(ts)
BY DEF HeldOnce

\* An invocation that no longer tries to send, with the rows as they are.
LEMMA RestStep ==
  ASSUME MailInv, NEW w \in Workers, NEW r \in Invocations, r.stage \notin Attempting,
         r.stage # "idle" => r.of \in Deliveries,
         worker' = [worker EXCEPT ![w] = r], reservations' = reservations, mails' = mails,
         budget' = budget, today' = today, blocked' = blocked, dispatches' = dispatches,
         delivery' \in [Deliveries -> [status : Status, token : Nat, attempts : Nat]]
  PROVE  MailInv'
<1>1. TypeOK
  BY DEF MailInv
<1>2. worker'[w] = r /\ \A v \in Workers \ {w} : worker'[v] = worker[v]
  BY <1>1 DEF TypeOK
<1>3. TypeOK'
  <2>1. worker' \in [Workers -> Invocations]
    BY <1>1 DEF TypeOK
  <2>2. \A v \in Workers : worker'[v].stage # "idle" => worker'[v].of \in Deliveries
    BY <1>1, <1>2 DEF TypeOK
  <2> QED BY <1>1, <2>1, <2>2 DEF TypeOK, Rows, Days
<1>4. AttemptsOK'
  BY <1>1, <1>2, AttemptsStep DEF MailInv
<1>5. MailsBacked'
  <2>1. r.stage \notin {"handed", "rejected", "exhausted"}
    BY DEF Attempting
  <2> QED BY <1>2, <2>1, MailsStep DEF MailInv, Backs
<1>6. HeldOnce(reservations)' /\ MailedOnce'
  BY DEF MailInv, HeldOnce, Held, MailedOnce
<1> QED BY <1>3, <1>4, <1>5, <1>6 DEF MailInv

LEMMA ToStep ==
  ASSUME TypeOK, NEW w \in Workers, NEW stage \in Stages, To(w, stage), worker[w].stage # "idle"
  PROVE  \E r \in Invocations : /\ worker' = [worker EXCEPT ![w] = r]
                                /\ r = [worker[w] EXCEPT !.stage = stage]
                                /\ r.stage = stage /\ r.of = worker[w].of /\ r.at = worker[w].at
                                /\ r.window = worker[w].window /\ r.of \in Deliveries
<1> DEFINE r == [worker[w] EXCEPT !.stage = stage]
<1>1. worker[w] \in Invocations /\ worker[w].of \in Deliveries
  BY DEF TypeOK
<1>2. r \in Invocations /\ r.stage = stage /\ r.of = worker[w].of /\ r.at = worker[w].at
      /\ r.window = worker[w].window
  BY <1>1 DEF Invocations
<1>3. worker' = [worker EXCEPT ![w] = r]
  BY Zenon DEF To
<1> QED BY <1>1, <1>2, <1>3

LEMMA IdleRecord == Idle \in Invocations /\ Idle.stage = "idle" /\ Idle.at = 0 /\ Idle.window = 0
BY DEF Idle, Invocations, Stages

LEMMA TakeStep ==
  ASSUME MailInv, NEW w \in Workers, NEW d \in Deliveries, NEW token \in Nat, Take(w, d, token)
  PROVE  MailInv'
<1> DEFINE r == [Idle EXCEPT !.of = d, !.token = token, !.stage = "check"]
<1>1. r \in Invocations /\ r.stage = "check" /\ r.of = d
  BY IdleRecord DEF Idle, Invocations, Stages
<1>2. delivery' \in [Deliveries -> [status : Status, token : Nat, attempts : Nat]]
  <2>1. delivery \in [Deliveries -> [status : Status, token : Nat, attempts : Nat]]
    BY DEF MailInv, TypeOK
  <2> DEFINE row == [delivery[d] EXCEPT !.status = "PROCESSING", !.attempts = @ + 1]
  <2>2. row \in [status : Status, token : Nat, attempts : Nat]
    <3>1. delivery[d] \in [status : Status, token : Nat, attempts : Nat]
      BY <2>1
    <3>2. delivery[d].attempts + 1 \in Nat /\ "PROCESSING" \in Status
      BY <3>1 DEF Status
    <3> QED BY <3>1, <3>2
  <2>3. delivery' = [delivery EXCEPT ![d] = row]
    BY Zenon DEF Take
  <2> HIDE DEF row
  <2> QED BY <2>1, <2>2, <2>3
<1>3. /\ worker' = [worker EXCEPT ![w] = r] /\ reservations' = reservations /\ mails' = mails
      /\ budget' = budget /\ today' = today /\ blocked' = blocked /\ dispatches' = dispatches
  BY DEF Take
<1>4. r.stage \notin Attempting
  BY <1>1 DEF Attempting
<1> HIDE DEF r
<1> QED BY <1>1, <1>2, <1>3, <1>4, RestStep

LEMMA CheckStep ==
  ASSUME MailInv, NEW w \in Workers, CheckMail(w)
  PROVE  MailInv'
<1>1. /\ reservations' = reservations /\ mails' = mails
      /\ budget' = budget /\ today' = today /\ blocked' = blocked /\ dispatches' = dispatches
      /\ delivery' = delivery /\ worker[w].stage = "check"
  BY DEF CheckMail
<1>2. TypeOK
  BY DEF MailInv
<1>3. ASSUME NEW stage \in {"cancelled", "postponed"}, To(w, stage) PROVE MailInv'
  <2>1. stage \in Stages /\ stage \notin Attempting
    BY DEF Stages, Ending, Attempting
  <2>2. PICK r \in Invocations : /\ worker' = [worker EXCEPT ![w] = r]
                                 /\ r.stage = stage /\ r.of \in Deliveries
    BY <1>1, <1>2, <1>3, <2>1, ToStep
  <2> QED BY <1>1, <1>2, <2>1, <2>2, RestStep DEF TypeOK
<1>4. ASSUME worker' = [worker EXCEPT ![w].stage = "claim",
                           ![w].window = IF worker[w].of \in Practice THEN today ELSE 0]
      PROVE  MailInv'
  <2> DEFINE window == IF worker[w].of \in Practice THEN today ELSE 0
             r == [worker[w] EXCEPT !.stage = "claim", !.window = window]
  <2>1. window \in Nat
    BY <1>2, DayNumbers DEF TypeOK
  <2>2. worker[w] \in Invocations /\ worker[w].of \in Deliveries
    BY <1>1, <1>2 DEF TypeOK
  <2> HIDE DEF window
  <2>3. r \in Invocations /\ r.stage = "claim" /\ r.of \in Deliveries
    BY <2>1, <2>2 DEF Invocations, Stages
  <2>4. worker' = [worker EXCEPT ![w] = r]
    BY <1>4, Zenon DEF window
  <2>5. r.stage \notin Attempting
    BY <2>3 DEF Attempting
  <2> HIDE DEF r
  <2> QED BY <1>1, <1>2, <2>3, <2>4, <2>5, RestStep DEF TypeOK
<1> QED BY <1>3, <1>4, Zenon DEF CheckMail

LEMMA FinalStatusType ==
  ASSUME NEW w \in Workers
  PROVE  FinalStatus(w) \in {"SENT", "CANCELLED", "FAILED", "PENDING"}
<1> DEFINE s1 == worker[w].stage = "sent"
           s2 == worker[w].stage = "cancelled"
           s3 == worker[w].stage = "failed"
           s4 == worker[w].stage = "retry" /\ delivery[worker[w].of].attempts >= MaxAttempts
<1>1. FinalStatus(w) = CASE s1 -> "SENT" [] s2 -> "CANCELLED" [] s3 -> "FAILED"
                         [] s4 -> "FAILED" [] OTHER -> "PENDING"
  BY Zenon DEF FinalStatus
<1> HIDE DEF s1, s2, s3, s4
<1> QED BY <1>1, Zenon

LEMMA EndStep ==
  ASSUME MailInv, NEW w \in Workers, EndMail(w)
  PROVE  MailInv'
<1>1. /\ worker' = [worker EXCEPT ![w] = Idle] /\ reservations' = reservations /\ mails' = mails
      /\ budget' = budget /\ today' = today /\ blocked' = blocked /\ dispatches' = dispatches
      /\ delivery' = IF Owns(w)
                     THEN [delivery EXCEPT ![worker[w].of].status = FinalStatus(w),
                                           ![worker[w].of].token = 0]
                     ELSE delivery
      /\ worker[w].stage # "idle"
  BY DEF EndMail
<1>2. delivery \in [Deliveries -> [status : Status, token : Nat, attempts : Nat]]
      /\ worker[w].of \in Deliveries
  BY <1>1 DEF MailInv, TypeOK
<1>3. delivery' \in [Deliveries -> [status : Status, token : Nat, attempts : Nat]]
  <2> DEFINE d == worker[w].of
             row == [delivery[d] EXCEPT !.status = FinalStatus(w), !.token = 0]
  <2>1. row \in [status : Status, token : Nat, attempts : Nat]
    <3>1. FinalStatus(w) \in Status
      BY FinalStatusType DEF Status, Final
    <3> QED BY <1>2, <3>1
  <2>2. [delivery EXCEPT ![worker[w].of].status = FinalStatus(w),
                         ![worker[w].of].token = 0] = [delivery EXCEPT ![d] = row]
    BY Zenon
  <2> HIDE DEF row
  <2> QED BY <1>1, <1>2, <2>1, <2>2
<1>4. Idle.stage \notin Attempting
  BY IdleRecord DEF Attempting
<1> QED BY <1>1, <1>3, <1>4, IdleRecord, RestStep

LEMMA CrashStep ==
  ASSUME MailInv, NEW w \in Workers, CrashMail(w)
  PROVE  MailInv'
<1>1. /\ worker' = [worker EXCEPT ![w] = Idle] /\ reservations' = reservations /\ mails' = mails
      /\ budget' = budget /\ today' = today /\ blocked' = blocked /\ dispatches' = dispatches
      /\ delivery' = delivery
  BY DEF CrashMail
<1>2. Idle.stage \notin Attempting
  BY IdleRecord DEF Attempting
<1> QED BY <1>1, <1>2, IdleRecord, RestStep DEF MailInv, TypeOK

-----------------------------------------------------------------------------
(* Steps that leave the invocations alone.                                 *)

DeliveryRows == [status : Status, token : Nat, attempts : Nat]

LEMMA QuietStep ==
  ASSUME MailInv, delivery' \in [Deliveries -> DeliveryRows],
         dispatches' \in [Deliveries -> Nat], today' \in Days,
         blocked' \in {"none", "optional", "all"},
         UNCHANGED <<worker, reservations, budget, mails>>
  PROVE  MailInv'
<1>1. TypeOK'
  BY DEF MailInv, TypeOK, Rows, Days, DeliveryRows
<1>2. AttemptsOK' /\ HeldOnce(reservations)' /\ MailedOnce'
  BY DEF MailInv, AttemptsOK, Fenced, HeldOnce, Held, MailedOnce
<1>3. MailsBacked'
  BY DEF MailInv, MailsBacked, Backs
<1> QED BY <1>1, <1>2, <1>3 DEF MailInv

LEMMA DispatchStep == ASSUME MailInv, NEW d \in Deliveries, Dispatch(d) PROVE MailInv'
<1>1. TypeOK
  BY DEF MailInv
<1>2. dispatches[d] + 1 \in Nat /\ dispatches' = [dispatches EXCEPT ![d] = dispatches[d] + 1]
  BY <1>1 DEF Dispatch, TypeOK
<1>3. dispatches' \in [Deliveries -> Nat]
  BY <1>1, <1>2 DEF TypeOK
<1>4. delivery' \in [Deliveries -> DeliveryRows]
  <2>1. delivery \in [Deliveries -> DeliveryRows]
    BY <1>1 DEF TypeOK, DeliveryRows
  <2> DEFINE row == [delivery[d] EXCEPT !.status = "QUEUED", !.token = dispatches[d] + 1]
  <2>2. row \in DeliveryRows
    BY <1>2, <2>1 DEF DeliveryRows, Status
  <2>3. delivery' = [delivery EXCEPT ![d] = row] \/ delivery' = delivery
    BY Zenon DEF Dispatch
  <2> HIDE DEF row
  <2> QED BY <2>1, <2>2, <2>3
<1> QED BY <1>1, <1>3, <1>4, QuietStep DEF Dispatch, TypeOK

LEMMA RecoverStep == ASSUME MailInv, NEW d \in Deliveries, Recover(d) PROVE MailInv'
<1>1. TypeOK
  BY DEF MailInv
<1>2. delivery' \in [Deliveries -> DeliveryRows]
  <2>1. delivery \in [Deliveries -> DeliveryRows]
    BY <1>1 DEF TypeOK, DeliveryRows
  <2> DEFINE row == [delivery[d] EXCEPT !.status = "PENDING", !.token = 0]
  <2>2. row \in DeliveryRows
    BY <2>1 DEF DeliveryRows, Status
  <2>3. delivery' = [delivery EXCEPT ![d] = row]
    BY Zenon DEF Recover
  <2> HIDE DEF row
  <2> QED BY <2>1, <2>2, <2>3
<1> QED BY <1>1, <1>2, QuietStep DEF Recover, TypeOK

LEMMA TomorrowStep == ASSUME MailInv, Tomorrow PROVE MailInv'
<1>1. today' \in Days
  BY MailAssumption DEF Tomorrow, MailInv, TypeOK, Days
<1> QED BY <1>1, QuietStep DEF Tomorrow, MailInv, TypeOK, DeliveryRows

\* What an event makes of a row: its status, and no token when it stops waiting.
LEMMA WebhookRow ==
  ASSUME TypeOK, NEW event \in DOMAIN Events, NEW m \in DOMAIN mails, Webhook(event, m)
  PROVE  /\ delivery' \in [Deliveries -> DeliveryRows]
         /\ \A d \in Deliveries :
              \/ delivery'[d].status = delivery[d].status
              \/ Precedence[delivery[d].status] < Precedence[delivery'[d].status]
              \/ /\ delivery'[d].status \in {"CANCELLED", "SUPPRESSED"}
                 /\ delivery[d].status \in {"PENDING", "QUEUED"}
<1> DEFINE q == mails[m].of
           told == [delivery EXCEPT ![q] = Told(q, Events[event])]
<1>1. q \in Deliveries
  <2>1. mails[m] \in [of : Deliveries, window : Nat]
    BY LenProperties, ElementOfSeq DEF TypeOK
  <2> QED BY <2>1
<1>2. delivery \in [Deliveries -> DeliveryRows]
  BY DEF TypeOK, DeliveryRows
<1>3. Events[event] \in Status
  BY DEF Events, Status, Final
<1>4. Told(q, Events[event]) \in DeliveryRows
  BY <1>1, <1>2, <1>3 DEF Told, DeliveryRows
<1>5. \/ Told(q, Events[event]) = delivery[q]
      \/ /\ Told(q, Events[event]).status = Events[event]
         /\ Precedence[delivery[q].status] < Precedence[Told(q, Events[event]).status]
  <2>1. CASE Precedence[delivery[q].status] < Precedence[Events[event]]
    <3>1. Told(q, Events[event]) = [delivery[q] EXCEPT !.status = Events[event]]
      BY <2>1 DEF Told
    <3>2. delivery[q] \in DeliveryRows
      BY <1>1, <1>2
    <3>3. Told(q, Events[event]).status = Events[event]
      BY <3>1, <3>2 DEF DeliveryRows
    <3> QED BY <2>1, <3>3
  <2>2. CASE ~(Precedence[delivery[q].status] < Precedence[Events[event]])
    BY <2>2 DEF Told
  <2> QED BY <2>1, <2>2
<1>6. told \in [Deliveries -> DeliveryRows]
  <2> DEFINE row == Told(q, Events[event])
  <2> HIDE DEF row, q
  <2> QED BY <1>1, <1>2, <1>4 DEF row, q
<1>7. \A d \in Deliveries : told[d] = delivery[d] \/ (d = q /\ told[d] = Told(q, Events[event]))
  <2> DEFINE row == Told(q, Events[event])
  <2> HIDE DEF row, q
  <2> QED BY <1>2 DEF row
<1>8. Stopped(event) \in Status /\ Stopped(event) \in {"CANCELLED", "SUPPRESSED"}
  BY DEF Stopped, Status, Final
<1>9. delivery' = [d \in Deliveries |->
        IF Stops(event, d) /\ told[d].status \in {"PENDING", "QUEUED"}
        THEN [told[d] EXCEPT !.status = Stopped(event), !.token = 0] ELSE told[d]]
  BY Zenon DEF Webhook
<1> HIDE DEF told, q
<1>10. ASSUME NEW d \in Deliveries
       PROVE  /\ delivery'[d] \in DeliveryRows
              /\ \/ delivery'[d].status = delivery[d].status
                 \/ Precedence[delivery[d].status] < Precedence[delivery'[d].status]
                 \/ /\ delivery'[d].status \in {"CANCELLED", "SUPPRESSED"}
                    /\ delivery[d].status \in {"PENDING", "QUEUED"}
  <2>1. told[d] \in DeliveryRows
    BY <1>6
  <2>2. CASE Stops(event, d) /\ told[d].status \in {"PENDING", "QUEUED"}
    <3>1. delivery'[d] = [told[d] EXCEPT !.status = Stopped(event), !.token = 0]
      BY <1>9, <2>2
    <3>2. delivery'[d] \in DeliveryRows /\ delivery'[d].status = Stopped(event)
      <4> DEFINE t == told[d]
                 status == Stopped(event)
                 row == [t EXCEPT !.status = status, !.token = 0]
      <4> HIDE DEF t, status
      <4>1. t \in DeliveryRows /\ status \in Status
        BY <1>8, <2>1 DEF t, status
      <4>2. row \in DeliveryRows
        BY <4>1 DEF DeliveryRows
      <4>3. row.status = status
        BY <4>1 DEF DeliveryRows
      <4>4. delivery'[d] = row
        BY <3>1 DEF t, status
      <4> QED BY <4>2, <4>3, <4>4 DEF status
    <3>3. delivery[d].status \in {"PENDING", "QUEUED"}
      BY <2>2 DEF Stops
    <3> QED BY <1>8, <3>2, <3>3
  <2>3. CASE ~(Stops(event, d) /\ told[d].status \in {"PENDING", "QUEUED"})
    <3>1. delivery'[d] = told[d]
      BY <1>9, <2>3
    <3> QED BY <1>5, <1>7, <2>1, <3>1
  <2> QED BY <2>2, <2>3
<1>11. delivery' \in [Deliveries -> DeliveryRows]
  <2>1. DOMAIN delivery' = Deliveries /\ delivery' = [d \in Deliveries |-> delivery'[d]]
    BY <1>9
  <2> QED BY <1>10, <2>1
<1> QED BY <1>10, <1>11

LEMMA WebhookStep ==
  ASSUME MailInv, NEW event \in DOMAIN Events, NEW m \in DOMAIN mails, Webhook(event, m)
  PROVE  MailInv'
<1>1. TypeOK
  BY DEF MailInv
<1>2. delivery' \in [Deliveries -> DeliveryRows]
  BY <1>1, WebhookRow
<1>3. blocked' \in {"none", "optional", "all"}
  <2>1. \/ blocked' = "all" \/ blocked' = "optional" \/ blocked' = blocked
    <3> DEFINE c1 == event \in {"hard", "spam"}
               c2 == event = "unsubscribe" /\ blocked = "none"
    <3>1. blocked' = CASE c1 -> "all" [] c2 -> "optional" [] OTHER -> blocked
      BY Zenon DEF Webhook
    <3>2. ~(c1 /\ c2)
      OBVIOUS
    <3> HIDE DEF c1, c2
    <3>3. blocked' = IF c1 THEN "all" ELSE IF c2 THEN "optional" ELSE blocked
      BY <3>1, <3>2, Zenon
    <3> QED BY <3>3
  <2> QED BY <1>1, <2>1 DEF TypeOK
<1> QED BY <1>1, <1>2, <1>3, QuietStep DEF Webhook, TypeOK

\* The lease of a reservation runs out.
LEMMA ExpiresRows ==
  ASSUME reservations \in Seq(Rows), NEW i \in DOMAIN reservations, ReservationExpires(i)
  PROVE  /\ reservations' \in Seq(Rows) /\ DOMAIN reservations' = DOMAIN reservations
         /\ \A j \in DOMAIN reservations :
              /\ reservations'[j].of = reservations[j].of
              /\ reservations'[j].day = reservations[j].day
              /\ reservations'[j].window = reservations[j].window
              /\ reservations'[j].status = reservations[j].status
<1> DEFINE row == [reservations[i] EXCEPT !.live = FALSE]
<1>1. /\ Len(reservations) \in Nat /\ DOMAIN reservations = 1..Len(reservations)
      /\ \A j \in DOMAIN reservations : reservations[j] \in Rows
  BY RowNumbers
<1>2. /\ row \in Rows /\ row.of = reservations[i].of /\ row.day = reservations[i].day
      /\ row.window = reservations[i].window /\ row.status = reservations[i].status
  BY <1>1 DEF Rows
<1>3. reservations' = [reservations EXCEPT ![i] = row]
  BY Zenon DEF ReservationExpires
<1> HIDE DEF row
<1>4. /\ reservations' \in Seq(Rows) /\ Len(reservations') = Len(reservations)
      /\ \A j \in DOMAIN reservations : reservations'[j] = IF j = i THEN row ELSE reservations[j]
  BY <1>1, <1>2, <1>3, ExceptSeq
<1>5. DOMAIN reservations' = DOMAIN reservations
  BY <1>1, <1>4, RowNumbers
<1> QED BY <1>2, <1>4, <1>5

LEMMA ExpiresStep ==
  ASSUME MailInv, NEW i \in DOMAIN reservations, ReservationExpires(i)
  PROVE  MailInv'
<1>1. /\ reservations' \in Seq(Rows) /\ DOMAIN reservations' = DOMAIN reservations
      /\ \A j \in DOMAIN reservations :
           /\ reservations'[j].of = reservations[j].of
           /\ reservations'[j].window = reservations[j].window
           /\ reservations'[j].status = reservations[j].status
  BY ExpiresRows DEF MailInv, TypeOK
<1>2. /\ worker' = worker /\ mails' = mails /\ delivery' = delivery /\ dispatches' = dispatches
      /\ budget' = budget /\ today' = today /\ blocked' = blocked
  BY DEF ReservationExpires
<1>3. TypeOK'
  BY <1>1, <1>2 DEF MailInv, TypeOK, Rows, Days
<1>4. AttemptsOK'
  BY <1>1, <1>2 DEF MailInv, AttemptsOK, Fenced
<1>5. HeldOnce(reservations)'
  BY <1>1, HeldStep DEF MailInv, Held
<1>6. MailsBacked'
  BY <1>1, <1>2 DEF MailInv, MailsBacked, Backs
<1>7. MailedOnce'
  BY <1>2 DEF MailInv, MailedOnce
<1> QED BY <1>3, <1>4, <1>5, <1>6, <1>7 DEF MailInv

-----------------------------------------------------------------------------
(* Steps that change reservations.                                         *)

LEMMA RowsFinite ==
  ASSUME NEW rs \in Seq(Rows), NEW which, which \subseteq DOMAIN rs
  PROVE  IsFiniteSet(which) /\ Cardinality(which) \in Nat
<1>1. Len(rs) \in Nat /\ DOMAIN rs = 1..Len(rs)
  BY RowNumbers
<1>2. IsFiniteSet(1..Len(rs))
  BY <1>1, FS_Interval
<1> QED BY <1>1, <1>2, FS_Subset, FS_CardinalityType

LEMMA SlotsType ==
  ASSUME TypeOK, NEW which, which \subseteq DOMAIN reservations
  PROVE  SlotsOf(which) \in [Days -> [all : Int, optional : Int]]
<1>1. ASSUME NEW day \in Days
      PROVE  SlotsOf(which)[day] \in [all : Int, optional : Int]
  <2> DEFINE of == {i \in which : reservations[i].day = day}
             optional == {i \in of : Optional(reservations[i].of)}
  <2>1. SlotsOf(which)[day] = [all |-> budget[day].all - Cardinality(of),
                               optional |-> budget[day].optional - Cardinality(optional)]
    BY DEF SlotsOf
  <2>2. of \subseteq DOMAIN reservations /\ optional \subseteq DOMAIN reservations
    OBVIOUS
  <2> HIDE DEF of, optional
  <2>3. Cardinality(of) \in Nat /\ Cardinality(optional) \in Nat
    BY <2>2, RowsFinite DEF TypeOK
  <2>4. budget[day].all \in Int /\ budget[day].optional \in Int
    BY DEF TypeOK
  <2> QED BY <2>1, <2>3, <2>4
<1>2. SlotsOf(which) = [day \in Days |-> SlotsOf(which)[day]]
  BY DEF SlotsOf
<1> QED BY <1>1, <1>2

\* An invocation that changes its stage, with the rows of the others as they
\* are or released before their hand-over.
LEMMA MoveStep ==
  ASSUME MailInv, NEW w \in Workers, NEW r \in Invocations, r.of \in Deliveries,
         worker' = [worker EXCEPT ![w] = r],
         reservations' \in Seq(Rows), DOMAIN reservations' = DOMAIN reservations,
         \A i \in DOMAIN reservations :
           /\ reservations'[i].of = reservations[i].of
           /\ reservations'[i].window = reservations[i].window
           /\ Held(reservations', i) => Held(reservations, i),
         \A v \in Workers \ {w} : worker[v].stage \in Attempting =>
           LET i == worker[v].at IN
             \/ reservations'[i].status = reservations[i].status
             \/ reservations[i].status = "RESERVED" /\ reservations'[i].status = "RELEASED",
         r.stage \in Attempting =>
           /\ worker[w].stage \in Attempting /\ r.at = worker[w].at /\ r.of = worker[w].of
           /\ r.window = worker[w].window
           /\ reservations'[r.at].status \in (IF r.stage = "reserved" THEN {"RESERVED", "RELEASED"}
                                              ELSE {"HANDOFF"}),
         \A i \in DOMAIN reservations, m \in DOMAIN mails : Backs(i, mails[m]) =>
           /\ reservations'[i].status \in {"HANDOFF", "SENT", "AMBIGUOUS"}
           /\ r.stage \in {"handed", "rejected", "exhausted"} => r.at # i,
         budget' \in [Days -> [all : Int, optional : Int]],
         UNCHANGED <<delivery, dispatches, today, blocked, mails>>
  PROVE  MailInv'
<1>1. TypeOK /\ AttemptsOK
  BY DEF MailInv
<1>2. worker'[w] = r /\ \A v \in Workers \ {w} : worker'[v] = worker[v]
  BY <1>1 DEF TypeOK
<1>3. TypeOK'
  <2>1. worker' \in [Workers -> Invocations]
    BY <1>1 DEF TypeOK
  <2>2. \A v \in Workers : worker'[v].stage # "idle" => worker'[v].of \in Deliveries
    BY <1>1, <1>2 DEF TypeOK
  <2>3. /\ delivery' \in [Deliveries -> [status : Status, token : Nat, attempts : Nat]]
        /\ dispatches' \in [Deliveries -> Nat] /\ today' \in Days
        /\ blocked' \in {"none", "optional", "all"}
        /\ mails' \in Seq([of : Deliveries, window : Nat])
    BY <1>1 DEF TypeOK
  <2> QED BY <2>1, <2>2, <2>3 DEF TypeOK, Rows, Days
<1>4. AttemptsOK'
  <2>1. r.stage \in Attempting =>
          /\ r.at \in DOMAIN reservations' /\ Fenced(r, reservations'[r.at])
          /\ \A v \in Workers \ {w} : worker[v].stage \in Attempting => worker[v].at # r.at
    <3> SUFFICES ASSUME r.stage \in Attempting
                 PROVE  /\ r.at \in DOMAIN reservations' /\ Fenced(r, reservations'[r.at])
                        /\ \A v \in Workers \ {w} : worker[v].stage \in Attempting
                                                    => worker[v].at # r.at
      OBVIOUS
    <3>1. worker[w].at \in DOMAIN reservations /\ Fenced(worker[w], reservations[worker[w].at])
      BY <1>1 DEF AttemptsOK
    <3>2. \A v \in Workers \ {w} : worker[v].stage \in Attempting => worker[v].at # worker[w].at
      BY <1>1 DEF AttemptsOK
    <3> QED BY <3>1, <3>2 DEF Fenced
  <2> QED BY <1>1, <1>2, <2>1, AttemptsStep
<1>5. HeldOnce(reservations)'
  BY HeldStep DEF MailInv
<1>6. MailsBacked'
  BY <1>2, MailsStep DEF MailInv
<1>7. MailedOnce'
  BY DEF MailInv, MailedOnce
<1> QED BY <1>3, <1>4, <1>5, <1>6, <1>7 DEF MailInv

LEMMA HandOffStep ==
  ASSUME MailInv, NEW w \in Workers, HandOff(w)
  PROVE  MailInv'
<1>1. /\ worker[w].stage = "reserved" /\ TypeOK /\ AttemptsOK
      /\ UNCHANGED <<delivery, dispatches, budget, today, blocked, mails>>
  BY DEF HandOff, MailInv
<1> DEFINE i == worker[w].at
<1>2. i \in DOMAIN reservations /\ Fenced(worker[w], reservations[i])
  BY <1>1 DEF AttemptsOK, Attempting
<1>3. budget' \in [Days -> [all : Int, optional : Int]]
  BY <1>1 DEF TypeOK
<1>4. CASE MayHandOff(w)
  <2>1. SetReservation(w, "HANDOFF") /\ To(w, "handed")
    BY <1>4 DEF HandOff
  <2>2. /\ reservations' \in Seq(Rows) /\ DOMAIN reservations' = DOMAIN reservations
        /\ \A j \in DOMAIN reservations :
             /\ reservations'[j].of = reservations[j].of
             /\ reservations'[j].window = reservations[j].window
             /\ reservations'[j].status = IF j = i THEN "HANDOFF" ELSE reservations[j].status
    <3>1. reservations' = Marked(i, "HANDOFF")
      BY <2>1, Zenon DEF SetReservation, Marked
    <3> HIDE DEF i
    <3> QED BY <1>1, <1>2, <3>1, MarkedRows DEF TypeOK
  <2>3. PICK r \in Invocations : /\ worker' = [worker EXCEPT ![w] = r]
                                 /\ r.stage = "handed" /\ r.of = worker[w].of /\ r.at = i
                                 /\ r.window = worker[w].window /\ r.of \in Deliveries
    BY <1>1, <2>1, ToStep DEF Stages, Attempting
  <2>4. reservations[i].status = "RESERVED"
    BY <1>4 DEF MayHandOff, Reservation
  <2>5. \A v \in Workers \ {w} : worker[v].stage \in Attempting =>
          /\ worker[v].at \in DOMAIN reservations
          /\ reservations'[worker[v].at].status = reservations[worker[v].at].status
    BY <1>1, <2>2 DEF AttemptsOK, Attempting
  <2>6. \A j \in DOMAIN reservations, m \in DOMAIN mails : Backs(j, mails[m]) =>
          reservations'[j].status \in {"HANDOFF", "SENT", "AMBIGUOUS"} /\ r.at # j
    BY <2>2, <2>3, <2>4 DEF Backs
  <2>7. \A j \in DOMAIN reservations : Held(reservations', j) => Held(reservations, j)
    BY <2>2, <2>4 DEF Held
  <2>8. /\ worker[w].stage \in Attempting
        /\ reservations'[r.at].status \in (IF r.stage = "reserved" THEN {"RESERVED", "RELEASED"}
                                           ELSE {"HANDOFF"})
    BY <1>1, <1>2, <2>2, <2>3 DEF Attempting
  <2> HIDE DEF i
  <2> QED BY <1>1, <1>3, <2>2, <2>3, <2>5, <2>6, <2>7, <2>8, MoveStep DEF i
<1>5. CASE ~MayHandOff(w)
  <2>1. To(w, "retry") /\ reservations' = reservations
    BY <1>5 DEF HandOff
  <2>2. "retry" \in Stages /\ "retry" \notin Attempting
    BY DEF Stages, Ending, Attempting
  <2>3. PICK r \in Invocations : /\ worker' = [worker EXCEPT ![w] = r]
                                 /\ r.stage = "retry" /\ r.of \in Deliveries
    BY <1>1, <2>1, <2>2, ToStep
  <2> QED BY <1>1, <2>1, <2>2, <2>3, RestStep DEF TypeOK
<1> QED BY <1>4, <1>5

\* Provider: a mail is new, for a reservation that is handed over backs none.
LEMMA ProviderStep ==
  ASSUME MailInv, NEW w \in Workers, Provider(w)
  PROVE  MailInv'
<1> DEFINE i == worker[w].at
           mail == [of |-> worker[w].of, window |-> worker[w].window]
<1>1. /\ worker[w].stage = "handed" /\ TypeOK /\ AttemptsOK /\ MailsBacked
      /\ HeldOnce(reservations) /\ MailedOnce
      /\ UNCHANGED <<delivery, dispatches, reservations, budget, today, blocked>>
  BY DEF Provider, MailInv
<1>2. i \in DOMAIN reservations /\ Fenced(worker[w], reservations[i])
  BY <1>1 DEF AttemptsOK, Attempting
<1>3. reservations[i].of = mail.of /\ reservations[i].window = mail.window
      /\ reservations[i].status = "HANDOFF"
  BY <1>1, <1>2 DEF Fenced
<1>4. \A j \in DOMAIN reservations, m \in DOMAIN mails : Backs(j, mails[m]) => j # i
  BY <1>1 DEF Backs
<1>5. budget' \in [Days -> [all : Int, optional : Int]] /\ reservations' \in Seq(Rows)
  BY <1>1 DEF TypeOK, Rows, Days
<1>6. ASSUME mails' = mails,
             NEW stage \in {"rejected", "exhausted", "ambiguous"}, To(w, stage)
      PROVE  MailInv'
  <2>1. stage \in Stages /\ stage \in Attempting /\ stage # "reserved"
    BY DEF Stages, Attempting
  <2>2. PICK r \in Invocations : /\ worker' = [worker EXCEPT ![w] = r]
                                 /\ r.stage = stage /\ r.of = worker[w].of /\ r.at = i
                                 /\ r.window = worker[w].window /\ r.of \in Deliveries
    BY <1>1, <1>6, <2>1, ToStep
  <2>3. /\ worker[w].stage \in Attempting
        /\ reservations'[r.at].status \in (IF r.stage = "reserved" THEN {"RESERVED", "RELEASED"}
                                           ELSE {"HANDOFF"})
    BY <1>1, <1>3, <2>1, <2>2 DEF Attempting
  <2>4. \A j \in DOMAIN reservations, m \in DOMAIN mails : Backs(j, mails[m]) =>
           reservations'[j].status \in {"HANDOFF", "SENT", "AMBIGUOUS"} /\ r.at # j
    BY <1>1, <1>4, <2>2 DEF Backs
  <2>5. \A j \in DOMAIN reservations : Held(reservations', j) => Held(reservations, j)
    BY <1>1 DEF Held
  <2>6. r.stage \in Attempting =>
           /\ worker[w].stage \in Attempting /\ r.at = worker[w].at /\ r.of = worker[w].of
           /\ r.window = worker[w].window
           /\ reservations'[r.at].status \in (IF r.stage = "reserved" THEN {"RESERVED", "RELEASED"}
                                              ELSE {"HANDOFF"})
    BY <2>2, <2>3
  <2>7. /\ \A j \in DOMAIN reservations :
             /\ reservations'[j].of = reservations[j].of
             /\ reservations'[j].window = reservations[j].window
             /\ Held(reservations', j) => Held(reservations, j)
             /\ reservations'[j].status = reservations[j].status
        /\ \A j \in DOMAIN reservations, m \in DOMAIN mails : Backs(j, mails[m]) =>
             /\ reservations'[j].status \in {"HANDOFF", "SENT", "AMBIGUOUS"}
             /\ r.stage \in {"handed", "rejected", "exhausted"} => r.at # j
    BY <1>1, <2>4, <2>5
  <2>8. \A v \in Workers \ {w} : worker[v].stage \in Attempting =>
           reservations'[worker[v].at].status = reservations[worker[v].at].status
    BY <1>1
  <2>9. /\ worker' = [worker EXCEPT ![w] = r] /\ r.of \in Deliveries
        /\ DOMAIN reservations' = DOMAIN reservations
        /\ UNCHANGED <<delivery, dispatches, today, blocked, mails>>
    BY <1>1, <1>6, <2>2
  <2> HIDE DEF i
  <2> QED BY <1>5, <2>6, <2>7, <2>8, <2>9, MoveStep
<1>7. ASSUME mails' = Append(mails, mail),
             NEW stage \in {"accepted", "ambiguous"}, To(w, stage)
      PROVE  MailInv'
  <2>1. /\ stage \in Stages /\ stage \in Attempting
        /\ stage \notin {"reserved", "handed", "rejected", "exhausted"}
    BY DEF Stages, Attempting
  <2>2. PICK r \in Invocations : /\ worker' = [worker EXCEPT ![w] = r]
                                 /\ r.stage = stage /\ r.of = worker[w].of /\ r.at = i
                                 /\ r.window = worker[w].window /\ r.of \in Deliveries
    BY <1>1, <1>7, <2>1, ToStep
  <2>3. worker'[w] = r /\ \A v \in Workers \ {w} : worker'[v] = worker[v]
    BY <1>1, <2>2 DEF TypeOK
  <2>4. mail \in [of : Deliveries, window : Nat]
    BY <2>2 DEF Invocations
  <2> HIDE DEF mail
  <2>5. /\ mails' \in Seq([of : Deliveries, window : Nat])
        /\ DOMAIN mails = 1..Len(mails) /\ Len(mails) \in Nat
        /\ DOMAIN mails' = 1..(Len(mails) + 1)
        /\ \A m \in DOMAIN mails : mails'[m] = mails[m]
        /\ mails'[Len(mails) + 1] = mail
    <3>1. mails \in Seq([of : Deliveries, window : Nat])
      BY <1>1 DEF TypeOK
    <3> QED BY <1>7, <2>4, <3>1, Appended
  <2>6. \A m \in DOMAIN mails' : m \in DOMAIN mails \/ mails'[m] = mail
    BY <2>5
  <2>7. TypeOK'
    <3>1. worker' \in [Workers -> Invocations]
      BY <1>1, <2>2 DEF TypeOK
    <3>2. \A v \in Workers : worker'[v].stage # "idle" => worker'[v].of \in Deliveries
      BY <1>1, <2>2, <2>3 DEF TypeOK
    <3>3. /\ delivery' \in [Deliveries -> [status : Status, token : Nat, attempts : Nat]]
          /\ dispatches' \in [Deliveries -> Nat] /\ today' \in Days
          /\ blocked' \in {"none", "optional", "all"}
      BY <1>1 DEF TypeOK
    <3> QED BY <1>5, <2>5, <3>1, <3>2, <3>3 DEF TypeOK, Rows, Days
  <2>8. AttemptsOK'
    <3>1. Fenced(r, reservations'[r.at])
      BY <1>1, <1>2, <1>3, <2>1, <2>2 DEF Fenced
    <3>2. \A v \in Workers \ {w} : worker[v].stage \in Attempting => worker[v].at # r.at
      BY <1>1, <2>2 DEF AttemptsOK, Attempting
    <3> QED BY <1>1, <1>2, <2>2, <2>3, <3>1, <3>2, AttemptsStep
  <2>9. HeldOnce(reservations)'
    BY <1>1 DEF HeldOnce, Held
  <2>10. \A v \in Workers : worker'[v].stage \in {"handed", "rejected", "exhausted"}
                            => worker'[v].at # i
    BY <1>1, <2>1, <2>2, <2>3 DEF AttemptsOK, Attempting
  <2>11. MailsBacked'
    <3>1. ASSUME NEW m \in DOMAIN mails PROVE \E j \in DOMAIN reservations' : Backs(j, mails[m])'
      <4>1. PICK j \in DOMAIN reservations : Backs(j, mails[m])
        BY <1>1 DEF MailsBacked
      <4>2. \A v \in Workers : worker'[v].stage \in {"handed", "rejected", "exhausted"}
                               => worker'[v].at # j
        BY <2>1, <2>2, <2>3, <4>1 DEF Backs
      <4>3. mails'[m] = mails[m]
        BY <2>5
      <4> QED BY <1>1, <4>1, <4>2, <4>3 DEF Backs
    <3>2. ASSUME NEW m, mails'[m] = mail PROVE \E j \in DOMAIN reservations' : Backs(j, mails[m])'
      <4>1. PICK k \in DOMAIN reservations : k = i
        BY <1>2
      <4>2. Backs(k, mails[m])'
        BY <1>1, <1>3, <2>10, <3>2, <4>1 DEF Backs, mail
      <4> QED BY <1>1, <4>1, <4>2
    <3> QED BY <2>6, <3>1, <3>2 DEF MailsBacked
  <2>12. MailedOnce'
    <3>1. ASSUME NEW m \in DOMAIN mails
          PROVE  mails[m].of # mail.of /\ (mail.window # 0 => mails[m].window # mail.window)
      <4>1. PICK j \in DOMAIN reservations : Backs(j, mails[m])
        BY <1>1 DEF MailsBacked
      <4>2. j # i /\ Held(reservations, j) /\ Held(reservations, i)
        BY <1>3, <1>4, <4>1 DEF Backs, Held
      <4>3. /\ reservations[j].of # reservations[i].of
            /\ reservations[i].window # 0 => reservations[i].window # reservations[j].window
        BY <1>1, <1>2, <4>2 DEF HeldOnce
      <4> QED BY <1>3, <4>1, <4>3 DEF Backs
    <3>2. ASSUME NEW m \in DOMAIN mails', NEW n \in DOMAIN mails', m # n
          PROVE  /\ mails'[m].of # mails'[n].of
                 /\ mails'[m].window # 0 => mails'[m].window # mails'[n].window
      <4>1. CASE m \in DOMAIN mails /\ n \in DOMAIN mails
        BY <1>1, <2>5, <3>2, <4>1 DEF MailedOnce
      <4>2. CASE m \notin DOMAIN mails /\ n \in DOMAIN mails
        BY <2>5, <2>6, <3>1, <4>2
      <4>3. CASE m \in DOMAIN mails /\ n \notin DOMAIN mails
        BY <2>5, <2>6, <3>1, <4>3
      <4>4. CASE m \notin DOMAIN mails /\ n \notin DOMAIN mails
        BY <2>5, <3>2, <4>4
      <4> QED BY <4>1, <4>2, <4>3, <4>4
    <3> QED BY <3>2 DEF MailedOnce
  <2> QED BY <2>7, <2>8, <2>9, <2>11, <2>12 DEF MailInv
<1> QED BY <1>6, <1>7, Zenon DEF Provider

LEMMA PersistStep ==
  ASSUME MailInv, NEW w \in Workers, Persist(w)
  PROVE  MailInv'
<1> DEFINE i == worker[w].at
<1>1. /\ TypeOK /\ AttemptsOK
      /\ UNCHANGED <<delivery, dispatches, today, blocked, mails>>
  BY DEF Persist, MailInv
<1>2. worker[w].stage \in {"accepted", "ambiguous", "rejected", "exhausted"}
  BY DEF Persist
<1>3. i \in DOMAIN reservations /\ Fenced(worker[w], reservations[i])
  BY <1>1, <1>2 DEF AttemptsOK, Attempting
<1>4. \A v \in Workers \ {w} : worker[v].stage \in Attempting =>
        worker[v].at # i /\ worker[v].at \in DOMAIN reservations
  BY <1>1, <1>2 DEF AttemptsOK, Attempting
<1>5. budget \in [Days -> [all : Int, optional : Int]]
  BY <1>1 DEF TypeOK
<1>6. ASSUME To(w, "failed"), reservations' = reservations, budget' = budget
      PROVE  MailInv'
  <2>1. "failed" \in Stages /\ "failed" \notin Attempting /\ worker[w].stage # "idle"
    BY <1>2 DEF Stages, Ending, Attempting
  <2>2. PICK r \in Invocations : /\ worker' = [worker EXCEPT ![w] = r]
                                 /\ r.stage = "failed" /\ r.of \in Deliveries
    BY <1>1, <1>6, <2>1, ToStep
  <2> QED BY <1>1, <1>6, <2>1, <2>2, RestStep DEF TypeOK
<1>7. ASSUME worker[w].stage \in {"accepted", "ambiguous"},
             NEW status \in {"SENT", "AMBIGUOUS"}, NEW stage \in {"sent", "failed"},
             SetReservation(w, status), To(w, stage), budget' = budget
      PROVE  MailInv'
  <2>1. stage \in Stages /\ stage \notin Attempting /\ worker[w].stage # "idle"
    BY <1>2 DEF Stages, Ending, Attempting
  <2>2. PICK r \in Invocations : /\ worker' = [worker EXCEPT ![w] = r]
                                 /\ r.stage = stage /\ r.of \in Deliveries
    BY <1>1, <1>7, <2>1, ToStep
  <2>3. /\ reservations' \in Seq(Rows) /\ DOMAIN reservations' = DOMAIN reservations
        /\ \A j \in DOMAIN reservations :
             /\ reservations'[j].of = reservations[j].of
             /\ reservations'[j].window = reservations[j].window
             /\ reservations'[j].status = IF j = i THEN status ELSE reservations[j].status
    <3>1. reservations' = Marked(i, status)
      BY <1>7, Zenon DEF SetReservation, Marked
    <3> HIDE DEF i
    <3> QED BY <1>1, <1>3, <3>1, MarkedRows DEF TypeOK
  <2>4. reservations[i].status = "HANDOFF"
    BY <1>3, <1>7 DEF Fenced
  <2>5. \A v \in Workers \ {w} : worker[v].stage \in Attempting =>
          reservations'[worker[v].at].status = reservations[worker[v].at].status
    BY <1>4, <2>3
  <2>6. \A j \in DOMAIN reservations, m \in DOMAIN mails : Backs(j, mails[m]) =>
          reservations'[j].status \in {"HANDOFF", "SENT", "AMBIGUOUS"}
    BY <2>3 DEF Backs
  <2>7. \A j \in DOMAIN reservations : Held(reservations', j) => Held(reservations, j)
    BY <2>3, <2>4 DEF Held
  <2>8. r.stage \notin {"handed", "rejected", "exhausted"}
    BY <2>2
  <2> QED BY <1>1, <1>5, <1>7, <2>1, <2>2, <2>3, <2>5, <2>6, <2>7, <2>8, MoveStep
<1>8. ASSUME worker[w].stage \in {"rejected", "exhausted"},
             NEW stage \in {"postponed", "retry"}, To(w, stage),
             \/ reservations' = Released({i}) /\ budget' = SlotsOf({i})
             \/ reservations' = reservations /\ budget' = budget
      PROVE  MailInv'
  <2>1. stage \in Stages /\ stage \notin Attempting /\ worker[w].stage # "idle"
    BY <1>2 DEF Stages, Ending, Attempting
  <2>2. PICK r \in Invocations : /\ worker' = [worker EXCEPT ![w] = r]
                                 /\ r.stage = stage /\ r.of \in Deliveries
    BY <1>1, <1>8, <2>1, ToStep
  <2>3. CASE reservations' = reservations /\ budget' = budget
    BY <1>1, <2>1, <2>2, <2>3, RestStep DEF TypeOK
  <2>4. CASE reservations' = Released({i}) /\ budget' = SlotsOf({i})
    <3>1. /\ reservations' \in Seq(Rows) /\ DOMAIN reservations' = DOMAIN reservations
          /\ \A j \in DOMAIN reservations :
               /\ reservations'[j].of = reservations[j].of
               /\ reservations'[j].window = reservations[j].window
               /\ reservations'[j].status = IF j = i THEN "RELEASED" ELSE reservations[j].status
      BY <1>1, <2>4, ReleasedRows DEF TypeOK
    <3>2. budget' \in [Days -> [all : Int, optional : Int]]
      BY <1>1, <1>3, <2>4, SlotsType
    <3>3. \A v \in Workers \ {w} : worker[v].stage \in Attempting =>
            reservations'[worker[v].at].status = reservations[worker[v].at].status
      BY <1>4, <3>1
    <3>4. \A j \in DOMAIN reservations, m \in DOMAIN mails : Backs(j, mails[m]) =>
            reservations'[j].status \in {"HANDOFF", "SENT", "AMBIGUOUS"}
      BY <1>8, <3>1 DEF Backs
    <3>5. \A j \in DOMAIN reservations : Held(reservations', j) => Held(reservations, j)
      BY <3>1 DEF Held
    <3>6. r.stage \notin {"handed", "rejected", "exhausted"}
      BY <2>2
    <3> QED BY <1>1, <2>1, <2>2, <3>1, <3>2, <3>3, <3>4, <3>5, <3>6, MoveStep
  <2> QED BY <1>8, <2>3, <2>4
<1>9. CASE /\ worker[w].stage \in {"accepted", "ambiguous"}
           /\ IF Reservation(w).status = "HANDOFF"
              THEN /\ SetReservation(w, IF worker[w].stage = "accepted" THEN "SENT" ELSE "AMBIGUOUS")
                   /\ To(w, IF worker[w].stage = "accepted" THEN "sent" ELSE "failed")
              ELSE To(w, "failed") /\ UNCHANGED reservations
           /\ UNCHANGED budget
  BY <1>6, <1>7, <1>9
<1>10. CASE /\ To(w, "failed")
            /\ UNCHANGED <<reservations, budget>>
  BY <1>6, <1>10
<1>11. CASE /\ worker[w].stage \in {"rejected", "exhausted"}
            /\ IF Reservation(w).status \in {"RESERVED", "HANDOFF"}
               THEN reservations' = Released({worker[w].at}) /\ budget' = SlotsOf({worker[w].at})
               ELSE UNCHANGED <<reservations, budget>>
            /\ To(w, IF worker[w].stage = "exhausted" THEN "postponed" ELSE "retry")
  BY <1>8, <1>11
<1> QED BY <1>9, <1>10, <1>11, Zenon DEF Persist

\* The lapsed reservations are released: rows that were not handed over.
LEMMA LapsedRows ==
  ASSUME TypeOK
  PROVE  /\ Lapsed \subseteq DOMAIN reservations
         /\ \A i \in Lapsed : reservations[i].status = "RESERVED"
         /\ Released(Lapsed) \in Seq(Rows)
         /\ Len(Released(Lapsed)) = Len(reservations)
         /\ DOMAIN Released(Lapsed) = DOMAIN reservations
         /\ \A i \in DOMAIN reservations :
              /\ Released(Lapsed)[i].of = reservations[i].of
              /\ Released(Lapsed)[i].day = reservations[i].day
              /\ Released(Lapsed)[i].window = reservations[i].window
              /\ Released(Lapsed)[i].status
                   = IF i \in Lapsed THEN "RELEASED" ELSE reservations[i].status
              /\ Held(Released(Lapsed), i) <=> i \in Holding
<1>1. Lapsed \subseteq DOMAIN reservations /\ \A i \in Lapsed : reservations[i].status = "RESERVED"
  BY DEF Lapsed, Expired
<1>2. /\ Released(Lapsed) \in Seq(Rows)
      /\ Len(Released(Lapsed)) = Len(reservations)
      /\ DOMAIN Released(Lapsed) = DOMAIN reservations
      /\ \A i \in DOMAIN reservations :
           /\ Released(Lapsed)[i].of = reservations[i].of
           /\ Released(Lapsed)[i].day = reservations[i].day
           /\ Released(Lapsed)[i].window = reservations[i].window
           /\ Released(Lapsed)[i].status
                = IF i \in Lapsed THEN "RELEASED" ELSE reservations[i].status
  BY ReleasedRows DEF TypeOK
<1>3. \A i \in DOMAIN reservations : Held(Released(Lapsed), i) <=> i \in Holding
  BY <1>2 DEF Held, Holding
<1> QED BY <1>1, <1>2, <1>3

\* ClaimMail: the two outcomes.
LEMMA ClaimCases ==
  ASSUME TypeOK, NEW w \in Workers, ClaimMail(w)
  PROVE  LET d == worker[w].of IN
         \/ /\ Claim(d, worker[w].window) = "reserved"
            /\ reservations' = Append(Released(Lapsed), NewReservation(d, worker[w].window))
            /\ budget' = [SlotsOf(Lapsed) EXCEPT
                 ![today].all = @ + 1,
                 ![today].optional = @ + (IF Optional(d) THEN 1 ELSE 0)]
            /\ worker' = [worker EXCEPT ![w].stage = "reserved",
                                        ![w].at = Len(Released(Lapsed)) + 1]
         \/ /\ Claim(d, worker[w].window) # "reserved"
            /\ reservations' = Released(Lapsed) /\ budget' = SlotsOf(Lapsed)
            /\ To(w, Claim(d, worker[w].window))
BY Zenon DEF ClaimMail

LEMMA NewRow ==
  ASSUME TypeOK, NEW d \in Deliveries, NEW window \in Nat
  PROVE  /\ NewReservation(d, window) \in Rows
         /\ NewReservation(d, window).of = d /\ NewReservation(d, window).window = window
         /\ NewReservation(d, window).status = "RESERVED"
         /\ NewReservation(d, window).day = today
BY DEF NewReservation, Rows, TypeOK

LEMMA ClaimStep ==
  ASSUME MailInv, NEW w \in Workers, ClaimMail(w)
  PROVE  MailInv'
<1> DEFINE d == worker[w].of
           window == worker[w].window
           kept == Released(Lapsed)
           row == NewReservation(d, window)
           n == Len(reservations)
<1>1. /\ TypeOK /\ AttemptsOK /\ HeldOnce(reservations) /\ MailsBacked /\ MailedOnce
      /\ worker[w].stage = "claim"
      /\ UNCHANGED <<delivery, dispatches, today, blocked, mails>>
  BY DEF ClaimMail, MailInv
<1>2. d \in Deliveries /\ window \in Nat
  BY <1>1 DEF TypeOK, Invocations
<1>3. /\ Lapsed \subseteq DOMAIN reservations
      /\ \A i \in Lapsed : reservations[i].status = "RESERVED"
      /\ kept \in Seq(Rows) /\ Len(kept) = n /\ DOMAIN kept = DOMAIN reservations
      /\ \A i \in DOMAIN reservations :
           /\ kept[i].of = reservations[i].of
           /\ kept[i].window = reservations[i].window
           /\ kept[i].status = IF i \in Lapsed THEN "RELEASED" ELSE reservations[i].status
           /\ Held(kept, i) <=> i \in Holding
  BY <1>1, LapsedRows
<1>4. SlotsOf(Lapsed) \in [Days -> [all : Int, optional : Int]]
  BY <1>1, <1>3, SlotsType
<1>5. n \in Nat /\ DOMAIN reservations = 1..n
  BY <1>1, RowNumbers DEF TypeOK
<1>6. \A v \in Workers \ {w} : worker[v].stage \in Attempting => worker[v].at \in DOMAIN reservations
  BY <1>1 DEF AttemptsOK
<1>7. CASE /\ Claim(d, window) # "reserved"
           /\ reservations' = kept /\ budget' = SlotsOf(Lapsed) /\ To(w, Claim(d, window))
  <2> DEFINE stage == Claim(d, window)
  <2>1. stage \in {"sent", "failed", "postponed", "cancelled"}
    BY <1>1, <1>2, <1>7, ClaimOutcome
  <2> HIDE DEF stage
  <2>2. stage \in Stages /\ stage \notin Attempting
        /\ stage \notin {"handed", "rejected", "exhausted"}
    BY <2>1 DEF Stages, Ending, Attempting
  <2>3. To(w, stage)
    BY <1>7 DEF stage
  <2>4. PICK r \in Invocations : /\ worker' = [worker EXCEPT ![w] = r]
                                 /\ r.stage = stage /\ r.of \in Deliveries
    BY <1>1, <2>2, <2>3, ToStep
  <2> HIDE DEF kept
  <2>5. \A v \in Workers \ {w} : worker[v].stage \in Attempting =>
          \/ reservations'[worker[v].at].status = reservations[worker[v].at].status
          \/ /\ reservations[worker[v].at].status = "RESERVED"
             /\ reservations'[worker[v].at].status = "RELEASED"
    BY <1>3, <1>6, <1>7
  <2>6. \A j \in DOMAIN reservations, m \in DOMAIN mails : Backs(j, mails[m]) =>
          reservations'[j].status \in {"HANDOFF", "SENT", "AMBIGUOUS"}
    BY <1>3, <1>7 DEF Backs
  <2>7. \A j \in DOMAIN reservations : Held(reservations', j) => Held(reservations, j)
    BY <1>3, <1>7 DEF Held
  <2> QED BY <1>1, <1>3, <1>4, <1>7, <2>2, <2>4, <2>5, <2>6, <2>7, MoveStep
<1>8. CASE /\ Claim(d, window) = "reserved" /\ reservations' = Append(kept, row)
           /\ budget' = [SlotsOf(Lapsed) EXCEPT
                ![today].all = @ + 1,
                ![today].optional = @ + (IF Optional(d) THEN 1 ELSE 0)]
           /\ worker' = [worker EXCEPT ![w].stage = "reserved", ![w].at = Len(kept) + 1]
  <2>1. /\ row \in Rows /\ row.of = d /\ row.window = window /\ row.status = "RESERVED"
    BY <1>1, <1>2, NewRow
  <2>2. AttemptsOf(d) = {} /\ WindowOwners(window) = {}
    BY <1>1, <1>2, <1>8, ClaimOutcome
  <2> HIDE DEF kept, row
  <2>3. /\ reservations' \in Seq(Rows) /\ DOMAIN reservations' = 1..(n + 1)
        /\ \A i \in DOMAIN reservations : reservations'[i] = kept[i]
        /\ reservations'[n + 1] = row
    BY <1>3, <1>8, <2>1, Appended
  <2> DEFINE r == [worker[w] EXCEPT !.stage = "reserved", !.at = n + 1]
  <2>4. worker' = [worker EXCEPT ![w] = r]
    BY <1>3, <1>8, Zenon
  <2>5. r \in Invocations /\ r.stage = "reserved" /\ r.at = n + 1 /\ r.of = d /\ r.window = window
    <3>1. worker[w] \in Invocations
      BY <1>1 DEF TypeOK
    <3>2. "reserved" \in Stages /\ n + 1 \in Nat
      BY <1>5 DEF Stages, Attempting
    <3>3. r \in Invocations
      BY <3>1, <3>2, Zenon DEF Invocations
    <3> QED BY <3>1, <3>3 DEF Invocations
  <2> HIDE DEF r
  <2>6. worker'[w] = r /\ \A v \in Workers \ {w} : worker'[v] = worker[v]
    BY <1>1, <2>4 DEF TypeOK
  <2>7. budget' \in [Days -> [all : Int, optional : Int]]
    <3> DEFINE slots == SlotsOf(Lapsed)
               extra == IF Optional(d) THEN 1 ELSE 0
               t == slots[today]
               day == [t EXCEPT !.all = @ + 1, !.optional = @ + extra]
    <3>1. today \in Days /\ t \in [all : Int, optional : Int] /\ extra \in Int
      BY <1>1, <1>4 DEF TypeOK
    <3>2. day \in [all : Int, optional : Int]
      <4> HIDE DEF t, extra
      <4>1. t.all + 1 \in Int /\ t.optional + extra \in Int
        BY <3>1
      <4> QED BY <3>1, <4>1
    <3>3. budget' = [slots EXCEPT ![today] = day]
      BY <1>8, Zenon
    <3> HIDE DEF day, t, extra, slots
    <3>4. slots \in [Days -> [all : Int, optional : Int]]
      BY <1>4 DEF slots
    <3> QED BY <3>2, <3>3, <3>4
  <2>8. TypeOK'
    <3>1. worker' \in [Workers -> Invocations]
      BY <1>1, <2>4, <2>5 DEF TypeOK
    <3>2. \A v \in Workers : worker'[v].stage # "idle" => worker'[v].of \in Deliveries
      BY <1>1, <1>2, <2>5, <2>6 DEF TypeOK
    <3>3. /\ delivery' \in [Deliveries -> [status : Status, token : Nat, attempts : Nat]]
          /\ dispatches' \in [Deliveries -> Nat] /\ today' \in Days
          /\ blocked' \in {"none", "optional", "all"}
          /\ mails' \in Seq([of : Deliveries, window : Nat])
      BY <1>1 DEF TypeOK
    <3> QED BY <2>3, <2>7, <3>1, <3>2, <3>3 DEF TypeOK, Rows, Days
  <2>9. \A i \in DOMAIN reservations :
          /\ reservations'[i].of = reservations[i].of
          /\ reservations'[i].window = reservations[i].window
    BY <1>3, <2>3
  <2>10. DOMAIN reservations \subseteq DOMAIN reservations' /\ n + 1 \notin DOMAIN reservations
         /\ n + 1 \in DOMAIN reservations'
    BY <1>5, <2>3
  <2>11. AttemptsOK'
    <3>1. \A v \in Workers \ {w} : worker[v].stage \in Attempting =>
            \/ reservations'[worker[v].at].status = reservations[worker[v].at].status
            \/ /\ reservations[worker[v].at].status = "RESERVED"
               /\ reservations'[worker[v].at].status = "RELEASED"
      BY <1>3, <1>6, <2>3
    <3>2. Fenced(r, reservations'[r.at])
      BY <2>1, <2>3, <2>5 DEF Fenced
    <3>3. \A v \in Workers \ {w} : worker[v].stage \in Attempting => worker[v].at # r.at
      BY <1>6, <2>5, <2>10
    <3>4. r.at \in DOMAIN reservations'
      BY <2>5, <2>10
    <3> QED BY <1>1, <2>6, <2>9, <2>10, <3>1, <3>2, <3>3, <3>4, AttemptsStep
  <2>12. HeldOnce(reservations)'
    <3>1. HeldOnce(kept)
      BY <1>1, <1>3, HeldStep DEF Held, Holding
    <3>2. \A i \in DOMAIN kept : Held(kept, i) =>
            kept[i].of # d /\ (window # 0 => kept[i].window # window)
      BY <1>3, <2>2 DEF AttemptsOf, WindowOwners
    <3>3. \A i \in DOMAIN reservations' : i \in DOMAIN kept \/ i = n + 1
      BY <1>3, <1>5, <2>3
    <3>4. ASSUME NEW i \in DOMAIN reservations', NEW j \in DOMAIN reservations', i # j,
                 Held(reservations', i), Held(reservations', j)
          PROVE  /\ reservations'[i].of # reservations'[j].of
                 /\ reservations'[i].window # 0 => reservations'[i].window # reservations'[j].window
      <4>1. CASE i \in DOMAIN kept /\ j \in DOMAIN kept
        BY <1>3, <2>3, <3>1, <3>4, <4>1 DEF HeldOnce, Held
      <4>2. CASE i \in DOMAIN kept /\ j = n + 1
        <5>1. /\ Held(kept, i) /\ reservations'[i] = kept[i]
              /\ reservations'[j].of = d /\ reservations'[j].window = window
          BY <1>3, <2>1, <2>3, <3>4, <4>2 DEF Held
        <5> QED BY <3>2, <4>2, <5>1
      <4>3. CASE i = n + 1 /\ j \in DOMAIN kept
        <5>1. /\ Held(kept, j) /\ reservations'[j] = kept[j]
              /\ reservations'[i].of = d /\ reservations'[i].window = window
          BY <1>3, <2>1, <2>3, <3>4, <4>3 DEF Held
        <5> QED BY <3>2, <4>3, <5>1
      <4> QED BY <3>3, <3>4, <4>1, <4>2, <4>3
    <3> QED BY <3>4 DEF HeldOnce, Held
  <2>13. MailsBacked'
    <3>1. \A j \in DOMAIN reservations, m \in DOMAIN mails : Backs(j, mails[m]) =>
            reservations'[j].status \in {"HANDOFF", "SENT", "AMBIGUOUS"}
      BY <1>3, <2>3 DEF Backs
    <3>2. worker'[w].stage \notin {"handed", "rejected", "exhausted"}
      BY <2>5, <2>6
    <3> QED BY <1>1, <2>6, <2>9, <2>10, <3>1, <3>2, MailsStep
  <2>14. MailedOnce'
    BY <1>1 DEF MailedOnce
  <2> QED BY <2>8, <2>11, <2>12, <2>13, <2>14 DEF MailInv
<1> QED BY <1>1, <1>7, <1>8, ClaimCases

-----------------------------------------------------------------------------
(* The budget.                                                             *)

Slots(rs, day) == {i \in DOMAIN rs : rs[i].day = day /\ Held(rs, i)}
OptionalSlots(rs, day) == {i \in Slots(rs, day) : Optional(rs[i].of)}

\* What BudgetIsTrue says, of any counters and rows.
BudgetOK(b, rs) ==
  \A day \in Days :
    /\ b[day] = [all |-> Cardinality(Slots(rs, day)),
                 optional |-> Cardinality(OptionalSlots(rs, day))]
    /\ Cardinality(Slots(rs, day)) <= DailyLimit
    /\ Cardinality(OptionalSlots(rs, day)) <= DailyLimit - Reserve

LEMMA BudgetForm ==
  ASSUME DOMAIN budget = Days
  PROVE  BudgetIsTrue <=> BudgetOK(budget, reservations)
<1>1. ASSUME NEW day
      PROVE  {i \in DOMAIN reservations :
                reservations[i].day = day /\ reservations[i].status # "RELEASED"}
             = Slots(reservations, day)
  BY DEF Slots, Held
<1> QED BY <1>1 DEF BudgetIsTrue, BudgetOK, OptionalSlots

LEMMA SlotsFinite ==
  ASSUME NEW rs \in Seq(Rows), NEW day
  PROVE  /\ Slots(rs, day) \subseteq DOMAIN rs /\ OptionalSlots(rs, day) \subseteq DOMAIN rs
         /\ IsFiniteSet(Slots(rs, day)) /\ Cardinality(Slots(rs, day)) \in Nat
         /\ IsFiniteSet(OptionalSlots(rs, day)) /\ Cardinality(OptionalSlots(rs, day)) \in Nat
<1>1. Slots(rs, day) \subseteq DOMAIN rs /\ OptionalSlots(rs, day) \subseteq DOMAIN rs
  BY DEF Slots, OptionalSlots
<1> QED BY <1>1, RowsFinite

\* Rows that are held as before keep the budget.
LEMMA SameSlots ==
  ASSUME NEW b, NEW rs, NEW ts, BudgetOK(b, rs), DOMAIN ts = DOMAIN rs,
         \A i \in DOMAIN rs : /\ ts[i].of = rs[i].of /\ ts[i].day = rs[i].day
                              /\ Held(ts, i) <=> Held(rs, i)
  PROVE  BudgetOK(b, ts)
<1>1. ASSUME NEW day
      PROVE  Slots(ts, day) = Slots(rs, day) /\ OptionalSlots(ts, day) = OptionalSlots(rs, day)
  <2>1. Slots(ts, day) = Slots(rs, day)
    BY DEF Slots
  <2>2. \A i \in Slots(rs, day) : ts[i].of = rs[i].of
    BY DEF Slots
  <2> QED BY <2>1, <2>2 DEF OptionalSlots
<1> QED BY <1>1 DEF BudgetOK

\* The slots of held rows are given back once, with the rows.
LEMMA FreedSlots ==
  ASSUME TypeOK, BudgetOK(budget, reservations), NEW which,
         which \subseteq DOMAIN reservations, \A i \in which : Held(reservations, i)
  PROVE  BudgetOK(SlotsOf(which), Released(which))
<1> DEFINE rs == reservations
           ts == Released(which)
<1>1. /\ DOMAIN ts = DOMAIN rs
      /\ \A i \in DOMAIN rs :
           /\ ts[i].of = rs[i].of /\ ts[i].day = rs[i].day
           /\ ts[i].status = IF i \in which THEN "RELEASED" ELSE rs[i].status
  BY ReleasedRows DEF TypeOK
<1>2. ASSUME NEW day \in Days
      PROVE  /\ SlotsOf(which)[day] = [all |-> Cardinality(Slots(ts, day)),
                                       optional |-> Cardinality(OptionalSlots(ts, day))]
             /\ Cardinality(Slots(ts, day)) <= DailyLimit
             /\ Cardinality(OptionalSlots(ts, day)) <= DailyLimit - Reserve
  <2> DEFINE of == {i \in which : rs[i].day = day}
             optional == {i \in of : Optional(rs[i].of)}
             S == Slots(rs, day)
             O == OptionalSlots(rs, day)
  <2>1. SlotsOf(which)[day] = [all |-> budget[day].all - Cardinality(of),
                               optional |-> budget[day].optional - Cardinality(optional)]
    BY DEF SlotsOf
  <2>2. /\ budget[day] = [all |-> Cardinality(S), optional |-> Cardinality(O)]
        /\ Cardinality(S) <= DailyLimit /\ Cardinality(O) <= DailyLimit - Reserve
    BY DEF BudgetOK
  <2>3. /\ IsFiniteSet(S) /\ Cardinality(S) \in Nat /\ IsFiniteSet(O) /\ Cardinality(O) \in Nat
    BY SlotsFinite DEF TypeOK
  <2>4. of \subseteq DOMAIN rs /\ optional \subseteq DOMAIN rs
    OBVIOUS
  <2>5. Cardinality(of) \in Nat /\ Cardinality(optional) \in Nat
    <3> HIDE DEF of, optional
    <3> QED BY <2>4, RowsFinite DEF TypeOK
  <2>6. S \cap of = of /\ O \cap optional = optional
    BY DEF Slots, OptionalSlots
  <2>7. Slots(ts, day) = S \ of
    <3>1. \A i : i \in Slots(ts, day) <=> i \in DOMAIN rs /\ rs[i].day = day /\ Held(ts, i)
      BY <1>1 DEF Slots
    <3>2. \A i \in DOMAIN rs : Held(ts, i) <=> i \notin which /\ Held(rs, i)
      BY <1>1 DEF Held
    <3>3. \A i : i \in Slots(ts, day) <=> i \in S /\ i \notin of
      <4> HIDE DEF ts
      <4> QED BY <3>1, <3>2 DEF Slots
    <3> QED BY <3>3
  <2>8. OptionalSlots(ts, day) = O \ optional
    <3>1. \A i \in S \ of : ts[i].of = rs[i].of
      BY <1>1 DEF Slots
    <3>2. OptionalSlots(ts, day) = {i \in S \ of : Optional(rs[i].of)}
      BY <2>7, <3>1 DEF OptionalSlots
    <3> QED BY <3>2 DEF OptionalSlots
  <2> HIDE DEF of, optional, S, O, ts
  <2>9. /\ Cardinality(S \ of) = Cardinality(S) - Cardinality(of)
        /\ Cardinality(O \ optional) = Cardinality(O) - Cardinality(optional)
    <3>1. Cardinality(S \ of) = Cardinality(S) - Cardinality(S \cap of)
      BY <2>3, FS_Difference
    <3>2. Cardinality(O \ optional) = Cardinality(O) - Cardinality(O \cap optional)
      BY <2>3, FS_Difference
    <3> QED BY <2>6, <3>1, <3>2
  <2>10. Cardinality(S \ of) <= DailyLimit /\ Cardinality(O \ optional) <= DailyLimit - Reserve
    BY <2>2, <2>3, <2>5, <2>9, MailAssumption
  <2> QED BY <2>1, <2>2, <2>7, <2>8, <2>9, <2>10
<1> QED BY <1>2 DEF BudgetOK

\* A claim takes a slot of today that is free.
LEMMA AddedSlot ==
  ASSUME NEW b \in [Days -> [all : Int, optional : Int]], NEW rs \in Seq(Rows), BudgetOK(b, rs),
         NEW row \in Rows, row.status = "RESERVED", NEW day \in Days, row.day = day,
         ~(b[day].all >= DailyLimit),
         Optional(row.of) => ~(b[day].optional >= DailyLimit - Reserve),
         NEW c, c = [b EXCEPT ![day].all = @ + 1,
                              ![day].optional = @ + (IF Optional(row.of) THEN 1 ELSE 0)]
  PROVE  BudgetOK(c, Append(rs, row))
<1> DEFINE n == Len(rs) + 1
           ts == Append(rs, row)
           extra == IF Optional(row.of) THEN 1 ELSE 0
           t == b[day]
           now == [t EXCEPT !.all = @ + 1, !.optional = @ + extra]
<1>1. /\ Len(rs) \in Nat /\ DOMAIN rs = 1..Len(rs) /\ DOMAIN ts = 1..n
      /\ \A i \in DOMAIN rs : ts[i] = rs[i]
      /\ ts[n] = row
  BY Appended
<1>2. n \notin DOMAIN rs /\ \A i : i \in DOMAIN ts <=> i \in DOMAIN rs \/ i = n
  BY <1>1
<1>3. c = [b EXCEPT ![day] = now]
  BY Zenon
<1>4. now.all = t.all + 1 /\ now.optional = t.optional + extra
      /\ now = [all |-> t.all + 1, optional |-> t.optional + extra]
  <2>1. t \in [all : Int, optional : Int] /\ extra \in Int
    OBVIOUS
  <2> HIDE DEF t, extra
  <2>2. t.all + 1 \in Int /\ t.optional + extra \in Int
    BY <2>1
  <2>3. now \in [all : Int, optional : Int]
    BY <2>1, <2>2
  <2>4. now.all = t.all + 1 /\ now.optional = t.optional + extra
    BY <2>1
  <2> HIDE DEF now
  <2>5. now = [all |-> now.all, optional |-> now.optional]
    BY <2>3
  <2> QED BY <2>4, <2>5
<1> HIDE DEF now, ts, n
<1>5. ASSUME NEW e \in Days
      PROVE  /\ Slots(ts, e) = IF e = day THEN Slots(rs, e) \cup {n} ELSE Slots(rs, e)
             /\ OptionalSlots(ts, e) = IF e = day /\ Optional(row.of)
                                       THEN OptionalSlots(rs, e) \cup {n} ELSE OptionalSlots(rs, e)
  <2>1. \A i : i \in Slots(ts, e) <=> i \in Slots(rs, e) \/ (i = n /\ e = day)
    BY <1>1, <1>2 DEF Slots, Held
  <2>2. Slots(ts, e) = IF e = day THEN Slots(rs, e) \cup {n} ELSE Slots(rs, e)
    BY <2>1
  <2>3. \A i \in Slots(rs, e) : ts[i].of = rs[i].of
    BY <1>1 DEF Slots
  <2>4. \A i : i \in OptionalSlots(ts, e)
               <=> i \in OptionalSlots(rs, e) \/ (i = n /\ e = day /\ Optional(row.of))
    BY <1>1, <2>1, <2>3 DEF OptionalSlots
  <2>5. OptionalSlots(ts, e) = IF e = day /\ Optional(row.of)
                               THEN OptionalSlots(rs, e) \cup {n} ELSE OptionalSlots(rs, e)
    BY <2>4
  <2> QED BY <2>2, <2>5
<1>6. ASSUME NEW e \in Days
      PROVE  /\ c[e] = [all |-> Cardinality(Slots(ts, e)),
                        optional |-> Cardinality(OptionalSlots(ts, e))]
             /\ Cardinality(Slots(ts, e)) <= DailyLimit
             /\ Cardinality(OptionalSlots(ts, e)) <= DailyLimit - Reserve
  <2>1. /\ b[e] = [all |-> Cardinality(Slots(rs, e)),
                   optional |-> Cardinality(OptionalSlots(rs, e))]
        /\ Cardinality(Slots(rs, e)) <= DailyLimit
        /\ Cardinality(OptionalSlots(rs, e)) <= DailyLimit - Reserve
    BY DEF BudgetOK
  <2>2. CASE e # day
    <3>1. c[e] = b[e]
      BY <1>3, <2>2
    <3> QED BY <1>5, <2>1, <2>2, <3>1
  <2>3. CASE e = day
    <3>1. c[e] = now
      BY <1>3, <2>3
    <3> DEFINE S == Slots(rs, e)
               O == OptionalSlots(rs, e)
    <3>2. /\ IsFiniteSet(S) /\ Cardinality(S) \in Nat /\ n \notin S
          /\ IsFiniteSet(O) /\ Cardinality(O) \in Nat /\ n \notin O
      BY <1>2, SlotsFinite
    <3>3. t.all = Cardinality(S) /\ t.optional = Cardinality(O)
      BY <2>1, <2>3
    <3>4. Slots(ts, e) = S \cup {n} /\ OptionalSlots(ts, e) = IF Optional(row.of) THEN O \cup {n} ELSE O
      BY <1>5, <2>3
    <3> HIDE DEF S, O
    <3>5. Cardinality(S \cup {n}) = Cardinality(S) + 1 /\ Cardinality(O \cup {n}) = Cardinality(O) + 1
      BY <3>2, FS_AddElement
    <3>6. /\ Cardinality(Slots(ts, e)) = t.all + 1
          /\ Cardinality(OptionalSlots(ts, e)) = t.optional + extra
      BY <3>2, <3>3, <3>4, <3>5
    <3>7. t.all + 1 <= DailyLimit
      BY <3>2, <3>3, MailAssumption
    <3>8. t.optional + extra <= DailyLimit - Reserve
      <4>1. CASE Optional(row.of)
        BY <3>2, <3>3, <4>1, MailAssumption
      <4>2. CASE ~Optional(row.of)
        BY <2>1, <3>2, <3>3, <4>2, MailAssumption DEF O
      <4> QED BY <4>1, <4>2
    <3> QED BY <1>4, <3>1, <3>6, <3>7, <3>8
  <2> QED BY <2>2, <2>3
<1> QED BY <1>6 DEF BudgetOK, ts

LEMMA BudgetClaim ==
  ASSUME MailInv, BudgetOK(budget, reservations), NEW w \in Workers, ClaimMail(w)
  PROVE  BudgetOK(budget, reservations)'
<1> DEFINE d == worker[w].of
           window == worker[w].window
           kept == Released(Lapsed)
           left == SlotsOf(Lapsed)
           row == NewReservation(d, window)
<1>1. TypeOK /\ today \in Days /\ d \in Deliveries /\ window \in Nat
  BY DEF ClaimMail, MailInv, TypeOK, Invocations
<1>2. /\ Lapsed \subseteq DOMAIN reservations
      /\ \A i \in Lapsed : Held(reservations, i)
      /\ kept \in Seq(Rows)
  <2>1. \A i \in Lapsed : reservations[i].status = "RESERVED"
    BY <1>1, LapsedRows
  <2> QED BY <1>1, <2>1, LapsedRows DEF Held
<1>3. BudgetOK(left, kept) /\ left \in [Days -> [all : Int, optional : Int]]
  BY <1>1, <1>2, FreedSlots, SlotsType
<1>4. CASE reservations' = kept /\ budget' = left
  BY <1>3, <1>4 DEF BudgetOK, Slots, OptionalSlots, Held
<1>5. CASE /\ Claim(d, window) = "reserved" /\ reservations' = Append(kept, row)
           /\ budget' = [left EXCEPT
                ![today].all = @ + 1,
                ![today].optional = @ + (IF Optional(d) THEN 1 ELSE 0)]
  <2>1. /\ row \in Rows /\ row.of = d /\ row.status = "RESERVED" /\ row.day = today
    BY <1>1, NewRow
  <2>2. /\ ~(left[today].all >= DailyLimit)
        /\ Optional(d) => ~(left[today].optional >= DailyLimit - Reserve)
    BY <1>1, <1>5, ClaimOutcome
  <2> DEFINE c == [left EXCEPT ![today].all = @ + 1,
                               ![today].optional = @ + (IF Optional(row.of) THEN 1 ELSE 0)]
  <2>3. budget' = c
    BY <1>5, <2>1
  <2> HIDE DEF c, left, kept, row, d
  <2>4. BudgetOK(c, Append(kept, row))
    BY <1>1, <1>2, <1>3, <2>1, <2>2, AddedSlot DEF c
  <2> QED BY <1>5, <2>3, <2>4 DEF BudgetOK, Slots, OptionalSlots, Held
<1> QED BY <1>1, <1>4, <1>5, ClaimCases

LEMMA BudgetHandOff ==
  ASSUME MailInv, BudgetOK(budget, reservations), NEW w \in Workers, HandOff(w)
  PROVE  BudgetOK(budget, reservations')
<1>1. CASE UNCHANGED reservations
  BY <1>1
<1>2. CASE MayHandOff(w) /\ SetReservation(w, "HANDOFF")
  <2> DEFINE i == worker[w].at
  <2>1. i \in DOMAIN reservations /\ reservations \in Seq(Rows)
    BY DEF HandOff, MailInv, TypeOK, AttemptsOK, Attempting
  <2>2. reservations' = Marked(i, "HANDOFF") /\ reservations[i].status = "RESERVED"
    BY <1>2, Zenon DEF SetReservation, Marked, MayHandOff, Reservation
  <2> HIDE DEF i
  <2>3. /\ DOMAIN reservations' = DOMAIN reservations
        /\ \A j \in DOMAIN reservations :
             /\ reservations'[j].of = reservations[j].of
             /\ reservations'[j].day = reservations[j].day
             /\ reservations'[j].status
                  = IF j = i THEN "HANDOFF" ELSE reservations[j].status
    BY <2>1, <2>2, MarkedRows
  <2>4. \A j \in DOMAIN reservations : Held(reservations', j) <=> Held(reservations, j)
    BY <2>2, <2>3 DEF Held
  <2> QED BY <2>3, <2>4, SameSlots
<1> QED BY <1>1, <1>2 DEF HandOff

LEMMA BudgetPersist ==
  ASSUME MailInv, BudgetOK(budget, reservations), NEW w \in Workers, Persist(w)
  PROVE  BudgetOK(budget, reservations)'
<1> DEFINE i == worker[w].at
<1>1. worker[w].stage \in {"accepted", "ambiguous", "rejected", "exhausted"}
  BY DEF Persist
<1>2. /\ i \in DOMAIN reservations /\ TypeOK /\ reservations \in Seq(Rows)
      /\ reservations[i].status = "HANDOFF"
  BY <1>1 DEF MailInv, TypeOK, AttemptsOK, Attempting, Fenced
<1>3. CASE reservations' = reservations /\ budget' = budget
  BY <1>3 DEF BudgetOK, Slots, OptionalSlots, Held
<1>4. ASSUME NEW status \in {"SENT", "AMBIGUOUS"}, SetReservation(w, status), budget' = budget
      PROVE  BudgetOK(budget, reservations)'
  <2>1. reservations' = Marked(i, status)
    BY <1>4, Zenon DEF SetReservation, Marked
  <2> HIDE DEF i
  <2>2. /\ DOMAIN reservations' = DOMAIN reservations
        /\ \A j \in DOMAIN reservations :
             /\ reservations'[j].of = reservations[j].of
             /\ reservations'[j].day = reservations[j].day
             /\ reservations'[j].status = IF j = i THEN status ELSE reservations[j].status
    BY <1>2, <2>1, MarkedRows
  <2>3. \A j \in DOMAIN reservations : Held(reservations', j) <=> Held(reservations, j)
    BY <1>2, <2>2 DEF Held
  <2>4. BudgetOK(budget, reservations')
    BY <2>2, <2>3, SameSlots
  <2> QED BY <1>4, <2>4 DEF BudgetOK, Slots, OptionalSlots, Held
<1>5. CASE reservations' = Released({i}) /\ budget' = SlotsOf({i})
  <2>1. Held(reservations, i)
    BY <1>2 DEF Held
  <2> HIDE DEF i
  <2>2. BudgetOK(SlotsOf({i}), Released({i}))
    BY <1>2, <2>1, FreedSlots
  <2> QED BY <1>5, <2>2 DEF BudgetOK, Slots, OptionalSlots, Held
<1>6. CASE /\ worker[w].stage \in {"accepted", "ambiguous"}
           /\ IF Reservation(w).status = "HANDOFF"
              THEN /\ SetReservation(w, IF worker[w].stage = "accepted" THEN "SENT" ELSE "AMBIGUOUS")
                   /\ To(w, IF worker[w].stage = "accepted" THEN "sent" ELSE "failed")
              ELSE To(w, "failed") /\ UNCHANGED reservations
           /\ UNCHANGED budget
  BY <1>3, <1>4, <1>6
<1>7. CASE UNCHANGED <<reservations, budget>>
  BY <1>3, <1>7
<1>8. CASE /\ worker[w].stage \in {"rejected", "exhausted"}
           /\ IF Reservation(w).status \in {"RESERVED", "HANDOFF"}
              THEN reservations' = Released({worker[w].at}) /\ budget' = SlotsOf({worker[w].at})
              ELSE UNCHANGED <<reservations, budget>>
           /\ To(w, IF worker[w].stage = "exhausted" THEN "postponed" ELSE "retry")
  BY <1>3, <1>5, <1>8
<1> QED BY <1>6, <1>7, <1>8, Zenon DEF Persist

LEMMA BudgetExpires ==
  ASSUME MailInv, BudgetOK(budget, reservations), NEW i \in DOMAIN reservations,
         ReservationExpires(i)
  PROVE  BudgetOK(budget, reservations')
<1>1. /\ DOMAIN reservations' = DOMAIN reservations
      /\ \A j \in DOMAIN reservations :
           /\ reservations'[j].of = reservations[j].of
           /\ reservations'[j].day = reservations[j].day
           /\ reservations'[j].status = reservations[j].status
  BY ExpiresRows DEF MailInv, TypeOK
<1> QED BY <1>1, SameSlots DEF Held

-----------------------------------------------------------------------------
(* The statuses of deliveries.                                             *)

LEMMA Ranks ==
  /\ \A s \in Status : Precedence[s] \in 0..5
  /\ \A s \in {"PENDING", "QUEUED", "PROCESSING"} : Precedence[s] = 0
  /\ \A s \in {"CANCELLED", "SUPPRESSED"} : Precedence[s] = 5
BY DEF Precedence, Status, Final

\* Any row keeps its rank when its status stays, or when it was waiting.
LEMMA RankKept ==
  ASSUME TypeOK, delivery' \in [Deliveries -> DeliveryRows],
         \A d \in Deliveries :
           \/ delivery'[d].status = delivery[d].status
           \/ delivery[d].status \in {"PENDING", "QUEUED", "PROCESSING"}
           \/ Precedence[delivery[d].status] < Precedence[delivery'[d].status]
  PROVE  \A d \in DOMAIN delivery :
           Precedence[delivery'[d].status] >= Precedence[delivery[d].status]
<1>1. ASSUME NEW d \in Deliveries
      PROVE  Precedence[delivery'[d].status] >= Precedence[delivery[d].status]
  <2>1. delivery[d].status \in Status /\ delivery'[d].status \in Status
    BY DEF TypeOK, DeliveryRows
  <2>2. Precedence[delivery[d].status] \in 0..5 /\ Precedence[delivery'[d].status] \in 0..5
    BY <2>1, Ranks
  <2>3. CASE delivery'[d].status = delivery[d].status
    BY <2>2, <2>3
  <2>4. CASE delivery[d].status \in {"PENDING", "QUEUED", "PROCESSING"}
    <3>1. Precedence[delivery[d].status] = 0
      BY <2>4, Ranks
    <3> QED BY <2>2, <3>1
  <2>5. CASE Precedence[delivery[d].status] < Precedence[delivery'[d].status]
    BY <2>2, <2>5
  <2> QED BY <2>3, <2>4, <2>5
<1> QED BY <1>1 DEF TypeOK

LEMMA EndRank ==
  ASSUME TypeOK, NEW w \in Workers, EndMail(w)
  PROVE  \A d \in Deliveries : \/ delivery'[d].status = delivery[d].status
                               \/ delivery[d].status \in {"PENDING", "QUEUED", "PROCESSING"}
<1> DEFINE q == worker[w].of
           row == [delivery[q] EXCEPT !.status = FinalStatus(w), !.token = 0]
<1>1. CASE Owns(w)
  <2>1. delivery' = [delivery EXCEPT ![q] = row]
    <3>1. delivery' = [delivery EXCEPT ![q].status = FinalStatus(w), ![q].token = 0]
      BY <1>1 DEF EndMail
    <3> QED BY <3>1, Zenon
  <2> HIDE DEF row
  <2>2. \A d \in Deliveries : d # q => delivery'[d] = delivery[d]
    BY <2>1 DEF TypeOK
  <2>3. delivery[q].status = "PROCESSING"
    BY <1>1 DEF Owns
  <2> QED BY <2>2, <2>3
<1>2. CASE ~Owns(w)
  BY <1>2 DEF EndMail
<1> QED BY <1>1, <1>2

-----------------------------------------------------------------------------
(* The theorems.                                                           *)

KeptInv == MailInv /\ BudgetOK(budget, reservations)

LEMMA InitKept == ASSUME MailInit PROVE KeptInv
<1>1. /\ delivery = [d \in Deliveries |-> [status |-> "PENDING", token |-> 0, attempts |-> 0]]
      /\ dispatches = [d \in Deliveries |-> 0] /\ worker = [w \in Workers |-> Idle]
      /\ reservations = <<>> /\ mails = <<>> /\ today = 1 /\ blocked = "none"
      /\ budget = [day \in Days |-> [all |-> 0, optional |-> 0]]
  BY DEF MailInit
<1>2. TypeOK
  <2>1. delivery \in [Deliveries -> [status : Status, token : Nat, attempts : Nat]]
        /\ dispatches \in [Deliveries -> Nat]
    BY <1>1 DEF Status
  <2>2. worker \in [Workers -> Invocations]
        /\ \A w \in Workers : worker[w].stage # "idle" => worker[w].of \in Deliveries
    BY <1>1, IdleRecord
  <2>3. reservations \in Seq(Rows) /\ mails \in Seq([of : Deliveries, window : Nat])
    BY <1>1
  <2>4. budget \in [Days -> [all : Int, optional : Int]] /\ today \in Days
    BY <1>1, DayNumbers
  <2> QED BY <1>1, <2>1, <2>2, <2>3, <2>4 DEF TypeOK
<1>3. AttemptsOK
  BY <1>1, IdleRecord DEF AttemptsOK, Attempting
<1>4. HeldOnce(reservations) /\ MailsBacked /\ MailedOnce
  BY <1>1 DEF HeldOnce, MailsBacked, MailedOnce
<1>5. BudgetOK(budget, reservations)
  <2>1. ASSUME NEW day \in Days
        PROVE  Slots(reservations, day) = {} /\ OptionalSlots(reservations, day) = {}
    BY <1>1 DEF Slots, OptionalSlots
  <2>2. Cardinality({}) = 0
    BY FS_EmptySet
  <2>3. 0 <= DailyLimit /\ 0 <= DailyLimit - Reserve
    BY MailAssumption
  <2>4. \A day \in Days : budget[day] = [all |-> 0, optional |-> 0]
    BY <1>1
  <2> QED BY <2>1, <2>2, <2>3, <2>4 DEF BudgetOK
<1> QED BY <1>2, <1>3, <1>4, <1>5 DEF KeptInv, MailInv

\* Every step keeps the invariant, and no step takes a status back.
LEMMA NextKept ==
  ASSUME KeptInv, MailNext
  PROVE  /\ KeptInv'
         /\ \A d \in DOMAIN delivery :
              Precedence[delivery'[d].status] >= Precedence[delivery[d].status]
<1> DEFINE Kept == \A d \in DOMAIN delivery :
                     Precedence[delivery'[d].status] >= Precedence[delivery[d].status]
<1>1. MailInv /\ TypeOK /\ BudgetOK(budget, reservations)
  BY DEF KeptInv, MailInv
<1>2. ASSUME MailInv', BudgetOK(budget, reservations) \/ BudgetOK(budget, reservations'),
             reservations' = reservations \/ BudgetOK(budget, reservations'), budget' = budget
      PROVE  KeptInv'
  BY <1>2 DEF KeptInv, BudgetOK, Slots, OptionalSlots, Held
<1>3. ASSUME KeptInv', delivery' = delivery PROVE KeptInv' /\ Kept
  <2>1. \A d \in Deliveries : delivery'[d].status = delivery[d].status
    BY <1>3
  <2>2. delivery' \in [Deliveries -> DeliveryRows]
    BY <1>1, <1>3 DEF TypeOK, DeliveryRows
  <2> QED BY <1>1, <1>3, <2>1, <2>2, RankKept
<1>4. ASSUME KeptInv',
             \A d \in Deliveries :
               \/ delivery'[d].status = delivery[d].status
               \/ delivery[d].status \in {"PENDING", "QUEUED", "PROCESSING"}
               \/ Precedence[delivery[d].status] < Precedence[delivery'[d].status]
      PROVE  KeptInv' /\ Kept
  <2>1. delivery' \in [Deliveries -> DeliveryRows]
    BY <1>4 DEF KeptInv, MailInv, TypeOK, DeliveryRows
  <2> QED BY <1>1, <1>4, <2>1, RankKept
<1> HIDE DEF Kept
<1>5. ASSUME Tomorrow PROVE KeptInv' /\ Kept
  BY <1>1, <1>2, <1>3, <1>5, TomorrowStep DEF Tomorrow
<1>6. ASSUME NEW d \in Deliveries, Dispatch(d) PROVE KeptInv' /\ Kept
  <2>1. KeptInv'
    BY <1>1, <1>2, <1>6, DispatchStep DEF Dispatch
  <2>2. \A e \in Deliveries : \/ delivery'[e].status = delivery[e].status
                              \/ delivery[e].status \in {"PENDING", "QUEUED", "PROCESSING"}
    BY <1>1, <1>6 DEF Dispatch, TypeOK
  <2> QED BY <1>4, <2>1, <2>2
<1>7. ASSUME NEW d \in Deliveries, Recover(d) PROVE KeptInv' /\ Kept
  <2>1. KeptInv'
    BY <1>1, <1>2, <1>7, RecoverStep DEF Recover
  <2>2. \A e \in Deliveries : \/ delivery'[e].status = delivery[e].status
                              \/ delivery[e].status \in {"PENDING", "QUEUED", "PROCESSING"}
    BY <1>1, <1>7 DEF Recover, TypeOK
  <2> QED BY <1>4, <2>1, <2>2
<1>8. ASSUME NEW i \in DOMAIN reservations, ReservationExpires(i) PROVE KeptInv' /\ Kept
  <2>1. MailInv' /\ BudgetOK(budget, reservations')
    BY <1>1, <1>8, ExpiresStep, BudgetExpires
  <2> QED BY <1>2, <1>3, <1>8, <2>1 DEF ReservationExpires
<1>9. ASSUME NEW w \in Workers, CheckMail(w) PROVE KeptInv' /\ Kept
  BY <1>1, <1>2, <1>3, <1>9, CheckStep DEF CheckMail
<1>10. ASSUME NEW w \in Workers, ClaimMail(w) PROVE KeptInv' /\ Kept
  <2>1. KeptInv'
    BY <1>1, <1>10, ClaimStep, BudgetClaim DEF KeptInv
  <2> QED BY <1>3, <1>10, <2>1 DEF ClaimMail
<1>11. ASSUME NEW w \in Workers, HandOff(w) PROVE KeptInv' /\ Kept
  <2>1. MailInv' /\ BudgetOK(budget, reservations')
    BY <1>1, <1>11, HandOffStep, BudgetHandOff
  <2> QED BY <1>2, <1>3, <1>11, <2>1 DEF HandOff
<1>12. ASSUME NEW w \in Workers, Provider(w) PROVE KeptInv' /\ Kept
  BY <1>1, <1>2, <1>3, <1>12, ProviderStep DEF Provider
<1>13. ASSUME NEW w \in Workers, Persist(w) PROVE KeptInv' /\ Kept
  <2>1. KeptInv'
    BY <1>1, <1>13, PersistStep, BudgetPersist DEF KeptInv
  <2> QED BY <1>3, <1>13, <2>1 DEF Persist
<1>14. ASSUME NEW w \in Workers, EndMail(w) PROVE KeptInv' /\ Kept
  <2>1. KeptInv'
    BY <1>1, <1>2, <1>14, EndStep DEF EndMail
  <2> QED BY <1>1, <1>4, <1>14, <2>1, EndRank
<1>15. ASSUME NEW w \in Workers, CrashMail(w) PROVE KeptInv' /\ Kept
  BY <1>1, <1>2, <1>3, <1>15, CrashStep DEF CrashMail
<1>16. ASSUME NEW w \in Workers, NEW d \in Deliveries, NEW token \in 1..dispatches[d],
              Take(w, d, token)
       PROVE  KeptInv' /\ Kept
  <2>1. token \in Nat
    BY <1>1 DEF TypeOK
  <2>2. KeptInv'
    BY <1>1, <1>2, <1>16, <2>1, TakeStep DEF Take
  <2>3. \A e \in Deliveries : \/ delivery'[e].status = delivery[e].status
                              \/ delivery[e].status \in {"PENDING", "QUEUED", "PROCESSING"}
    BY <1>1, <1>16 DEF Take, TypeOK
  <2> QED BY <1>4, <2>2, <2>3
<1>17. ASSUME NEW event \in DOMAIN Events, NEW m \in DOMAIN mails, Webhook(event, m)
       PROVE  KeptInv' /\ Kept
  <2>1. KeptInv'
    BY <1>1, <1>2, <1>17, WebhookStep DEF Webhook
  <2>2. \A d \in Deliveries :
          \/ delivery'[d].status = delivery[d].status
          \/ delivery[d].status \in {"PENDING", "QUEUED", "PROCESSING"}
          \/ Precedence[delivery[d].status] < Precedence[delivery'[d].status]
    BY <1>1, <1>17, WebhookRow
  <2> QED BY <1>4, <2>1, <2>2
<1>18. KeptInv' /\ Kept
  BY <1>5, <1>6, <1>7, <1>8, <1>9, <1>10, <1>11, <1>12, <1>13, <1>14, <1>15, <1>16, <1>17
     DEF MailNext
<1> QED BY <1>18 DEF Kept

LEMMA StutterKept ==
  ASSUME KeptInv, UNCHANGED mailVars
  PROVE  KeptInv'
<1>1. /\ UNCHANGED <<worker, reservations, budget, mails>>
      /\ delivery' = delivery /\ dispatches' = dispatches /\ today' = today /\ blocked' = blocked
  BY DEF mailVars
<1>2. MailInv'
  BY <1>1, QuietStep DEF KeptInv, MailInv, TypeOK, DeliveryRows
<1> QED BY <1>1, <1>2 DEF KeptInv, BudgetOK, Slots, OptionalSlots, Held

\* The invariant holds of every state the service can reach: every accepted mail is backed by
\* evidence that no one releases, and the counters are the rows that hold a slot
\* (claimEmailReservation, releaseEmailReservation, markEmailHandoff).
THEOREM Invariance == MailSpec => []KeptInv
<1>1. MailInit => KeptInv
  BY InitKept
<1>2. KeptInv /\ [MailNext]_mailVars => KeptInv'
  BY NextKept, StutterKept
<1> QED BY <1>1, <1>2, PTL DEF MailSpec

\* Every value keeps its type: statuses are those of the schema, every invocation names a
\* delivery, every reservation a day of the budget.
THEOREM TypeCorrect == MailSpec => []TypeOK
<1>1. KeptInv => TypeOK
  BY DEF KeptInv, MailInv
<1> QED BY <1>1, Invariance, PTL

\* No e-mail is accepted twice, nor two practice e-mails of one local day; the budget counts
\* exactly the reservations that hold a slot and leaves billing its part; and a status the
\* provider has told is not taken back (notifications/delivery.ts, emailReservations.ts,
\* webhooks/smtp2go/route.ts).
THEOREM MailKept == MailSpec => MailHolds
<1>1. KeptInv => MailedOnce /\ BudgetIsTrue
  BY BudgetForm DEF KeptInv, MailInv, TypeOK
<1>2. KeptInv /\ [MailNext]_mailVars =>
        [\A d \in DOMAIN delivery :
           Precedence[delivery'[d].status] >= Precedence[delivery[d].status]]_mailVars
  BY NextKept
<1> QED BY <1>1, <1>2, Invariance, PTL DEF MailSpec, MailHolds, StatusNeverBack

-----------------------------------------------------------------------------
(* Sequences of rows.                                                      *)

LEMMA SeqRows ==
  ASSUME NEW S, NEW q \in Seq(S)
  PROVE  Len(q) \in Nat /\ DOMAIN q = 1..Len(q) /\ \A i \in DOMAIN q : q[i] \in S
BY LenProperties, ElementOfSeq

LEMMA Updated ==
  ASSUME NEW S, NEW q \in Seq(S), NEW i \in DOMAIN q, NEW e \in S
  PROVE  /\ [q EXCEPT ![i] = e] \in Seq(S)
         /\ Len([q EXCEPT ![i] = e]) = Len(q)
         /\ DOMAIN [q EXCEPT ![i] = e] = DOMAIN q
         /\ \A j \in DOMAIN q : [q EXCEPT ![i] = e][j] = IF j = i THEN e ELSE q[j]
<1> DEFINE t == [q EXCEPT ![i] = e]
<1>1. Len(q) \in Nat /\ DOMAIN q = 1..Len(q)
  BY SeqRows
<1>2. /\ t \in Seq(S) /\ Len(t) = Len(q)
      /\ \A j \in DOMAIN q : t[j] = IF j = i THEN e ELSE q[j]
  BY <1>1, ExceptSeq
<1> QED BY <1>1, <1>2

-----------------------------------------------------------------------------
(* Invitations.                                                            *)

Outcomes == {"none", "FAILED", "SENT", "AMBIGUOUS", "DEFERRED"}
DeliveryStates == {"PENDING", "SENDING", "SENT", "FAILED", "AMBIGUOUS"}
Sending == {"reserve", "hand", "send", "complete"}

InvitationRows == [state : {"open", "accepted", "revoked"}, expired : BOOLEAN, generation : Nat,
                   send : Nat, status : DeliveryStates, lease : Postmen \cup {NoPostman},
                   leased : BOOLEAN]
SendRows == [status : {"NONE", "RESERVED", "HANDOFF", "SENT", "AMBIGUOUS", "RELEASED"},
             live : BOOLEAN, owner : Postmen \cup {NoPostman}]
PostmanRows == [stage : {"rest", "claim", "read"} \cup Sending, at : Nat, generation : Nat,
                send : Nat, outcome : Outcomes]
Commands == [does : {"nothing", "create", "resend", "revoke"}, at : Nat, generation : Nat,
             status : DeliveryStates]
CommandReceipts == [of : Nat, generation : Nat]
ReceivedMails == [of : Nat, generation : Nat, send : Nat]

PremiumTypeOK ==
  /\ invitations \in Seq(InvitationRows) /\ sends \in Seq(SendRows)
  /\ postman \in [Postmen -> PostmanRows] /\ admin \in Commands
  /\ receipts \in Seq(CommandReceipts)
  /\ given \in Seq({"none", "active", "revoked"}) /\ Len(given) = Len(invitations)
  /\ received \in Seq(ReceivedMails)

\* g is a generation that invitation i has, or has had.
Named(i, g) == i \in DOMAIN invitations /\ g \in 1..invitations[i].generation

PlacesOK ==
  /\ \A i \in DOMAIN invitations : Named(i, invitations[i].generation)
                                   /\ invitations[i].send \in DOMAIN sends
  /\ \A p \in Postmen :
       /\ postman[p].stage # "rest" => Named(postman[p].at, postman[p].generation)
       /\ postman[p].stage \in Sending => postman[p].send \in DOMAIN sends
  /\ \A r \in DOMAIN receipts : Named(receipts[r].of, receipts[r].generation)
  /\ \A m \in DOMAIN received : /\ Named(received[m].of, received[m].generation)
                                /\ received[m].send \in DOMAIN sends
  /\ admin.does \in {"resend", "revoke"} => admin.at \in DOMAIN invitations

\* The send attempt s is, or was, one of invitation i.
SendOf(s, i) ==
  \/ i \in DOMAIN invitations /\ invitations[i].send = s
  \/ \E m \in DOMAIN received : received[m].send = s /\ received[m].of = i
  \/ \E p \in Postmen : postman[p].stage \in Sending /\ postman[p].send = s /\ postman[p].at = i

OneInvitation ==
  \A s \in DOMAIN sends : \A i, j \in DOMAIN invitations : SendOf(s, i) /\ SendOf(s, j) => i = j

Mailed(s) == \E m \in DOMAIN received : received[m].send = s

\* What a reservation says of its mail.
SendsTrue ==
  /\ \A s \in DOMAIN sends : /\ sends[s].status = "SENT" => Mailed(s)
                             /\ Mailed(s) => sends[s].status \in {"HANDOFF", "SENT", "AMBIGUOUS"}
  /\ \A p \in Postmen :
       /\ postman[p].stage = "send" => /\ sends[postman[p].send].status = "HANDOFF"
                                       /\ sends[postman[p].send].owner = p
                                       /\ ~Mailed(postman[p].send)
       /\ postman[p].stage = "complete" =>
            postman[p].outcome # "none" /\ (postman[p].outcome = "SENT" => Mailed(postman[p].send))

\* A generation is replaced, or shown as sent, once its delivery is known.
GenerationsKnown ==
  \A i \in DOMAIN invitations :
    /\ \A g \in 1..(invitations[i].generation - 1) : <<i, g>> \in knownSent
    /\ invitations[i].status = "SENT"
         => <<i, invitations[i].generation>> \in knownSent /\ Mailed(invitations[i].send)

PremiumInv ==
  /\ PremiumTypeOK /\ PlacesOK /\ OneInvitation /\ SendsTrue /\ GenerationsKnown
  /\ InvitedOnce /\ GrantsFollow

\* What the types say of one row.
LEMMA PremiumRows ==
  ASSUME PremiumTypeOK
  PROVE  /\ Len(invitations) \in Nat /\ DOMAIN invitations = 1..Len(invitations)
         /\ \A i \in DOMAIN invitations : invitations[i] \in InvitationRows
         /\ Len(sends) \in Nat /\ DOMAIN sends = 1..Len(sends)
         /\ \A s \in DOMAIN sends : sends[s] \in SendRows
         /\ DOMAIN given = DOMAIN invitations
         /\ \A i \in DOMAIN given : given[i] \in {"none", "active", "revoked"}
         /\ \A m \in DOMAIN received : received[m] \in ReceivedMails
         /\ \A r \in DOMAIN receipts : receipts[r] \in CommandReceipts
         /\ \A p \in Postmen : postman[p] \in PostmanRows
BY SeqRows DEF PremiumTypeOK

-----------------------------------------------------------------------------
(* Steps that neither make nor mail an attempt.                            *)

\* The invitations keep their attempts and generations; one postman may move, to
\* a generation that exists and an attempt that is known.
Quietly(p) ==
  /\ DOMAIN invitations' = DOMAIN invitations
  /\ \A i \in DOMAIN invitations : /\ invitations'[i].generation = invitations[i].generation
                                   /\ invitations'[i].send = invitations[i].send
  /\ DOMAIN sends' = DOMAIN sends
  /\ received' = received /\ receipts' = receipts
  /\ \A q \in Postmen : q # p => postman'[q] = postman[q]
  /\ p \in Postmen =>
       /\ postman'[p].stage # "rest" => Named(postman'[p].at, postman'[p].generation)
       /\ postman'[p].stage \in Sending =>
            postman'[p].send \in DOMAIN sends /\ SendOf(postman'[p].send, postman'[p].at)
  /\ admin'.does \in {"resend", "revoke"} => admin'.at \in DOMAIN invitations

LEMMA QuietPlaces ==
  ASSUME PremiumInv, PremiumTypeOK', NEW p, Quietly(p)
  PROVE  PlacesOK' /\ OneInvitation' /\ InvitedOnce' /\ \A s : Mailed(s)' = Mailed(s)
<1> USE DEF Quietly
<1>1. \A i, g : Named(i, g)' = Named(i, g)
  BY DEF Named
<1>2. \A q \in Postmen : postman'[q].stage \in Sending =>
        postman'[q].send \in DOMAIN sends /\ SendOf(postman'[q].send, postman'[q].at)
  <2>1. ASSUME NEW q \in Postmen, q # p, postman'[q].stage \in Sending
        PROVE  postman'[q].send \in DOMAIN sends /\ SendOf(postman'[q].send, postman'[q].at)
    BY <2>1 DEF PremiumInv, PlacesOK, SendOf
  <2> QED BY <2>1
<1>3. ASSUME NEW s, NEW i, SendOf(s, i)' PROVE SendOf(s, i)
  BY <1>2, <1>3 DEF SendOf
<1>4. OneInvitation'
  BY <1>3 DEF PremiumInv, OneInvitation
<1>5. PlacesOK'
  <2>1. \A q \in Postmen : postman'[q].stage # "rest" => Named(postman'[q].at, postman'[q].generation)
    BY DEF PremiumInv, PlacesOK
  <2> QED BY <1>1, <1>2, <2>1 DEF PremiumInv, PlacesOK
<1>6. InvitedOnce' /\ \A s : Mailed(s)' = Mailed(s)
  BY DEF PremiumInv, InvitedOnce, Mailed
<1> QED BY <1>4, <1>5, <1>6

\* An invitation is shown as sent as it was, or for a delivery that is known.
LEMMA QuietKnown ==
  ASSUME PremiumInv, NEW p, Quietly(p), knownSent \subseteq knownSent',
         \A s : Mailed(s)' = Mailed(s),
         \A i \in DOMAIN invitations : invitations'[i].status = "SENT" =>
           \/ invitations[i].status = "SENT"
           \/ <<i, invitations[i].generation>> \in knownSent' /\ Mailed(invitations[i].send)
  PROVE  GenerationsKnown'
<1> SUFFICES ASSUME NEW i \in DOMAIN invitations
             PROVE  /\ \A g \in 1..(invitations[i].generation - 1) : <<i, g>> \in knownSent'
                    /\ invitations'[i].status = "SENT"
                         => /\ <<i, invitations[i].generation>> \in knownSent'
                            /\ Mailed(invitations[i].send)'
  <2>1. DOMAIN invitations' = DOMAIN invitations
        /\ \A i \in DOMAIN invitations : invitations'[i].generation = invitations[i].generation
    BY DEF Quietly
  <2> QED BY <2>1 DEF GenerationsKnown
<1>1. /\ \A g \in 1..(invitations[i].generation - 1) : <<i, g>> \in knownSent
      /\ invitations[i].status = "SENT"
           => <<i, invitations[i].generation>> \in knownSent /\ Mailed(invitations[i].send)
  BY DEF PremiumInv, GenerationsKnown
<1>2. \A g \in 1..(invitations[i].generation - 1) : <<i, g>> \in knownSent'
  BY <1>1
<1>3. ASSUME invitations'[i].status = "SENT"
      PROVE  <<i, invitations[i].generation>> \in knownSent' /\ Mailed(invitations[i].send)
  BY <1>1, <1>3
<1>4. ASSUME invitations'[i].status = "SENT"
      PROVE  Mailed(invitations[i].send)'
  <2>1. Mailed(invitations'[i].send)
    BY <1>3, <1>4 DEF Quietly
  <2> QED BY <2>1 DEF Mailed, Quietly
<1> QED BY <1>2, <1>3, <1>4 DEF Quietly

\* The reservations are kept: what they say of their mails stays true.
LEMMA SendsKept ==
  ASSUME PremiumInv, NEW p, Quietly(p), \A s : Mailed(s)' = Mailed(s),
         \A s \in DOMAIN sends : sends'[s].status = sends[s].status /\ sends'[s].owner = sends[s].owner,
         p \in Postmen =>
           /\ postman'[p].stage = "send" => postman'[p] = postman[p]
           /\ postman'[p].stage = "complete" =>
                postman'[p].outcome # "none" /\ (postman'[p].outcome = "SENT" => Mailed(postman'[p].send))
  PROVE  SendsTrue'
<1>1. \A q \in Postmen : postman'[q].stage = "send" => postman'[q] = postman[q]
  BY DEF Quietly
<1>2. \A q \in Postmen : postman'[q].stage = "complete" =>
        postman'[q].outcome # "none" /\ (postman'[q].outcome = "SENT" => Mailed(postman'[q].send))
  BY DEF Quietly, PremiumInv, SendsTrue
<1>3. \A q \in Postmen : postman[q].stage = "send" => postman[q].send \in DOMAIN sends
  BY DEF PremiumInv, PlacesOK, Sending
<1> QED BY <1>1, <1>2, <1>3 DEF Quietly, PremiumInv, SendsTrue

\* The grants follow the states of their invitations.
LEMMA GrantsStep ==
  ASSUME PremiumInv, DOMAIN invitations' = DOMAIN invitations,
         \A i \in DOMAIN invitations :
           \/ invitations'[i].state = invitations[i].state /\ (given'[i] # "none" <=> given[i] # "none")
           \/ invitations[i].state = "open" /\ invitations'[i].state = "revoked" /\ given'[i] = given[i]
           \/ invitations[i].state = "open" /\ invitations'[i].state = "accepted" /\ given'[i] # "none"
  PROVE  GrantsFollow'
<1>1. \A i \in DOMAIN invitations : invitations'[i].state = "open" => invitations[i].state = "open"
  OBVIOUS
<1>2. \A i \in DOMAIN invitations : given'[i] # "none" <=> invitations'[i].state = "accepted"
  BY DEF PremiumInv, GrantsFollow
<1> QED BY <1>1, <1>2 DEF PremiumInv, GrantsFollow, IsPending

LEMMA QuietInv ==
  ASSUME PremiumInv, PremiumTypeOK', NEW p, Quietly(p), SendsTrue', knownSent \subseteq knownSent',
         \A i \in DOMAIN invitations :
           /\ invitations'[i].status = "SENT" =>
                \/ invitations[i].status = "SENT"
                \/ <<i, invitations[i].generation>> \in knownSent' /\ Mailed(invitations[i].send)
           /\ \/ invitations'[i].state = invitations[i].state /\ (given'[i] # "none" <=> given[i] # "none")
              \/ invitations[i].state = "open" /\ invitations'[i].state = "revoked" /\ given'[i] = given[i]
              \/ invitations[i].state = "open" /\ invitations'[i].state = "accepted" /\ given'[i] # "none"
  PROVE  PremiumInv'
<1>1. PlacesOK' /\ OneInvitation' /\ InvitedOnce' /\ \A s : Mailed(s)' = Mailed(s)
  BY QuietPlaces
<1>2. GenerationsKnown'
  BY <1>1, QuietKnown
<1>3. GrantsFollow'
  <2>1. DOMAIN invitations' = DOMAIN invitations
    BY DEF Quietly
  <2> QED BY <2>1, GrantsStep
<1> QED BY <1>1, <1>2, <1>3 DEF PremiumInv

\* A postman, or the administrator's command, moves on; nothing else is written.
LEMMA Moved ==
  ASSUME PremiumInv, NEW p \in Postmen,
         UNCHANGED <<invitations, sends, receipts, given, received, knownSent>>,
         admin' \in Commands, admin'.does \in {"resend", "revoke"} => admin'.at \in DOMAIN invitations,
         postman' \in [Postmen -> PostmanRows], \A q \in Postmen : q # p => postman'[q] = postman[q],
         postman'[p].stage # "rest" => Named(postman'[p].at, postman'[p].generation),
         postman'[p].stage \in Sending =>
           postman'[p].send \in DOMAIN sends /\ SendOf(postman'[p].send, postman'[p].at),
         postman'[p].stage = "send" => postman'[p] = postman[p],
         postman'[p].stage = "complete" =>
           postman'[p].outcome # "none" /\ (postman'[p].outcome = "SENT" => Mailed(postman'[p].send))
  PROVE  PremiumInv'
<1>1. PremiumTypeOK'
  BY DEF PremiumInv, PremiumTypeOK
<1>2. Quietly(p)
  BY DEF Quietly
<1>3. SendsTrue'
  BY <1>1, <1>2, QuietPlaces, SendsKept
<1> QED BY <1>1, <1>2, <1>3, QuietInv

\* A postman starts with a generation that exists, goes on with what it knows, or rests.
LEMMA PostmanSafe ==
  ASSUME PremiumInv, NEW p \in Postmen
  PROVE  /\ postman[p] \in PostmanRows
         /\ postman[p].stage # "rest" => Named(postman[p].at, postman[p].generation)
         /\ postman[p].stage \in Sending =>
              postman[p].send \in DOMAIN sends /\ SendOf(postman[p].send, postman[p].at)
         /\ postman[p].stage = "complete" =>
              postman[p].outcome # "none" /\ (postman[p].outcome = "SENT" => Mailed(postman[p].send))
         /\ AtRest \in PostmanRows /\ AtRest.stage = "rest"
<1>1. postman[p] \in PostmanRows
  BY DEF PremiumInv, PremiumTypeOK
<1>2. AtRest \in PostmanRows /\ AtRest.stage = "rest"
  BY DEF AtRest, PostmanRows, Outcomes
<1> QED BY <1>1, <1>2 DEF PremiumInv, PlacesOK, SendsTrue, SendOf

\* To rest is always safe.
LEMMA Rested ==
  ASSUME PremiumInv, NEW p \in Postmen, postman' = [postman EXCEPT ![p] = AtRest],
         UNCHANGED <<invitations, sends, admin, receipts, given, received, knownSent>>
  PROVE  PremiumInv'
<1>1. AtRest \in PostmanRows /\ AtRest.stage = "rest" /\ postman \in [Postmen -> PostmanRows]
  BY PostmanSafe DEF PremiumInv, PremiumTypeOK
<1>2. postman' \in [Postmen -> PostmanRows] /\ postman'[p] = AtRest
      /\ \A q \in Postmen : q # p => postman'[q] = postman[q]
  BY <1>1
<1>3. admin' \in Commands /\ (admin'.does \in {"resend", "revoke"} => admin'.at \in DOMAIN invitations)
  BY DEF PremiumInv, PremiumTypeOK, PlacesOK
<1> QED BY <1>1, <1>2, <1>3, Moved DEF Sending

LEMMA Starting ==
  ASSUME PremiumTypeOK, NEW p \in Postmen, NEW i \in Nat, NEW g \in Nat, Starts(p, i, g)
  PROVE  /\ postman' \in [Postmen -> PostmanRows]
         /\ \A q \in Postmen : q # p => postman'[q] = postman[q]
         /\ postman'[p].stage = "claim" /\ postman'[p].at = i /\ postman'[p].generation = g
<1> DEFINE row == [AtRest EXCEPT !.stage = "claim", !.at = i, !.generation = g]
<1>1. row \in PostmanRows /\ row.stage = "claim" /\ row.at = i /\ row.generation = g
  BY DEF AtRest, PostmanRows, Outcomes
<1>2. postman \in [Postmen -> PostmanRows] /\ postman' = [postman EXCEPT ![p] = row]
  BY DEF PremiumTypeOK, Starts
<1> HIDE DEF row
<1> QED BY <1>1, <1>2

LEMMA RepeatsInv ==
  ASSUME PremiumInv, NEW p \in Postmen, NEW r \in DOMAIN receipts, RepeatsCommand(p, r)
  PROVE  PremiumInv'
<1>1. receipts[r].of \in Nat /\ receipts[r].generation \in Nat
      /\ Named(receipts[r].of, receipts[r].generation)
  BY PremiumRows DEF PremiumInv, CommandReceipts, PlacesOK
<1>2. Starts(p, receipts[r].of, receipts[r].generation) /\ PremiumTypeOK
  BY DEF RepeatsCommand, PremiumInv
<1>3. /\ postman' \in [Postmen -> PostmanRows]
      /\ \A q \in Postmen : q # p => postman'[q] = postman[q]
      /\ postman'[p].stage = "claim" /\ postman'[p].at = receipts[r].of
      /\ postman'[p].generation = receipts[r].generation
  BY <1>1, <1>2, Starting
<1>4. admin' \in Commands /\ (admin'.does \in {"resend", "revoke"} => admin'.at \in DOMAIN invitations)
  BY DEF RepeatsCommand, PremiumInv, PremiumTypeOK, PlacesOK
<1>5. UNCHANGED <<invitations, sends, receipts, given, received, knownSent>>
  BY DEF RepeatsCommand
<1> QED BY <1>1, <1>3, <1>4, <1>5, Moved DEF Sending

LEMMA ReadsInv ==
  ASSUME PremiumInv, NEW p \in Postmen, ReadsDelivery(p)
  PROVE  PremiumInv'
<1> DEFINE i == postman[p].at
           row == [postman[p] EXCEPT !.stage = "reserve", !.send = invitations[i].send]
<1>1. postman[p] \in PostmanRows /\ Named(i, postman[p].generation)
  BY PostmanSafe DEF ReadsDelivery
<1>2. i \in DOMAIN invitations /\ invitations[i].send \in DOMAIN sends /\ invitations[i].send \in Nat
  BY <1>1, PremiumRows DEF Named, PremiumInv, PlacesOK, InvitationRows
<1>3. UNCHANGED <<invitations, sends, admin, receipts, given, received, knownSent>>
  BY DEF ReadsDelivery
<1>4. CASE postman' = [postman EXCEPT ![p] = AtRest]
  BY <1>3, <1>4, Rested
<1>5. CASE postman' = [postman EXCEPT ![p].stage = "reserve", ![p].send = invitations[i].send]
  <2>1. /\ row \in PostmanRows /\ row.stage = "reserve" /\ row.at = i
        /\ row.generation = postman[p].generation /\ row.send = invitations[i].send
    BY <1>1, <1>2 DEF PostmanRows, Sending
  <2>2. postman \in [Postmen -> PostmanRows] /\ postman' = [postman EXCEPT ![p] = row]
    BY <1>5 DEF PremiumInv, PremiumTypeOK
  <2> HIDE DEF row
  <2>3. postman' \in [Postmen -> PostmanRows] /\ postman'[p] = row
        /\ \A q \in Postmen : q # p => postman'[q] = postman[q]
    BY <2>1, <2>2
  <2>4. SendOf(invitations[i].send, i)
    BY <1>2 DEF SendOf
  <2>5. admin' \in Commands /\ (admin'.does \in {"resend", "revoke"} => admin'.at \in DOMAIN invitations)
    BY <1>3 DEF PremiumInv, PremiumTypeOK, PlacesOK
  <2> HIDE DEF i
  <2> QED BY <1>1, <1>2, <1>3, <2>1, <2>3, <2>4, <2>5, Moved
<1> QED BY <1>4, <1>5 DEF ReadsDelivery

LEMMA StopsInv ==
  ASSUME PremiumInv, NEW p \in Postmen, StopsDelivering(p)
  PROVE  PremiumInv'
BY Rested DEF StopsDelivering

\* A command that is under way has read an invitation that exists.
LEMMA CommandInv ==
  ASSUME PremiumInv, UNCHANGED <<invitations, sends, postman, receipts, given, received, knownSent>>,
         admin' \in Commands, admin'.does \in {"resend", "revoke"} => admin'.at \in DOMAIN invitations
  PROVE  PremiumInv'
<1>1. PremiumTypeOK'
  BY DEF PremiumInv, PremiumTypeOK
<1>2. PICK p : p \notin Postmen
  BY NoSetContainsEverything
<1>3. Quietly(p)
  BY <1>2 DEF Quietly
<1>4. SendsTrue'
  BY <1>1, <1>2, <1>3, QuietPlaces, SendsKept
<1> QED BY <1>1, <1>3, <1>4, QuietInv

LEMMA ConsidersInv == ASSUME PremiumInv, Considers PROVE PremiumInv'
<1>1. admin' \in Commands /\ admin'.does = "create"
  BY DEF Considers, Unread, Commands, DeliveryStates
<1> QED BY <1>1, CommandInv DEF Considers

LEMMA CommandReadsInv ==
  ASSUME PremiumInv, NEW does \in {"resend", "revoke"}, NEW i \in DOMAIN invitations,
         ReadsInvitation(does, i)
  PROVE  PremiumInv'
<1>1. invitations[i] \in InvitationRows /\ i \in Nat
  BY PremiumRows DEF PremiumInv
<1>2. admin' \in Commands /\ admin'.at = i
  BY <1>1 DEF ReadsInvitation, Commands, InvitationRows
<1> QED BY <1>2, CommandInv DEF ReadsInvitation

-----------------------------------------------------------------------------
(* One invitation is written.                                              *)

LEMMA InvitationWritten ==
  ASSUME PremiumInv, NEW p, NEW i \in DOMAIN invitations, NEW row \in InvitationRows,
         row.generation = invitations[i].generation, row.send = invitations[i].send,
         invitations' = [invitations EXCEPT ![i] = row],
         UNCHANGED <<sends, receipts, received>>,
         admin' \in Commands, admin'.does \in {"resend", "revoke"} => admin'.at \in DOMAIN invitations,
         postman' \in [Postmen -> PostmanRows], \A q \in Postmen : q # p => postman'[q] = postman[q],
         p \in Postmen =>
           /\ postman'[p].stage # "rest" => Named(postman'[p].at, postman'[p].generation)
           /\ postman'[p].stage \notin Sending,
         given' \in Seq({"none", "active", "revoked"}), Len(given') = Len(given),
         \A j \in DOMAIN invitations : j # i => given'[j] = given[j],
         knownSent \subseteq knownSent',
         row.status = "SENT" =>
           \/ invitations[i].status = "SENT"
           \/ <<i, invitations[i].generation>> \in knownSent' /\ Mailed(invitations[i].send),
         \/ row.state = invitations[i].state /\ (given'[i] # "none" <=> given[i] # "none")
         \/ invitations[i].state = "open" /\ row.state = "revoked" /\ given'[i] = given[i]
         \/ invitations[i].state = "open" /\ row.state = "accepted" /\ given'[i] # "none"
  PROVE  PremiumInv'
<1>1. invitations \in Seq(InvitationRows)
  BY DEF PremiumInv, PremiumTypeOK
<1>2. /\ invitations' \in Seq(InvitationRows) /\ Len(invitations') = Len(invitations)
      /\ DOMAIN invitations' = DOMAIN invitations
      /\ \A j \in DOMAIN invitations : invitations'[j] = IF j = i THEN row ELSE invitations[j]
  BY <1>1, Updated
<1>3. PremiumTypeOK'
  BY <1>2 DEF PremiumInv, PremiumTypeOK
<1>4. Quietly(p)
  BY <1>2 DEF Quietly
<1>5. SendsTrue'
  <2>1. \A s : Mailed(s)' = Mailed(s)
    BY <1>3, <1>4, QuietPlaces
  <2>2. p \in Postmen => postman'[p].stage # "send" /\ postman'[p].stage # "complete"
    BY DEF Sending
  <2> QED BY <1>4, <2>1, <2>2, SendsKept
<1>6. \A j \in DOMAIN invitations :
        /\ invitations'[j].status = "SENT" =>
             \/ invitations[j].status = "SENT"
             \/ <<j, invitations[j].generation>> \in knownSent' /\ Mailed(invitations[j].send)
        /\ \/ invitations'[j].state = invitations[j].state /\ (given'[j] # "none" <=> given[j] # "none")
           \/ invitations[j].state = "open" /\ invitations'[j].state = "revoked" /\ given'[j] = given[j]
           \/ invitations[j].state = "open" /\ invitations'[j].state = "accepted" /\ given'[j] # "none"
  BY <1>2
<1> QED BY <1>3, <1>4, <1>5, <1>6, QuietInv

\* The same, when only the invitation is written.
LEMMA InvitationAlone ==
  ASSUME PremiumInv, NEW i \in DOMAIN invitations, NEW row \in InvitationRows,
         row.generation = invitations[i].generation, row.send = invitations[i].send,
         invitations' = [invitations EXCEPT ![i] = row],
         UNCHANGED <<sends, postman, receipts, given, received, knownSent>>,
         admin' \in Commands, admin'.does \in {"resend", "revoke"} => admin'.at \in DOMAIN invitations,
         row.status = invitations[i].status,
         \/ row.state = invitations[i].state
         \/ invitations[i].state = "open" /\ row.state = "revoked"
  PROVE  PremiumInv'
<1>1. PICK p : p \notin Postmen
  BY NoSetContainsEverything
<1>2. postman' \in [Postmen -> PostmanRows] /\ given' \in Seq({"none", "active", "revoked"})
  BY DEF PremiumInv, PremiumTypeOK
<1> QED BY <1>1, <1>2, InvitationWritten

LEMMA AdminKept ==
  ASSUME PremiumInv, admin' = admin
  PROVE  admin' \in Commands /\ (admin'.does \in {"resend", "revoke"} => admin'.at \in DOMAIN invitations)
BY DEF PremiumInv, PremiumTypeOK, PlacesOK

LEMMA AdminDone ==
  ASSUME admin' = Unread
  PROVE  admin' \in Commands /\ (admin'.does \in {"resend", "revoke"} => admin'.at \in DOMAIN invitations)
BY DEF Unread, Commands, DeliveryStates

LEMMA RevokesInv == ASSUME PremiumInv, Revokes PROVE PremiumInv'
<1> DEFINE i == admin.at
           row == [invitations[i] EXCEPT !.state = "revoked", !.lease = NoPostman, !.leased = FALSE]
<1>1. /\ admin' \in Commands
      /\ admin'.does \in {"resend", "revoke"} => admin'.at \in DOMAIN invitations
      /\ UNCHANGED <<sends, postman, receipts, given, received, knownSent>>
  BY AdminDone DEF Revokes
<1>2. CASE IsPending(i) /\ invitations[i].generation = admin.generation
  <2>1. i \in DOMAIN invitations /\ invitations[i] \in InvitationRows
    BY PremiumRows DEF PremiumInv, PlacesOK, Revokes
  <2>2. row \in InvitationRows
    BY <2>1, Zenon DEF InvitationRows
  <2>3. /\ row.generation = invitations[i].generation /\ row.send = invitations[i].send
        /\ row.status = invitations[i].status /\ row.state = "revoked" /\ invitations[i].state = "open"
    BY <1>2, <2>1 DEF InvitationRows, IsPending
  <2>4. invitations' = [invitations EXCEPT ![i] = row]
    BY <1>2, Zenon DEF Revokes
  <2> HIDE DEF row, i
  <2> QED BY <1>1, <2>1, <2>2, <2>3, <2>4, InvitationAlone
<1>3. CASE ~(IsPending(i) /\ invitations[i].generation = admin.generation)
  BY <1>1, <1>3, CommandInv DEF Revokes
<1> QED BY <1>2, <1>3

LEMMA ExpiresInv ==
  ASSUME PremiumInv, NEW i \in DOMAIN invitations, InvitationExpires(i)
  PROVE  PremiumInv'
<1> DEFINE row == [invitations[i] EXCEPT !.expired = TRUE]
<1>1. invitations[i] \in InvitationRows
  BY PremiumRows DEF PremiumInv
<1>2. row \in InvitationRows
  BY <1>1, Zenon DEF InvitationRows
<1>3. /\ row.generation = invitations[i].generation /\ row.send = invitations[i].send
      /\ row.status = invitations[i].status /\ row.state = invitations[i].state
  BY <1>1 DEF InvitationRows
<1>4. invitations' = [invitations EXCEPT ![i] = row]
  BY Zenon DEF InvitationExpires
<1>5. UNCHANGED <<sends, postman, admin, receipts, given, received, knownSent>>
  BY DEF InvitationExpires
<1> HIDE DEF row
<1> QED BY <1>2, <1>3, <1>4, <1>5, AdminKept, InvitationAlone

LEMMA LeaseEndsInv ==
  ASSUME PremiumInv, NEW i \in DOMAIN invitations, DeliveryLeaseEnds(i)
  PROVE  PremiumInv'
<1> DEFINE row == [invitations[i] EXCEPT !.leased = FALSE]
<1>1. invitations[i] \in InvitationRows
  BY PremiumRows DEF PremiumInv
<1>2. row \in InvitationRows
  BY <1>1, Zenon DEF InvitationRows
<1>3. /\ row.generation = invitations[i].generation /\ row.send = invitations[i].send
      /\ row.status = invitations[i].status /\ row.state = invitations[i].state
  BY <1>1 DEF InvitationRows
<1>4. invitations' = [invitations EXCEPT ![i] = row]
  BY Zenon DEF DeliveryLeaseEnds
<1>5. UNCHANGED <<sends, postman, admin, receipts, given, received, knownSent>>
  BY DEF DeliveryLeaseEnds
<1> HIDE DEF row
<1> QED BY <1>2, <1>3, <1>4, <1>5, AdminKept, InvitationAlone

\* The grant of one invitation is written.
LEMMA GrantWritten ==
  ASSUME PremiumInv, NEW i \in DOMAIN invitations, NEW grant \in {"none", "active", "revoked"},
         given' = [given EXCEPT ![i] = grant]
  PROVE  /\ given' \in Seq({"none", "active", "revoked"}) /\ Len(given') = Len(given)
         /\ given'[i] = grant /\ \A j \in DOMAIN invitations : j # i => given'[j] = given[j]
<1>1. given \in Seq({"none", "active", "revoked"}) /\ DOMAIN given = DOMAIN invitations
  BY PremiumRows DEF PremiumInv, PremiumTypeOK
<1>2. i \in DOMAIN given
  BY <1>1
<1>3. /\ given' \in Seq({"none", "active", "revoked"}) /\ Len(given') = Len(given)
      /\ \A j \in DOMAIN given : given'[j] = IF j = i THEN grant ELSE given[j]
  BY <1>1, <1>2, Updated
<1> QED BY <1>1, <1>2, <1>3

LEMMA GrantRevokesInv ==
  ASSUME PremiumInv, NEW i \in DOMAIN invitations, RevokesGrant(i)
  PROVE  PremiumInv'
<1>1. PICK p : p \notin Postmen
  BY NoSetContainsEverything
<1>2. /\ given' \in Seq({"none", "active", "revoked"}) /\ Len(given') = Len(given)
      /\ given'[i] = "revoked" /\ \A j \in DOMAIN invitations : j # i => given'[j] = given[j]
  BY GrantWritten DEF RevokesGrant
<1>3. UNCHANGED <<invitations, sends, postman, admin, receipts, received, knownSent>>
      /\ given[i] = "active"
  BY DEF RevokesGrant
<1>4. invitations[i] \in InvitationRows /\ invitations \in Seq(InvitationRows)
      /\ postman' \in [Postmen -> PostmanRows]
  BY <1>3, PremiumRows DEF PremiumInv, PremiumTypeOK
<1>5. invitations' = [invitations EXCEPT ![i] = invitations[i]]
  BY <1>3, <1>4
<1> QED BY <1>1, <1>2, <1>3, <1>4, <1>5, AdminKept, InvitationWritten

LEMMA AcceptsInv ==
  ASSUME PremiumInv, NEW m \in DOMAIN received, AcceptsInvitation(m)
  PROVE  PremiumInv'
<1> DEFINE i == received[m].of
           row == [invitations[i] EXCEPT !.state = "accepted"]
           grant == IF given[i] = "none" THEN "active" ELSE given[i]
<1>1. i \in DOMAIN invitations
  BY DEF PremiumInv, PlacesOK, Named
<1>2. invitations[i] \in InvitationRows /\ given[i] \in {"none", "active", "revoked"}
  BY <1>1, PremiumRows DEF PremiumInv
<1>3. row \in InvitationRows
  BY <1>2, Zenon DEF InvitationRows
<1>4. /\ row.generation = invitations[i].generation /\ row.send = invitations[i].send
      /\ row.status = invitations[i].status /\ row.state = "accepted" /\ invitations[i].state = "open"
  BY <1>2 DEF InvitationRows, AcceptsInvitation, IsPending
<1>5. invitations' = [invitations EXCEPT ![i] = row] /\ given' = [given EXCEPT ![i] = grant]
  BY Zenon DEF AcceptsInvitation
<1>6. grant \in {"none", "active", "revoked"} /\ grant # "none"
  BY <1>2
<1>7. UNCHANGED <<sends, postman, admin, receipts, received, knownSent>>
  BY DEF AcceptsInvitation
<1> HIDE DEF row, grant, i
<1>8. /\ given' \in Seq({"none", "active", "revoked"}) /\ Len(given') = Len(given)
      /\ given'[i] = grant /\ \A j \in DOMAIN invitations : j # i => given'[j] = given[j]
  BY <1>1, <1>5, <1>6, GrantWritten
<1>9. PICK p : p \notin Postmen
  BY NoSetContainsEverything
<1>10. postman' \in [Postmen -> PostmanRows]
  BY <1>7 DEF PremiumInv, PremiumTypeOK
<1> QED BY <1>1, <1>3, <1>4, <1>5, <1>6, <1>7, <1>8, <1>9, <1>10, AdminKept, InvitationWritten

LEMMA ClaimsInv ==
  ASSUME PremiumInv, NEW p \in Postmen, ClaimsDelivery(p)
  PROVE  PremiumInv'
<1> DEFINE i == postman[p].at
           row == [invitations[i] EXCEPT !.status = "SENDING", !.lease = p, !.leased = TRUE]
           next == [postman[p] EXCEPT !.stage = "read"]
<1>1. postman[p] \in PostmanRows /\ Named(i, postman[p].generation)
  BY PostmanSafe DEF ClaimsDelivery
<1>2. i \in DOMAIN invitations /\ invitations[i] \in InvitationRows
  BY <1>1, PremiumRows DEF Named, PremiumInv
<1>3. UNCHANGED <<sends, admin, receipts, given, received, knownSent>>
  BY DEF ClaimsDelivery
<1>4. CASE ~Deliverable(p, i)
  BY <1>3, <1>4, Rested DEF ClaimsDelivery
<1>5. CASE Deliverable(p, i)
  <2>1. row \in InvitationRows
    BY <1>2, Zenon DEF InvitationRows, DeliveryStates
  <2>2. /\ row.generation = invitations[i].generation /\ row.send = invitations[i].send
        /\ row.status = "SENDING" /\ row.state = invitations[i].state
    BY <1>2 DEF InvitationRows
  <2>3. invitations' = [invitations EXCEPT ![i] = row]
    BY <1>5, Zenon DEF ClaimsDelivery
  <2>4. /\ next \in PostmanRows /\ next.stage = "read" /\ next.at = i
        /\ next.generation = postman[p].generation
    BY <1>1 DEF PostmanRows
  <2>5. postman \in [Postmen -> PostmanRows] /\ postman' = [postman EXCEPT ![p] = next]
    BY <1>5 DEF PremiumInv, PremiumTypeOK, ClaimsDelivery, Goes
  <2> HIDE DEF next
  <2>6. postman' \in [Postmen -> PostmanRows] /\ postman'[p] = next
        /\ \A q \in Postmen : q # p => postman'[q] = postman[q]
    BY <2>4, <2>5
  <2>7. given' \in Seq({"none", "active", "revoked"})
    BY <1>3 DEF PremiumInv, PremiumTypeOK
  <2>8. "read" \notin Sending
    BY DEF Sending
  <2> HIDE DEF row, i
  <2> QED BY <1>1, <1>2, <1>3, <2>1, <2>2, <2>3, <2>4, <2>6, <2>7, <2>8, AdminKept, InvitationWritten
<1> QED BY <1>4, <1>5

LEMMA CompletesInv ==
  ASSUME PremiumInv, NEW p \in Postmen, CompletesDelivery(p)
  PROVE  PremiumInv'
<1> DEFINE i == postman[p].at
           outcome == postman[p].outcome
           row == IF outcome = "DEFERRED" THEN [invitations[i] EXCEPT !.lease = NoPostman, !.leased = TRUE]
                  ELSE [invitations[i] EXCEPT !.status = outcome, !.lease = NoPostman, !.leased = FALSE]
<1>1. /\ postman[p] \in PostmanRows /\ Named(i, postman[p].generation)
      /\ outcome # "none" /\ (outcome = "SENT" => Mailed(postman[p].send))
  BY PostmanSafe DEF CompletesDelivery
<1>2. i \in DOMAIN invitations /\ invitations[i] \in InvitationRows
  BY <1>1, PremiumRows DEF Named, PremiumInv
<1>3. /\ UNCHANGED <<sends, admin, receipts, given, received>>
      /\ postman' = [postman EXCEPT ![p] = AtRest]
  BY DEF CompletesDelivery
<1>4. CASE ~OwnsDelivery(p, i)
  BY <1>3, <1>4, Rested DEF CompletesDelivery
<1>5. CASE OwnsDelivery(p, i)
  <2>1. /\ invitations' = [invitations EXCEPT ![i] = row]
        /\ knownSent' = IF outcome = "SENT" THEN knownSent \cup {<<i, postman[p].generation>>}
                        ELSE knownSent
    BY <1>5, Zenon DEF CompletesDelivery
  <2>2. outcome \in DeliveryStates \cup {"DEFERRED"}
    BY <1>1 DEF PostmanRows, Outcomes, DeliveryStates
  <2>3. row \in InvitationRows /\ row.generation = invitations[i].generation
        /\ row.send = invitations[i].send /\ row.state = invitations[i].state
        /\ (row.status = "SENT" => outcome = "SENT")
    <3>1. CASE outcome = "DEFERRED"
      <4> DEFINE deferred == [invitations[i] EXCEPT !.lease = NoPostman, !.leased = TRUE]
      <4>1. deferred \in InvitationRows
        BY <1>2, Zenon DEF InvitationRows
      <4>2. /\ deferred.generation = invitations[i].generation /\ deferred.send = invitations[i].send
            /\ deferred.state = invitations[i].state /\ deferred.status = invitations[i].status
        BY <1>2 DEF InvitationRows
      <4>3. invitations[i].status = "SENDING"
        BY <1>5 DEF OwnsDelivery
      <4>4. row = deferred
        BY <3>1
      <4> HIDE DEF row, deferred
      <4> QED BY <4>1, <4>2, <4>3, <4>4
    <3>2. CASE outcome # "DEFERRED"
      <4> DEFINE done == [invitations[i] EXCEPT !.status = outcome, !.lease = NoPostman, !.leased = FALSE]
      <4> HIDE DEF outcome
      <4>0. outcome \in DeliveryStates
        BY <2>2, <3>2
      <4>1. done \in InvitationRows
        BY <1>2, <4>0, Zenon DEF InvitationRows
      <4>2. /\ done.generation = invitations[i].generation /\ done.send = invitations[i].send
            /\ done.state = invitations[i].state /\ done.status = outcome
        BY <1>2 DEF InvitationRows
      <4>4. row = done
        BY <3>2
      <4> HIDE DEF row, done
      <4> QED BY <4>1, <4>2, <4>4
    <3> QED BY <3>1, <3>2
  <2>4. /\ invitations[i].generation = postman[p].generation /\ invitations[i].send = postman[p].send
    BY <1>5 DEF OwnsDelivery
  <2>5. /\ postman' \in [Postmen -> PostmanRows] /\ postman'[p].stage = "rest"
        /\ \A q \in Postmen : q # p => postman'[q] = postman[q]
    BY <1>3, PostmanSafe DEF PremiumInv, PremiumTypeOK
  <2>6. given' \in Seq({"none", "active", "revoked"})
    BY <1>3 DEF PremiumInv, PremiumTypeOK
  <2>7. "rest" \notin Sending
    BY DEF Sending
  <2>8. /\ knownSent \subseteq knownSent'
        /\ row.status = "SENT" =>
             <<i, invitations[i].generation>> \in knownSent' /\ Mailed(invitations[i].send)
    <3> HIDE DEF row, i
    <3> QED BY <1>1, <2>1, <2>3, <2>4
  <2> HIDE DEF row, i, outcome
  <2> QED BY <1>2, <1>3, <2>1, <2>3, <2>5, <2>6, <2>7, <2>8, AdminKept, InvitationWritten
<1> QED BY <1>4, <1>5

-----------------------------------------------------------------------------
(* One reservation is written.                                             *)

\* What is written over the reservation of s says what is true of its mail, for
\* every postman but p.
SafeRow(p, s, row) ==
  /\ row.status = "SENT" => Mailed(s)
  /\ Mailed(s) => row.status \in {"HANDOFF", "SENT", "AMBIGUOUS"}
  /\ \A q \in Postmen : q # p /\ postman[q].stage = "send" /\ postman[q].send = s
       => row.status = "HANDOFF" /\ row.owner = q

LEMMA SendWritten ==
  ASSUME PremiumInv, NEW p, NEW s \in DOMAIN sends, NEW row \in SendRows,
         sends' = [sends EXCEPT ![s] = row],
         UNCHANGED <<invitations, admin, receipts, given, received, knownSent>>,
         SafeRow(p, s, row),
         postman' \in [Postmen -> PostmanRows], \A q \in Postmen : q # p => postman'[q] = postman[q],
         p \in Postmen =>
           /\ postman[p].stage \in Sending /\ postman[p].send = s
           /\ postman'[p].stage \in Sending
           /\ postman'[p].at = postman[p].at /\ postman'[p].generation = postman[p].generation
           /\ postman'[p].send = s
           /\ postman'[p].stage = "send" => row.status = "HANDOFF" /\ row.owner = p /\ ~Mailed(s)
           /\ postman'[p].stage = "complete" =>
                postman'[p].outcome # "none" /\ (postman'[p].outcome = "SENT" => Mailed(s))
  PROVE  PremiumInv'
<1>1. sends \in Seq(SendRows)
  BY DEF PremiumInv, PremiumTypeOK
<1>2. /\ sends' \in Seq(SendRows) /\ DOMAIN sends' = DOMAIN sends
      /\ \A t \in DOMAIN sends : sends'[t] = IF t = s THEN row ELSE sends[t]
  BY <1>1, Updated
<1>3. PremiumTypeOK'
  BY <1>2 DEF PremiumInv, PremiumTypeOK
<1>4. \A q \in Postmen : postman[q].stage \in Sending =>
        /\ postman[q].send \in DOMAIN sends /\ SendOf(postman[q].send, postman[q].at)
        /\ Named(postman[q].at, postman[q].generation)
  BY PostmanSafe DEF Sending
<1>5. admin'.does \in {"resend", "revoke"} => admin'.at \in DOMAIN invitations
  BY AdminKept
<1>6. Quietly(p)
  BY <1>2, <1>4, <1>5 DEF Quietly
<1>7. \A t : Mailed(t)' = Mailed(t)
  BY <1>3, <1>6, QuietPlaces
<1>8. SendsTrue'
  <2>1. \A t \in DOMAIN sends : /\ sends'[t].status = "SENT" => Mailed(t)
                                /\ Mailed(t) => sends'[t].status \in {"HANDOFF", "SENT", "AMBIGUOUS"}
    BY <1>2 DEF PremiumInv, SendsTrue, SafeRow
  <2>2. ASSUME NEW q \in Postmen, postman'[q].stage = "send"
        PROVE  /\ sends'[postman'[q].send].status = "HANDOFF"
               /\ sends'[postman'[q].send].owner = q
               /\ ~Mailed(postman'[q].send)
    <3>1. CASE q = p
      BY <1>2, <2>2, <3>1
    <3>2. CASE q # p
      <4>1. postman'[q] = postman[q] /\ postman[q].send \in DOMAIN sends
        BY <1>4, <2>2, <3>2 DEF Sending
      <4>2. /\ sends[postman[q].send].status = "HANDOFF" /\ sends[postman[q].send].owner = q
            /\ ~Mailed(postman[q].send)
        BY <2>2, <4>1 DEF PremiumInv, SendsTrue
      <4>3. sends'[postman[q].send].status = "HANDOFF" /\ sends'[postman[q].send].owner = q
        BY <1>2, <2>2, <3>2, <4>1, <4>2 DEF SafeRow
      <4> QED BY <4>1, <4>2, <4>3
    <3> QED BY <3>1, <3>2
  <2>3. ASSUME NEW q \in Postmen, postman'[q].stage = "complete"
        PROVE  postman'[q].outcome # "none" /\ (postman'[q].outcome = "SENT" => Mailed(postman'[q].send))
    <3>1. CASE q = p
      BY <2>3, <3>1
    <3>2. CASE q # p
      BY <2>3, <3>2 DEF PremiumInv, SendsTrue
    <3> QED BY <3>1, <3>2
  <2>4. \A q \in Postmen :
          /\ postman'[q].stage = "send" => ~Mailed(postman'[q].send)
          /\ postman'[q].stage = "complete" /\ postman'[q].outcome = "SENT" => Mailed(postman'[q].send)
    BY <2>2, <2>3
  <2> QED BY <1>2, <1>7, <2>1, <2>2, <2>3 DEF SendsTrue
<1>9. \A i \in DOMAIN invitations : invitations'[i] = invitations[i] /\ given'[i] = given[i]
  OBVIOUS
<1> QED BY <1>3, <1>6, <1>8, <1>9, QuietInv

LEMMA SendLeaseInv ==
  ASSUME PremiumInv, NEW s \in DOMAIN sends, SendLeaseEnds(s)
  PROVE  PremiumInv'
<1>1. PICK row \in SendRows : row = [sends[s] EXCEPT !.live = FALSE]
  <2>1. sends[s] \in SendRows
    BY PremiumRows DEF PremiumInv
  <2> QED BY <2>1 DEF SendRows
<1>2. row.status = sends[s].status /\ row.owner = sends[s].owner
  <2>1. sends[s] \in SendRows
    BY PremiumRows DEF PremiumInv
  <2> QED BY <1>1, <2>1 DEF SendRows
<1>3. sends' = [sends EXCEPT ![s] = row]
  BY <1>1, Zenon DEF SendLeaseEnds
<1>4. UNCHANGED <<invitations, postman, admin, receipts, given, received, knownSent>>
  BY DEF SendLeaseEnds
<1>5. PICK p : p \notin Postmen
  BY NoSetContainsEverything
<1>6. SafeRow(p, s, row)
  BY <1>2 DEF PremiumInv, SendsTrue, SafeRow
<1>7. postman' \in [Postmen -> PostmanRows] /\ \A q \in Postmen : q # p => postman'[q] = postman[q]
  BY <1>4 DEF PremiumInv, PremiumTypeOK
<1> QED BY Zenon, <1>2, <1>3, <1>4, <1>5, <1>6, <1>7, SendWritten

\* A postman that knows how its attempt ended.
LEMMA Ended ==
  ASSUME PremiumInv, NEW p \in Postmen, postman[p].stage \in Sending,
         NEW outcome \in {"FAILED", "SENT", "AMBIGUOUS", "DEFERRED"}, Ends(p, outcome)
  PROVE  /\ postman' \in [Postmen -> PostmanRows]
         /\ postman'[p].stage = "complete" /\ postman'[p].outcome = outcome
         /\ postman'[p].at = postman[p].at /\ postman'[p].generation = postman[p].generation
         /\ postman'[p].send = postman[p].send
         /\ \A q \in Postmen : q # p => postman'[q] = postman[q]
<1> DEFINE row == [postman[p] EXCEPT !.stage = "complete", !.outcome = outcome]
<1>1. postman[p] \in PostmanRows /\ postman \in [Postmen -> PostmanRows]
  BY DEF PremiumInv, PremiumTypeOK
<1>2. row \in PostmanRows
  BY <1>1, Zenon DEF PostmanRows, Sending, Outcomes
<1>3. /\ row.stage = "complete" /\ row.outcome = outcome /\ row.at = postman[p].at
      /\ row.generation = postman[p].generation /\ row.send = postman[p].send
  BY <1>1 DEF PostmanRows
<1>4. postman' = [postman EXCEPT ![p] = row]
  BY Zenon DEF Ends
<1> HIDE DEF row
<1> QED BY <1>1, <1>2, <1>3, <1>4

LEMMA Went ==
  ASSUME PremiumInv, NEW p \in Postmen, postman[p].stage \in Sending, NEW stage \in Sending, Goes(p, stage)
  PROVE  /\ postman' \in [Postmen -> PostmanRows] /\ postman'[p].stage = stage
         /\ postman'[p].at = postman[p].at /\ postman'[p].generation = postman[p].generation
         /\ postman'[p].send = postman[p].send
         /\ \A q \in Postmen : q # p => postman'[q] = postman[q]
<1> DEFINE row == [postman[p] EXCEPT !.stage = stage]
<1>1. postman[p] \in PostmanRows /\ postman \in [Postmen -> PostmanRows]
  BY DEF PremiumInv, PremiumTypeOK
<1>2. row \in PostmanRows
  BY <1>1, Zenon DEF PostmanRows
<1>3. /\ row.stage = stage /\ row.at = postman[p].at
      /\ row.generation = postman[p].generation /\ row.send = postman[p].send
  BY <1>1 DEF PostmanRows
<1>4. postman' = [postman EXCEPT ![p] = row]
  BY Zenon DEF Goes
<1> HIDE DEF row
<1> QED BY <1>1, <1>2, <1>3, <1>4

LEMMA EndedAlone ==
  ASSUME PremiumInv, NEW p \in Postmen, postman[p].stage \in Sending,
         NEW outcome \in {"FAILED", "SENT", "AMBIGUOUS", "DEFERRED"}, Ends(p, outcome),
         UNCHANGED <<invitations, sends, admin, receipts, given, received, knownSent>>,
         outcome = "SENT" => Mailed(postman[p].send)
  PROVE  PremiumInv'
<1>1. Named(postman[p].at, postman[p].generation) /\ postman[p].send \in DOMAIN sends
      /\ SendOf(postman[p].send, postman[p].at)
  BY PostmanSafe DEF Sending
<1> QED BY <1>1, Ended, AdminKept, Moved

\* What the reservation of an attempt says while no mail of it is known.
LEMMA Unmailed ==
  ASSUME PremiumInv, NEW s \in DOMAIN sends, sends[s].status \in {"NONE", "RELEASED", "RESERVED"}
  PROVE  ~Mailed(s) /\ \A q \in Postmen : ~(postman[q].stage = "send" /\ postman[q].send = s)
BY DEF PremiumInv, SendsTrue

LEMMA ReservesInv ==
  ASSUME PremiumInv, NEW p \in Postmen, ReservesSend(p)
  PROVE  PremiumInv'
<1> DEFINE s == postman[p].send
           row == [status |-> "RESERVED", live |-> TRUE, owner |-> p]
<1>1. postman[p].stage \in Sending /\ s \in DOMAIN sends
  BY PostmanSafe DEF ReservesSend, Sending
<1>2. UNCHANGED <<invitations, admin, receipts, given, received, knownSent>>
  BY DEF ReservesSend
<1>3. CASE Reservable(s) /\ sends' = [sends EXCEPT ![s] = row] /\ Goes(p, "hand")
  <2>1. /\ ~Mailed(s) /\ \A q \in Postmen : ~(postman[q].stage = "send" /\ postman[q].send = s)
    BY <1>1, <1>3, Unmailed DEF Reservable, Lapses
  <2>2. row \in SendRows /\ row.status = "RESERVED"
    BY DEF SendRows
  <2>3. /\ postman' \in [Postmen -> PostmanRows] /\ postman'[p].stage = "hand"
        /\ postman'[p].at = postman[p].at /\ postman'[p].generation = postman[p].generation
        /\ postman'[p].send = postman[p].send
        /\ \A q \in Postmen : q # p => postman'[q] = postman[q]
    BY <1>1, <1>3, Went DEF Sending
  <2>4. "hand" \in Sending
    BY DEF Sending
  <2> HIDE DEF row
  <2>5. SafeRow(p, s, row)
    BY <2>1, <2>2 DEF SafeRow
  <2>6. /\ postman'[p].stage \in Sending
        /\ postman'[p].stage = "send" => row.status = "HANDOFF" /\ row.owner = p /\ ~Mailed(s)
        /\ postman'[p].stage = "complete" =>
             postman'[p].outcome # "none" /\ (postman'[p].outcome = "SENT" => Mailed(s))
    BY <2>3, <2>4
  <2> QED BY Zenon, <1>1, <1>2, <1>3, <2>2, <2>3, <2>5, <2>6, SendWritten
<1>4. CASE \E outcome \in {"FAILED", "SENT", "AMBIGUOUS", "DEFERRED"} :
             Ends(p, outcome) /\ sends' = sends /\ (outcome = "SENT" => sends[s].status = "SENT")
  <2>1. sends[s].status = "SENT" => Mailed(s)
    BY <1>1 DEF PremiumInv, SendsTrue
  <2> QED BY <1>1, <1>2, <1>4, <2>1, EndedAlone
<1>5. (Reservable(s) /\ sends' = [sends EXCEPT ![s] = row] /\ Goes(p, "hand"))
      \/ \E outcome \in {"FAILED", "SENT", "AMBIGUOUS", "DEFERRED"} :
           Ends(p, outcome) /\ sends' = sends /\ (outcome = "SENT" => sends[s].status = "SENT")
  BY DEF ReservesSend
<1> QED BY <1>3, <1>4, <1>5

LEMMA HandsInv ==
  ASSUME PremiumInv, NEW p \in Postmen, HandsOver(p)
  PROVE  PremiumInv'
<1> DEFINE s == postman[p].send
           row == [sends[s] EXCEPT !.status = "HANDOFF"]
<1>1. postman[p].stage \in Sending /\ s \in DOMAIN sends
  BY PostmanSafe DEF HandsOver, Sending
<1>2. UNCHANGED <<invitations, admin, receipts, given, received, knownSent>>
  BY DEF HandsOver
<1>3. CASE sends[s].status = "RESERVED" /\ sends[s].owner = p
  <2>1. /\ ~Mailed(s) /\ \A q \in Postmen : ~(postman[q].stage = "send" /\ postman[q].send = s)
    BY <1>1, <1>3, Unmailed
  <2>2. sends[s] \in SendRows
    BY <1>1, PremiumRows DEF PremiumInv
  <2>3. row \in SendRows /\ row.status = "HANDOFF" /\ row.owner = p
    BY <1>3, <2>2 DEF SendRows
  <2>4. sends' = [sends EXCEPT ![s] = row] /\ Goes(p, "send")
    BY <1>3, Zenon DEF HandsOver
  <2>5. /\ postman' \in [Postmen -> PostmanRows] /\ postman'[p].stage = "send"
        /\ postman'[p].at = postman[p].at /\ postman'[p].generation = postman[p].generation
        /\ postman'[p].send = postman[p].send
        /\ \A q \in Postmen : q # p => postman'[q] = postman[q]
    BY <1>1, <2>4, Went DEF Sending
  <2>6. "send" \in Sending
    BY DEF Sending
  <2> HIDE DEF row
  <2>7. SafeRow(p, s, row)
    BY <2>1, <2>3 DEF SafeRow
  <2>8. /\ postman'[p].stage \in Sending
        /\ postman'[p].stage = "send" => row.status = "HANDOFF" /\ row.owner = p /\ ~Mailed(s)
        /\ postman'[p].stage = "complete" =>
             postman'[p].outcome # "none" /\ (postman'[p].outcome = "SENT" => Mailed(s))
    BY <2>1, <2>3, <2>5, <2>6
  <2> QED BY Zenon, <1>1, <1>2, <2>3, <2>4, <2>5, <2>7, <2>8, SendWritten
<1>4. CASE ~(sends[s].status = "RESERVED" /\ sends[s].owner = p)
  <2>1. Ends(p, "FAILED") /\ sends' = sends
    BY <1>4 DEF HandsOver
  <2> QED BY <1>1, <1>2, <2>1, EndedAlone
<1> QED BY <1>3, <1>4

-----------------------------------------------------------------------------
(* The provider accepts a mail.                                            *)

\* A postman that sends holds the attempt: nobody else sends it, and it is not mailed.
LEMMA HoldsAttempt ==
  ASSUME PremiumInv, NEW p \in Postmen, postman[p].stage = "send"
  PROVE  /\ sends[postman[p].send].status = "HANDOFF" /\ sends[postman[p].send].owner = p
         /\ ~Mailed(postman[p].send)
         /\ \A q \in Postmen : q # p /\ postman[q].stage = "send" => postman[q].send # postman[p].send
BY DEF PremiumInv, SendsTrue

\* An attempt that is mailed once, by the postman that holds it.
LEMMA MailAccepted ==
  ASSUME PremiumInv, NEW p \in Postmen, postman[p].stage = "send",
         received' = Append(received, [of |-> postman[p].at, generation |-> postman[p].generation,
                                       send |-> postman[p].send]),
         UNCHANGED <<invitations, admin, receipts, given, knownSent>>,
         NEW status \in {"HANDOFF", "SENT", "AMBIGUOUS"},
         sends' \in Seq(SendRows), DOMAIN sends' = DOMAIN sends,
         \A t \in DOMAIN sends : t # postman[p].send => sends'[t] = sends[t],
         sends'[postman[p].send].status = status,
         NEW outcome \in {"SENT", "AMBIGUOUS"}, Ends(p, outcome)
  PROVE  PremiumInv'
<1> DEFINE mail == [of |-> postman[p].at, generation |-> postman[p].generation, send |-> postman[p].send]
<1>1. /\ postman[p] \in PostmanRows /\ Named(postman[p].at, postman[p].generation)
      /\ postman[p].send \in DOMAIN sends /\ SendOf(postman[p].send, postman[p].at)
      /\ postman[p].stage \in Sending
  BY PostmanSafe DEF Sending
<1>2. /\ mail \in ReceivedMails /\ mail.send = postman[p].send
      /\ mail.of = postman[p].at /\ mail.generation = postman[p].generation
  BY <1>1 DEF ReceivedMails, PostmanRows
<1>3. received \in Seq(ReceivedMails)
  BY DEF PremiumInv, PremiumTypeOK
<1> HIDE DEF mail
<1>4. /\ received' \in Seq(ReceivedMails) /\ Len(received) \in Nat
      /\ DOMAIN received = 1..Len(received) /\ DOMAIN received' = 1..(Len(received) + 1)
      /\ \A m \in DOMAIN received : received'[m] = received[m]
      /\ received'[Len(received) + 1] = mail
  BY <1>2, <1>3, Appended DEF mail
<1>5. /\ DOMAIN received' = DOMAIN received \cup {Len(received) + 1}
      /\ Len(received) + 1 \notin DOMAIN received
  BY <1>4
<1>6. /\ postman' \in [Postmen -> PostmanRows]
      /\ postman'[p].stage = "complete" /\ postman'[p].outcome = outcome
      /\ postman'[p].at = postman[p].at /\ postman'[p].generation = postman[p].generation
      /\ postman'[p].send = postman[p].send
      /\ \A q \in Postmen : q # p => postman'[q] = postman[q]
  BY <1>1, Ended
<1>7. \A t : Mailed(t)' <=> Mailed(t) \/ t = postman[p].send
  BY <1>2, <1>4, <1>5 DEF Mailed
<1>8. PremiumTypeOK'
  BY <1>4, <1>6 DEF PremiumInv, PremiumTypeOK
<1>9. \A q \in Postmen : postman'[q].at = postman[q].at /\ postman'[q].generation = postman[q].generation
                         /\ postman'[q].send = postman[q].send
                         /\ (postman'[q].stage \in Sending <=> postman[q].stage \in Sending)
                         /\ (postman'[q].stage # "rest" <=> postman[q].stage # "rest")
  BY <1>1, <1>6 DEF Sending
<1>10. PlacesOK'
  <2>1. \A i, g : Named(i, g)' = Named(i, g)
    BY DEF Named
  <2>2. \A m \in DOMAIN received' : /\ Named(received'[m].of, received'[m].generation)
                                    /\ received'[m].send \in DOMAIN sends
    BY <1>1, <1>2, <1>4, <1>5 DEF PremiumInv, PlacesOK
  <2>3. \A q \in Postmen :
          /\ postman'[q].stage # "rest" => Named(postman'[q].at, postman'[q].generation)
          /\ postman'[q].stage \in Sending => postman'[q].send \in DOMAIN sends
    BY <1>9 DEF PremiumInv, PlacesOK
  <2> QED BY <2>1, <2>2, <2>3 DEF PremiumInv, PlacesOK
<1>11. OneInvitation'
  <2>1. ASSUME NEW s, NEW i, SendOf(s, i)' PROVE SendOf(s, i)
    <3>1. CASE \E m \in DOMAIN received' : received'[m].send = s /\ received'[m].of = i
      BY <1>1, <1>2, <1>4, <1>5, <3>1 DEF SendOf
    <3>2. CASE \E q \in Postmen :
                 postman'[q].stage \in Sending /\ postman'[q].send = s /\ postman'[q].at = i
      BY <1>9, <3>2 DEF SendOf
    <3> QED BY <2>1, <3>1, <3>2 DEF SendOf
  <2> QED BY <2>1 DEF PremiumInv, OneInvitation
<1>12. InvitedOnce'
  <2>1. \A m \in DOMAIN received : received[m].send # postman[p].send
    BY HoldsAttempt DEF Mailed
  <2> QED BY <1>2, <1>4, <1>5, <2>1 DEF PremiumInv, InvitedOnce
<1>13. SendsTrue'
  <2>1. ASSUME NEW t \in DOMAIN sends
        PROVE  /\ sends'[t].status = "SENT" => Mailed(t) \/ t = postman[p].send
               /\ Mailed(t) \/ t = postman[p].send => sends'[t].status \in {"HANDOFF", "SENT", "AMBIGUOUS"}
    BY DEF PremiumInv, SendsTrue
  <2>2. ASSUME NEW q \in Postmen, postman'[q].stage = "send"
        PROVE  /\ sends'[postman'[q].send].status = "HANDOFF"
               /\ sends'[postman'[q].send].owner = q
               /\ ~Mailed(postman'[q].send) /\ postman'[q].send # postman[p].send
    <3>1. q # p /\ postman'[q] = postman[q] /\ postman[q].send \in DOMAIN sends
          /\ postman[q].stage = "send"
      BY <1>6, <2>2, PostmanSafe DEF Sending
    <3>2. postman[q].send # postman[p].send /\ sends'[postman[q].send] = sends[postman[q].send]
      BY <3>1, HoldsAttempt
    <3> QED BY <3>1, <3>2, HoldsAttempt
  <2>3. ASSUME NEW q \in Postmen, postman'[q].stage = "complete"
        PROVE  /\ postman'[q].outcome # "none"
               /\ postman'[q].outcome = "SENT" =>
                    Mailed(postman'[q].send) \/ postman'[q].send = postman[p].send
    <3>1. CASE q = p
      BY <1>6, <3>1
    <3>2. CASE q # p
      BY <1>6, <2>3, <3>2, PostmanSafe
    <3> QED BY <3>1, <3>2
  <2> QED BY <1>7, <2>1, <2>2, <2>3 DEF SendsTrue
<1>14. GenerationsKnown'
  BY <1>7 DEF PremiumInv, GenerationsKnown
<1>15. GrantsFollow'
  BY DEF PremiumInv, GrantsFollow, IsPending
<1> QED BY <1>8, <1>10, <1>11, <1>12, <1>13, <1>14, <1>15 DEF PremiumInv

LEMMA SendsInv ==
  ASSUME PremiumInv, NEW p \in Postmen, SendsInvitation(p)
  PROVE  PremiumInv'
<1> DEFINE s == postman[p].send
           stored(status) == sends' = [sends EXCEPT ![s].status = status]
<1>1. postman[p].stage = "send" /\ postman[p].stage \in Sending /\ s \in DOMAIN sends
  BY PostmanSafe DEF SendsInvitation, Sending
<1>2. UNCHANGED <<invitations, admin, receipts, given, knownSent>>
  BY DEF SendsInvitation
<1>3. sends[s] \in SendRows /\ sends \in Seq(SendRows) /\ sends[s].status = "HANDOFF"
  BY <1>1, PremiumRows, HoldsAttempt DEF PremiumInv, PremiumTypeOK
<1>4. ASSUME NEW status \in {"SENT", "AMBIGUOUS", "RELEASED"}, stored(status)
      PROVE  \E row \in SendRows : sends' = [sends EXCEPT ![s] = row] /\ row.status = status
  <2> DEFINE row == [sends[s] EXCEPT !.status = status]
  <2>1. row \in SendRows /\ row.status = status
    BY <1>3 DEF SendRows
  <2>2. sends' = [sends EXCEPT ![s] = row]
    BY <1>4, Zenon
  <2> HIDE DEF row
  <2> QED BY <2>1, <2>2
<1>5. ASSUME NEW status \in {"RELEASED", "AMBIGUOUS"}, stored(status), received' = received,
             NEW outcome \in {"FAILED", "AMBIGUOUS"}, Ends(p, outcome)
      PROVE  PremiumInv'
  <2>1. PICK row \in SendRows : sends' = [sends EXCEPT ![s] = row] /\ row.status = status
    BY <1>4, <1>5
  <2>2. SafeRow(p, s, row)
    BY <2>1, <1>1, HoldsAttempt DEF SafeRow
  <2>3. /\ postman' \in [Postmen -> PostmanRows]
        /\ postman'[p].stage = "complete" /\ postman'[p].outcome = outcome
        /\ postman'[p].at = postman[p].at /\ postman'[p].generation = postman[p].generation
        /\ postman'[p].send = postman[p].send
        /\ \A q \in Postmen : q # p => postman'[q] = postman[q]
    BY <1>1, <1>5, Ended
  <2>4. "complete" \in Sending
    BY DEF Sending
  <2>5. UNCHANGED <<invitations, admin, receipts, given, received, knownSent>>
    BY <1>2, <1>5
  <2> QED BY <1>1, <2>1, <2>2, <2>3, <2>4, <2>5, SendWritten
<1>6. ASSUME received' = Append(received, [of |-> postman[p].at, generation |-> postman[p].generation,
                                           send |-> s]),
             NEW status \in {"SENT", "AMBIGUOUS"},
             stored(status) \/ sends' = sends, NEW outcome \in {"SENT", "AMBIGUOUS"}, Ends(p, outcome)
      PROVE  PremiumInv'
  <2>1. CASE stored(status)
    <3>1. PICK row \in SendRows : sends' = [sends EXCEPT ![s] = row] /\ row.status = status
      BY <1>4, <2>1
    <3>2. /\ sends' \in Seq(SendRows) /\ DOMAIN sends' = DOMAIN sends
          /\ \A t \in DOMAIN sends : sends'[t] = IF t = s THEN row ELSE sends[t]
      BY <1>1, <1>3, <3>1, Updated
    <3>3. /\ sends'[s].status = status /\ status \in {"HANDOFF", "SENT", "AMBIGUOUS"}
          /\ \A t \in DOMAIN sends : t # s => sends'[t] = sends[t]
      BY <1>1, <3>1, <3>2
    <3> QED BY <1>1, <1>2, <1>6, <3>2, <3>3, MailAccepted
  <2>2. CASE sends' = sends
    <3>1. /\ sends' \in Seq(SendRows) /\ DOMAIN sends' = DOMAIN sends
          /\ \A t \in DOMAIN sends : t # s => sends'[t] = sends[t]
          /\ sends'[s].status = "HANDOFF" /\ "HANDOFF" \in {"HANDOFF", "SENT", "AMBIGUOUS"}
      BY <1>3, <2>2
    <3> QED BY <1>1, <1>2, <1>6, <3>1, MailAccepted
  <2> QED BY <1>6, <2>1, <2>2
<1>7. \/ /\ received' = received
         /\ \/ stored("RELEASED") /\ Ends(p, "FAILED")
            \/ stored("AMBIGUOUS") /\ Ends(p, "AMBIGUOUS")
      \/ /\ received' = Append(received, [of |-> postman[p].at, generation |-> postman[p].generation,
                                          send |-> s])
         /\ \/ stored("SENT") /\ Ends(p, "SENT")
            \/ stored("AMBIGUOUS") /\ Ends(p, "AMBIGUOUS")
            \/ sends' = sends /\ Ends(p, "AMBIGUOUS")
  BY Zenon DEF SendsInvitation
<1> HIDE DEF stored, s
<1> QED BY <1>5, <1>6, <1>7

-----------------------------------------------------------------------------
(* A command makes an attempt.                                             *)

\* A new attempt of invitation i in generation g; the other invitations are as they were.
Attempts(p, i, g) ==
  /\ sends' = Append(sends, [status |-> "NONE", live |-> FALSE, owner |-> NoPostman])
  /\ DOMAIN invitations \subseteq DOMAIN invitations' /\ i \in DOMAIN invitations'
  /\ \A j \in DOMAIN invitations' : j # i => j \in DOMAIN invitations /\ invitations'[j] = invitations[j]
  /\ invitations'[i].send = Len(sends) + 1 /\ invitations'[i].generation = g
  /\ invitations'[i].status = "PENDING"
  /\ i \in DOMAIN invitations => invitations[i].generation <= g
  /\ \A h \in 1..(g - 1) : <<i, h>> \in knownSent
  /\ Recorded(p, i, g)
  /\ UNCHANGED <<received, knownSent>>

LEMMA Attempted ==
  ASSUME PremiumInv, NEW p \in Postmen, NEW i \in Nat, NEW g \in Nat \ {0}, Attempts(p, i, g),
         invitations' \in Seq(InvitationRows),
         given' \in Seq({"none", "active", "revoked"}), Len(given') = Len(invitations'), GrantsFollow'
  PROVE  PremiumInv'
<1> DEFINE n == Len(sends) + 1
           fresh == [status |-> "NONE", live |-> FALSE, owner |-> NoPostman]
<1>1. sends \in Seq(SendRows) /\ fresh \in SendRows /\ fresh.status = "NONE"
      /\ receipts \in Seq(CommandReceipts)
  BY DEF SendRows, PremiumInv, PremiumTypeOK
<1>2. /\ sends' \in Seq(SendRows) /\ n \in Nat /\ DOMAIN sends = 1..Len(sends) /\ DOMAIN sends' = 1..n
      /\ \A t \in DOMAIN sends : sends'[t] = sends[t]
      /\ sends'[n].status = "NONE" /\ Len(sends) \in Nat
  BY <1>1, Appended DEF Attempts
<1>3. DOMAIN sends' = DOMAIN sends \cup {n} /\ n \notin DOMAIN sends
  BY <1>2
<1> DEFINE entry == [of |-> i, generation |-> g]
<1>4. entry \in CommandReceipts /\ entry.of = i /\ entry.generation = g
      /\ receipts' = Append(receipts, entry)
  BY DEF CommandReceipts, Attempts, Recorded
<1> HIDE DEF entry
<1>5. /\ receipts' \in Seq(CommandReceipts) /\ Len(receipts) \in Nat
      /\ DOMAIN receipts = 1..Len(receipts) /\ DOMAIN receipts' = 1..(Len(receipts) + 1)
      /\ \A r \in DOMAIN receipts : receipts'[r] = receipts[r]
      /\ receipts'[Len(receipts) + 1] = entry
  BY <1>1, <1>4, Appended
<1>6. /\ postman' \in [Postmen -> PostmanRows]
      /\ \A q \in Postmen : q # p => postman'[q] = postman[q]
      /\ postman'[p].stage = "claim" /\ postman'[p].at = i /\ postman'[p].generation = g
  BY Starting DEF PremiumInv, Attempts, Recorded
<1>7. /\ admin' \in Commands /\ admin'.does = "nothing"
  BY DEF Attempts, Recorded, Unread, Commands, DeliveryStates
<1>8. PremiumTypeOK'
  BY <1>2, <1>5, <1>6, <1>7 DEF Attempts, PremiumInv, PremiumTypeOK
<1>9. ASSUME NEW j, NEW h, Named(j, h) PROVE Named(j, h)'
  <2>1. j \in DOMAIN invitations /\ invitations[j].generation \in Nat
    BY <1>9, PremiumRows DEF Named, PremiumInv, InvitationRows
  <2>2. invitations'[j].generation \in Nat /\ invitations[j].generation <= invitations'[j].generation
        /\ j \in DOMAIN invitations'
    BY <2>1 DEF Attempts
  <2> QED BY <1>9, <2>1, <2>2 DEF Named
<1>10. Named(i, g)'
  BY DEF Named, Attempts
<1>12. PlacesOK'
  <2>1. ASSUME NEW j \in DOMAIN invitations'
        PROVE  Named(j, invitations[j].generation)' /\ invitations'[j].send \in DOMAIN sends'
    <3>1. CASE j = i
      BY <1>3, <1>10, <3>1 DEF Attempts
    <3>2. CASE j # i
      <4>1. j \in DOMAIN invitations /\ invitations'[j] = invitations[j]
        BY <3>2 DEF Attempts
      <4>2. Named(j, invitations[j].generation) /\ invitations[j].send \in DOMAIN sends
        BY <4>1 DEF PremiumInv, PlacesOK
      <4>3. invitations[j].generation \in 1..invitations'[j].generation
        BY <4>1, <4>2 DEF Named
      <4> QED BY <1>3, <4>1, <4>2, <4>3 DEF Named
    <3> QED BY <3>1, <3>2
  <2>2. ASSUME NEW q \in Postmen
        PROVE  /\ postman'[q].stage # "rest" => Named(postman[q].at, postman[q].generation)'
               /\ postman'[q].stage \in Sending => postman'[q].send \in DOMAIN sends'
    <3>1. CASE q = p
      BY <1>6, <1>10, <3>1 DEF Named, Sending
    <3>2. CASE q # p
      <4>1. postman'[q] = postman[q]
        BY <1>6, <3>2
      <4>2. /\ postman[q].stage # "rest" => Named(postman[q].at, postman[q].generation)
            /\ postman[q].stage \in Sending => postman[q].send \in DOMAIN sends
        BY DEF PremiumInv, PlacesOK
      <4>3. postman[q].stage # "rest" => Named(postman[q].at, postman[q].generation)'
        <5>1. PICK a, h : a = postman[q].at /\ h = postman[q].generation
          OBVIOUS
        <5>2. postman[q].stage # "rest" => Named(a, h)'
          BY <1>9, <4>2, <5>1
        <5> QED BY <4>1, <5>1, <5>2 DEF Named
      <4> QED BY <1>3, <4>1, <4>2, <4>3
    <3> QED BY <3>1, <3>2
  <2>3. ASSUME NEW r \in DOMAIN receipts'
        PROVE  Named(receipts[r].of, receipts[r].generation)'
    <3>1. CASE r \in DOMAIN receipts
      <4>1. PICK a, h : a = receipts[r].of /\ h = receipts[r].generation
        OBVIOUS
      <4>2. Named(a, h)'
        BY <1>9, <3>1, <4>1 DEF PremiumInv, PlacesOK
      <4> QED BY <1>5, <3>1, <4>1, <4>2 DEF Named
    <3>2. CASE r \notin DOMAIN receipts
      <4>1. receipts'[r] = entry
        BY <1>5, <3>2
      <4> QED BY <1>4, <1>10, <4>1 DEF Named
    <3> QED BY <3>1, <3>2
  <2>4. ASSUME NEW m \in DOMAIN received
        PROVE  Named(received[m].of, received[m].generation)' /\ received[m].send \in DOMAIN sends'
    <3>1. PICK a, h : a = received[m].of /\ h = received[m].generation
      OBVIOUS
    <3>2. Named(a, h)' /\ received[m].send \in DOMAIN sends
      BY <1>9, <3>1 DEF PremiumInv, PlacesOK
    <3> QED BY <1>3, <3>1, <3>2 DEF Named, Attempts
  <2>5. received' = received
    BY DEF Attempts
  <2> QED BY <1>7, <2>1, <2>2, <2>3, <2>4, <2>5 DEF PlacesOK
<1>13. \A m \in DOMAIN received : received[m].send \in DOMAIN sends
  BY DEF PremiumInv, PlacesOK
<1>14. \A q \in Postmen : postman'[q].stage \in Sending =>
         q # p /\ postman'[q] = postman[q] /\ postman[q].send \in DOMAIN sends
  BY <1>6 DEF Sending, PremiumInv, PlacesOK
<1>15. OneInvitation'
  <2>1. ASSUME NEW s \in DOMAIN sends, NEW j \in DOMAIN invitations', SendOf(s, j)'
        PROVE  j \in DOMAIN invitations /\ SendOf(s, j)
    <3>1. CASE invitations'[j].send = s
      <4>1. j # i
        BY <1>3, <3>1 DEF Attempts
      <4> QED BY <3>1, <4>1 DEF Attempts, SendOf
    <3>2. CASE \E m \in DOMAIN received : received[m].send = s /\ received[m].of = j
      BY <3>2 DEF SendOf, PremiumInv, PlacesOK, Named
    <3>3. CASE \E q \in Postmen :
                 postman'[q].stage \in Sending /\ postman'[q].send = s /\ postman'[q].at = j
      <4>1. PICK q \in Postmen : postman'[q].stage \in Sending /\ postman'[q].send = s /\ postman'[q].at = j
        BY <3>3
      <4>2. Named(postman[q].at, postman[q].generation)
        BY <1>14, <4>1, PostmanSafe DEF Sending
      <4> QED BY <1>14, <4>1, <4>2 DEF SendOf, Named
    <3>4. received' = received
      BY DEF Attempts
    <3> QED BY <2>1, <3>1, <3>2, <3>3, <3>4 DEF SendOf
  <2>2. ASSUME NEW s, s = n, NEW j \in DOMAIN invitations', SendOf(s, j)'
        PROVE  j = i
    <3>1. CASE invitations'[j].send = s
      BY <1>3, <2>2, <3>1 DEF Attempts, PremiumInv, PlacesOK
    <3>2. received' = received
      BY DEF Attempts
    <3> HIDE DEF n
    <3> QED BY <1>3, <1>13, <1>14, <2>2, <3>1, <3>2 DEF SendOf
  <2> HIDE DEF n
  <2>3. ASSUME NEW s \in DOMAIN sends', NEW j \in DOMAIN invitations', NEW k \in DOMAIN invitations',
               SendOf(s, j)', SendOf(s, k)'
        PROVE  j = k
    <3>1. CASE s \in DOMAIN sends
      BY <2>1, <2>3, <3>1 DEF PremiumInv, OneInvitation
    <3>2. CASE s = n
      BY <2>2, <2>3, <3>2
    <3> QED BY <1>3, <3>1, <3>2
  <2> QED BY <2>3 DEF OneInvitation
<1>16. \A s : Mailed(s)' = Mailed(s)
  BY DEF Mailed, Attempts
<1>17. SendsTrue'
  <2>1. ASSUME NEW s \in DOMAIN sends'
        PROVE  /\ sends'[s].status = "SENT" => Mailed(s)
               /\ Mailed(s) => sends'[s].status \in {"HANDOFF", "SENT", "AMBIGUOUS"}
    <3>1. CASE s \in DOMAIN sends
      BY <1>2, <3>1 DEF PremiumInv, SendsTrue
    <3>2. CASE s = n
      <4>1. ~Mailed(s)
        BY <1>3, <1>13, <3>2 DEF Mailed
      <4> QED BY <1>2, <3>2, <4>1
    <3> HIDE DEF n
    <3> QED BY <1>3, <3>1, <3>2
  <2>2. ASSUME NEW q \in Postmen, postman'[q].stage = "send"
        PROVE  /\ sends'[postman'[q].send].status = "HANDOFF"
               /\ sends'[postman'[q].send].owner = q
               /\ ~Mailed(postman'[q].send)
    BY <1>2, <1>14, <2>2, HoldsAttempt DEF Sending
  <2>3. ASSUME NEW q \in Postmen, postman'[q].stage = "complete"
        PROVE  postman'[q].outcome # "none" /\ (postman'[q].outcome = "SENT" => Mailed(postman'[q].send))
    BY <1>14, <2>3, PostmanSafe DEF Sending
  <2> QED BY <1>16, <2>1, <2>2, <2>3 DEF SendsTrue
<1>18. GenerationsKnown'
  <2>1. ASSUME NEW j \in DOMAIN invitations'
        PROVE  /\ \A h \in 1..(invitations'[j].generation - 1) : <<j, h>> \in knownSent
               /\ invitations'[j].status = "SENT"
                    => <<j, invitations'[j].generation>> \in knownSent /\ Mailed(invitations'[j].send)
    <3>1. CASE j = i
      BY <3>1 DEF Attempts
    <3>2. CASE j # i
      BY <3>2 DEF Attempts, PremiumInv, GenerationsKnown
    <3> QED BY <3>1, <3>2
  <2>2. knownSent' = knownSent
    BY DEF Attempts
  <2> QED BY <1>16, <2>1, <2>2 DEF GenerationsKnown
<1>19. InvitedOnce'
  BY DEF Attempts, PremiumInv, InvitedOnce
<1> QED BY <1>8, <1>12, <1>15, <1>17, <1>18, <1>19 DEF PremiumInv

LEMMA CreatesInv ==
  ASSUME PremiumInv, NEW p \in Postmen, CreatesInvitation(p)
  PROVE  PremiumInv'
<1> DEFINE i == Len(invitations) + 1
           row == [state |-> "open", expired |-> FALSE, generation |-> 1, send |-> Len(sends) + 1,
                   status |-> "PENDING", lease |-> NoPostman, leased |-> FALSE]
<1>1. UNCHANGED <<received, knownSent>>
  BY DEF CreatesInvitation
<1>2. CASE ~KeyIsFree
  <2>1. admin' = Unread /\ UNCHANGED <<invitations, sends, given, receipts, postman>>
    BY <1>2 DEF CreatesInvitation
  <2> QED BY <1>1, <2>1, AdminDone, CommandInv
<1>3. CASE KeyIsFree
  <2>1. /\ invitations' = Append(invitations, row)
        /\ sends' = Append(sends, [status |-> "NONE", live |-> FALSE, owner |-> NoPostman])
        /\ given' = Append(given, "none")
        /\ Recorded(p, i, 1)
    BY <1>3, Zenon DEF CreatesInvitation
  <2>2. Len(sends) \in Nat /\ Len(invitations) \in Nat /\ invitations \in Seq(InvitationRows)
        /\ given \in Seq({"none", "active", "revoked"}) /\ Len(given) = Len(invitations)
    BY PremiumRows DEF PremiumInv, PremiumTypeOK
  <2>3. row \in InvitationRows /\ row.state = "open" /\ row.send = Len(sends) + 1
        /\ row.generation = 1 /\ row.status = "PENDING"
    BY <2>2 DEF InvitationRows, DeliveryStates
  <2> HIDE DEF row
  <2>4. /\ invitations' \in Seq(InvitationRows) /\ DOMAIN invitations = 1..Len(invitations)
        /\ DOMAIN invitations' = 1..i /\ invitations'[i] = row
        /\ \A j \in DOMAIN invitations : invitations'[j] = invitations[j]
    BY <2>1, <2>2, <2>3, Appended
  <2>5. /\ given' \in Seq({"none", "active", "revoked"}) /\ Len(given') = Len(invitations')
        /\ given'[i] = "none" /\ \A j \in DOMAIN invitations : given'[j] = given[j]
    <3>1. "none" \in {"none", "active", "revoked"} /\ DOMAIN given = DOMAIN invitations
      BY PremiumRows DEF PremiumInv
    <3>2. /\ given' \in Seq({"none", "active", "revoked"}) /\ given'[i] = "none"
          /\ DOMAIN given' = 1..i /\ \A j \in DOMAIN given : given'[j] = given[j]
      BY <2>1, <2>2, <3>1, Appended
    <3>3. DOMAIN given' = 1..Len(given') /\ DOMAIN invitations' = 1..Len(invitations')
          /\ Len(given') \in Nat /\ Len(invitations') \in Nat
      BY <2>4, <3>2, SeqRows
    <3> QED BY <2>2, <2>4, <3>1, <3>2, <3>3
  <2>6. DOMAIN invitations' = DOMAIN invitations \cup {i} /\ i \notin DOMAIN invitations /\ i \in Nat
    BY <2>2, <2>4
  <2>7. GrantsFollow'
    <3>1. \A j \in DOMAIN invitations : invitations[j].state # "open"
      BY <1>3 DEF KeyIsFree, IsPending
    <3> HIDE DEF i
    <3>2. \A j \in DOMAIN invitations' : invitations'[j].state = "open" => j = i
      BY <2>4, <2>6, <3>1
    <3>3. \A j \in DOMAIN invitations' : given'[j] # "none" <=> invitations'[j].state = "accepted"
      BY <2>3, <2>4, <2>5, <2>6 DEF PremiumInv, GrantsFollow
    <3> QED BY <3>2, <3>3 DEF GrantsFollow, IsPending
  <2>8. Attempts(p, i, 1)
    <3> HIDE DEF i
    <3>1. \A h \in 1..(1 - 1) : FALSE
      OBVIOUS
    <3> QED BY <1>1, <2>1, <2>3, <2>4, <2>6, <3>1 DEF Attempts
  <2>9. i \in Nat /\ 1 \in Nat \ {0}
    BY <2>6
  <2> HIDE DEF i
  <2> QED BY <2>4, <2>5, <2>7, <2>8, <2>9, Attempted
<1> QED BY <1>2, <1>3

LEMMA ResendsInv ==
  ASSUME PremiumInv, NEW p \in Postmen, Resends(p)
  PROVE  PremiumInv'
<1> DEFINE i == admin.at
           g == admin.generation + IF Rotates THEN 1 ELSE 0
           current == /\ IsPending(i) /\ invitations[i].generation = admin.generation
                      /\ invitations[i].status = admin.status
           row == [invitations[i] EXCEPT !.expired = FALSE, !.generation = g, !.send = Len(sends) + 1,
                     !.status = "PENDING", !.lease = NoPostman, !.leased = FALSE]
<1>1. UNCHANGED <<given, received, knownSent>>
  BY DEF Resends
<1>2. CASE ~current
  <2>1. admin' = Unread /\ UNCHANGED <<invitations, sends, receipts, postman>>
    BY <1>2 DEF Resends
  <2> QED BY <1>1, <2>1, AdminDone, CommandInv
<1>3. CASE current
  <2>1. /\ invitations' = [invitations EXCEPT ![i] = row]
        /\ sends' = Append(sends, [status |-> "NONE", live |-> FALSE, owner |-> NoPostman])
        /\ Recorded(p, i, g)
    BY <1>3, Zenon DEF Resends
  <2>2. i \in DOMAIN invitations /\ i \in Nat /\ invitations[i] \in InvitationRows
        /\ Len(sends) \in Nat /\ invitations \in Seq(InvitationRows)
    BY PremiumRows DEF PremiumInv, PlacesOK, Resends, PremiumTypeOK
  <2>3. invitations[i].generation \in Nat \ {0} /\ invitations[i].generation = admin.generation
    BY <1>3, <2>2 DEF PremiumInv, PlacesOK, Named, InvitationRows
  <2>4. g \in Nat \ {0} /\ invitations[i].generation <= g
        /\ (g = invitations[i].generation
            \/ (g = invitations[i].generation + 1 /\ invitations[i].status = "SENT"))
    <3>1. CASE Rotates
      <4>1. g = admin.generation + 1 /\ invitations[i].status = "SENT"
        BY <1>3, <3>1 DEF Rotates
      <4> HIDE DEF g, i
      <4> QED BY <2>3, <4>1
    <3>2. CASE ~Rotates
      <4>1. g = admin.generation + 0
        BY <3>2
      <4> HIDE DEF g, i
      <4> QED BY <2>3, <4>1
    <3> QED BY <3>1, <3>2
  <2> HIDE DEF g
  <2>5. row \in InvitationRows
    <3>1. Len(sends) + 1 \in Nat /\ g \in Nat
      BY <2>2, <2>4
    <3> QED BY <2>2, <3>1, Zenon DEF InvitationRows, DeliveryStates
  <2>6. /\ row.state = invitations[i].state /\ row.send = Len(sends) + 1
        /\ row.generation = g /\ row.status = "PENDING"
    BY <2>2 DEF InvitationRows
  <2> HIDE DEF row
  <2>7. /\ invitations' \in Seq(InvitationRows) /\ Len(invitations') = Len(invitations)
        /\ DOMAIN invitations' = DOMAIN invitations
        /\ \A j \in DOMAIN invitations : invitations'[j] = IF j = i THEN row ELSE invitations[j]
    BY <2>1, <2>2, <2>5, Updated
  <2>8. given' \in Seq({"none", "active", "revoked"}) /\ Len(given') = Len(invitations')
    BY <1>1, <2>7 DEF PremiumInv, PremiumTypeOK
  <2>9. GrantsFollow'
    BY <1>1, <2>6, <2>7 DEF PremiumInv, GrantsFollow, IsPending
  <2>10. \A h \in 1..(g - 1) : <<i, h>> \in knownSent
    <3>1. SUFFICES ASSUME NEW h \in 1..(g - 1) PROVE <<i, h>> \in knownSent
      OBVIOUS
    <3>2. CASE h \in 1..(invitations[i].generation - 1)
      BY <2>2, <3>2 DEF PremiumInv, GenerationsKnown
    <3>3. CASE h = invitations[i].generation /\ invitations[i].status = "SENT"
      BY <2>2, <3>3 DEF PremiumInv, GenerationsKnown
    <3> QED BY <2>3, <2>4, <3>2, <3>3
  <2>11. Attempts(p, i, g)
    <3> HIDE DEF i
    <3> QED BY <1>1, <2>1, <2>2, <2>4, <2>6, <2>7, <2>10 DEF Attempts
  <2> HIDE DEF i
  <2> QED BY <2>2, <2>4, <2>7, <2>8, <2>9, <2>11, Attempted
<1> QED BY <1>2, <1>3

-----------------------------------------------------------------------------
(* The theorem.                                                            *)

LEMMA PremiumStarts == PremiumInit => PremiumInv
<1> SUFFICES ASSUME PremiumInit PROVE PremiumInv
  OBVIOUS
<1>1. /\ <<>> \in Seq(InvitationRows) /\ <<>> \in Seq(SendRows) /\ <<>> \in Seq(CommandReceipts)
      /\ <<>> \in Seq({"none", "active", "revoked"}) /\ <<>> \in Seq(ReceivedMails)
      /\ DOMAIN <<>> = {}
  OBVIOUS
<1>2. AtRest \in PostmanRows /\ AtRest.stage = "rest" /\ "rest" \notin Sending
  BY DEF AtRest, PostmanRows, Outcomes, Sending
<1>3. Unread \in Commands /\ Unread.does = "nothing"
  BY DEF Unread, Commands, DeliveryStates
<1>4. \A p \in Postmen : postman[p] = AtRest
  BY DEF PremiumInit
<1>5. PremiumTypeOK
  BY <1>1, <1>2, <1>3 DEF PremiumInit, PremiumTypeOK
<1>6. PlacesOK
  BY <1>1, <1>2, <1>3, <1>4 DEF PremiumInit, PlacesOK
<1>7. OneInvitation /\ GenerationsKnown /\ InvitedOnce /\ GrantsFollow
  BY <1>1 DEF PremiumInit, OneInvitation, GenerationsKnown, InvitedOnce, GrantsFollow
<1>8. SendsTrue
  BY <1>1, <1>2, <1>4 DEF PremiumInit, SendsTrue, Sending
<1> QED BY <1>5, <1>6, <1>7, <1>8 DEF PremiumInv

LEMMA PremiumNexts == PremiumInv /\ [PremiumNext]_premiumVars => PremiumInv'
<1> SUFFICES ASSUME PremiumInv, [PremiumNext]_premiumVars PROVE PremiumInv'
  OBVIOUS
<1>1. CASE Considers \/ Revokes
  BY <1>1, ConsidersInv, RevokesInv
<1>2. ASSUME NEW i \in DOMAIN invitations, NEW does \in {"resend", "revoke"}, ReadsInvitation(does, i)
      PROVE  PremiumInv'
  BY <1>2, CommandReadsInv
<1>3. ASSUME NEW i \in DOMAIN invitations,
             RevokesGrant(i) \/ InvitationExpires(i) \/ DeliveryLeaseEnds(i)
      PROVE  PremiumInv'
  BY <1>3, GrantRevokesInv, ExpiresInv, LeaseEndsInv
<1>4. ASSUME NEW m \in DOMAIN received, AcceptsInvitation(m) PROVE PremiumInv'
  BY <1>4, AcceptsInv
<1>5. ASSUME NEW s \in DOMAIN sends, SendLeaseEnds(s) PROVE PremiumInv'
  BY <1>5, SendLeaseInv
<1>6. ASSUME NEW p \in Postmen, CreatesInvitation(p) \/ Resends(p) PROVE PremiumInv'
  BY <1>6, CreatesInv, ResendsInv
<1>7. ASSUME NEW p \in Postmen, NEW r \in DOMAIN receipts, RepeatsCommand(p, r) PROVE PremiumInv'
  BY <1>7, RepeatsInv
<1>8. ASSUME NEW p \in Postmen,
             \/ ClaimsDelivery(p) \/ ReadsDelivery(p) \/ ReservesSend(p)
             \/ HandsOver(p) \/ SendsInvitation(p) \/ CompletesDelivery(p)
             \/ StopsDelivering(p)
      PROVE  PremiumInv'
  BY <1>8, ClaimsInv, ReadsInv, ReservesInv, HandsInv, SendsInv, CompletesInv, StopsInv
<1>9. CASE UNCHANGED premiumVars
  BY <1>9, AdminKept, CommandInv DEF premiumVars
<1> QED BY Zenon, <1>1, <1>2, <1>3, <1>4, <1>5, <1>6, <1>7, <1>8, <1>9 DEF PremiumNext

LEMMA PremiumAlways == PremiumSpec => []PremiumInv
BY PremiumStarts, PremiumNexts, PTL DEF PremiumSpec

\* What the invariant says of the invitations.
LEMMA InvitationsFollow == PremiumInv => InvitationsHold
<1> SUFFICES ASSUME PremiumInv PROVE InvitationsHold
  OBVIOUS
<1>1. SentIsTrue
  <2>1. SUFFICES ASSUME NEW i \in DOMAIN invitations, invitations[i].status = "SENT"
                 PROVE  invitations[i].send \in SendsDelivered(i)
    BY DEF SentIsTrue
  <2>2. Mailed(invitations[i].send) /\ invitations[i].send \in DOMAIN sends
    BY <2>1 DEF PremiumInv, GenerationsKnown, PlacesOK
  <2>3. PICK m \in DOMAIN received : received[m].send = invitations[i].send
    BY <2>2 DEF Mailed
  <2>4. received[m].of \in DOMAIN invitations
    BY DEF PremiumInv, PlacesOK, Named
  <2>5. received[m].of = i
    <3>1. PICK s, j : s = invitations[i].send /\ j = received[m].of
      OBVIOUS
    <3>2. SendOf(s, i) /\ SendOf(s, j)
      BY <2>3, <3>1 DEF SendOf
    <3> QED BY <2>2, <2>4, <3>1, <3>2 DEF PremiumInv, OneInvitation
  <2>6. received[m] \in ToSet(received)
    BY DEF ToSet
  <2> QED BY <2>3, <2>5, <2>6 DEF SendsDelivered
<1>2. LinksHold
  <2>1. SUFFICES ASSUME NEW m \in DOMAIN received,
                        received[m].generation < invitations[received[m].of].generation
                 PROVE  <<received[m].of, received[m].generation>> \in knownSent
    BY DEF LinksHold
  <2>2. received[m].of \in DOMAIN invitations
        /\ received[m].generation \in 1..invitations[received[m].of].generation
    BY DEF PremiumInv, PlacesOK, Named
  <2>3. invitations[received[m].of].generation \in Nat
    BY <2>2, PremiumRows DEF PremiumInv, InvitationRows
  <2>4. received[m].generation \in 1..(invitations[received[m].of].generation - 1)
    BY <2>1, <2>2, <2>3
  <2> QED BY <2>2, <2>4 DEF PremiumInv, GenerationsKnown
<1> QED BY <1>1, <1>2 DEF PremiumInv, InvitationsHold

\* Commands, invitations, attempts and receipts keep their types (invitations.ts, admin.ts).
THEOREM PremiumTypeCorrect == PremiumSpec => []PremiumTypeOK
<1>1. PremiumInv => PremiumTypeOK
  BY DEF PremiumInv
<1> QED BY <1>1, PremiumAlways, PTL

\* An invitation shown as sent was sent, no attempt mails twice, no link that may be under way is
\* replaced before its delivery is known, and access follows from one acceptance: whatever
\* commands and deliveries are repeated, overtaken or cut off (deliverPremiumInvitationGeneration).
THEOREM InvitationsKept == PremiumSpec => []InvitationsHold
BY PremiumAlways, InvitationsFollow, PTL

-----------------------------------------------------------------------------
(* The import of older games.                                              *)

Cursors == [until : Nat, boundary : SUBSET Games]
DialogRows ==
  [step : {"config", "fetching", "review", "saving", "done"}, cursor : Cursors \cup {NoCursorLeft},
   rows : SUBSET Games, selected : SUBSET Games, saving : SUBSET Games, allowance : Nat,
   unsaved : Nat, cut : BOOLEAN]

HistoryTypeOK ==
  /\ library \in SUBSET Games /\ createdBy \in SUBSET library /\ createdCount \in Nat
  /\ lease \in SUBSET Devices /\ synced \in Nat /\ failures \in Nat
  /\ dialog \in [Devices -> DialogRows] /\ waived \in [Devices -> SUBSET Games]

\* The games that a traversal has behind it.
PassedBy(cursor) == {g \in Games : PlayedAt[g] > cursor.until} \cup cursor.boundary

\* What a dialog says of the games behind it and on its page.
DialogOK(row, lib, left) ==
  /\ row.step = "fetching" => row.cursor # NoCursorLeft /\ PassedBy(row.cursor) \subseteq lib \cup left
  /\ row.step \in {"review", "saving", "done"} =>
       /\ row.cursor # NoCursorLeft => PassedBy(row.cursor) \subseteq lib \cup row.rows \cup left
       /\ row.cursor = NoCursorLeft /\ ~row.cut => Games \subseteq lib \cup row.rows \cup left
  /\ row.step = "review" => (row.unsaved = 0 => row.rows = {})
  /\ row.step = "saving" => (row.unsaved = 0 => row.rows \subseteq lib \cup row.saving)
  /\ row.step = "done" => (row.unsaved = 0 => row.rows \subseteq lib)

HistoryInv ==
  /\ HistoryTypeOK /\ AllowanceIsTrue
  /\ \A d \in Devices : DialogOK(dialog[d], library, waived[d])

-----------------------------------------------------------------------------
LEMMA LeastOf ==
  ASSUME NEW S \in SUBSET Nat, S # {}
  PROVE  \E i \in S : \A j \in S : i <= j
<1>1. \E i \in S : \A j \in S : ~(<<j, i>> \in OpToRel(<, Nat))
  BY NatLessThanWellFounded, WFMin
<1>2. PICK i \in S : \A j \in S : ~(<<j, i>> \in OpToRel(<, Nat))
  BY <1>1
<1>3. \A j \in S : ~(j < i)
  BY <1>2, Zenon DEF OpToRel
<1> QED BY <1>3

LEMMA GreatestOf ==
  ASSUME NEW S \in SUBSET Nat, S # {}, NEW n \in Nat, \A x \in S : x <= n
  PROVE  \E i \in S : \A j \in S : j <= i
<1> DEFINE T == {n - x : x \in S}
<1>1. \A x \in S : n - x \in Nat /\ n - x \in T
  OBVIOUS
<1>a. \A t \in T : \E x \in S : t = n - x
  OBVIOUS
<1> HIDE DEF T
<1>b. T \in SUBSET Nat /\ T # {}
  BY <1>1, <1>a
<1>2. PICK t \in T : \A u \in T : t <= u
  BY <1>b, LeastOf
<1>3. PICK i \in S : t = n - i
  BY <1>2, <1>a
<1>4. ASSUME NEW j \in S PROVE j <= i
  <2>1. n - j \in T
    BY <1>1
  <2>2. t <= n - j
    BY <1>2, <2>1
  <2> QED BY <1>3, <2>2
<1> QED BY <1>4

LEMMA GamesAre == /\ Games = 1..Len(PlayedAt) /\ Len(PlayedAt) \in Nat /\ IsFiniteSet(Games)
                  /\ \A g \in Games : g \in Nat /\ PlayedAt[g] \in Nat
<1>1. Len(PlayedAt) \in Nat /\ Games = 1..Len(PlayedAt) /\ \A g \in Games : PlayedAt[g] \in Nat
  BY HistoryAssumption, LenProperties, ElementOfSeq DEF Games
<1> QED BY <1>1, FS_Interval

\* The newest games of a set: as many as asked for, and none is newer that is left out.
LEMMA ForemostOf ==
  ASSUME NEW S \in SUBSET Games, NEW n \in Nat
  PROVE  /\ IsFiniteSet(S) /\ Cardinality(S) \in Nat
         /\ Foremost(n, S) \subseteq S /\ IsFiniteSet(Foremost(n, S))
         /\ Cardinality(Foremost(n, S)) \in Nat /\ Cardinality(Foremost(n, S)) <= n
         /\ \A g \in Foremost(n, S) : \A h \in S : h < g => h \in Foremost(n, S)
         /\ Cardinality(Foremost(n, S)) < n => Foremost(n, S) = S
<1> DEFINE F == Foremost(n, S)
           Before(g) == {h \in S : h < g}
<1>1. IsFiniteSet(S) /\ F \subseteq S /\ IsFiniteSet(F) /\ Cardinality(F) \in Nat /\ Cardinality(S) \in Nat
  <2>1. IsFiniteSet(S)
    BY GamesAre, FS_Subset
  <2>2. F \subseteq S
    BY DEF Foremost
  <2>3. IsFiniteSet(F)
    BY <2>1, <2>2, FS_Subset
  <2> QED BY <2>1, <2>2, <2>3, FS_CardinalityType
<1>2. S \subseteq Nat /\ \A g \in S : g <= Len(PlayedAt)
  BY GamesAre
<1>3. \A g \in S : IsFiniteSet(Before(g)) /\ Cardinality(Before(g)) \in Nat
  <2> TAKE g \in S
  <2>1. Before(g) \in SUBSET S
    OBVIOUS
  <2> QED BY <1>1, <2>1, FS_Subset, FS_CardinalityType
<1>4. \A g \in S : g \in F <=> Cardinality(Before(g)) < n
  BY Zenon DEF Foremost
<1>5. \A g \in F : \A h \in S : h < g => h \in F
  <2> SUFFICES ASSUME NEW g \in F, NEW h \in S, h < g PROVE h \in F
    OBVIOUS
  <2>0. g \in Nat /\ h \in Nat /\ \A y \in S : y \in Nat
    BY <1>1, <1>2
  <2>1. Before(h) \in SUBSET Before(g)
    <3>1. \A y \in S : y < h => y < g
      <4> HIDE DEF Before, F
      <4> QED BY <2>0
    <3> QED BY <3>1, Zenon
  <2>2. Cardinality(Before(h)) <= Cardinality(Before(g))
    BY <1>1, <1>3, <2>1, FS_Subset
  <2>3. Cardinality(Before(g)) < n
    BY <1>1, <1>4
  <2> HIDE DEF F, Before
  <2> QED BY <1>1, <1>3, <1>4, <2>2, <2>3
<1>6. Cardinality(F) <= n
  <2>1. CASE F = {}
    BY <2>1, FS_EmptySet
  <2>2. CASE F # {}
    <3>1. PICK g \in F : \A h \in F : h <= g
      <4> HIDE DEF F
      <4> QED BY <1>1, <1>2, <2>2, GamesAre, GreatestOf
    <3>2. F \in SUBSET (Before(g) \cup {g})
      <4>1. \A h \in F : h \in S /\ (h < g \/ h = g)
        <5> HIDE DEF F
        <5> QED BY <1>1, <1>2, <3>1
      <4> HIDE DEF F
      <4> QED BY <4>1
    <3>a. g \in S /\ g \in Nat
      BY <1>1, <1>2
    <3>b. g \notin Before(g)
      BY <3>a
    <3>3. g \in S /\ Cardinality(Before(g)) < n /\ g \notin Before(g)
      <4> HIDE DEF Before, F
      <4> QED BY <1>4, <3>a, <3>b
    <3> HIDE DEF F, Before
    <3>4. /\ IsFiniteSet(Before(g) \cup {g})
          /\ Cardinality(Before(g) \cup {g}) = Cardinality(Before(g)) + 1
      BY <1>3, <3>3, FS_AddElement
    <3>5. Cardinality(F) <= Cardinality(Before(g) \cup {g})
      BY <3>2, <3>4, FS_Subset
    <3> QED BY <1>1, <1>3, <3>3, <3>4, <3>5
  <2> QED BY <2>1, <2>2
<1>7. ASSUME Cardinality(F) < n PROVE F = S
  <2> SUFFICES ASSUME S \ F # {} PROVE FALSE
    BY <1>1
  <2>1. PICK g \in S \ F : \A h \in S \ F : g <= h
    <3> HIDE DEF F
    <3> QED BY <1>2, LeastOf
  <2>2. Before(g) \in SUBSET F
    <3>1. \A h \in S : h < g => h \in F
      <4> HIDE DEF F
      <4> QED BY <1>2, <2>1
    <3> HIDE DEF F
    <3> QED BY <3>1
  <2>3. Cardinality(Before(g)) <= Cardinality(F)
    <3> HIDE DEF F, Before
    <3> QED BY <1>1, <2>2, FS_Subset
  <2>4. Cardinality(Before(g)) < n
    <3> HIDE DEF F, Before
    <3> QED BY <1>1, <1>3, <1>7, <2>1, <2>3
  <2> QED BY <1>4, <2>1, <2>4
<1> QED BY <1>1, <1>5, <1>6, <1>7

LEMMA NewestIs == Newest \in Nat /\ \A g \in Games : PlayedAt[g] <= Newest
<1> DEFINE T == {0} \cup {PlayedAt[g] : g \in Games}
<1>1. T \in SUBSET Nat /\ T # {}
  BY GamesAre
<1>2. \E n \in Nat : \A x \in T : x <= n
  <2>1. CASE Games = {}
    BY <2>1
  <2>2. CASE Games # {}
    <3>1. 1 \in Games /\ \A g \in Games : 1 <= g
      BY <2>2, GamesAre
    <3>2. \A g \in Games : PlayedAt[g] <= PlayedAt[1]
      BY <3>1, HistoryAssumption DEF Games
    <3>3. \A x \in T : x <= PlayedAt[1]
      BY <3>1, <3>2, GamesAre
    <3> QED BY <3>1, <3>3, GamesAre
  <2> QED BY <2>1, <2>2
<1>3. \E i \in T : \A j \in T : j <= i
  <2> HIDE DEF T
  <2> QED BY <1>1, <1>2, GreatestOf
<1>4. Newest = CHOOSE i \in T : \A j \in T : i >= j
  BY Zenon DEF Newest, Max
<1>5. \E i \in T : \A j \in T : i >= j
  <2> HIDE DEF T
  <2> QED BY <1>1, <1>3
<1>6. Newest \in T /\ \A j \in T : Newest >= j
  <2> HIDE DEF T
  <2> QED BY <1>4, <1>5
<1>7. \A g \in Games : PlayedAt[g] \in T
  OBVIOUS
<1> HIDE DEF T
<1> QED BY <1>1, <1>6, <1>7, GamesAre

\* What lies behind the next page lies behind this one or is on it.
LEMMA PageBehind ==
  ASSUME NEW c \in Cursors, ~Complete(c)
  PROVE  /\ Behind(c) \in Cursors
         /\ PassedBy(Behind(c)) \subseteq PassedBy(c) \cup PageGames(c)
<1> DEFINE S == {g \in Games : PlayedAt[g] <= c.until}
           F == RawPage(c)
           T == {PlayedAt[g] : g \in F}
           oldest == Min(T)
<1>1. F = Foremost(HistoryPageSize, S) /\ S \in SUBSET Games /\ HistoryPageSize \in Nat \ {0}
  BY HistoryAssumption DEF RawPage
<1>2. /\ F \subseteq S /\ (\A g \in F : \A h \in S : h < g => h \in F)
      /\ IsFiniteSet(F) /\ Cardinality(F) \in Nat
  <2> HIDE DEF S, F
  <2> QED BY <1>1, ForemostOf
<1>3. F # {}
  <2>1. ~(Cardinality(F) < HistoryPageSize)
    BY DEF Complete
  <2> HIDE DEF F
  <2> QED BY <1>1, <1>2, <2>1, FS_EmptySet
<1>4. T \in SUBSET Nat /\ T # {}
  BY <1>1, <1>2, <1>3, GamesAre
<1>5. oldest \in T /\ \A t \in T : oldest <= t
  <2>1. \E t \in T : \A u \in T : t <= u
    <3> HIDE DEF T
    <3> QED BY <1>4, LeastOf
  <2> HIDE DEF T
  <2> QED BY <2>1 DEF Min
<1>6. PICK last \in F : oldest = PlayedAt[last]
  BY <1>5
<1>7. Behind(c) = [until |-> oldest,
                   boundary |-> {g \in F : PlayedAt[g] = oldest}
                                  \cup (IF oldest = c.until THEN c.boundary ELSE {})]
  BY DEF Behind
<1>8. oldest \in Nat /\ F \subseteq Games
  BY <1>1, <1>2, <1>4, <1>5
<1>9. \A g \in F : oldest <= PlayedAt[g]
  BY <1>5
<1> HIDE DEF oldest
<1>10. Behind(c) \in Cursors
  <2> HIDE DEF F
  <2> QED BY <1>7, <1>8 DEF Cursors
<1>11. ASSUME NEW g \in Games, PlayedAt[g] > oldest, ~(PlayedAt[g] > c.until) PROVE g \in F
  <2>1. c.until \in Nat /\ PlayedAt[g] \in Nat
    BY GamesAre DEF Cursors
  <2>2. g \in S
    BY <1>11, <2>1
  <2>3. ~(last <= g)
    BY <1>6, <1>8, <1>11, <2>1, HistoryAssumption DEF Games
  <2>4. g < last
    BY <1>6, <1>8, <2>3, GamesAre
  <2> HIDE DEF F, S
  <2> QED BY <1>2, <1>6, <2>2, <2>4
<1>12. PassedBy(Behind(c)) \subseteq PassedBy(c) \cup PageGames(c)
  <2> HIDE DEF F
  <2>1. ASSUME NEW g \in PassedBy(Behind(c)) PROVE g \in F \/ g \in PassedBy(c)
    <3>1. CASE g \in Games /\ PlayedAt[g] > oldest
      BY <1>11, <3>1 DEF PassedBy
    <3>2. CASE g \in Behind(c).boundary
      BY <1>7, <3>2 DEF PassedBy
    <3> QED BY <1>7, <3>1, <3>2 DEF PassedBy
  <2>2. F \subseteq PassedBy(c) \cup PageGames(c)
    BY DEF PassedBy, PageGames, F
  <2> QED BY <2>1, <2>2
<1> QED BY <1>10, <1>12

\* Behind the last page there is nothing.
LEMMA PageComplete ==
  ASSUME NEW c \in Cursors, Complete(c)
  PROVE  Games \subseteq PassedBy(c) \cup PageGames(c)
<1> DEFINE S == {g \in Games : PlayedAt[g] <= c.until}
<1>1. S \in SUBSET Games /\ HistoryPageSize \in Nat \ {0} /\ RawPage(c) = Foremost(HistoryPageSize, S)
  BY HistoryAssumption DEF RawPage
<1>2. RawPage(c) = S
  <2> HIDE DEF S
  <2> QED BY <1>1, ForemostOf DEF Complete
<1>3. \A g \in Games : PlayedAt[g] > c.until \/ PlayedAt[g] <= c.until
  BY GamesAre DEF Cursors
<1> QED BY <1>2, <1>3 DEF PassedBy, PageGames

LEMMA PageOf ==
  ASSUME NEW c \in Cursors, NEW allowance \in Nat
  PROVE  LET page == Snapshot(c, allowance) IN
         /\ page.rows \in SUBSET Games /\ page.cut \in BOOLEAN /\ page.next \in Cursors \cup {NoCursorLeft}
         /\ page.next # NoCursorLeft =>
              PassedBy(page.next) \subseteq PassedBy(c) \cup library \cup page.rows
         /\ page.next = NoCursorLeft /\ ~page.cut => Games \subseteq PassedBy(c) \cup library \cup page.rows
<1> DEFINE new == MissingOf(c)
           allowed == Foremost(allowance, new)
           listed == Foremost(RowLimit, allowed)
           cut == allowed # new \/ listed # allowed
<1>1. Snapshot(c, allowance) =
        [rows |-> listed, cut |-> cut, next |-> IF cut \/ Complete(c) THEN NoCursorLeft ELSE Behind(c)]
  BY Zenon DEF Snapshot
<1>2. new \in SUBSET Games
  <2>1. {g \in Games : PlayedAt[g] <= c.until} \in SUBSET Games
    OBVIOUS
  <2>2. RawPage(c) \subseteq Games
    BY <2>1, HistoryAssumption, ForemostOf DEF RawPage
  <2> QED BY <2>2 DEF MissingOf, PageGames
<1>3. PageGames(c) \subseteq new \cup library
  BY DEF MissingOf
<1> HIDE DEF new
<1>4. allowed \in SUBSET Games
  BY <1>2, ForemostOf
<1> HIDE DEF allowed
<1>5. listed \in SUBSET Games
  BY <1>4, ForemostOf, HistoryAssumption
<1>6. ~cut => listed = new
  OBVIOUS
<1> HIDE DEF listed
<1>7. cut \in BOOLEAN
  OBVIOUS
<1> HIDE DEF cut
<1>8. Behind(c) # NoCursorLeft \/ Complete(c)
  BY PageBehind, HistoryAssumption DEF Cursors, Games
<1>9. CASE cut
  BY <1>1, <1>5, <1>7, <1>9
<1>10. CASE ~cut /\ Complete(c)
  BY <1>1, <1>3, <1>5, <1>6, <1>7, <1>10, PageComplete
<1>11. CASE ~cut /\ ~Complete(c)
  <2>1. Behind(c) \in Cursors /\ PassedBy(Behind(c)) \subseteq PassedBy(c) \cup PageGames(c)
    BY <1>11, PageBehind
  <2> QED BY <1>1, <1>3, <1>5, <1>6, <1>7, <1>8, <1>11, <2>1
<1> QED BY <1>9, <1>10, <1>11

-----------------------------------------------------------------------------
LEMMA HistoryStarts == HistoryInit => HistoryInv
<1> SUFFICES ASSUME HistoryInit PROVE HistoryInv
  OBVIOUS
<1>1. Closed \in DialogRows /\ \A lib, left : DialogOK(Closed, lib, left)
  BY DEF Closed, DialogRows, DialogOK
<1>2. HistoryTypeOK
  BY <1>1 DEF HistoryInit, HistoryTypeOK
<1>3. AllowanceIsTrue
  BY FS_EmptySet, HistoryAssumption DEF HistoryInit, AllowanceIsTrue
<1> QED BY <1>1, <1>2, <1>3 DEF HistoryInit, HistoryInv

\* More games in the library undo nothing.
LEMMA MoreInLibrary ==
  ASSUME NEW row, NEW lib, NEW more, lib \subseteq more, NEW left, DialogOK(row, lib, left)
  PROVE  DialogOK(row, more, left)
BY DEF DialogOK

\* What a step of one dialog leaves to show.
LEMMA DialogMoves ==
  ASSUME HistoryInv, NEW d \in Devices, NEW row \in DialogRows,
         dialog' = [dialog EXCEPT ![d] = row],
         NEW left \in SUBSET Games, waived' = [waived EXCEPT ![d] = left],
         library \subseteq library', library' \in SUBSET Games,
         createdBy' \in SUBSET library', AllowanceIsTrue', createdCount' \in Nat,
         lease' \in SUBSET Devices, synced' \in Nat, failures' \in Nat,
         DialogOK(row, library', left)
  PROVE  HistoryInv'
<1>1. \A x \in Devices : /\ dialog'[x] = IF x = d THEN row ELSE dialog[x]
                         /\ waived'[x] = IF x = d THEN left ELSE waived[x]
  BY DEF HistoryInv, HistoryTypeOK
<1>2. HistoryTypeOK'
  BY DEF HistoryInv, HistoryTypeOK
<1>3. ASSUME NEW x \in Devices PROVE DialogOK(dialog'[x], library', waived'[x])
  <2>1. CASE x = d
    BY <1>1, <2>1
  <2>2. CASE x # d
    BY <1>1, <2>2, MoreInLibrary DEF HistoryInv
  <2> QED BY <2>1, <2>2
<1> QED BY <1>2, <1>3 DEF HistoryInv

LEMMA DialogRow ==
  ASSUME HistoryInv, NEW d \in Devices
  PROVE  /\ dialog[d] \in DialogRows /\ DialogOK(dialog[d], library, waived[d])
         /\ waived[d] \in SUBSET Games /\ waived = [waived EXCEPT ![d] = waived[d]]
BY DEF HistoryInv, HistoryTypeOK

\* Only the dialog moves.
LEMMA DialogOnly ==
  ASSUME HistoryInv, NEW d \in Devices, NEW row \in DialogRows,
         dialog' = [dialog EXCEPT ![d] = row],
         lease' \in SUBSET Devices, failures' \in Nat,
         UNCHANGED <<library, createdBy, createdCount, synced, waived>>,
         DialogOK(row, library, waived[d])
  PROVE  HistoryInv'
<1>1. /\ library' = library /\ createdBy' = createdBy /\ createdCount' = createdCount
      /\ synced' = synced /\ waived' = waived /\ AllowanceIsTrue'
  BY DEF HistoryInv, AllowanceIsTrue
<1>2. waived' = [waived EXCEPT ![d] = waived[d]] /\ waived[d] \in SUBSET Games
  BY <1>1, DialogRow
<1> QED BY <1>1, <1>2, DialogMoves DEF HistoryInv, HistoryTypeOK

LEMMA RemainingIs == ASSUME HistoryInv PROVE Remaining \in Nat
BY HistoryAssumption DEF HistoryInv, HistoryTypeOK, AllowanceIsTrue, Remaining

LEMMA FetchInv ==
  ASSUME HistoryInv, NEW d \in Devices, NEW c \in Cursors, FetchPage(d, c),
         NEW left \in SUBSET Games, waived' = [waived EXCEPT ![d] = left],
         PassedBy(c) \subseteq library \cup left
  PROVE  HistoryInv'
<1>1. UNCHANGED <<library, createdBy, createdCount, synced, failures>> /\ AllowanceIsTrue'
  BY DEF FetchPage, HistoryInv, AllowanceIsTrue
<1>2. CASE Remaining = 0
  <2> DEFINE row == [Closed EXCEPT !.step = "review", !.cut = TRUE]
  <2>1. row \in DialogRows /\ DialogOK(row, library, left)
    BY DEF Closed, DialogRows, DialogOK
  <2>2. dialog' = [dialog EXCEPT ![d] = row] /\ lease' = lease
    BY <1>2 DEF FetchPage
  <2> HIDE DEF row
  <2> QED BY <1>1, <2>1, <2>2, DialogMoves DEF HistoryInv, HistoryTypeOK
<1>3. CASE Remaining # 0
  <2> DEFINE row == [dialog[d] EXCEPT !.step = "fetching", !.cursor = c, !.allowance = Remaining]
  <2>1. row \in DialogRows /\ row.step = "fetching" /\ row.cursor = c
    BY DialogRow, RemainingIs DEF DialogRows
  <2>2. dialog' = [dialog EXCEPT ![d] = row] /\ lease' = {d}
    BY <1>3, Zenon DEF FetchPage
  <2>3. c # NoCursorLeft
    BY HistoryAssumption DEF Cursors, Games
  <2> HIDE DEF row
  <2>4. DialogOK(row, library, left)
    BY <2>1, <2>3 DEF DialogOK
  <2> QED BY <1>1, <2>1, <2>2, <2>4, DialogMoves DEF HistoryInv, HistoryTypeOK
<1> QED BY <1>2, <1>3

LEMMA BeginsInv == ASSUME HistoryInv, NEW d \in Devices, Begins(d) PROVE HistoryInv'
<1>1. Start \in Cursors /\ PassedBy(Start) = {}
  <2>1. \A g \in Games : ~(PlayedAt[g] > Newest)
    BY NewestIs, GamesAre
  <2> QED BY <2>1, NewestIs DEF Start, Cursors, PassedBy
<1>2. FetchPage(d, Start) /\ waived' = [waived EXCEPT ![d] = {}]
  BY DEF Begins
<1> QED BY <1>1, <1>2, FetchInv

LEMMA PageArrivedInv == ASSUME HistoryInv, NEW d \in Devices, PageArrived(d) PROVE HistoryInv'
<1> DEFINE page == Snapshot(dialog[d].cursor, dialog[d].allowance)
           row == [Closed EXCEPT !.step = "review", !.cursor = page.next, !.cut = page.cut,
                                 !.rows = page.rows, !.selected = page.rows,
                                 !.unsaved = UnsavedAtFirst(page.rows)]
<1>1. /\ dialog' = [dialog EXCEPT ![d] = row] /\ lease' = {} /\ dialog[d].step = "fetching"
      /\ UNCHANGED <<library, createdBy, createdCount, synced, failures, waived>>
  BY Zenon DEF PageArrived
<1>2. /\ dialog[d].cursor \in Cursors /\ dialog[d].allowance \in Nat
      /\ PassedBy(dialog[d].cursor) \subseteq library \cup waived[d]
  BY <1>1, DialogRow DEF DialogOK, DialogRows
<1> DEFINE behind == PassedBy(dialog[d].cursor) \cup library \cup page.rows
<1>3. /\ page.rows \in SUBSET Games /\ page.cut \in BOOLEAN /\ page.next \in Cursors \cup {NoCursorLeft}
      /\ page.next # NoCursorLeft => PassedBy(page.next) \subseteq behind
      /\ page.next = NoCursorLeft /\ ~page.cut => Games \subseteq behind
  BY <1>2, PageOf
<1>4. behind \subseteq library \cup page.rows \cup waived[d]
  BY <1>2
<1>5. IsFiniteSet(page.rows) /\ Cardinality(page.rows) \in Nat
  BY <1>3, GamesAre, FS_Subset, FS_CardinalityType
<1> HIDE DEF page, behind
<1>6. /\ row.step = "review" /\ row.rows = page.rows /\ row.cursor = page.next /\ row.cut = page.cut
      /\ row.unsaved = Cardinality(page.rows) /\ row \in DialogRows
  BY <1>3, <1>5 DEF Closed, DialogRows, UnsavedAtFirst
<1> HIDE DEF row
<1>7. DialogOK(row, library, waived[d])
  <2>1. row.unsaved = 0 => row.rows = {}
    BY <1>5, <1>6, FS_EmptySet
  <2> QED BY <1>3, <1>4, <1>6, <2>1 DEF DialogOK
<1> QED BY <1>1, <1>6, <1>7, DialogOnly DEF HistoryInv, HistoryTypeOK

LEMMA CloseInv ==
  ASSUME HistoryInv, NEW d \in Devices, dialog' = [dialog EXCEPT ![d] = Closed],
         lease' \in SUBSET Devices, failures' \in Nat,
         UNCHANGED <<library, createdBy, createdCount, synced, waived>>
  PROVE  HistoryInv'
<1>1. Closed \in DialogRows /\ DialogOK(Closed, library, waived[d])
  BY DEF Closed, DialogRows, DialogOK
<1> QED BY <1>1, DialogOnly

LEMMA FetchFailsInv == ASSUME HistoryInv, NEW d \in Devices, FetchFails(d) PROVE HistoryInv'
<1>1. failures' \in Nat /\ lease' = {}
  BY DEF FetchFails, HistoryInv, HistoryTypeOK
<1> QED BY <1>1, CloseInv DEF FetchFails

LEMMA RestartsInv == ASSUME HistoryInv, NEW d \in Devices, Restarts(d) PROVE HistoryInv'
BY CloseInv DEF Restarts, HistoryInv, HistoryTypeOK

LEMMA SelectsInv ==
  ASSUME HistoryInv, NEW d \in Devices, NEW listed \in SUBSET dialog[d].rows, Selects(d, listed)
  PROVE  HistoryInv'
<1> DEFINE row == [dialog[d] EXCEPT !.selected = listed]
<1>1. /\ dialog' = [dialog EXCEPT ![d] = row]
      /\ UNCHANGED <<library, createdBy, createdCount, lease, synced, failures, waived>>
  BY Zenon DEF Selects
<1>2. row \in DialogRows /\ DialogOK(row, library, waived[d])
  BY DialogRow DEF DialogRows, DialogOK
<1> HIDE DEF row
<1> QED BY <1>1, <1>2, DialogOnly DEF HistoryInv, HistoryTypeOK

\* A set of games is empty when it counts none.
LEMMA NoneOf ==
  ASSUME NEW S \in SUBSET Games
  PROVE  Cardinality(S) \in Nat /\ (Cardinality(S) = 0 <=> S = {})
BY GamesAre, FS_Subset, FS_CardinalityType, FS_EmptySet

LEMMA SaveStartsInv == ASSUME HistoryInv, NEW d \in Devices, SaveStarts(d) PROVE HistoryInv'
<1> DEFINE count == Cardinality(dialog[d].rows \ dialog[d].selected)
           row == [dialog[d] EXCEPT !.step = "saving", !.saving = dialog[d].selected, !.unsaved = count]
<1>1. /\ dialog' = [dialog EXCEPT ![d] = row] /\ dialog[d].step = "review"
      /\ UNCHANGED <<library, createdBy, createdCount, lease, synced, failures, waived>>
  BY Zenon DEF SaveStarts
<1>2. dialog[d].rows \in SUBSET Games /\ dialog[d].selected \in SUBSET Games
  BY DialogRow DEF DialogRows
<1>3. count \in Nat /\ (count = 0 => dialog[d].rows \subseteq dialog[d].selected)
  BY <1>2, NoneOf
<1> HIDE DEF count
<1>4. /\ row \in DialogRows /\ row.step = "saving" /\ row.rows = dialog[d].rows /\ row.cut = dialog[d].cut
      /\ row.cursor = dialog[d].cursor /\ row.saving = dialog[d].selected /\ row.unsaved = count
  BY <1>3, DialogRow DEF DialogRows
<1> HIDE DEF row
<1>5. DialogOK(row, library, waived[d])
  BY <1>1, <1>3, <1>4, DialogRow DEF DialogOK
<1> QED BY <1>1, <1>4, <1>5, DialogOnly DEF HistoryInv, HistoryTypeOK

LEMMA SaveEndsInv == ASSUME HistoryInv, NEW d \in Devices, SaveEnds(d) PROVE HistoryInv'
<1> DEFINE row == [dialog[d] EXCEPT !.step = "done"]
<1>1. /\ dialog' = [dialog EXCEPT ![d] = row] /\ dialog[d].step = "saving" /\ dialog[d].saving = {}
      /\ UNCHANGED <<library, createdBy, createdCount, lease, synced, failures, waived>>
  BY Zenon DEF SaveEnds
<1>2. row \in DialogRows /\ DialogOK(row, library, waived[d])
  BY <1>1, DialogRow DEF DialogRows, DialogOK
<1> HIDE DEF row
<1> QED BY <1>1, <1>2, DialogOnly DEF HistoryInv, HistoryTypeOK

LEMMA GoesBackInv == ASSUME HistoryInv, NEW d \in Devices, GoesBack(d) PROVE HistoryInv'
<1> DEFINE left == IF dialog[d].unsaved > 0 THEN waived[d] \cup dialog[d].rows ELSE waived[d]
<1>1. /\ waived' = [waived EXCEPT ![d] = left] /\ FetchPage(d, dialog[d].cursor)
      /\ dialog[d].cursor # NoCursorLeft /\ dialog[d].step \in {"done", "review"}
  BY Zenon DEF GoesBack
<1>2. /\ left \in SUBSET Games /\ dialog[d].cursor \in Cursors /\ dialog[d].unsaved \in Nat
      /\ waived[d] \subseteq left
  BY <1>1, DialogRow DEF DialogRows
<1>3. dialog[d].rows \subseteq library \cup left
  <2>1. CASE dialog[d].unsaved > 0
    BY <2>1
  <2>2. CASE dialog[d].unsaved = 0
    BY <1>1, <2>2, DialogRow DEF DialogOK
  <2> QED BY <1>2, <2>1, <2>2
<1>4. PassedBy(dialog[d].cursor) \subseteq library \cup dialog[d].rows \cup waived[d]
  BY <1>1, DialogRow DEF DialogOK
<1> HIDE DEF left
<1> QED BY <1>1, <1>2, <1>3, <1>4, FetchInv

LEMMA ChunkFailsInv == ASSUME HistoryInv, NEW d \in Devices, ChunkFails(d) PROVE HistoryInv'
<1>1. /\ dialog[d].step = "saving" /\ failures' \in Nat
      /\ UNCHANGED <<library, createdBy, createdCount, lease, synced, waived>>
  BY DEF ChunkFails, HistoryInv, HistoryTypeOK
<1>2. /\ dialog[d].rows \in SUBSET Games /\ dialog[d].saving \in SUBSET Games /\ dialog[d].unsaved \in Nat
      /\ dialog[d] \in DialogRows /\ DialogOK(dialog[d], library, waived[d])
  BY DialogRow DEF DialogRows
<1> DEFINE chunk == Foremost(ChunkSize, dialog[d].saving)
           back == [dialog[d] EXCEPT !.step = "review", !.unsaved = Cardinality(dialog[d].rows)]
           row == [dialog[d] EXCEPT !.saving = @ \ chunk, !.unsaved = @ + Cardinality(chunk)]
<1>3. \/ dialog' = [dialog EXCEPT ![d] = back]
      \/ dialog' = [dialog EXCEPT ![d] = row]
  BY Zenon DEF ChunkFails
<1>4. back \in DialogRows /\ DialogOK(back, library, waived[d])
  <2> DEFINE n == Cardinality(dialog[d].rows)
  <2>1. n \in Nat /\ (n = 0 => dialog[d].rows = {})
    BY <1>2, NoneOf
  <2> HIDE DEF n
  <2>2. back \in DialogRows
    BY <1>2, <2>1 DEF DialogRows, n
  <2>3. /\ back.step = "review" /\ back.unsaved = n
         /\ \A f \in {"rows", "cursor", "cut"} : back[f] = dialog[d][f]
    BY <1>2, <2>1 DEF DialogRows, n
  <2> HIDE DEF back
  <2> QED BY <1>1, <1>2, <2>1, <2>2, <2>3 DEF DialogOK
<1>5. row \in DialogRows /\ DialogOK(row, library, waived[d])
  <2> DEFINE n == Cardinality(chunk)
  <2>1. chunk \subseteq dialog[d].saving
    BY <1>2, ForemostOf, HistoryAssumption
  <2>2. n \in Nat /\ (n = 0 => chunk = {})
    BY <1>2, <2>1, NoneOf
  <2> HIDE DEF n, chunk
  <2>3. row = [dialog[d] EXCEPT !.saving = dialog[d].saving \ chunk, !.unsaved = dialog[d].unsaved + n]
    BY <1>2 DEF DialogRows, n
  <2> HIDE DEF row
  <2>a. dialog[d].saving \ chunk \in SUBSET Games /\ dialog[d].unsaved + n \in Nat
    BY <1>2, <2>2
  <2>4. row \in DialogRows
    BY <1>2, <2>a, <2>3 DEF DialogRows
  <2> QED BY <1>1, <1>2, <2>2, <2>3, <2>4 DEF DialogRows, DialogOK
<1> HIDE DEF row, back
<1> QED BY <1>1, <1>3, <1>4, <1>5, DialogOnly DEF HistoryInv, HistoryTypeOK

LEMMA ImportChunkInv == ASSUME HistoryInv, NEW d \in Devices, ImportChunk(d) PROVE HistoryInv'
<1> DEFINE chunk == Foremost(ChunkSize, dialog[d].saving)
           new == chunk \ library
           created == Foremost(Remaining, new)
           back == [dialog[d] EXCEPT !.step = "review", !.unsaved = Cardinality(dialog[d].rows)]
           row == [dialog[d] EXCEPT !.saving = @ \ chunk, !.unsaved = @ + Cardinality(new \ created)]
<1>1. /\ dialog[d].step = "saving" /\ UNCHANGED <<lease, synced, waived>>
      /\ library' = library \cup created /\ createdBy' = createdBy \cup created
      /\ createdCount' = createdCount + Cardinality(created)
      /\ \/ dialog' = [dialog EXCEPT ![d] = row] /\ failures' = failures
         \/ dialog' = [dialog EXCEPT ![d] = back] /\ failures' = failures + 1
  BY Zenon DEF ImportChunk, Counts
<1>2. /\ dialog[d].rows \in SUBSET Games /\ dialog[d].saving \in SUBSET Games /\ dialog[d].unsaved \in Nat
      /\ dialog[d] \in DialogRows /\ DialogOK(dialog[d], library, waived[d])
  BY DialogRow DEF DialogRows
<1>3. chunk \subseteq dialog[d].saving /\ new \in SUBSET Games /\ chunk \subseteq library \cup new
  BY <1>2, ForemostOf, HistoryAssumption
<1> HIDE DEF chunk
<1>4. created \subseteq new /\ Cardinality(created) \in Nat /\ Cardinality(created) <= Remaining
      /\ IsFiniteSet(created)
  <2> HIDE DEF new
  <2> QED BY <1>3, RemainingIs, ForemostOf
<1>5. created \cap library = {}
  BY <1>4
<1> HIDE DEF created, new
<1>6. /\ library' \in SUBSET Games /\ library \subseteq library' /\ createdBy' \in SUBSET library'
      /\ failures' \in Nat /\ lease' \in SUBSET Devices /\ synced' \in Nat
  BY <1>1, <1>3, <1>4 DEF HistoryInv, HistoryTypeOK
<1>7. AllowanceIsTrue' /\ createdCount' \in Nat
  <2>1. /\ IsFiniteSet(createdBy) /\ createdBy \cap created = {} /\ createdCount = Cardinality(createdBy)
        /\ createdCount \in Nat
    BY <1>5, GamesAre, FS_Subset DEF HistoryInv, HistoryTypeOK, AllowanceIsTrue
  <2>2. Cardinality(createdBy \cap created) = 0
    BY <2>1, FS_EmptySet
  <2>3. Cardinality(createdBy \cup created) = Cardinality(createdBy) + Cardinality(created)
    BY <1>4, <2>1, <2>2, FS_Union
  <2>4. createdCount + Cardinality(created) <= ImportLimit
    BY <1>4, <2>1, HistoryAssumption DEF Remaining
  <2> QED BY <1>1, <1>4, <2>1, <2>3, <2>4 DEF AllowanceIsTrue
<1>8. waived[d] \in SUBSET Games /\ waived' = [waived EXCEPT ![d] = waived[d]]
  BY <1>1, DialogRow
<1>9. CASE dialog' = [dialog EXCEPT ![d] = back]
  <2> DEFINE n == Cardinality(dialog[d].rows)
  <2>1. n \in Nat /\ (n = 0 => dialog[d].rows = {})
    BY <1>2, NoneOf
  <2> HIDE DEF n
  <2>a. back \in DialogRows
    BY <1>2, <2>1 DEF DialogRows, n
  <2>b. /\ back.step = "review" /\ back.unsaved = n
         /\ \A f \in {"rows", "cursor", "cut"} : back[f] = dialog[d][f]
    BY <1>2, <2>1 DEF DialogRows, n
  <2>2. back \in DialogRows /\ DialogOK(back, library, waived[d])
    <3> HIDE DEF back
    <3> QED BY <1>1, <1>2, <2>1, <2>a, <2>b DEF DialogOK
  <2> HIDE DEF back
  <2>3. DialogOK(back, library', waived[d])
    BY <1>6, <2>2, MoreInLibrary
  <2> QED BY <1>6, <1>7, <1>8, <1>9, <2>2, <2>3, DialogMoves
<1>10. CASE dialog' = [dialog EXCEPT ![d] = row]
  <2> DEFINE n == Cardinality(new \ created)
  <2>1. n \in Nat /\ (n = 0 => new \subseteq created)
    BY <1>3, NoneOf
  <2> HIDE DEF n
  <2>2. row = [dialog[d] EXCEPT !.saving = dialog[d].saving \ chunk, !.unsaved = dialog[d].unsaved + n]
    BY <1>2 DEF DialogRows, n
  <2> HIDE DEF row
  <2>c. dialog[d].saving \ chunk \in SUBSET Games /\ dialog[d].unsaved + n \in Nat
    BY <1>2, <2>1
  <2>3. row \in DialogRows
    BY <1>2, <2>c, <2>2 DEF DialogRows
  <2>4. /\ row.step = "saving" /\ row.rows = dialog[d].rows /\ row.cut = dialog[d].cut
        /\ row.cursor = dialog[d].cursor /\ row.saving = dialog[d].saving \ chunk
        /\ row.unsaved = dialog[d].unsaved + n
    BY <1>1, <1>2, <2>2 DEF DialogRows
  <2>5. row.unsaved = 0 => row.rows \subseteq library' \cup row.saving
    <3> SUFFICES ASSUME row.unsaved = 0 PROVE row.rows \subseteq library' \cup row.saving
      OBVIOUS
    <3>1. dialog[d].unsaved = 0 /\ n = 0
      BY <1>2, <2>1, <2>4
    <3>2. dialog[d].rows \subseteq library \cup dialog[d].saving
      BY <1>1, <1>2, <3>1 DEF DialogOK
    <3> QED BY <1>1, <1>3, <2>1, <2>4, <3>1, <3>2
  <2>6. DialogOK(dialog[d], library', waived[d])
    BY <1>2, <1>6, MoreInLibrary
  <2>7. DialogOK(row, library', waived[d])
    BY <1>1, <2>4, <2>5, <2>6 DEF DialogOK
  <2> QED BY <1>6, <1>7, <1>8, <1>10, <2>3, <2>7, DialogMoves
<1> QED BY <1>1, <1>9, <1>10

LEMMA SynchronisesInv == ASSUME HistoryInv, NEW g \in Games, Synchronises(g) PROVE HistoryInv'
<1>1. HistoryTypeOK' /\ AllowanceIsTrue'
  BY DEF Synchronises, HistoryInv, HistoryTypeOK, AllowanceIsTrue
<1>2. \A d \in Devices : DialogOK(dialog[d], library', waived[d])
  BY MoreInLibrary DEF Synchronises, HistoryInv
<1> QED BY <1>1, <1>2 DEF Synchronises, HistoryInv

LEMMA HistoryNexts == HistoryInv /\ [HistoryNext]_historyVars => HistoryInv'
<1> SUFFICES ASSUME HistoryInv, [HistoryNext]_historyVars PROVE HistoryInv'
  OBVIOUS
<1>1. CASE UNCHANGED historyVars
  BY <1>1 DEF historyVars, HistoryInv, HistoryTypeOK, AllowanceIsTrue
<1>2. ASSUME NEW d \in Devices,
             \/ Begins(d) \/ PageArrived(d) \/ FetchFails(d) \/ SaveStarts(d) \/ ImportChunk(d)
             \/ ChunkFails(d) \/ SaveEnds(d) \/ GoesBack(d) \/ Restarts(d)
             \/ \E listed \in SUBSET dialog[d].rows : Selects(d, listed)
      PROVE  HistoryInv'
  BY <1>2, BeginsInv, PageArrivedInv, FetchFailsInv, SaveStartsInv, ImportChunkInv, ChunkFailsInv,
     SaveEndsInv, GoesBackInv, RestartsInv, SelectsInv
<1>3. ASSUME NEW g \in Games, Synchronises(g) PROVE HistoryInv'
  BY <1>3, SynchronisesInv
<1> QED BY <1>1, <1>2, <1>3 DEF HistoryNext

\* The allowance of a source is what its imports created, and a traversal that has come to the
\* end of a history of any length passed no game: for any devices, sizes of pages and chunks,
\* and whatever fails or is added meanwhile (importHistoricalGames, SyncGamesModal.tsx).
THEOREM HistoryKept == HistorySpec => []HistoryHolds
<1>1. HistoryInv => HistoryHolds
  BY DEF HistoryInv, DialogOK, HistoryHolds, HistoryIsComplete
<1> QED BY <1>1, HistoryStarts, HistoryNexts, PTL DEF HistorySpec

-----------------------------------------------------------------------------
(* Paid plans.                                                              *)

Statuses == {"none", "active", "past_due", "canceled"}
EventRecords == [contract : Nat, kind : {"updated", "deleted"}, second : Nat]
Sources == {"FREE", "STRIPE", "COMPLIMENTARY"}
PageReservations == [id : Nat, session : Nat, expiry : {"long", "short", "over"}, fence : Sources]
Checkouts == [stage : {"idle", "again", "create", "retrieve", "clear", "attach", "expire"},
              id : Nat, session : Nat, fence : Sources, again : BOOLEAN]
Accounts == [contract : Nat, status : Statuses, lastEvent : Nat, writes : Nat, last : Nat,
             resv : PageReservations]
RowRecords == [status : {"none", "PROCESSING", "FAILED", "SUCCEEDED"}, token : Nat, live : BOOLEAN]
HookRecords == [event : Nat, token : Nat, stage : {"idle", "read", "apply", "mark"}, status : Statuses]

StripeTypes ==
  /\ contracts \in Seq(Statuses)
  /\ events \in Seq(EventRecords)
  /\ rows \in Seq(RowRecords)
  /\ Len(rows) = Len(events)
  /\ account \in Accounts
  /\ \A e \in 1..Len(events) : events[e].contract \in 1..Len(contracts)
  /\ hook \in [Hooks -> HookRecords]
  /\ checkout \in [Tabs -> Checkouts]

\* An event of the contract that is later than this one.
Followed(e, c) == \E f \in 1..Len(events) : e < f /\ events[f].contract = c

\* Nothing is left to be done for the event.
Handled(e) ==
  \/ events[e].kind = "deleted"
  \/ account.lastEvent > 0 /\ events[e].second <= events[account.lastEvent].second

EventsKept ==
  /\ contracts # <<>> => 1 <= Len(events) /\ events[1].kind = "updated"
  /\ \A e \in 1..Len(events) :
       /\ events[e].kind = "deleted" => contracts[events[e].contract] = "canceled"
       /\ rows[e].status = "SUCCEEDED" => Handled(e)
  /\ \A e, f \in 1..Len(events) : e < f => events[e].second <= events[f].second

HookKept(h) ==
  /\ hook[h].stage # "idle" => hook[h].event \in 1..Len(events)
  /\ hook[h].stage = "read" => events[hook[h].event].kind = "updated"
  /\ hook[h].stage = "apply" =>
       LET c == events[hook[h].event].contract
       IN hook[h].status = contracts[c] \/ Followed(hook[h].event, c)
  /\ hook[h].stage = "mark" => Handled(hook[h].event)

AccountKept ==
  /\ account.lastEvent <= Len(events)
  /\ account.lastEvent > 0 =>
       /\ account.contract = events[account.lastEvent].contract
       /\ \/ account.status = contracts[account.contract]
          \/ Followed(account.lastEvent, account.contract)

ConvergesInv == StripeTypes /\ EventsKept /\ (\A h \in Hooks : HookKept(h)) /\ AccountKept

\* The last event the account applied is one Stripe emitted.
LEMMA LastEventIsNat ==
  ASSUME ConvergesInv
  PROVE  /\ account \in Accounts /\ account.lastEvent \in Nat /\ account.lastEvent <= Len(events)
         /\ account.writes \in Nat
  <1>1. account \in Accounts /\ account.lastEvent <= Len(events)
    BY DEF ConvergesInv, StripeTypes, AccountKept
  <1>. QED  BY <1>1 DEF Accounts

\* Events are dated in the order they were emitted.
LEMMA EventsDated ==
  ASSUME ConvergesInv
  PROVE  /\ \A e \in 1..Len(events) : events[e].second \in Nat
         /\ \A e, f \in 1..Len(events) : e < f => events[e].second <= events[f].second
  <1>1. \A e \in 1..Len(events) : events[e] \in EventRecords
    BY DEF ConvergesInv, StripeTypes
  <1>2. \A e \in 1..Len(events) : events[e].second \in Nat
    BY <1>1 DEF EventRecords
  <1>3. \A e, f \in 1..Len(events) : e < f => events[e].second <= events[f].second
    BY DEF ConvergesInv, EventsKept
  <1>. QED  BY <1>2, <1>3

LEMMA ConvergesAtFirst == StripeInit => ConvergesInv
  BY DEF StripeInit, ConvergesInv, StripeTypes, EventsKept, HookKept, AccountKept, NoHook, Statuses,
         EventRecords, Accounts, HookRecords, PageReservations,
         Sources, NoReservations, NoSession, NoCheckout, Checkouts

LEMMA ConvergesImplies == ConvergesInv => AccountConverges
  <1>. SUFFICES ASSUME ConvergesInv, contracts # <<>>, \A e \in DOMAIN rows : rows[e].status = "SUCCEEDED",
                       account.status # contracts[account.contract]
                PROVE  \E e \in DOMAIN events :
                         /\ events[e].contract = account.contract /\ account.lastEvent < e
                         /\ \/ events[e].kind = "deleted"
                            \/ events[e].second = events[account.lastEvent].second
    BY DEF AccountConverges
  <1>1. DOMAIN rows = 1..Len(events) /\ DOMAIN events = 1..Len(events) /\ account.lastEvent \in Nat
        /\ Len(events) \in Nat
    BY DEF ConvergesInv, StripeTypes, Accounts
  <1>2. account.lastEvent > 0
    BY <1>1 DEF ConvergesInv, EventsKept, Handled
  <1>3. PICK f \in 1..Len(events) : account.lastEvent < f /\ events[f].contract = account.contract
    BY <1>2 DEF ConvergesInv, AccountKept, Followed
  <1>4. Handled(f)
    BY <1>1, <1>3 DEF ConvergesInv, EventsKept
  <1>5. account.lastEvent \in 1..Len(events)
    BY <1>1, <1>2 DEF ConvergesInv, AccountKept
  <1>6. /\ events[account.lastEvent].second <= events[f].second
        /\ events[account.lastEvent].second \in Nat /\ events[f].second \in Nat
    BY <1>1, <1>3, <1>5, EventsDated
  <1>. QED  BY <1>1, <1>3, <1>4, <1>6 DEF Handled

\* A change of a contract is an event, and the handlers that have read it are behind.
LEMMA EmitsConverges ==
  ASSUME ConvergesInv, NEW c \in Nat, NEW kind \in {"updated", "deleted"}, Emits(c, kind),
         contracts' \in Seq(Statuses), c \in 1..Len(contracts'), Len(contracts') >= Len(contracts),
         \A b \in 1..Len(contracts) : b # c => contracts'[b] = contracts[b],
         kind = "deleted" => contracts'[c] = "canceled",
         \A e \in 1..Len(events) : events[e].contract = c => events[e].kind # "deleted",
         contracts = <<>> => kind = "updated",
         UNCHANGED <<account, hook, checkout>>
  PROVE  ConvergesInv'
  <1>. PICK s \in Seconds :
         events' = Append(events, [contract |-> c, kind |-> kind, second |-> s])
    BY DEF Emits
  <1>0. s \in Nat /\ \A e \in 1..Len(events) : events[e].second <= s
    <2>1. events \in Seq(EventRecords) /\ Len(events) \in Nat
      BY DEF ConvergesInv, StripeTypes
    <2>2. CASE events = <<>>
      BY <2>1, <2>2 DEF Seconds
    <2>3. CASE events # <<>>
      <3>1. Len(events) \in 1..Len(events) /\ Last(events) = events[Len(events)]
        BY <2>1, <2>3 DEF Last
      <3>2. \A e \in 1..Len(events) : events[e].second \in Nat /\ events[e].second <= Last(events).second
        BY <2>1, <3>1, EventsDated
      <3>. QED  BY <2>3, <3>1, <3>2 DEF Seconds
    <2>. QED  BY <2>2, <2>3
  <1>. DEFINE n == Len(events)
              ev == [contract |-> c, kind |-> kind, second |-> s]
              row == [status |-> "none", token |-> 0, live |-> FALSE]
  <1>1. /\ n \in Nat /\ events' = Append(events, ev) /\ rows' = Append(rows, row)
        /\ ev \in EventRecords
        /\ row \in RowRecords
        /\ Len(contracts) \in Nat /\ Len(contracts') \in Nat /\ Len(rows) = n
        /\ account.lastEvent \in Nat /\ account.lastEvent <= n
    <2>1. events' = Append(events, ev) /\ rows' = Append(rows, row)
      BY DEF Emits
    <2>2. /\ events \in Seq(EventRecords) /\ contracts \in Seq(Statuses)
          /\ contracts' \in Seq(Statuses) /\ Len(rows) = Len(events)
      BY DEF ConvergesInv, StripeTypes
    <2>3. ev \in EventRecords
      BY <1>0, <2>2 DEF EventRecords
    <2>4. row \in RowRecords
      BY DEF RowRecords
    <2>. QED  BY <2>1, <2>2, <2>3, <2>4, LastEventIsNat
  <1>2. /\ Len(events') = n + 1 /\ events'[n + 1] = ev /\ ev.contract = c /\ ev.kind = kind /\ ev.second = s
        /\ rows'[n + 1] = row /\ row.status = "none"
        /\ \A e \in 1..n : events'[e] = events[e] /\ rows'[e] = rows[e]
        /\ events' \in Seq(EventRecords) /\ Len(rows') = n + 1
        /\ rows' \in Seq(RowRecords)
    BY <1>1 DEF ConvergesInv, StripeTypes
  <1>3. \A e \in 1..n : events[e].contract \in 1..Len(contracts)
    BY DEF ConvergesInv, StripeTypes
  <1>. HIDE DEF ev, row, n
  <1>4. \A e \in 1..Len(events') : e \in 1..n \/ e = n + 1
    BY <1>1, <1>2
  <1>5. \A e \in 1..n : e \in 1..Len(events') /\ e < n + 1
    BY <1>1, <1>2
  <1>6. n + 1 \in 1..Len(events')
    BY <1>1, <1>2
  <1>7. \A e \in 1..n : events'[e].contract \in 1..Len(contracts')
    BY <1>1, <1>2, <1>3
  <1>8. StripeTypes'
    BY <1>1, <1>2, <1>4, <1>7 DEF ConvergesInv, StripeTypes
  <1>9. \A e \in 1..n : Handled(e) => Handled(e)'
    <2>1. account.lastEvent > 0 => account.lastEvent \in 1..n
      BY <1>1
    <2>. QED  BY <1>2, <2>1 DEF Handled
  <1>10. EventsKept'
    <2>1. contracts' # <<>> => 1 <= Len(events') /\ events'[1].kind = "updated"
      <3>1. CASE contracts = <<>>
        <4>1. Len(contracts) = 0
          BY <3>1
        <4>2. ~(1 \in 1..n)
          BY <1>3, <4>1
        <4>3. n = 0
          BY <1>1, <4>2
        <4>. QED  BY <1>1, <1>2, <3>1, <4>3
      <3>2. CASE contracts # <<>>
        <4>1. 1 \in 1..n
          BY <1>1, <3>2 DEF ConvergesInv, EventsKept, n
        <4>. QED  BY <1>1, <1>2, <3>2, <4>1 DEF ConvergesInv, EventsKept, n
      <3>. QED  BY <3>1, <3>2
    <2>2. ASSUME NEW e \in 1..Len(events')
          PROVE  /\ events'[e].kind = "deleted" => contracts'[events'[e].contract] = "canceled"
                 /\ rows'[e].status = "SUCCEEDED" => Handled(e)'
      <3>1. CASE e \in 1..n
        BY <1>2, <1>3, <1>9, <3>1 DEF ConvergesInv, EventsKept, n
      <3>2. CASE e = n + 1
        BY <1>2, <3>2
      <3>. QED  BY <1>4, <3>1, <3>2
    <2>3. ASSUME NEW e \in 1..Len(events'), NEW f \in 1..Len(events'), e < f
          PROVE  events'[e].second <= events'[f].second
      <3>1. e \in 1..n
        BY <1>1, <1>4, <2>3
      <3>2. CASE f \in 1..n
        BY <1>2, <2>3, <3>1, <3>2 DEF ConvergesInv, EventsKept, n
      <3>3. CASE f = n + 1
        BY <1>0, <1>2, <3>1, <3>3 DEF n
      <3>. QED  BY <1>4, <3>2, <3>3
    <2>. QED  BY <2>1, <2>2, <2>3 DEF EventsKept
  <1>11. ASSUME NEW e \in 1..n, NEW b
         PROVE  Followed(e, b) => Followed(e, b)'
    BY <1>2, <1>5 DEF Followed, n
  <1>12. ASSUME NEW e \in 0..n
         PROVE  Followed(e, c)'
    BY <1>1, <1>2, <1>6 DEF Followed
  <1>13. ASSUME NEW h \in Hooks
         PROVE  HookKept(h)'
    <2>1. HookKept(h) /\ hook' = hook
      BY DEF ConvergesInv
    <2>2. CASE hook[h].stage = "idle"
      BY <2>1, <2>2 DEF HookKept
    <2>3. CASE hook[h].stage # "idle"
      <3>1. PICK e \in 1..n : e = hook[h].event
        BY <2>1, <2>3 DEF HookKept, n
      <3>. PICK b \in 1..Len(contracts) : b = events[e].contract
        BY <1>3
      <3>2. e \in 0..n /\ events'[e] = events[e] /\ e \in 1..Len(events')
        BY <1>1, <1>2, <1>5
      <3>3. hook[h].stage = "apply" => hook[h].status = contracts'[b] \/ Followed(e, b)'
        BY <1>11, <1>12, <2>1, <3>1, <3>2 DEF HookKept
      <3>4. hook[h].stage = "mark" => Handled(e)'
        BY <1>9, <2>1, <3>1 DEF HookKept
      <3>5. hook[h].stage = "read" => events[e].kind = "updated"
        BY <2>1, <3>1 DEF HookKept
      <3>. QED  BY <2>1, <3>1, <3>2, <3>3, <3>4, <3>5 DEF HookKept, Followed, Handled
    <2>. QED  BY <2>2, <2>3
  <1>14. AccountKept'
    <2>1. account'.lastEvent <= Len(events')
      BY <1>1, <1>2
    <2>2. CASE account.lastEvent > 0
      <3>. DEFINE L == account.lastEvent
                  b == account.contract
      <3>1. L \in 1..n /\ L \in 0..n
        BY <1>1, <2>2
      <3>2. b = events[L].contract /\ (account.status = contracts[b] \/ Followed(L, b))
        BY <2>2 DEF ConvergesInv, AccountKept
      <3>3. b = events'[L].contract /\ b \in 1..Len(contracts)
        BY <1>2, <1>3, <3>1, <3>2
      <3>4. account.status = contracts'[b] \/ Followed(L, b)'
        BY <1>11, <1>12, <3>1, <3>2, <3>3
      <3>. QED  BY <2>1, <3>3, <3>4 DEF AccountKept
    <2>. QED  BY <1>1, <2>1, <2>2 DEF AccountKept
  <1>. QED  BY <1>8, <1>10, <1>13, <1>14 DEF ConvergesInv

\* What a step keeps that leaves the contracts, the events and the account's
\* share in them alone.
LEMMA QuietConverges ==
  ASSUME ConvergesInv, UNCHANGED <<contracts, events>>, account' \in Accounts,
         account'.contract = account.contract, account'.status = account.status,
         account'.lastEvent = account.lastEvent,
         rows' \in Seq(RowRecords),
         Len(rows') = Len(rows),
         \A e \in 1..Len(events) : rows'[e].status = "SUCCEEDED" => Handled(e),
         hook' \in [Hooks -> HookRecords],
         checkout' \in [Tabs -> Checkouts],
         \A h \in Hooks : hook'[h] = hook[h] \/ HookKept(h)'
  PROVE  ConvergesInv'
  <1>1. StripeTypes'
    BY DEF ConvergesInv, StripeTypes
  <1>2. EventsKept'
    BY DEF ConvergesInv, EventsKept, Handled
  <1>3. \A h \in Hooks : HookKept(h)'
    BY DEF ConvergesInv, HookKept, Followed, Handled
  <1>4. AccountKept'
    BY DEF ConvergesInv, AccountKept, Followed
  <1>. QED  BY <1>1, <1>2, <1>3, <1>4 DEF ConvergesInv

\* No event of a contract that is not canceled is its deletion.
LEMMA Undeleted ==
  ASSUME ConvergesInv, NEW c \in Nat, c \in 1..Len(contracts) => Live(contracts[c])
  PROVE  \A e \in 1..Len(events) : events[e].contract = c => events[e].kind # "deleted"
  BY DEF ConvergesInv, StripeTypes, EventsKept, Live

LEMMA StripeConverges ==
  ASSUME ConvergesInv,
         \/ \E id \in 1..MaxReservations : Pays(id)
         \/ \E c \in DOMAIN contracts : Renews(c) \/ Cancels(c)
  PROVE  ConvergesInv'
  <1>. DEFINE n == Len(contracts)
  <1>0. contracts \in Seq(Statuses) /\ n \in Nat /\ DOMAIN contracts = 1..n
    BY DEF ConvergesInv, StripeTypes
  <1>1. ASSUME NEW id \in 1..MaxReservations, Pays(id)
        PROVE  ConvergesInv'
    <2>1. /\ contracts' = Append(contracts, "active") /\ Emits(n + 1, "updated")
          /\ UNCHANGED <<account, hook, checkout>>
      BY <1>1 DEF Pays
    <2>2. /\ contracts' \in Seq(Statuses) /\ Len(contracts') = n + 1
          /\ \A b \in 1..n : contracts'[b] = contracts[b]
      BY <1>0, <2>1 DEF Statuses
    <2>3. n + 1 \in Nat /\ ~(n + 1 \in 1..n) /\ n + 1 \in 1..(n + 1) /\ n + 1 >= n
      BY <1>0
    <2>4. \A e \in 1..Len(events) : events[e].contract = n + 1 => events[e].kind # "deleted"
      BY <2>3, Undeleted
    <2>. QED  BY <2>1, <2>2, <2>3, <2>4, EmitsConverges
  <1>2. ASSUME NEW c \in 1..n, NEW s \in Statuses, NEW kind \in {"updated", "deleted"}, Live(contracts[c]),
               contracts' = [contracts EXCEPT ![c] = s], Emits(c, kind),
               UNCHANGED <<account, hook, checkout>>,
               kind = "deleted" => s = "canceled"
        PROVE  ConvergesInv'
    <2>1. /\ contracts' \in Seq(Statuses) /\ Len(contracts') = n /\ contracts'[c] = s
          /\ \A b \in 1..n : b # c => contracts'[b] = contracts[b]
      BY <1>0, <1>2
    <2>2. c \in Nat /\ contracts # <<>>
      BY <1>0
    <2>3. \A e \in 1..Len(events) : events[e].contract = c => events[e].kind # "deleted"
      BY <1>2, <2>2, Undeleted
    <2>4. c \in 1..Len(contracts') /\ Len(contracts') >= n
      BY <1>0, <2>1
    <2>. QED  BY <1>2, <2>1, <2>2, <2>3, <2>4, EmitsConverges
  <1>3. ASSUME NEW c \in DOMAIN contracts, Renews(c)
        PROVE  ConvergesInv'
    <2>1. PICK s \in Statuses : Live(contracts[c]) /\ contracts' = [contracts EXCEPT ![c] = s]
      BY <1>3 DEF Renews, Live, Statuses
    <2>. QED  BY <1>0, <1>2, <1>3, <2>1 DEF Renews
  <1>4. ASSUME NEW c \in DOMAIN contracts, Cancels(c)
        PROVE  ConvergesInv'
    BY <1>0, <1>2, <1>4 DEF Cancels, Statuses
  <1>. QED  BY <1>1, <1>3, <1>4

\* A request of the user takes a reservation up or clears it, and nothing else
\* of the account.
Takes(resv, last) == account' = [account EXCEPT !.resv = resv, !.last = last]

LEMMA TabTakes ==
  ASSUME ConvergesInv, NEW t \in Tabs,
         \/ ClaimCheckout(t) \/ RetrieveSession(t) \/ ClearReservation(t)
         \/ CreateSession(t) \/ AttachSession(t) \/ ExpireSession(t) \/ CheckoutStops(t)
  PROVE  /\ account' = account \/ \E resv \in PageReservations, last \in Nat : Takes(resv, last)
         /\ \E row \in Checkouts : checkout' = [checkout EXCEPT ![t] = row]
  <1>1. /\ account \in Accounts /\ account.resv \in PageReservations /\ account.last \in Nat
        /\ account.resv.id \in Nat /\ account.resv.session \in Nat /\ account.resv.fence \in Sources
        /\ PlanSource \in Sources /\ NoReservations \in PageReservations
        /\ checkout[t] \in Checkouts /\ NoCheckout \in Checkouts
    BY DEF ConvergesInv, StripeTypes, Accounts, PlanSource, Sources, NoReservations, PageReservations,
           NoSession, Checkouts, NoCheckout
  <1>2. ASSUME ClaimCheckout(t)
        PROVE  /\ account' = account \/ \E resv \in PageReservations, last \in Nat : Takes(resv, last)
               /\ \E row \in Checkouts : checkout' = [checkout EXCEPT ![t] = row]
    <2>. DEFINE resv == Reserves(t)
                last == IF account.last > resv.id THEN account.last ELSE resv.id
                row == [stage |-> IF resv.session = NoSession THEN "create" ELSE "retrieve",
                        id |-> resv.id, session |-> resv.session, fence |-> resv.fence,
                        again |-> checkout[t].stage = "again"]
    <2>1. resv \in PageReservations /\ resv.id \in Nat /\ last \in Nat
      BY <1>1 DEF Reserves, PageReservations, NoSession
    <2>2. row \in Checkouts
      BY <2>1 DEF Checkouts, PageReservations
    <2>3. \/ account' = account /\ checkout' = [checkout EXCEPT ![t] = NoCheckout]
          \/ Takes(resv, last) /\ checkout' = [checkout EXCEPT ![t] = row]
      BY <1>2 DEF ClaimCheckout, Takes
    <2>. QED  BY <1>1, <2>1, <2>2, <2>3
  <1>3. ASSUME RetrieveSession(t) \/ CreateSession(t) \/ ExpireSession(t) \/ CheckoutStops(t)
        PROVE  /\ account' = account
               /\ \E row \in Checkouts : checkout' = [checkout EXCEPT ![t] = row]
    <2>1. \A stage \in {"clear", "attach"} : [checkout[t] EXCEPT !.stage = stage] \in Checkouts
      BY <1>1 DEF Checkouts
    <2>2. /\ At(t, "clear") => checkout' = [checkout EXCEPT ![t] = [checkout[t] EXCEPT !.stage = "clear"]]
          /\ At(t, "attach") => checkout' = [checkout EXCEPT ![t] = [checkout[t] EXCEPT !.stage = "attach"]]
      BY DEF At
    <2>. QED  BY <1>1, <1>3, <2>1, <2>2 DEF RetrieveSession, CreateSession, ExpireSession, CheckoutStops
  <1>4. ASSUME ClearReservation(t)
        PROVE  /\ account' = account \/ \E resv \in PageReservations, last \in Nat : Takes(resv, last)
               /\ \E row \in Checkouts : checkout' = [checkout EXCEPT ![t] = row]
    <2>1. [NoCheckout EXCEPT !.stage = "again"] \in Checkouts
      BY <1>1 DEF Checkouts
    <2>2. account' = account \/ Takes(NoReservations, account.last)
      BY <1>1, <1>4 DEF ClearReservation, Takes, Accounts
    <2>. QED  BY <1>1, <1>4, <2>1, <2>2 DEF ClearReservation
  <1>5. ASSUME AttachSession(t)
        PROVE  /\ account' = account \/ \E resv \in PageReservations, last \in Nat : Takes(resv, last)
               /\ \E row \in Checkouts : checkout' = [checkout EXCEPT ![t] = row]
    <2>. DEFINE resv == [account.resv EXCEPT !.session = checkout[t].id]
    <2>1. [checkout[t] EXCEPT !.stage = "expire"] \in Checkouts /\ resv \in PageReservations
      BY <1>1 DEF Checkouts, PageReservations
    <2>2. account' = account \/ Takes(resv, account.last)
      BY <1>1, <1>5 DEF AttachSession, Takes, Accounts
    <2>3. At(t, "expire") => checkout' = [checkout EXCEPT ![t] = [checkout[t] EXCEPT !.stage = "expire"]]
      BY DEF At
    <2>. QED  BY <1>1, <1>5, <2>1, <2>2, <2>3 DEF AttachSession
  <1>. QED  BY <1>2, <1>3, <1>4, <1>5

LEMMA AgesTake ==
  ASSUME ConvergesInv, ReservationAges
  PROVE  \E resv \in PageReservations : Takes(resv, account.last) /\ resv.id = account.resv.id
  <1>1. account \in Accounts /\ account.resv \in PageReservations
    BY DEF ConvergesInv, StripeTypes, Accounts
  <1>. DEFINE resv == [account.resv EXCEPT !.expiry = IF @ = "long" THEN "short" ELSE "over"]
  <1>2. resv \in PageReservations /\ resv.id = account.resv.id
    BY <1>1 DEF PageReservations
  <1>3. Takes(resv, account.last)
    BY <1>1 DEF ReservationAges, Takes, Accounts
  <1>. QED  BY <1>2, <1>3

LEMMA TakesAccount ==
  ASSUME ConvergesInv, NEW resv \in PageReservations, NEW last \in Nat, Takes(resv, last)
  PROVE  /\ account' \in Accounts /\ account'.contract = account.contract
         /\ account'.status = account.status /\ account'.lastEvent = account.lastEvent
         /\ account'.resv = resv /\ account'.last = last /\ account'.writes = account.writes
  <1>1. account \in Accounts
    BY DEF ConvergesInv, StripeTypes
  <1>. QED  BY <1>1 DEF Takes, Accounts

\* The user's own requests do not touch the contract on the account.
LEMMA TabsConverge ==
  ASSUME ConvergesInv,
         \/ Grant \/ ReservationAges
         \/ \E t \in Tabs : \/ ClaimCheckout(t) \/ RetrieveSession(t) \/ ClearReservation(t)
                            \/ CreateSession(t) \/ AttachSession(t) \/ ExpireSession(t) \/ CheckoutStops(t)
  PROVE  ConvergesInv'
  <1>1. UNCHANGED <<contracts, events, rows, hook>>
    BY DEF Grant, ReservationAges, ClaimCheckout, RetrieveSession, ClearReservation, CreateSession,
           AttachSession, ExpireSession, CheckoutStops
  <1>2. account \in Accounts /\ account.last \in Nat
    BY DEF ConvergesInv, StripeTypes, Accounts
  <1>3. /\ account' \in Accounts /\ account'.contract = account.contract
        /\ account'.status = account.status /\ account'.lastEvent = account.lastEvent
    <2>1. account' = account \/ \E resv \in PageReservations, last \in Nat : Takes(resv, last)
      BY <1>2, TabTakes, AgesTake DEF Grant
    <2>. QED  BY <1>2, <2>1, TakesAccount
  <1>4. checkout' \in [Tabs -> Checkouts]
    <2>1. checkout \in [Tabs -> Checkouts]
      BY DEF ConvergesInv, StripeTypes
    <2>2. \/ checkout' = checkout
          \/ \E t \in Tabs, row \in Checkouts : checkout' = [checkout EXCEPT ![t] = row]
      BY TabTakes DEF Grant, ReservationAges
    <2>. QED  BY <2>1, <2>2
  <1>5. /\ rows' \in Seq(RowRecords)
        /\ hook' \in [Hooks -> HookRecords]
        /\ \A e \in 1..Len(events) : rows'[e].status = "SUCCEEDED" => Handled(e)
    BY <1>1 DEF ConvergesInv, StripeTypes, EventsKept
  <1>. QED  BY <1>1, <1>3, <1>4, <1>5, QuietConverges

\* A step of a handler, which may write the row of an event.
LEMMA HookStep ==
  ASSUME ConvergesInv, NEW h \in Hooks, NEW work \in HookRecords, NEW e \in 1..Len(events),
         NEW row \in RowRecords,
         UNCHANGED <<contracts, events, account, checkout>>,
         hook' = [hook EXCEPT ![h] = work],
         rows' = rows \/ rows' = [rows EXCEPT ![e] = row],
         row.status = "SUCCEEDED" => Handled(e),
         work.stage = "idle" \/ work.event \in 1..Len(events),
         work.stage = "read" => events[work.event].kind = "updated",
         work.stage = "apply" => LET c == events[work.event].contract
                                 IN work.status = contracts[c] \/ Followed(work.event, c),
         work.stage = "mark" => Handled(work.event)
  PROVE  ConvergesInv'
  <1>1. /\ rows \in Seq(RowRecords) /\ Len(rows) = Len(events) /\ hook \in [Hooks -> HookRecords]
        /\ account \in Accounts /\ checkout \in [Tabs -> Checkouts]
        /\ \A f \in 1..Len(events) : rows[f].status = "SUCCEEDED" => Handled(f)
    BY DEF ConvergesInv, StripeTypes, EventsKept
  <1>2. rows' \in Seq(RowRecords) /\ Len(rows') = Len(rows)
        /\ \A f \in 1..Len(events) : rows'[f] = rows[f] \/ (f = e /\ rows'[f] = row)
    BY <1>1
  <1>3. hook' \in [Hooks -> HookRecords] /\ hook'[h] = work /\ \A g \in Hooks \ {h} : hook'[g] = hook[g]
    BY <1>1
  <1>4. HookKept(h)'
    BY <1>3 DEF HookKept, Followed, Handled
  <1>5. \A f \in 1..Len(events) : rows'[f].status = "SUCCEEDED" => Handled(f)
    BY <1>1, <1>2
  <1>. QED  BY <1>1, <1>2, <1>3, <1>4, <1>5, QuietConverges

\* What is under way at a handler.
LEMMA AtHook ==
  ASSUME ConvergesInv, NEW h \in Hooks, hook[h].stage # "idle"
  PROVE  /\ hook[h].event \in 1..Len(events) /\ hook[h] \in HookRecords /\ NoHook \in HookRecords
         /\ rows[hook[h].event] \in RowRecords /\ HookKept(h)
         /\ events[hook[h].event].contract \in 1..Len(contracts)
  <1>1. rows \in Seq(RowRecords) /\ Len(rows) = Len(events) /\ hook \in [Hooks -> HookRecords]
        /\ \A e \in 1..Len(events) : events[e].contract \in 1..Len(contracts)
    BY DEF ConvergesInv, StripeTypes
  <1>2. HookKept(h) /\ hook[h].event \in 1..Len(events)
    BY DEF ConvergesInv, HookKept
  <1>3. NoHook \in HookRecords
    BY DEF NoHook, HookRecords, Statuses
  <1>. QED  BY <1>1, <1>2, <1>3

LEMMA ClaimConverges ==
  ASSUME ConvergesInv, NEW h \in Hooks, NEW e \in DOMAIN events, ClaimEvent(h, e)
  PROVE  ConvergesInv'
  <1>. DEFINE work == [event |-> e, token |-> rows[e].token + 1, status |-> "canceled",
                       stage |-> IF events[e].kind = "deleted" THEN "apply" ELSE "read"]
              row == [status |-> "PROCESSING", token |-> rows[e].token + 1, live |-> TRUE]
  <1>0. events \in Seq(EventRecords) /\ rows \in Seq(RowRecords) /\ Len(rows) = Len(events)
    BY DEF ConvergesInv, StripeTypes
  <1>1. e \in 1..Len(events) /\ rows[e] \in RowRecords /\ events[e] \in EventRecords
    BY <1>0
  <1>2. row \in RowRecords /\ work \in HookRecords
    BY <1>1 DEF RowRecords, HookRecords, Statuses
  <1>3. hook' = [hook EXCEPT ![h] = work] /\ rows' = [rows EXCEPT ![e] = row]
        /\ UNCHANGED <<contracts, events, account, checkout>>
    BY DEF ClaimEvent
  <1>4. events[e].kind = "deleted" => contracts[events[e].contract] = "canceled"
    BY <1>1 DEF ConvergesInv, EventsKept
  <1>5. events[e].kind = "deleted" \/ events[e].kind = "updated"
    BY <1>1 DEF EventRecords
  <1>6. /\ row.status = "PROCESSING" /\ work.event = e /\ work.status = "canceled"
        /\ work.stage = IF events[e].kind = "deleted" THEN "apply" ELSE "read"
    OBVIOUS
  <1>. HIDE DEF work, row
  <1>. QED  BY <1>1, <1>2, <1>3, <1>4, <1>5, <1>6, HookStep

LEMMA ReadConverges ==
  ASSUME ConvergesInv, NEW h \in Hooks, ReadContract(h)
  PROVE  ConvergesInv'
  <1>. DEFINE e == hook[h].event
              c == events[e].contract
              work == [hook[h] EXCEPT !.stage = "apply", !.status = contracts[c]]
  <1>1. hook[h].stage = "read" /\ hook' = [hook EXCEPT ![h] = work]
        /\ UNCHANGED <<contracts, events, account, checkout, rows>>
    BY DEF ReadContract
  <1>2. /\ e \in 1..Len(events) /\ c \in 1..Len(contracts) /\ contracts[c] \in Statuses
        /\ hook[h] \in HookRecords /\ rows[e] \in RowRecords
        /\ rows[e].status = "SUCCEEDED" => Handled(e)
    BY <1>1, AtHook DEF ConvergesInv, StripeTypes, EventsKept
  <1>3. work \in HookRecords /\ work.event = e /\ work.stage = "apply" /\ work.status = contracts[c]
    BY <1>2 DEF HookRecords
  <1>. HIDE DEF work
  <1>. QED  BY <1>1, <1>2, <1>3, HookStep

LEMMA MarkConverges ==
  ASSUME ConvergesInv, NEW h \in Hooks, MarkEvent(h) \/ HookFails(h)
  PROVE  ConvergesInv'
  <1>. DEFINE e == hook[h].event
  <1>1. hook[h].stage # "idle" /\ hook' = [hook EXCEPT ![h] = NoHook]
        /\ UNCHANGED <<contracts, events, account, checkout>>
    BY DEF MarkEvent, HookFails
  <1>2. /\ e \in 1..Len(events) /\ rows[e] \in RowRecords /\ NoHook \in HookRecords
        /\ HookKept(h) /\ NoHook.stage = "idle"
        /\ rows[e].status = "SUCCEEDED" => Handled(e)
    BY <1>1, AtHook DEF ConvergesInv, EventsKept, NoHook
  <1>3. \E row \in RowRecords :
          /\ rows' = rows \/ rows' = [rows EXCEPT ![e] = row]
          /\ row.status = "SUCCEEDED" => Handled(e)
    <2>1. \A s \in {"SUCCEEDED", "FAILED"} :
            [rows[e] EXCEPT !.status = s] \in RowRecords /\ [rows[e] EXCEPT !.status = s].status = s
      BY <1>2 DEF RowRecords
    <2>2. CASE MarkEvent(h)
      <3>1. Handled(e)
        BY <1>2, <2>2 DEF MarkEvent, HookKept
      <3>. QED  BY <1>2, <2>1, <2>2, <3>1 DEF MarkEvent
    <2>3. CASE HookFails(h)
      BY <1>2, <2>1, <2>3 DEF HookFails
    <2>. QED  BY <2>2, <2>3
  <1>. QED  BY <1>1, <1>2, <1>3, HookStep

LEMMA LeaseConverges ==
  ASSUME ConvergesInv, NEW e \in DOMAIN events, LeaseExpires(e)
  PROVE  ConvergesInv'
  <1>. DEFINE row == [rows[e] EXCEPT !.live = FALSE]
  <1>1. rows' = [rows EXCEPT ![e] = row] /\ rows[e].status = "PROCESSING"
        /\ UNCHANGED <<contracts, events, account, checkout, hook>>
    BY DEF LeaseExpires
  <1>2. /\ rows \in Seq(RowRecords) /\ e \in 1..Len(rows) /\ account \in Accounts
        /\ checkout \in [Tabs -> Checkouts] /\ hook \in [Hooks -> HookRecords] /\ Len(rows) = Len(events)
        /\ \A f \in 1..Len(events) : rows[f].status = "SUCCEEDED" => Handled(f)
    BY DEF ConvergesInv, StripeTypes, EventsKept
  <1>3. row \in RowRecords /\ row.status = "PROCESSING"
    <2>1. rows[e] \in RowRecords
      BY <1>2
    <2>. QED  BY <1>1, <2>1 DEF RowRecords
  <1>. HIDE DEF row
  <1>4. rows' \in Seq(RowRecords) /\ Len(rows') = Len(rows)
        /\ \A f \in 1..Len(events) : rows'[f].status = "SUCCEEDED" => Handled(f)
    BY <1>1, <1>2, <1>3
  <1>. QED  BY <1>1, <1>2, <1>4, QuietConverges

LEMMA ApplyConverges ==
  ASSUME ConvergesInv, NEW h \in Hooks, ApplyEvent(h)
  PROVE  ConvergesInv'
  <1>. DEFINE e == hook[h].event
              c == events[e].contract
              s == hook[h].status
              work == [hook[h] EXCEPT !.stage = "mark"]
  <1>1. hook[h].stage = "apply" /\ hook' = [hook EXCEPT ![h] = work]
        /\ UNCHANGED <<contracts, events, rows, checkout>>
    BY DEF ApplyEvent, Step
  <1>2. /\ e \in 1..Len(events) /\ c \in 1..Len(contracts) /\ hook[h] \in HookRecords
        /\ s \in Statuses /\ rows[e] \in RowRecords /\ account \in Accounts
        /\ HookKept(h) /\ account.lastEvent \in Nat /\ e \in Nat /\ c \in Nat
        /\ rows[e].status = "SUCCEEDED" => Handled(e)
    <2>1. /\ e \in 1..Len(events) /\ c \in 1..Len(contracts) /\ hook[h] \in HookRecords
          /\ rows[e] \in RowRecords /\ HookKept(h)
      BY <1>1, AtHook
    <2>2. Len(events) \in Nat /\ Len(contracts) \in Nat /\ account \in Accounts
      BY DEF ConvergesInv, StripeTypes
    <2>3. s \in Statuses /\ account.lastEvent \in Nat
      BY <2>1, <2>2 DEF HookRecords, Accounts
    <2>4. e \in Nat /\ c \in Nat
      BY <2>1, <2>2
    <2>5. rows[e].status = "SUCCEEDED" => Handled(e)
      BY <2>1 DEF ConvergesInv, EventsKept
    <2>. QED  BY <2>1, <2>2, <2>3, <2>4, <2>5
  <1>3. work \in HookRecords /\ work.event = e /\ work.stage = "mark"
    BY <1>2 DEF HookRecords
  <1>4. CASE account' = account
    <2>1. \A f \in 1..Len(events) : events[f].second \in Nat
      BY EventsDated
    <2>3. StaleEvent(e) \/ events[e].kind = "deleted"
      <3>1. CASE account' = [account EXCEPT !.contract = c, !.status = s, !.lastEvent = e,
                                            !.resv = NoReservations, !.writes = @ + 1]
        <4>1. account'.writes = account.writes + 1 /\ account.writes \in Nat
          BY <1>2, <3>1 DEF Accounts
        <4>. QED  BY <1>4, <4>1
      <3>. QED  BY <3>1 DEF ApplyEvent
    <2>4. account.lastEvent > 0 => account.lastEvent \in 1..Len(events)
      BY <1>2, LastEventIsNat
    <2>2. Handled(e)
      BY <1>2, <2>1, <2>3, <2>4 DEF StaleEvent, Handled
    <2>. HIDE DEF work
    <2>. QED  BY <1>1, <1>2, <1>3, <1>4, <2>2, HookStep
  <1>5. CASE account' # account
    <2>1. /\ account.lastEvent > 0 => events[account.lastEvent].second <= events[e].second
          /\ account' = [account EXCEPT !.contract = c, !.status = s, !.lastEvent = e,
                                        !.resv = NoReservations, !.writes = @ + 1]
      <3>1. \A f \in 1..Len(events) : events[f].second \in Nat
        BY EventsDated
      <3>2. account.lastEvent > 0 => account.lastEvent \in 1..Len(events)
        BY <1>2, LastEventIsNat
      <3>3. /\ ~StaleEvent(e)
            /\ account' = [account EXCEPT !.contract = c, !.status = s, !.lastEvent = e,
                                          !.resv = NoReservations, !.writes = @ + 1]
        BY <1>5 DEF ApplyEvent
      <3>. QED  BY <1>2, <3>1, <3>2, <3>3 DEF StaleEvent
    <2>2. NoReservations \in PageReservations
      BY DEF NoReservations, PageReservations, NoSession, Sources
    <2>3. /\ account' \in Accounts /\ account'.contract = c /\ account'.status = s
          /\ account'.lastEvent = e
      <3>1. account.writes + 1 \in Nat
        BY <1>2 DEF Accounts
      <3>. QED  BY <1>2, <2>1, <2>2, <3>1 DEF Accounts
    <2>4. \A f \in 1..Len(events) : Handled(f) => Handled(f)'
      <3>1. \A f \in 1..Len(events) : events[f].second \in Nat
        BY EventsDated
      <3>2. account.lastEvent > 0 => account.lastEvent \in 1..Len(events)
        BY <1>2, LastEventIsNat
      <3>. QED  BY <1>1, <1>2, <2>1, <2>3, <3>1, <3>2 DEF Handled
    <2>5. Handled(e)'
      <3>1. events[e].second \in Nat /\ e > 0
        BY <1>2, EventsDated
      <3>. QED  BY <1>1, <1>2, <2>3, <3>1 DEF Handled
    <2>6. StripeTypes'
      <3>1. hook' \in [Hooks -> HookRecords]
        BY <1>1, <1>3 DEF ConvergesInv, StripeTypes
      <3>. QED  BY <1>1, <2>3, <3>1 DEF ConvergesInv, StripeTypes
    <2>7. EventsKept'
      BY <1>1, <2>4 DEF ConvergesInv, EventsKept
    <2>8. AccountKept'
      BY <1>1, <1>2, <2>3 DEF AccountKept, HookKept, Followed
    <2>9. ASSUME NEW g \in Hooks
          PROVE  HookKept(g)'
      <3>1. hook'[g] = IF g = h THEN work ELSE hook[g]
        BY <1>1 DEF ConvergesInv, StripeTypes
      <3>2. CASE g = h
        BY <1>1, <1>2, <1>3, <2>5, <3>1, <3>2 DEF HookKept
      <3>3. CASE g # h
        BY <1>1, <2>4, <3>1, <3>3 DEF ConvergesInv, HookKept, Followed
      <3>. QED  BY <3>2, <3>3
    <2>. QED  BY <2>6, <2>7, <2>8, <2>9 DEF ConvergesInv
  <1>. QED  BY <1>4, <1>5

LEMMA ConvergesStep == ConvergesInv /\ StripeNext => ConvergesInv'
  BY StripeConverges, TabsConverge, ReadConverges, ApplyConverges, MarkConverges, ClaimConverges,
     LeaseConverges DEF StripeNext

LEMMA ConvergesStutter == ConvergesInv /\ UNCHANGED stripeVars => ConvergesInv'
  BY DEF ConvergesInv, StripeTypes, EventsKept, HookKept, AccountKept, Followed, Handled, stripeVars

\* The pages: a session is attached to its own reservation and offered then; a
\* reservation that is over has no open page; a session that has expired stays so.
TabKept(t) ==
  /\ checkout[t].stage \in {"create", "attach", "expire"} => checkout[t].id \in 1..MaxReservations
  /\ checkout[t].stage = "attach" => sessions[checkout[t].id] # "none"
  /\ checkout[t].stage \in {"retrieve", "clear"} =>
       checkout[t].session = checkout[t].id /\ checkout[t].session \in offered
  /\ checkout[t].stage = "clear" => sessions[checkout[t].session] = "expired"

ReservationKept ==
  /\ account.resv.id \in 0..MaxReservations
  /\ account.resv.session # NoSession =>
       account.resv.session = account.resv.id /\ account.resv.id \in offered
  /\ account.resv.expiry # "over" => account.resv.id # 0
  /\ account.resv.id # 0 /\ account.resv.expiry = "over" => sessions[account.resv.id] # "open"

PagesInv ==
  /\ sessions \in [1..MaxReservations -> {"none", "open", "complete", "expired"}]
  /\ offered \subseteq 1..MaxReservations
  /\ \A id \in offered : sessions[id] # "none"
  /\ ReservationKept
  /\ \A t \in Tabs : TabKept(t)
  /\ OnePageOpen

LEMMA PagesAtFirst == StripeInit => PagesInv
  <1>. SUFFICES ASSUME StripeInit
                PROVE  PagesInv
    OBVIOUS
  <1>1. Forgotten = {}
    BY DEF StripeInit, Forgotten
  <1>2. Cardinality(Forgotten) = 0
    BY <1>1, FS_EmptySet
  <1>. QED  BY <1>2, StripeAssumption
       DEF StripeInit, PagesInv, ReservationKept, TabKept, OnePageOpen, NoReservations, NoSession,
           NoCheckout

LEMMA ForgottenFinite ==
  ASSUME PagesInv
  PROVE  IsFiniteSet(Forgotten) /\ Cardinality(Forgotten) \in Nat
  <1>1. Forgotten \subseteq 1..MaxReservations
    BY DEF PagesInv, Forgotten
  <1>2. IsFiniteSet(1..MaxReservations)
    BY StripeAssumption, FS_Interval
  <1>. QED  BY <1>1, <1>2, FS_Subset, FS_CardinalityType

\* A step that leaves no page behind.
LEMMA FewerForgotten ==
  ASSUME PagesInv, ConvergesInv, Forgotten' \subseteq Forgotten,
         account'.writes \in Nat, account.writes <= account'.writes
  PROVE  OnePageOpen'
  <1>1. Cardinality(Forgotten') <= Cardinality(Forgotten) /\ IsFiniteSet(Forgotten')
    BY ForgottenFinite, FS_Subset
  <1>2. Cardinality(Forgotten') \in Nat /\ Cardinality(Forgotten) \in Nat /\ account.writes \in Nat
    BY <1>1, ForgottenFinite, FS_CardinalityType DEF ConvergesInv, StripeTypes, Accounts
  <1>. QED  BY <1>1, <1>2 DEF PagesInv, OnePageOpen

\* Only an event forgets an open page.
LEMMA OneForgotten ==
  ASSUME PagesInv, ConvergesInv, NEW id, Forgotten' \subseteq Forgotten \cup {id},
         account'.writes \in Nat, account.writes < account'.writes
  PROVE  OnePageOpen'
  <1>1. IsFiniteSet(Forgotten \cup {id})
        /\ Cardinality(Forgotten \cup {id}) <= Cardinality(Forgotten) + 1
        /\ Cardinality(Forgotten \cup {id}) \in Nat
    <2>1. IsFiniteSet(Forgotten) /\ Cardinality(Forgotten) \in Nat
      BY ForgottenFinite
    <2>2. IsFiniteSet(Forgotten \cup {id})
          /\ Cardinality(Forgotten \cup {id}) = IF id \in Forgotten THEN Cardinality(Forgotten)
                                                ELSE Cardinality(Forgotten) + 1
      BY <2>1, FS_AddElement
    <2>. QED  BY <2>1, <2>2
  <1>2. Cardinality(Forgotten') <= Cardinality(Forgotten \cup {id}) /\ IsFiniteSet(Forgotten')
    BY <1>1, FS_Subset
  <1>3. Cardinality(Forgotten') \in Nat /\ Cardinality(Forgotten) \in Nat /\ account.writes \in Nat
    BY <1>2, ForgottenFinite, FS_CardinalityType, LastEventIsNat
  <1>. QED  BY <1>1, <1>2, <1>3 DEF PagesInv, OnePageOpen

\* A step of Stripe or of a handler, or one that forgets nothing.
LEMMA QuietPages ==
  ASSUME PagesInv, ConvergesInv, UNCHANGED <<sessions, offered, checkout, account>>
  PROVE  PagesInv'
  BY DEF PagesInv, ReservationKept, TabKept, OnePageOpen, Forgotten

LEMMA PaysPages ==
  ASSUME PagesInv, ConvergesInv, NEW id \in 1..MaxReservations, Pays(id)
  PROVE  PagesInv'
  <1>1. /\ sessions' = [sessions EXCEPT ![id] = "complete"] /\ sessions[id] = "open"
        /\ UNCHANGED <<account, checkout, offered>>
    BY DEF Pays
  <1>2. /\ sessions' \in [1..MaxReservations -> {"none", "open", "complete", "expired"}]
        /\ \A i \in 1..MaxReservations : sessions'[i] = IF i = id THEN "complete" ELSE sessions[i]
    BY <1>1 DEF PagesInv
  <1>3. Forgotten' \subseteq Forgotten
    BY <1>1, <1>2 DEF PagesInv, Forgotten
  <1>4. OnePageOpen'
    BY <1>1, <1>3, LastEventIsNat, FewerForgotten
  <1>5. ReservationKept'
    BY <1>1, <1>2, StripeAssumption DEF PagesInv, ReservationKept
  <1>6. \A t \in Tabs : TabKept(t)'
    BY <1>1, <1>2 DEF PagesInv, TabKept
  <1>. QED  BY <1>1, <1>2, <1>4, <1>5, <1>6 DEF PagesInv

LEMMA AgesPages ==
  ASSUME PagesInv, ConvergesInv, ReservationAges
  PROVE  PagesInv'
  <1>. DEFINE r == account.resv.id
  <1>1. PICK resv \in PageReservations : account' = [account EXCEPT !.resv = resv]
          /\ resv = [account.resv EXCEPT !.expiry = IF @ = "long" THEN "short" ELSE "over"]
    <2>1. account.resv \in PageReservations
      BY DEF ConvergesInv, StripeTypes, Accounts
    <2>2. [account.resv EXCEPT !.expiry = IF @ = "long" THEN "short" ELSE "over"] \in PageReservations
      BY <2>1 DEF PageReservations
    <2>. QED  BY <2>2 DEF ReservationAges
  <1>2. /\ account'.resv.id = r /\ account'.resv.session = account.resv.session
        /\ account'.resv.expiry = (IF account.resv.expiry = "long" THEN "short" ELSE "over")
        /\ account'.writes = account.writes /\ account.writes \in Nat
    BY <1>1 DEF ConvergesInv, StripeTypes, Accounts, PageReservations
  <1>3. r \in 1..MaxReservations
    BY StripeAssumption DEF ReservationAges, PagesInv, ReservationKept
  <1>4. /\ sessions' \in [1..MaxReservations -> {"none", "open", "complete", "expired"}]
        /\ \A i \in 1..MaxReservations :
             sessions'[i] = IF i = r /\ account.resv.expiry = "short" /\ sessions[i] = "open"
                            THEN "expired" ELSE sessions[i]
        /\ UNCHANGED <<checkout, offered>> /\ account.resv.expiry # "over"
    BY <1>3 DEF PagesInv, ReservationAges
  <1>5. account.resv.expiry \in {"long", "short", "over"}
    BY DEF ConvergesInv, StripeTypes, Accounts, PageReservations
  <1>. HIDE DEF r
  <1>6. OnePageOpen'
    <2>1. Forgotten' \subseteq Forgotten
      BY <1>2, <1>4 DEF PagesInv, Forgotten, r
    <2>. QED  BY <1>2, <2>1, FewerForgotten
  <1>7. ReservationKept'
    BY <1>2, <1>3, <1>4, <1>5 DEF PagesInv, ReservationKept, r
  <1>8. \A t \in Tabs : TabKept(t)'
    BY <1>4 DEF PagesInv, TabKept
  <1>. QED  BY <1>4, <1>6, <1>7, <1>8 DEF PagesInv

\* A step of one request, which leaves the others alone: what it must show.
LEMMA TabPages ==
  ASSUME PagesInv, ConvergesInv, NEW t \in Tabs, NEW row \in Checkouts,
         checkout' = [checkout EXCEPT ![t] = row], TabKept(t)',
         sessions' \in [1..MaxReservations -> {"none", "open", "complete", "expired"}],
         \A id \in 1..MaxReservations :
           /\ sessions[id] # "none" => sessions'[id] # "none"
           /\ sessions[id] = "expired" => sessions'[id] = "expired",
         offered \subseteq offered', offered' \subseteq 1..MaxReservations,
         \A id \in offered' : sessions'[id] # "none",
         ReservationKept', Forgotten' \subseteq Forgotten,
         account'.writes = account.writes
  PROVE  PagesInv'
  <1>1. OnePageOpen'
    BY LastEventIsNat, FewerForgotten
  <1>2. ASSUME NEW v \in Tabs
        PROVE  TabKept(v)'
    <2>1. v # t => checkout'[v] = checkout[v]
      BY DEF ConvergesInv, StripeTypes
    <2>. QED  BY <2>1 DEF PagesInv, TabKept
  <1>. QED  BY <1>1, <1>2 DEF PagesInv

\* What is known of a request.
LEMMA AtTab ==
  ASSUME PagesInv, ConvergesInv, NEW t \in Tabs
  PROVE  /\ checkout[t] \in Checkouts /\ TabKept(t) /\ ReservationKept
         /\ account \in Accounts /\ account.resv \in PageReservations /\ account.writes \in Nat
         /\ sessions \in [1..MaxReservations -> {"none", "open", "complete", "expired"}]
         /\ offered \subseteq 1..MaxReservations /\ (\A id \in offered : sessions[id] # "none")
         /\ MaxReservations \in Nat
         /\ NoCheckout \in Checkouts /\ NoCheckout.stage = "idle"
         /\ \A row : checkout' = [checkout EXCEPT ![t] = row] => checkout'[t] = row
         /\ \A row \in Checkouts, stage \in {"again", "clear", "attach", "expire"} :
              [row EXCEPT !.stage = stage] \in Checkouts
  BY StripeAssumption
  DEF PagesInv, ConvergesInv, StripeTypes, Accounts, PageReservations, NoCheckout, Checkouts, Sources,
      NoSession

LEMMA ClaimPages ==
  ASSUME PagesInv, ConvergesInv, NEW t \in Tabs, ClaimCheckout(t)
  PROVE  PagesInv'
  <1>. DEFINE resv == Reserves(t)
              last == IF account.last > resv.id THEN account.last ELSE resv.id
              row == [stage |-> IF resv.session = NoSession THEN "create" ELSE "retrieve",
                      id |-> resv.id, session |-> resv.session, fence |-> resv.fence,
                      again |-> checkout[t].stage = "again"]
  <1>1. UNCHANGED <<sessions, offered>>
    BY DEF ClaimCheckout
  <1>2. CASE account' = account /\ checkout' = [checkout EXCEPT ![t] = NoCheckout]
    <2>1. Forgotten' \subseteq Forgotten /\ ReservationKept' /\ TabKept(t)'
      BY <1>1, <1>2, AtTab DEF Forgotten, ReservationKept, TabKept
    <2>. QED  BY <1>1, <1>2, <2>1, AtTab, TabPages
  <1>3. CASE resv.id <= MaxReservations /\ Takes(resv, last) /\ checkout' = [checkout EXCEPT ![t] = row]
    <2>1. /\ account \in Accounts /\ account.resv \in PageReservations /\ account.last \in Nat
          /\ PlanSource \in Sources
      BY AtTab DEF Accounts, PlanSource, Sources
    <2>2. resv \in PageReservations /\ resv.id \in Nat /\ last \in Nat
      BY <2>1 DEF Reserves, PageReservations, NoSession
    <2>3. row \in Checkouts
      BY <2>2 DEF Checkouts, PageReservations
    <2>4. account'.resv = resv /\ account'.writes = account.writes
      BY <1>3, <2>2, TakesAccount
    <2>5. \/ resv = account.resv /\ account.resv.expiry # "over"
          \/ /\ resv.id = account.last + 1 /\ resv.session = NoSession /\ resv.expiry = "long"
             /\ account.resv.expiry = "over"
      BY DEF Reserves
    <2>6. resv.id \in 1..MaxReservations
      BY <1>3, <2>1, <2>2, <2>5, AtTab DEF ReservationKept
    <2>7. ReservationKept'
      BY <1>1, <2>4, <2>5, <2>6, AtTab DEF ReservationKept
    <2>8. Forgotten' \subseteq Forgotten
      BY <1>1, <2>4, <2>5, AtTab DEF Forgotten, ReservationKept
    <2>9. TabKept(t)'
      <3>1. checkout'[t] = row
        BY <1>3, AtTab
      <3>2. row.stage \in {"create", "retrieve"} /\ row.id = resv.id /\ row.session = resv.session
            /\ (row.stage = "retrieve" => resv.session # NoSession)
        OBVIOUS
      <3>. QED  BY <1>1, <2>4, <2>6, <2>7, <3>1, <3>2 DEF TabKept, ReservationKept
    <2>. QED  BY <1>1, <1>3, <2>3, <2>4, <2>7, <2>8, <2>9, AtTab, TabPages
  <1>. QED  BY <1>2, <1>3 DEF ClaimCheckout, Takes

LEMMA RetrievePages ==
  ASSUME PagesInv, ConvergesInv, NEW t \in Tabs, RetrieveSession(t)
  PROVE  PagesInv'
  <1>1. UNCHANGED <<sessions, account>> /\ checkout[t].session \in offered
        /\ checkout[t].session = checkout[t].id
    BY AtTab DEF RetrieveSession, TabKept
  <1>2. offered' = offered
    BY <1>1 DEF RetrieveSession
  <1>3. Forgotten' \subseteq Forgotten /\ ReservationKept'
    BY <1>1, <1>2, AtTab DEF Forgotten, ReservationKept
  <1>4. CASE checkout' = [checkout EXCEPT ![t] = NoCheckout]
    <2>1. TabKept(t)'
      BY <1>4, AtTab DEF TabKept
    <2>. QED  BY <1>1, <1>2, <1>3, <1>4, <2>1, AtTab, TabPages
  <1>5. CASE At(t, "clear") /\ sessions[checkout[t].session] = "expired"
    <2>. DEFINE row == [checkout[t] EXCEPT !.stage = "clear"]
    <2>1. checkout' = [checkout EXCEPT ![t] = row] /\ row \in Checkouts
      BY <1>5, AtTab DEF At
    <2>2. row.stage = "clear" /\ row.session = checkout[t].session /\ row.id = checkout[t].id
      BY AtTab DEF Checkouts
    <2>. HIDE DEF row
    <2>3. TabKept(t)'
      BY <1>1, <1>2, <1>5, <2>1, <2>2, AtTab DEF TabKept
    <2>. QED  BY <1>1, <1>2, <1>3, <2>1, <2>3, AtTab, TabPages
  <1>. QED  BY <1>4, <1>5 DEF RetrieveSession

LEMMA ClearPages ==
  ASSUME PagesInv, ConvergesInv, NEW t \in Tabs, ClearReservation(t)
  PROVE  PagesInv'
  <1>1. UNCHANGED <<sessions, offered>> /\ sessions[checkout[t].id] = "expired"
    BY AtTab DEF ClearReservation, TabKept
  <1>2. PICK row \in Checkouts : checkout' = [checkout EXCEPT ![t] = row] /\ row.stage \in {"idle", "again"}
    <2>1. /\ [NoCheckout EXCEPT !.stage = "again"] \in Checkouts
          /\ [NoCheckout EXCEPT !.stage = "again"].stage = "again"
      BY AtTab DEF NoCheckout
    <2>. QED  BY <2>1, AtTab DEF ClearReservation
  <1>3. TabKept(t)'
    BY <1>2, AtTab DEF TabKept
  <1>4. \/ account' = account
        \/ /\ account'.resv = NoReservations /\ account'.writes = account.writes
           /\ account.resv.id = checkout[t].id
    BY AtTab DEF ClearReservation, Accounts
  <1>5. Forgotten' \subseteq Forgotten
    BY <1>1, <1>4 DEF Forgotten
  <1>6. ReservationKept'
    BY <1>1, <1>4, AtTab DEF ReservationKept, NoReservations, NoSession
  <1>. QED  BY <1>1, <1>2, <1>3, <1>4, <1>5, <1>6, AtTab, TabPages

LEMMA CreatePages ==
  ASSUME PagesInv, ConvergesInv, NEW t \in Tabs, CreateSession(t)
  PROVE  PagesInv'
  <1>. DEFINE id == checkout[t].id
  <1>1. UNCHANGED <<account, offered>> /\ id \in 1..MaxReservations /\ checkout[t].stage = "create"
    BY AtTab DEF CreateSession, TabKept
  <1>2. CASE checkout' = [checkout EXCEPT ![t] = NoCheckout] /\ sessions' = sessions
    <2>1. Forgotten' \subseteq Forgotten /\ ReservationKept' /\ TabKept(t)'
      BY <1>1, <1>2, AtTab DEF Forgotten, ReservationKept, TabKept
    <2>. QED  BY <1>1, <1>2, <2>1, AtTab, TabPages
  <1>3. CASE /\ sessions[id] # "none" \/ (account.resv.id = id /\ account.resv.expiry = "long")
             /\ sessions' = [sessions EXCEPT ![id] = IF @ = "none" THEN "open" ELSE @]
             /\ At(t, "attach")
    <2>. DEFINE row == [checkout[t] EXCEPT !.stage = "attach"]
    <2>1. checkout' = [checkout EXCEPT ![t] = row] /\ row \in Checkouts
      BY <1>3, AtTab DEF At
    <2>2. row.stage = "attach" /\ row.id = id
      BY AtTab DEF Checkouts
    <2>3. /\ sessions' \in [1..MaxReservations -> {"none", "open", "complete", "expired"}]
          /\ \A i \in 1..MaxReservations :
               sessions'[i] = IF i = id /\ sessions[i] = "none" THEN "open" ELSE sessions[i]
      BY <1>1, <1>3, AtTab
    <2>. HIDE DEF row
    <2>4. TabKept(t)'
      BY <1>1, <2>1, <2>2, <2>3, AtTab DEF TabKept
    <2>5. Forgotten' \subseteq Forgotten
      BY <1>1, <1>3, <2>3, AtTab DEF Forgotten
    <2>6. ReservationKept'
      BY <1>1, <1>3, <2>3, AtTab DEF ReservationKept
    <2>7. \A i \in offered' : sessions'[i] # "none"
      BY <1>1, <2>3, AtTab
    <2>. QED  BY <1>1, <2>1, <2>3, <2>4, <2>5, <2>6, <2>7, AtTab, TabPages
  <1>. QED  BY <1>2, <1>3 DEF CreateSession

LEMMA AttachPages ==
  ASSUME PagesInv, ConvergesInv, NEW t \in Tabs, AttachSession(t)
  PROVE  PagesInv'
  <1>. DEFINE id == checkout[t].id
  <1>1. sessions' = sessions /\ id \in 1..MaxReservations /\ sessions[id] # "none"
    BY AtTab DEF AttachSession, TabKept
  <1>2. CASE /\ MayAttach(t) /\ account' = [account EXCEPT !.resv.session = id]
             /\ offered' = offered \cup {id} /\ checkout' = [checkout EXCEPT ![t] = NoCheckout]
    <2>1. /\ account'.resv.id = account.resv.id /\ account'.resv.session = id
          /\ account'.resv.expiry = account.resv.expiry /\ account'.writes = account.writes
          /\ account.resv.id = id
      BY <1>2, AtTab DEF MayAttach, Accounts, PageReservations
    <2>2. TabKept(t)'
      BY <1>2, AtTab DEF TabKept
    <2>3. Forgotten' \subseteq Forgotten
      BY <1>1, <1>2, <2>1 DEF Forgotten
    <2>4. ReservationKept'
      BY <1>1, <1>2, <2>1, AtTab DEF ReservationKept
    <2>. QED  BY <1>1, <1>2, <2>1, <2>2, <2>3, <2>4, AtTab, TabPages
  <1>3. CASE At(t, "expire") /\ UNCHANGED <<account, offered>>
    <2>. DEFINE row == [checkout[t] EXCEPT !.stage = "expire"]
    <2>1. checkout' = [checkout EXCEPT ![t] = row] /\ row \in Checkouts
      BY <1>3, AtTab DEF At
    <2>2. row.stage = "expire" /\ row.id = id
      BY AtTab DEF Checkouts
    <2>. HIDE DEF row
    <2>3. TabKept(t)'
      BY <1>1, <2>1, <2>2, AtTab DEF TabKept
    <2>4. Forgotten' \subseteq Forgotten /\ ReservationKept'
      BY <1>1, <1>3, AtTab DEF Forgotten, ReservationKept
    <2>. QED  BY <1>1, <1>3, <2>1, <2>3, <2>4, AtTab, TabPages
  <1>. QED  BY <1>2, <1>3 DEF AttachSession

LEMMA ExpirePages ==
  ASSUME PagesInv, ConvergesInv, NEW t \in Tabs, ExpireSession(t) \/ CheckoutStops(t)
  PROVE  PagesInv'
  <1>. DEFINE id == checkout[t].id
  <1>1. UNCHANGED <<account, offered>> /\ checkout' = [checkout EXCEPT ![t] = NoCheckout]
    BY DEF ExpireSession, CheckoutStops
  <1>2. \A i \in 1..MaxReservations :
          sessions'[i] = sessions[i] \/ (sessions[i] = "open" /\ sessions'[i] = "expired")
    BY AtTab DEF ExpireSession, CheckoutStops, TabKept
  <1>3. sessions' \in [1..MaxReservations -> {"none", "open", "complete", "expired"}]
    BY AtTab DEF ExpireSession, CheckoutStops, TabKept
  <1>4. TabKept(t)'
    BY <1>1, AtTab DEF TabKept
  <1>5. Forgotten' \subseteq Forgotten
    BY <1>1, <1>2, AtTab DEF Forgotten
  <1>6. ReservationKept'
    BY <1>1, <1>2, AtTab DEF ReservationKept
  <1>7. \A i \in offered' : sessions'[i] # "none"
    BY <1>1, <1>2, AtTab
  <1>. QED  BY <1>1, <1>2, <1>3, <1>4, <1>5, <1>6, <1>7, AtTab, TabPages

\* An event clears the reservation, and its page may be open.
LEMMA ApplyPages ==
  ASSUME PagesInv, ConvergesInv, NEW h \in Hooks, ApplyEvent(h)
  PROVE  PagesInv'
  <1>1. UNCHANGED <<sessions, offered, checkout>>
    BY DEF ApplyEvent
  <1>2. CASE account' = account
    BY <1>1, <1>2, QuietPages
  <1>3. CASE account' # account
    <2>. DEFINE e == hook[h].event
    <2>1. account' = [account EXCEPT !.contract = events[e].contract, !.status = hook[h].status,
                                     !.lastEvent = e, !.resv = NoReservations, !.writes = @ + 1]
      BY <1>3 DEF ApplyEvent
    <2>2. account \in Accounts /\ account.writes \in Nat
      BY LastEventIsNat
    <2>8. account'.writes = account.writes + 1 /\ account'.resv = NoReservations
      BY <2>1, <2>2 DEF Accounts
    <2>3. Forgotten' \subseteq Forgotten \cup {account.resv.id}
      BY <1>1 DEF Forgotten
    <2>4. OnePageOpen'
      BY <2>2, <2>3, <2>8, OneForgotten
    <2>5. ReservationKept'
      BY <2>8, StripeAssumption DEF ReservationKept, NoReservations, NoSession
    <2>. QED  BY <1>1, <2>4, <2>5 DEF PagesInv, TabKept
  <1>. QED  BY <1>2, <1>3

LEMMA PagesStep == PagesInv /\ ConvergesInv /\ StripeNext => PagesInv'
  <1>. SUFFICES ASSUME PagesInv, ConvergesInv, StripeNext
                PROVE  PagesInv'
    OBVIOUS
  <1>1. ASSUME Grant \/ (\E c \in DOMAIN contracts : Renews(c) \/ Cancels(c))
               \/ (\E h \in Hooks : \/ ReadContract(h) \/ MarkEvent(h) \/ HookFails(h)
                                    \/ \E e \in DOMAIN events : ClaimEvent(h, e))
               \/ (\E e \in DOMAIN events : LeaseExpires(e))
        PROVE  PagesInv'
    <2>1. UNCHANGED <<sessions, offered, checkout, account>>
      BY <1>1 DEF Grant, Renews, Cancels, ReadContract, MarkEvent, HookFails, ClaimEvent, LeaseExpires
    <2>. QED  BY <2>1, QuietPages
  <1>. QED  BY <1>1, PaysPages, AgesPages, ClaimPages, RetrievePages, ClearPages, CreatePages, AttachPages,
               ExpirePages, ApplyPages DEF StripeNext

\* When every event has been handled, the account says of the contract what
\* Stripe says; and a request leaves the user no second open page, but for those
\* that an event left behind (createStripeCheckoutSession, applyStripeSubscription,
\* markStripeSubscriptionDeleted, claimStripeWebhookEvent).
THEOREM StripeKept == StripeSpec => []StripeHolds
  <1>1. StripeInit => ConvergesInv /\ PagesInv
    BY ConvergesAtFirst, PagesAtFirst
  <1>2. ConvergesInv /\ PagesInv /\ [StripeNext]_stripeVars => (ConvergesInv /\ PagesInv)'
    BY ConvergesStep, ConvergesStutter, PagesStep, QuietPages DEF stripeVars
  <1>3. ConvergesInv /\ PagesInv => StripeHolds
    BY ConvergesImplies DEF PagesInv, StripeHolds
  <1>. QED  BY <1>1, <1>2, <1>3, PTL DEF StripeSpec

-----------------------------------------------------------------------------
(* The weekly puzzle.                                                      *)

RunRows == [key : Nat, scope : {"FULL", "INGEST", "ANALYSIS"},
            status : {"QUEUED", "RUNNING", "FAILED", "SUCCEEDED"}, attempts : Nat,
            holder : Masters \cup {0}, claims : Nat, live : BOOLEAN]
Shifts == [stage : {"none", "fetch", "analyse", "store", "receipt", "slot", "choose", "publish", "finish"},
           run : Nat, todo : SUBSET MasterCandidates, tried : BOOLEAN, done : BOOLEAN,
           pick : MasterCandidates \cup {0}]
CandidateRows == [status : {"none", "ELIGIBLE", "REJECTED", "PUBLISHED"}, receipt : BOOLEAN,
                  seen : BOOLEAN, available : BOOLEAN]
SlotRows == [current : MasterCandidates \cup {0}, fallback : MasterCandidates \cup {0}]

MasterTypes ==
  /\ runs \in Seq(RunRows)
  /\ master \in [Masters -> Shifts]
  /\ candidate \in [MasterCandidates -> CandidateRows]
  /\ slot \in SlotRows /\ shownSoFar \in Seq(MasterCandidates) /\ week \in Nat

\* Who is at work has a run; who writes a receipt has stored the candidate before.
ShiftOK(k) ==
  /\ IF k.stage = "none" THEN k = NoShift ELSE k.run \in DOMAIN runs
  /\ k.stage \in {"store", "receipt", "publish"} => k.pick \in MasterCandidates
  /\ k.stage = "receipt" => candidate[k.pick].status # "none"

SlotKept ==
  LET n == Len(shownSoFar) IN
  IF shownSoFar = <<>> THEN slot.current = 0 /\ slot.fallback = 0
  ELSE /\ slot.current = shownSoFar[n]
       /\ slot.fallback = IF n = 1 THEN slot.current ELSE shownSoFar[n - 1]

MasterInv ==
  /\ MasterTypes /\ SlotKept /\ AnalysedIsKept
  /\ \A m \in Masters : ShiftOK(master[m])

\* What a step may do to the runs, the candidates and the slot.
RunsGrow == runs' \in Seq(RunRows) /\ DOMAIN runs \subseteq DOMAIN runs'
CandidatesGrow ==
  /\ candidate' \in [MasterCandidates -> CandidateRows] /\ AnalysedIsKept'
  /\ \A c \in MasterCandidates : candidate[c].status # "none" => candidate'[c].status # "none"
SlotMoves ==
  slot' \in SlotRows /\ shownSoFar' \in Seq(MasterCandidates) /\ SlotKept'

LEMMA MasterRested ==
  ASSUME MasterInv
  PROVE  /\ UNCHANGED runs => RunsGrow
         /\ UNCHANGED candidate => CandidatesGrow
         /\ UNCHANGED <<slot, shownSoFar>> => SlotMoves
<1>1. UNCHANGED runs => RunsGrow
  BY DEF MasterInv, MasterTypes, RunsGrow
<1>2. UNCHANGED candidate => CandidatesGrow
  BY DEF MasterInv, MasterTypes, CandidatesGrow, AnalysedIsKept
<1>3. UNCHANGED <<slot, shownSoFar>> => SlotMoves
  BY DEF MasterInv, MasterTypes, SlotMoves, SlotKept
<1> QED BY <1>1, <1>2, <1>3

\* A step of the others.
LEMMA OthersStep ==
  ASSUME MasterInv, RunsGrow, CandidatesGrow, SlotMoves, week' \in Nat, UNCHANGED master
  PROVE  MasterInv'
<1>1. MasterTypes'
  BY DEF MasterInv, MasterTypes, RunsGrow, CandidatesGrow, SlotMoves
<1>2. ASSUME NEW m \in Masters PROVE ShiftOK(master[m])'
  <2>1. ShiftOK(master[m]) /\ master' = master
    BY DEF MasterInv
  <2> QED BY <2>1 DEF ShiftOK, RunsGrow, CandidatesGrow
<1> QED BY <1>1, <1>2 DEF MasterInv, SlotMoves, CandidatesGrow

\* A step of a worker.
LEMMA WorkerStep ==
  ASSUME MasterInv, RunsGrow, CandidatesGrow, SlotMoves, UNCHANGED week,
         NEW m \in Masters, NEW k \in Shifts, master' = [master EXCEPT ![m] = k],
         IF k.stage = "none" THEN k = NoShift ELSE k.run \in DOMAIN runs',
         k.stage \in {"store", "receipt", "publish"} => k.pick \in MasterCandidates,
         k.stage = "receipt" => candidate'[k.pick].status # "none"
  PROVE  MasterInv'
<1>1. /\ master' \in [Masters -> Shifts] /\ master'[m] = k
      /\ \A n \in Masters : n # m => master'[n] = master[n]
  BY DEF MasterInv, MasterTypes
<1>2. MasterTypes'
  BY <1>1 DEF MasterInv, MasterTypes, RunsGrow, CandidatesGrow, SlotMoves
<1>3. ASSUME NEW n \in Masters PROVE ShiftOK(master[n])'
  <2>1. CASE n = m
    BY <1>1, <2>1 DEF ShiftOK
  <2>2. CASE n # m
    <3>1. ShiftOK(master[n]) /\ master'[n] = master[n]
      BY <1>1, <2>2 DEF MasterInv
    <3> QED BY <3>1 DEF ShiftOK, RunsGrow, CandidatesGrow
  <2> QED BY <2>1, <2>2
<1> QED BY <1>2, <1>3 DEF MasterInv, SlotMoves, CandidatesGrow

LEMMA ShiftOf ==
  ASSUME MasterInv, NEW m \in Masters
  PROVE  /\ master[m] \in Shifts /\ ShiftOK(master[m])
         /\ master[m].stage # "none" => master[m].run \in DOMAIN runs
         /\ master[m] # NoShift => master[m].run \in DOMAIN runs /\ master[m].stage # "none"
  BY DEF MasterInv, MasterTypes, ShiftOK

LEMMA NoShiftIs == NoShift \in Shifts /\ NoShift.stage = "none"
  BY DEF NoShift, Shifts

LEMMA GoesToStep ==
  ASSUME MasterInv, RunsGrow, CandidatesGrow, SlotMoves, UNCHANGED week,
         NEW m \in Masters, master[m].stage # "none",
         NEW stage \in {"fetch", "analyse", "slot", "choose", "finish"}, GoesTo(m, stage)
  PROVE  MasterInv'
<1> DEFINE k == [master[m] EXCEPT !.stage = stage]
<1>1. master[m] \in Shifts /\ master[m].run \in DOMAIN runs'
  BY ShiftOf DEF RunsGrow
<1>2. k \in Shifts /\ k.stage = stage /\ k.run = master[m].run
  BY <1>1 DEF Shifts
<1>3. master' = [master EXCEPT ![m] = k]
  BY DEF GoesTo, MasterInv, MasterTypes
<1> HIDE DEF k
<1> QED BY <1>1, <1>2, <1>3, WorkerStep

LEMMA RunWritten ==
  ASSUME MasterInv, NEW r \in DOMAIN runs, NEW row \in RunRows, runs' = [runs EXCEPT ![r] = row]
  PROVE  RunsGrow
<1>1. runs \in Seq(RunRows)
  BY DEF MasterInv, MasterTypes
<1> QED BY <1>1, Updated DEF RunsGrow

LEMMA RunAdded ==
  ASSUME MasterInv, NEW key \in Nat, NEW scope \in {"FULL", "INGEST", "ANALYSIS"},
         runs' = Append(runs, NewRunOf(key, scope))
  PROVE  RunsGrow
<1>1. NewRunOf(key, scope) \in RunRows /\ runs \in Seq(RunRows)
  BY DEF NewRunOf, RunRows, MasterInv, MasterTypes
<1> HIDE DEF RunRows
<1>2. /\ Append(runs, NewRunOf(key, scope)) \in Seq(RunRows)
      /\ Len(Append(runs, NewRunOf(key, scope))) = Len(runs) + 1
  BY <1>1, AppendProperties
<1>3. DOMAIN runs = 1..Len(runs) /\ Len(runs) \in Nat /\ DOMAIN runs' = 1..(Len(runs) + 1)
  BY <1>1, <1>2, LenProperties
<1> QED BY <1>2, <1>3 DEF RunsGrow

LEMMA RunOf ==
  ASSUME MasterInv, NEW r \in DOMAIN runs
  PROVE  runs[r] \in RunRows /\ r \in Nat
<1>1. runs \in Seq(RunRows)
  BY DEF MasterInv, MasterTypes
<1>2. DOMAIN runs = 1..Len(runs)
  BY <1>1, LenProperties
<1> QED BY <1>1, <1>2, SeqRows

\* A worker that fails, or has finished, rests.
LEMMA RestsStep ==
  ASSUME MasterInv, RunsGrow, CandidatesGrow, SlotMoves, UNCHANGED week,
         NEW m \in Masters, master' = [master EXCEPT ![m] = NoShift]
  PROVE  MasterInv'
  BY NoShiftIs, WorkerStep

LEMMA FailsStep ==
  ASSUME MasterInv, CandidatesGrow, SlotMoves, UNCHANGED week,
         NEW m \in Masters, master[m] # NoShift, RunFails(m)
  PROVE  MasterInv'
<1>1. master[m].run \in DOMAIN runs
  BY ShiftOf
<1> DEFINE r == master[m].run
           row == [runs[r] EXCEPT !.status = "FAILED", !.holder = 0, !.live = FALSE]
<1>2. runs[r] \in RunRows
  BY <1>1, RunOf
<1>3. row \in RunRows
  BY <1>2 DEF RunRows
<1>4. runs' = [runs EXCEPT ![r] = row] \/ runs' = runs
  BY <1>1 DEF RunFails
<1> HIDE DEF row
<1>5. RunsGrow
  BY <1>1, <1>3, <1>4, RunWritten, MasterRested
<1>6. master' = [master EXCEPT ![m] = NoShift]
  BY DEF RunFails
<1> QED BY <1>5, <1>6, RestsStep

-----------------------------------------------------------------------------
\* Planning.

LEMMA PlansStep == ASSUME MasterInv, PlansWeek PROVE MasterInv'
<1>1. /\ UNCHANGED <<master, candidate, slot, shownSoFar, week>>
      /\ \/ \E r \in DOMAIN runs : runs' = [runs EXCEPT ![r].status = "QUEUED", ![r].holder = 0,
                                                        ![r].live = FALSE]
         \/ UNCHANGED runs
         \/ runs' = Append(runs, NewRunOf(week, "FULL"))
  BY DEF PlansWeek
<1>2. week \in Nat /\ runs \in Seq(RunRows)
  BY DEF MasterInv, MasterTypes
<1>3. ASSUME NEW r \in DOMAIN runs,
             runs' = [runs EXCEPT ![r].status = "QUEUED", ![r].holder = 0, ![r].live = FALSE]
      PROVE  RunsGrow
  <2> DEFINE row == [runs[r] EXCEPT !.status = "QUEUED", !.holder = 0, !.live = FALSE]
  <2>1. runs[r] \in RunRows
    BY RunOf
  <2>2. row \in RunRows
    BY <2>1 DEF RunRows
  <2>3. runs' = [runs EXCEPT ![r] = row]
    BY <1>2, <1>3, <2>1 DEF RunRows
  <2> HIDE DEF row
  <2> QED BY <2>2, <2>3, RunWritten
<1>4. ASSUME runs' = Append(runs, NewRunOf(week, "FULL")) PROVE RunsGrow
  <2>1. PICK scope \in {"FULL", "INGEST", "ANALYSIS"} : runs' = Append(runs, NewRunOf(week, scope))
    BY <1>4, Zenon
  <2> QED BY <1>2, <2>1, RunAdded
<1>5. RunsGrow
  <2>1. CASE \E r \in DOMAIN runs : runs' = [runs EXCEPT ![r].status = "QUEUED", ![r].holder = 0,
                                                         ![r].live = FALSE]
    BY <1>3, <2>1
  <2>2. CASE UNCHANGED runs
    BY <2>2, MasterRested
  <2>3. CASE runs' = Append(runs, NewRunOf(week, "FULL"))
    BY <1>4, <2>3, Zenon
  <2> QED BY <1>1, <2>1, <2>2, <2>3, Zenon
<1> QED BY <1>1, <1>2, <1>5, MasterRested, OthersStep

LEMMA ForcesStep ==
  ASSUME MasterInv, NEW scope \in {"FULL", "INGEST", "ANALYSIS"}, ForcesRun(scope) PROVE MasterInv'
<1>1. /\ UNCHANGED <<master, candidate, slot, shownSoFar, week>>
      /\ runs' = Append(runs, NewRunOf(0, scope))
  BY DEF ForcesRun
<1>2. week \in Nat
  BY DEF MasterInv, MasterTypes
<1>3. RunsGrow
  BY <1>1, RunAdded
<1> QED BY <1>1, <1>2, <1>3, MasterRested, OthersStep

LEMMA RunLeaseEndsStep ==
  ASSUME MasterInv, NEW r \in DOMAIN runs, NEW live \in BOOLEAN,
         runs' = [runs EXCEPT ![r].live = live],
         UNCHANGED <<master, candidate, slot, shownSoFar, week>>
  PROVE  MasterInv'
<1> DEFINE row == [runs[r] EXCEPT !.live = live]
<1>1. runs[r] \in RunRows
  BY RunOf
<1>2. row \in RunRows
  BY <1>1 DEF RunRows
<1>3. runs' = [runs EXCEPT ![r] = row]
  BY <1>1
<1> HIDE DEF row
<1>4. RunsGrow /\ week \in Nat
  BY <1>2, <1>3, RunWritten DEF MasterInv, MasterTypes
<1> QED BY <1>4, MasterRested, OthersStep

-----------------------------------------------------------------------------
\* The workers.

LEMMA ClaimsStep ==
  ASSUME MasterInv, NEW m \in Masters, NEW r \in DOMAIN runs, ClaimsRun(m, r) PROVE MasterInv'
<1>1. UNCHANGED <<candidate, slot, shownSoFar, week>>
  BY DEF ClaimsRun
<1>2. CASE ~ClaimableRun(r)
  <2>1. UNCHANGED <<runs, master>> /\ week \in Nat
    BY <1>2 DEF ClaimsRun, MasterInv, MasterTypes
  <2> QED BY <1>1, <2>1, MasterRested, OthersStep
<1>3. CASE ClaimableRun(r)
  <2> DEFINE attempts == runs[r].attempts + 1
             claims == runs[r].claims + 1
             row == [runs[r] EXCEPT !.status = "RUNNING", !.holder = m, !.live = TRUE,
                                    !.attempts = attempts, !.claims = claims]
             k == [NoShift EXCEPT !.stage = "fetch", !.run = r]
  <2>1. runs[r] \in RunRows /\ r \in Nat
    BY RunOf
  <2>a. attempts \in Nat /\ claims \in Nat
    BY <2>1 DEF RunRows
  <2>3. runs' = [runs EXCEPT ![r] = row]
    BY <1>3, <2>1 DEF ClaimsRun, RunRows
  <2> HIDE DEF attempts, claims
  <2>2. row \in RunRows
    BY <2>1, <2>a DEF RunRows
  <2>4. k \in Shifts /\ k.stage = "fetch" /\ k.run = r
    BY <2>1 DEF NoShift, Shifts
  <2>5. master' = [master EXCEPT ![m] = k]
    BY <1>3 DEF ClaimsRun
  <2> HIDE DEF row, k
  <2>6. RunsGrow
    BY <2>2, <2>3, RunWritten
  <2>7. k.run \in DOMAIN runs'
    BY <2>4, <2>6 DEF RunsGrow
  <2> QED BY <1>1, <2>4, <2>5, <2>6, <2>7, MasterRested, WorkerStep
<1> QED BY <1>2, <1>3

LEMMA FetchesStep ==
  ASSUME MasterInv, NEW m \in Masters, FetchesGames(m) PROVE MasterInv'
<1>1. master[m].stage = "fetch" /\ UNCHANGED <<slot, shownSoFar, week>>
  BY DEF FetchesGames
<1>2. PICK found \in SUBSET MasterCandidates :
        /\ \/ UNCHANGED candidate
           \/ candidate' = [c \in MasterCandidates |->
                              IF c \in found THEN Discovered(c) ELSE candidate[c]]
        /\ \/ /\ \E todo \in {found, {}} :
                   master' = [master EXCEPT ![m].stage = "analyse", ![m].todo = todo]
              /\ UNCHANGED runs
           \/ RunFails(m)
  BY DEF FetchesGames
<1>3. CandidatesGrow
  <2>1. CASE UNCHANGED candidate
    BY <2>1, MasterRested
  <2>2. CASE candidate' = [c \in MasterCandidates |-> IF c \in found THEN Discovered(c) ELSE candidate[c]]
    <3>1. \A c \in MasterCandidates :
            /\ candidate[c] \in CandidateRows /\ Discovered(c) \in CandidateRows
            /\ Discovered(c).status = candidate[c].status /\ Discovered(c).receipt = candidate[c].receipt
      BY DEF MasterInv, MasterTypes, Discovered, CandidateRows
    <3>2. /\ candidate' \in [MasterCandidates -> CandidateRows]
          /\ \A c \in MasterCandidates : candidate'[c].status = candidate[c].status
                                         /\ candidate'[c].receipt = candidate[c].receipt
      BY <2>2, <3>1
    <3>3. DOMAIN candidate = MasterCandidates /\ DOMAIN candidate' = MasterCandidates
      BY <3>2 DEF MasterInv, MasterTypes
    <3> QED BY <3>2, <3>3 DEF CandidatesGrow, AnalysedIsKept, MasterInv
  <2> QED BY <1>2, <2>1, <2>2
<1>4. ASSUME NEW todo \in SUBSET MasterCandidates, UNCHANGED runs,
             master' = [master EXCEPT ![m].stage = "analyse", ![m].todo = todo]
      PROVE  MasterInv'
  <2> DEFINE k == [master[m] EXCEPT !.stage = "analyse", !.todo = todo]
  <2>1. master[m] \in Shifts /\ master[m].run \in DOMAIN runs
    BY <1>1, ShiftOf
  <2>2. k \in Shifts /\ k.stage = "analyse" /\ k.run = master[m].run
    BY <2>1 DEF Shifts
  <2>3. master' = [master EXCEPT ![m] = k]
    BY <1>4, <2>1 DEF Shifts, MasterInv, MasterTypes
  <2> HIDE DEF k
  <2> QED BY <1>1, <1>3, <1>4, <2>1, <2>2, <2>3, MasterRested, WorkerStep
<1>5. CASE RunFails(m)
  <2>1. master[m] # NoShift
    BY <1>1, NoShiftIs
  <2> QED BY <1>1, <1>3, <1>5, <2>1, MasterRested, FailsStep
<1> QED BY <1>2, <1>4, <1>5

LEMMA AnalysesStep ==
  ASSUME MasterInv, NEW m \in Masters, NEW c \in MasterCandidates, AnalysesNext(m, c) PROVE MasterInv'
<1>1. /\ master[m].stage = "analyse" /\ UNCHANGED <<runs, candidate, slot, shownSoFar, week>>
      /\ master[m] \in Shifts /\ master[m].run \in DOMAIN runs
  BY ShiftOf DEF AnalysesNext
<1>2. CASE master' = [master EXCEPT ![m].todo = @ \ {c}]
  <2> DEFINE k == [master[m] EXCEPT !.todo = master[m].todo \ {c}]
  <2>1. k \in Shifts /\ k.stage = "analyse" /\ k.run = master[m].run
    BY <1>1 DEF Shifts
  <2>2. master' = [master EXCEPT ![m] = k]
    BY <1>2 DEF MasterInv, MasterTypes
  <2> HIDE DEF k
  <2> QED BY <1>1, <2>1, <2>2, MasterRested, WorkerStep
<1>3. ASSUME NEW stage \in {"analyse", "store"},
             master' = [master EXCEPT ![m].todo = @ \ {c}, ![m].tried = TRUE,
                                      ![m].stage = stage, ![m].pick = c]
      PROVE  MasterInv'
  <2> DEFINE k == [master[m] EXCEPT !.todo = master[m].todo \ {c}, !.tried = TRUE, !.stage = stage,
                                    !.pick = c]
  <2>1. k \in Shifts /\ k.stage = stage /\ k.run = master[m].run /\ k.pick = c
    BY <1>1 DEF Shifts
  <2>2. master' = [master EXCEPT ![m] = k]
    BY <1>1, <1>3 DEF MasterInv, MasterTypes, Shifts
  <2> HIDE DEF k
  <2> QED BY <1>1, <2>1, <2>2, MasterRested, WorkerStep
<1> QED BY <1>2, <1>3 DEF AnalysesNext

\* What is written of one candidate.
LEMMA CandidateWritten ==
  ASSUME MasterInv, NEW c \in MasterCandidates, NEW row \in CandidateRows,
         candidate' = [candidate EXCEPT ![c] = row],
         candidate[c].status # "none" => row.status # "none", row.receipt => row.status # "none"
  PROVE  CandidatesGrow /\ candidate'[c] = row
<1>1. /\ candidate' \in [MasterCandidates -> CandidateRows] /\ candidate'[c] = row
      /\ \A d \in MasterCandidates : d # c => candidate'[d] = candidate[d]
      /\ DOMAIN candidate' = MasterCandidates /\ DOMAIN candidate = MasterCandidates
  BY DEF MasterInv, MasterTypes
<1> QED BY <1>1 DEF CandidatesGrow, AnalysedIsKept, MasterInv

LEMMA StoresStep ==
  ASSUME MasterInv, NEW m \in Masters, StoresCandidate(m) PROVE MasterInv'
<1>1. /\ master[m].stage = "store" /\ UNCHANGED <<runs, slot, shownSoFar, week>>
      /\ master[m] \in Shifts /\ master[m].run \in DOMAIN runs /\ master[m].pick \in MasterCandidates
  BY ShiftOf DEF StoresCandidate, ShiftOK
<1> DEFINE c == master[m].pick
           k == [master[m] EXCEPT !.stage = "receipt"]
<1>2. candidate[c] \in CandidateRows
  BY <1>1 DEF MasterInv, MasterTypes
<1>3. /\ Stored(c) \in CandidateRows /\ Stored(c).status # "none"
      /\ candidate' = [candidate EXCEPT ![c] = Stored(c)]
  BY <1>2 DEF Stored, Judged, CandidateRows, StoresCandidate
<1>4. k \in Shifts /\ k.stage = "receipt" /\ k.run = master[m].run /\ k.pick = c
  BY <1>1 DEF Shifts
<1>5. master' = [master EXCEPT ![m] = k]
  BY DEF StoresCandidate, GoesTo, MasterInv, MasterTypes
<1> HIDE DEF c, k
<1>6. c \in MasterCandidates
  BY <1>1 DEF c
<1>7. CandidatesGrow /\ candidate'[c] = Stored(c)
  BY <1>3, <1>6, CandidateWritten
<1> QED BY <1>1, <1>3, <1>4, <1>5, <1>6, <1>7, MasterRested, WorkerStep

LEMMA ReceiptStep ==
  ASSUME MasterInv, NEW m \in Masters, StoresReceipt(m) PROVE MasterInv'
<1>1. /\ master[m].stage = "receipt" /\ UNCHANGED <<runs, slot, shownSoFar, week>>
      /\ master[m] \in Shifts /\ master[m].run \in DOMAIN runs /\ master[m].pick \in MasterCandidates
      /\ candidate[master[m].pick].status # "none"
  BY ShiftOf DEF StoresReceipt, ShiftOK
<1> DEFINE c == master[m].pick
           k == [master[m] EXCEPT !.stage = "analyse", !.done = TRUE]
           row == [candidate[c] EXCEPT !.receipt = TRUE]
<1>2. candidate[c] \in CandidateRows
  BY <1>1 DEF MasterInv, MasterTypes
<1>3. row \in CandidateRows /\ row.status # "none"
  BY <1>1, <1>2 DEF CandidateRows
<1>4. candidate' = [candidate EXCEPT ![c] = row]
  BY <1>1 DEF StoresReceipt, MasterInv, MasterTypes
<1>5. k \in Shifts /\ k.stage = "analyse" /\ k.run = master[m].run
  BY <1>1 DEF Shifts
<1>6. master' = [master EXCEPT ![m] = k]
  BY <1>1 DEF StoresReceipt, MasterInv, MasterTypes, Shifts
<1> HIDE DEF k, row
<1>7. CandidatesGrow
  BY <1>1, <1>3, <1>4, CandidateWritten
<1> QED BY <1>1, <1>5, <1>6, <1>7, MasterRested, WorkerStep

LEMMA EndsStep ==
  ASSUME MasterInv, NEW m \in Masters, EndsAnalysis(m) PROVE MasterInv'
<1>1. master[m].stage = "analyse" /\ UNCHANGED <<candidate, slot, shownSoFar, week>>
  BY DEF EndsAnalysis
<1>2. \/ (GoesTo(m, "finish") \/ GoesTo(m, "slot")) /\ UNCHANGED runs
      \/ RunFails(m)
  BY DEF EndsAnalysis
<1>3. master[m] # NoShift
  BY <1>1, NoShiftIs
<1> QED BY <1>1, <1>2, <1>3, MasterRested, GoesToStep, FailsStep

LEMMA FinishesStep ==
  ASSUME MasterInv, NEW m \in Masters, FinishesRun(m) PROVE MasterInv'
<1>1. /\ master[m].stage = "finish" /\ UNCHANGED <<candidate, slot, shownSoFar, week>>
      /\ master[m].run \in DOMAIN runs /\ master[m] # NoShift
  BY ShiftOf, NoShiftIs DEF FinishesRun
<1> DEFINE r == master[m].run
           row == [runs[r] EXCEPT !.status = "SUCCEEDED", !.holder = 0, !.live = FALSE]
<1>2. CASE RunFails(m)
  BY <1>1, <1>2, MasterRested, FailsStep
<1>3. CASE HoldsRun(m)
  <2>1. runs[r] \in RunRows
    BY <1>1, RunOf
  <2>2. row \in RunRows
    BY <2>1 DEF RunRows
  <2>3. runs' = [runs EXCEPT ![r] = row] /\ master' = [master EXCEPT ![m] = NoShift]
    BY <1>1, <1>3 DEF FinishesRun
  <2> HIDE DEF row
  <2>4. RunsGrow
    BY <1>1, <2>2, <2>3, RunWritten
  <2> QED BY <1>1, <2>3, <2>4, MasterRested, RestsStep
<1> QED BY <1>2, <1>3 DEF FinishesRun

LEMMA BeatsStep ==
  ASSUME MasterInv, NEW m \in Masters, BeatsRun(m) PROVE MasterInv'
<1>1. master[m].run \in DOMAIN runs
  BY ShiftOf DEF BeatsRun
<1> QED BY <1>1, RunLeaseEndsStep DEF BeatsRun

-----------------------------------------------------------------------------
\* Publication.

LEMMA CandidateNumbers ==
  MasterCandidates = 1..LastCandidate /\ 0 \notin MasterCandidates /\ MasterCandidates \subseteq Nat
  BY MasterAssumption DEF MasterCandidates

LEMMA ChoosesStep ==
  ASSUME MasterInv, NEW m \in Masters, Chooses(m) PROVE MasterInv'
<1>1. /\ master[m].stage = "choose" /\ UNCHANGED <<runs, candidate, slot, shownSoFar, week>>
      /\ master[m] \in Shifts /\ master[m].run \in DOMAIN runs
  BY ShiftOf DEF Chooses
<1>2. CASE GoesTo(m, "finish")
  BY <1>1, <1>2, MasterRested, GoesToStep
<1>3. CASE Choosable # {} /\ master' = [master EXCEPT ![m].stage = "publish", ![m].pick = Max(Choosable)]
  <2>1. Choosable \in SUBSET Nat /\ \A c \in Choosable : c <= LastCandidate /\ c \in MasterCandidates
    BY MasterAssumption, CandidateNumbers DEF Choosable
  <2>2. \E c \in Choosable : \A d \in Choosable : d <= c
    BY <1>3, <2>1, GreatestOf, MasterAssumption
  <2>3. \E c \in Choosable : \A d \in Choosable : c >= d
    BY <2>1, <2>2
  <2>4. Max(Choosable) \in MasterCandidates
    BY <2>1, <2>3 DEF Max
  <2> DEFINE best == Max(Choosable)
             k == [master[m] EXCEPT !.stage = "publish", !.pick = best]
  <2> HIDE DEF best
  <2>5. best \in MasterCandidates
    BY <2>4 DEF best
  <2>6. k \in Shifts /\ k.stage = "publish" /\ k.run = master[m].run /\ k.pick = best
    BY <1>1, <2>5 DEF Shifts
  <2>7. master' = [master EXCEPT ![m] = k]
    BY <1>1, <1>3 DEF MasterInv, MasterTypes, Shifts, best
  <2> HIDE DEF k
  <2> QED BY <1>1, <2>5, <2>6, <2>7, MasterRested, WorkerStep
<1> QED BY <1>2, <1>3 DEF Chooses

\* Who is shown, and who was before.
LEMMA SlotPublished ==
  ASSUME MasterInv, NEW c \in MasterCandidates, NEW by, PublishesCandidate(c, by)
  PROVE  SlotMoves
<1> DEFINE n == Len(shownSoFar)
           back == StepsBack(c)
<1>1. /\ shownSoFar \in Seq(MasterCandidates) /\ slot \in SlotRows
      /\ slot' = [current |-> c, fallback |-> back]
      /\ shownSoFar' = IF slot.current = c THEN shownSoFar ELSE Append(shownSoFar, c)
  BY DEF MasterInv, MasterTypes, PublishesCandidate
<1>2. n \in Nat /\ (n = 0 <=> shownSoFar = <<>>)
      /\ \A i \in 1..n : shownSoFar[i] \in MasterCandidates
  BY <1>1, SeqRows, EmptySeq
<1>3. c # 0 /\ 0 \notin MasterCandidates
  BY CandidateNumbers
<1>4. /\ shownSoFar = <<>> => slot.current = 0 /\ slot.fallback = 0
      /\ shownSoFar # <<>> => /\ slot.current = shownSoFar[n]
                              /\ slot.fallback = IF n = 1 THEN slot.current ELSE shownSoFar[n - 1]
  BY DEF MasterInv, SlotKept
<1>5. back = IF slot.current \notin {0, c} THEN slot.current
             ELSE IF slot.fallback # 0 THEN slot.fallback ELSE c
  BY DEF StepsBack
<1> HIDE DEF back
<1>6. /\ slot.current \in MasterCandidates \cup {0} /\ slot.fallback \in MasterCandidates \cup {0}
      /\ back \in MasterCandidates \cup {0}
  BY <1>1, <1>5 DEF SlotRows
<1>7. slot' \in SlotRows /\ slot'.current = c /\ slot'.fallback = back
  BY <1>1, <1>6 DEF SlotRows
<1>8. CASE slot.current = c
  <2>a. shownSoFar' = shownSoFar /\ shownSoFar # <<>>
    BY <1>1, <1>3, <1>4, <1>8
  <2> HIDE DEF n
  <2>b. n \in 1..n /\ (n # 1 => n - 1 \in 1..n)
    BY <1>2, <2>a
  <2>1. shownSoFar' = shownSoFar /\ shownSoFar # <<>> /\ n \in 1..n /\ (n # 1 => n - 1 \in 1..n)
    BY <2>a, <2>b
  <2> USE DEF n
  <2>2. back = slot.fallback
    <3>1. slot.fallback # 0
      BY <1>2, <1>3, <1>4, <1>8, <2>1
    <3> QED BY <1>5, <1>8, <3>1
  <2> QED BY <1>1, <1>4, <1>7, <1>8, <2>1, <2>2 DEF SlotMoves, SlotKept
<1>9. CASE slot.current # c
  <2>1. /\ shownSoFar' = Append(shownSoFar, c) /\ shownSoFar' \in Seq(MasterCandidates)
        /\ Len(shownSoFar') = n + 1 /\ shownSoFar'[n + 1] = c
        /\ \A i \in 1..n : shownSoFar'[i] = shownSoFar[i]
    BY <1>1, <1>9, AppendProperties
  <2>2. shownSoFar' # <<>>
    BY <1>2, <2>1
  <2>3. CASE n = 0
    <3>1. back = c
      BY <1>2, <1>4, <1>5, <2>3
    <3> QED BY <1>7, <2>1, <2>2, <2>3, <3>1 DEF SlotMoves, SlotKept
  <2>4. CASE n # 0
    <3>1. n \in 1..n /\ shownSoFar # <<>> /\ n + 1 # 1 /\ (n + 1) - 1 = n
      BY <1>2, <2>4
    <3>2. back = shownSoFar[n]
      BY <1>2, <1>3, <1>4, <1>5, <1>9, <3>1
    <3>3. back = shownSoFar'[n]
      BY <2>1, <3>1, <3>2
    <3> HIDE DEF n
    <3> QED BY <1>7, <2>1, <2>2, <3>1, <3>3 DEF SlotMoves, SlotKept
  <2> QED BY <2>3, <2>4
<1> QED BY <1>8, <1>9

LEMMA CandidatePublished ==
  ASSUME MasterInv, NEW c \in MasterCandidates, NEW by, PublishesCandidate(c, by)
  PROVE  CandidatesGrow
<1> DEFINE row == [candidate[c] EXCEPT !.status = "PUBLISHED"]
<1>1. candidate[c] \in CandidateRows
  BY DEF MasterInv, MasterTypes
<1>2. row \in CandidateRows /\ row.status = "PUBLISHED"
  BY <1>1 DEF CandidateRows
<1>3. candidate' = [candidate EXCEPT ![c] = row]
  BY DEF PublishesCandidate, MasterInv, MasterTypes
<1> HIDE DEF row
<1> QED BY <1>2, <1>3, CandidateWritten

LEMMA PublishesStep ==
  ASSUME MasterInv, NEW m \in Masters, Publishes(m) PROVE MasterInv'
<1>1. /\ master[m].stage = "publish" /\ PublishesCandidate(master[m].pick, "run")
      /\ GoesTo(m, "finish") /\ UNCHANGED <<runs, week>>
      /\ master[m].pick \in MasterCandidates
  BY ShiftOf DEF Publishes, ShiftOK
<1>2. CandidatesGrow /\ SlotMoves
  BY <1>1, CandidatePublished, SlotPublished
<1> QED BY <1>1, <1>2, MasterRested, GoesToStep

LEMMA SelectsStep ==
  ASSUME MasterInv, NEW c \in MasterCandidates, SelectsForSlot(c) PROVE MasterInv'
<1>1. PublishesCandidate(c, "editor") /\ UNCHANGED <<runs, master, week>> /\ week \in Nat
  BY DEF SelectsForSlot, MasterInv, MasterTypes
<1>2. CandidatesGrow /\ SlotMoves
  BY <1>1, CandidatePublished, SlotPublished
<1> QED BY <1>1, <1>2, MasterRested, OthersStep

\* What else is said of a candidate.
LEMMA SaidOfCandidate ==
  ASSUME MasterInv, NEW c \in MasterCandidates,
         (\E status \in {"ELIGIBLE", "REJECTED"} : Decides(c, status))
           \/ (\E found \in BOOLEAN : Revalidates(c, found))
  PROVE  MasterInv'
<1>1. UNCHANGED <<runs, master, slot, shownSoFar, week>> /\ week \in Nat
  BY DEF Decides, Revalidates, MasterInv, MasterTypes
<1>2. candidate[c] \in CandidateRows /\ (candidate[c].receipt => candidate[c].status # "none")
  BY DEF MasterInv, MasterTypes, AnalysedIsKept
<1>3. \E row \in CandidateRows : /\ candidate' = [candidate EXCEPT ![c] = row]
                                 /\ row.status # "none" \/ row.status = candidate[c].status
                                 /\ row.receipt = candidate[c].receipt
  <2>1. ASSUME NEW status \in {"ELIGIBLE", "REJECTED"}, Decides(c, status)
        PROVE  LET row == [candidate[c] EXCEPT !.status = status] IN
               /\ row \in CandidateRows /\ row.status # "none" /\ row.receipt = candidate[c].receipt
               /\ candidate' = [candidate EXCEPT ![c] = row]
    BY <1>2, <2>1 DEF CandidateRows, Decides, MasterInv, MasterTypes
  <2>2. ASSUME NEW found \in BOOLEAN, Revalidates(c, found)
        PROVE  LET row == [candidate[c] EXCEPT !.available = found] IN
               /\ row \in CandidateRows /\ row.status = candidate[c].status
               /\ row.receipt = candidate[c].receipt
               /\ candidate' = [candidate EXCEPT ![c] = row]
    BY <1>2, <2>2 DEF CandidateRows, Revalidates, MasterInv, MasterTypes
  <2> QED BY <2>1, <2>2
<1>4. CandidatesGrow
  BY <1>2, <1>3, CandidateWritten
<1> QED BY <1>1, <1>4, MasterRested, OthersStep

-----------------------------------------------------------------------------
LEMMA MasterAtFirst == MasterInit => MasterInv
<1> SUFFICES ASSUME MasterInit PROVE MasterInv
  OBVIOUS
<1>1. /\ runs = <<>> /\ master = [m \in Masters |-> NoShift] /\ shownSoFar = <<>> /\ week = 1
      /\ candidate = [c \in MasterCandidates |->
           [status |-> "none", receipt |-> FALSE, seen |-> FALSE, available |-> FALSE]]
      /\ slot = [current |-> 0, fallback |-> 0]
  BY DEF MasterInit
<1>2. slot \in SlotRows /\ candidate \in [MasterCandidates -> CandidateRows]
  BY <1>1 DEF SlotRows, CandidateRows
<1>3. MasterTypes
  BY <1>1, <1>2, NoShiftIs DEF MasterTypes
<1>4. SlotKept /\ AnalysedIsKept
  BY <1>1 DEF SlotKept, AnalysedIsKept
<1>5. \A m \in Masters : ShiftOK(master[m])
  BY <1>1, NoShiftIs DEF ShiftOK
<1> QED BY <1>3, <1>4, <1>5 DEF MasterInv

LEMMA MasterStep == MasterInv /\ [MasterNext]_masterVars => MasterInv'
<1> SUFFICES ASSUME MasterInv, [MasterNext]_masterVars PROVE MasterInv'
  OBVIOUS
<1>1. week \in Nat
  BY DEF MasterInv, MasterTypes
<1>2. CASE \/ NextWeek \/ Pauses \/ ForcesFallback \/ UNCHANGED masterVars
           \/ \E c \in MasterCandidates : Withdraws(c) \/ Pins(c)
           \/ \E i \in DOMAIN overrides.pins : PinEnds(i)
  <2>1. week' \in Nat /\ UNCHANGED <<runs, master, candidate, slot, shownSoFar>>
    BY <1>1, <1>2 DEF NextWeek, Pauses, ForcesFallback, Withdraws, Pins, PinEnds, Overrides, masterVars
  <2> QED BY <2>1, MasterRested, OthersStep
<1>3. CASE PlansWeek \/ \E scope \in {"FULL", "INGEST", "ANALYSIS"} : ForcesRun(scope)
  BY <1>3, PlansStep, ForcesStep
<1>4. ASSUME NEW r \in DOMAIN runs, RunLeaseEnds(r) PROVE MasterInv'
  BY <1>4, RunLeaseEndsStep DEF RunLeaseEnds
<1>5. ASSUME NEW c \in MasterCandidates,
             \/ \E status \in {"ELIGIBLE", "REJECTED"} : Decides(c, status)
             \/ SelectsForSlot(c) \/ \E found \in BOOLEAN : Revalidates(c, found)
      PROVE  MasterInv'
  BY <1>5, SaidOfCandidate, SelectsStep
<1>6. ASSUME NEW m \in Masters, \E r \in DOMAIN runs : ClaimsRun(m, r) PROVE MasterInv'
  BY <1>6, ClaimsStep
<1>7. ASSUME NEW m \in Masters, \E c \in MasterCandidates : AnalysesNext(m, c) PROVE MasterInv'
  BY <1>7, AnalysesStep
<1>8. ASSUME NEW m \in Masters,
             \/ FetchesGames(m) \/ StoresCandidate(m) \/ StoresReceipt(m) \/ EndsAnalysis(m)
             \/ Chooses(m) \/ Publishes(m) \/ FinishesRun(m) \/ BeatsRun(m)
      PROVE  MasterInv'
  BY <1>8, FetchesStep, StoresStep, ReceiptStep, EndsStep, ChoosesStep, PublishesStep, FinishesStep,
     BeatsStep
<1>9. ASSUME NEW m \in Masters, ReadsSlot(m) PROVE MasterInv'
  <2>1. /\ master[m].stage = "slot" /\ UNCHANGED <<runs, candidate, slot, shownSoFar, week>>
        /\ GoesTo(m, "finish") \/ GoesTo(m, "choose")
    BY <1>9 DEF ReadsSlot
  <2> QED BY <2>1, MasterRested, GoesToStep
<1>10. ASSUME NEW m \in Masters, StopsWorking(m) PROVE MasterInv'
  <2>1. /\ master' = [master EXCEPT ![m] = NoShift]
        /\ UNCHANGED <<runs, candidate, slot, shownSoFar, week>>
    BY <1>10 DEF StopsWorking
  <2> QED BY <2>1, MasterRested, RestsStep
<1>11. ASSUME NEW m \in Masters, Throws(m) PROVE MasterInv'
  BY <1>11, MasterRested, FailsStep DEF Throws
<1> QED BY <1>2, <1>3, <1>4, <1>5, <1>6, <1>7, <1>8, <1>9, <1>10, <1>11 DEF MasterNext

\* What the slot is, as it is stated.
LEMMA PuzzleFollows == MasterInv => PuzzleHolds
<1> SUFFICES ASSUME MasterInv PROVE PuzzleHolds
  OBVIOUS
<1> DEFINE n == Len(shownSoFar)
<1>1. shownSoFar \in Seq(MasterCandidates) /\ SlotKept
  BY DEF MasterInv, MasterTypes
<1>2. n \in Nat /\ (shownSoFar # <<>> => n # 0) /\ (shownSoFar = <<>> => n = 0)
  BY <1>1, LenProperties, EmptySeq
<1>3. n > 1 => Last(Front(shownSoFar)) = shownSoFar[n - 1]
  <2> SUFFICES ASSUME n > 1 PROVE Last(Front(shownSoFar)) = shownSoFar[n - 1]
    OBVIOUS
  <2>1. \A i \in 1..(n - 1) : shownSoFar[i] \in MasterCandidates
    BY <1>1, <1>2, SeqRows
  <2>2. /\ n - 1 \in Int /\ 1 <= n - 1 /\ (n - 1) - 1 + 1 = n - 1
        /\ n - 1 \in 1..(n - 1) /\ 1 + (n - 1) - 1 = n - 1
    BY <1>2
  <2> DEFINE f == SubSeq(shownSoFar, 1, n - 1)
  <2>3. Len(f) = n - 1 /\ f[n - 1] = shownSoFar[n - 1]
    BY <2>1, <2>2, SubSeqProperties
  <2>4. Front(shownSoFar) = f
    BY DEF Front
  <2> HIDE DEF f, n
  <2> QED BY <2>3, <2>4 DEF Last
<1>4. SlotIsTrue
  <2> SUFFICES ASSUME shownSoFar # <<>>
               PROVE  /\ slot.current = Last(shownSoFar)
                      /\ slot.fallback = IF n = 1 THEN slot.current ELSE Last(Front(shownSoFar))
    BY DEF SlotIsTrue
  <2>1. Last(shownSoFar) = shownSoFar[n]
    BY DEF Last
  <2>2. n = 1 \/ n > 1
    BY <1>2
  <2>3. slot.current = shownSoFar[n] /\ slot.fallback = IF n = 1 THEN slot.current ELSE shownSoFar[n - 1]
    BY <1>1 DEF SlotKept
  <2> HIDE DEF n
  <2> QED BY <1>3, <2>1, <2>2, <2>3
<1>5. LandingHolds
  <2> SUFFICES ASSUME shownSoFar # <<>>
               PROVE  /\ Good(Last(shownSoFar)) /\ overrides.pins = <<>> /\ ~overrides.forced
                           => ShownPuzzle = Last(shownSoFar)
                      /\ Good(ShownBefore) => ShownPuzzle # 0 \/ (Fit(Preferred) /\ TooOld(Preferred))
    BY DEF LandingHolds
  <2>1. slot.current = Last(shownSoFar) /\ slot.fallback = ShownBefore
    BY <1>4 DEF SlotIsTrue, ShownBefore
  <2>2. Good(ShownBefore) => Fit(slot.fallback) /\ ~TooOld(slot.fallback) /\ slot.fallback # 0
    BY <2>1 DEF Good, Fit
  <2>3. Good(ShownBefore) => ShownPuzzle # 0 \/ (Fit(Preferred) /\ TooOld(Preferred))
    <3>1. CASE Fit(Preferred)
      <4>1. Selected = Preferred /\ Preferred # 0
        BY <3>1 DEF Selected, Fit
      <4> QED BY <3>1, <4>1 DEF ShownPuzzle
    <3>2. CASE ~Fit(Preferred)
      BY <2>2, <3>2 DEF Selected, ShownPuzzle
    <3> QED BY <3>1, <3>2
  <2>4. ASSUME Good(Last(shownSoFar)), overrides.pins = <<>>, ~overrides.forced
        PROVE  ShownPuzzle = Last(shownSoFar)
    <3>1. Preferred = slot.current
      BY <2>4 DEF Preferred
    <3>2. Selected = slot.current /\ ~TooOld(slot.current)
      BY <2>1, <2>4, <3>1 DEF Selected, Good
    <3> QED BY <2>1, <3>2 DEF ShownPuzzle
  <2> QED BY <2>3, <2>4
<1> QED BY <1>4, <1>5 DEF MasterInv, PuzzleHolds

\* The analysis of a snapshot is not given up, the slot names what was published, and the landing
\* page shows it: for any candidates, workers, runs and editors, wherever a worker stops.
THEOREM PuzzleKept == MasterSpec => []PuzzleHolds
<1>1. MasterSpec => []MasterInv
  BY MasterAtFirst, MasterStep, PTL DEF MasterSpec
<1> QED BY <1>1, PuzzleFollows, PTL
====
