------------------------ MODULE AnalysisOutboxProofs ------------------------
(***************************************************************************)
(* Proofs about AnalysisOutbox, for any rows, flushes and bounds.          *)
(*                                                                         *)
(* The properties rest on one inductive invariant, Inv: TypeOK, what a     *)
(* closed row implies, and what a flush knows of the row it is at.         *)
(***************************************************************************)
EXTENDS AnalysisOutbox, TLAPS

AtRow == {"publish", "mark", "reschedule", "cancel", "fail"}

\* A row that was published has reached the queue; one that was given up with
\* work to announce was so because there is no queue, and its work is settled.
RowsOK ==
  \A k \in Rows :
    /\ outbox[k].status = "PUBLISHED" => queue[k] # "unsent"
    /\ outbox[k].status = "FAILED" /\ outbox[k].valid => ~queueOn /\ work[k] # "open"

\* A flush knows what its own statements established before, whoever has the
\* lease of the row now.
FlusherOK(f) ==
  /\ \A k \in flusher[f].claimed : outbox[k].status # "ABSENT"
  /\ flusher[f].pc \in AtRow =>
       flusher[f].row \in Rows /\ outbox[flusher[f].row].status # "ABSENT"
  /\ flusher[f].pc = "publish" => outbox[flusher[f].row].valid
  /\ flusher[f].pc = "mark" => queue[flusher[f].row] # "unsent"
  /\ flusher[f].pc = "cancel" => ~queueOn
  /\ flusher[f].pc = "fail" /\ outbox[flusher[f].row].valid =>
       ~queueOn /\ work[flusher[f].row] # "open"

Inv == TypeOK /\ RowsOK /\ \A f \in Flushers : FlusherOK(f)

-----------------------------------------------------------------------------
(* Updates of one field keep the type of the row or of the flush.          *)

\* A changed field leaves the outbox in its type.
LEMMA RowUpdates ==
  \A o \in [Rows -> Row], k \in Rows :
    /\ \A x \in {"PENDING", "LEASED", "PUBLISHED", "FAILED"} :
         [o EXCEPT ![k].status = x] \in [Rows -> Row]
    /\ \A x \in BOOLEAN : /\ [o EXCEPT ![k].valid = x] \in [Rows -> Row]
                          /\ [o EXCEPT ![k].due = x] \in [Rows -> Row]
                          /\ [o EXCEPT ![k].live = x] \in [Rows -> Row]
BY DEF Row

\* The same of the flushes.
LEMMA FlusherUpdates ==
  \A g \in [Flushers -> Flusher], f \in Flushers :
    /\ \A x \in {"claim", "publish", "mark", "reschedule", "cancel", "fail"} :
         [g EXCEPT ![f].pc = x] \in [Flushers -> Flusher]
    /\ \A x \in SUBSET Rows : [g EXCEPT ![f].claimed = x] \in [Flushers -> Flusher]
    /\ \A x \in Rows : [g EXCEPT ![f].row = x] \in [Flushers -> Flusher]
<1>1. ASSUME NEW g \in [Flushers -> Flusher], NEW f \in Flushers,
             NEW x \in {"claim", "publish", "mark", "reschedule", "cancel", "fail"}
      PROVE  [g EXCEPT ![f].pc = x] \in [Flushers -> Flusher]
  BY DEF Flusher
<1>2. ASSUME NEW g \in [Flushers -> Flusher], NEW f \in Flushers, NEW x \in SUBSET Rows
      PROVE  [g EXCEPT ![f].claimed = x] \in [Flushers -> Flusher]
  BY DEF Flusher
<1>3. ASSUME NEW g \in [Flushers -> Flusher], NEW f \in Flushers, NEW x \in Rows
      PROVE  [g EXCEPT ![f].row = x] \in [Flushers -> Flusher]
  BY DEF Flusher
<1> QED BY <1>1, <1>2, <1>3

\* The idle flush, and one that turns to its next row, are flushes.
LEMMA NextTypes ==
  /\ IdleFlusher \in Flusher
  /\ \A fl \in Flusher : NextOf(fl) \in Flusher
<1>1. 0 \in 0..MaxAttempts
  BY OutboxAssumption
<1>2. IdleFlusher \in Flusher
  BY <1>1 DEF IdleFlusher, Flusher
<1>3. \A fl \in Flusher : [fl EXCEPT !.pc = "next", !.row = NoRow] \in Flusher
  BY DEF Flusher
<1> QED BY <1>2, <1>3 DEF NextOf

\* What the next turn of a flush keeps: the rest of its claim.
LEMMA NextFields ==
  \A fl \in Flusher :
    /\ NextOf(fl).pc \notin AtRow
    /\ NextOf(fl).claimed \subseteq fl.claimed
BY DEF NextOf, IdleFlusher, Flusher, AtRow

-----------------------------------------------------------------------------
(* What a step does to one row.                                            *)

RowStep(k) ==
  /\ outbox[k].status # "ABSENT" =>
       /\ outbox'[k].status # "ABSENT"
       /\ outbox'[k].valid = outbox[k].valid
  /\ \/ outbox'[k].status = outbox[k].status
     \/ outbox[k].status = "ABSENT" /\ outbox'[k].status = "PENDING"
     \/ /\ outbox[k].status \in {"PENDING", "LEASED"}
        /\ outbox'[k].status \in {"PENDING", "LEASED"}
     \/ /\ outbox[k].status = "LEASED" /\ outbox'[k].status = "PUBLISHED"
        /\ queue[k] # "unsent"
     \/ /\ outbox[k].status = "LEASED" /\ outbox'[k].status = "FAILED"
        /\ outbox[k].valid => ~queueOn /\ work[k] # "open"

BoxStep ==
  /\ outbox' \in [Rows -> Row]
  /\ \A k \in Rows : outbox'[k].live => outbox'[k].status = "LEASED"
  /\ \A k \in Rows : RowStep(k)

\* What was sent, taken up, cancelled or switched off stays so.
TransportStep ==
  /\ queue' \in [Rows -> {"unsent", "queued", "taken"}]
  /\ work' \in [Rows -> {"open", "taken", "cancelled"}]
  /\ queueOn' \in BOOLEAN
  /\ faults' \in 0..MaxFaults
  /\ ~queueOn => ~queueOn'
  /\ \A k \in Rows : queue[k] # "unsent" => queue'[k] # "unsent"
  /\ \A k \in Rows : work[k] # "open" => work'[k] # "open"

\* The write under a lease: what the row of the flush becomes.
LEMMA BecomesStep ==
  ASSUME TypeOK, NEW f \in Flushers, flusher[f].row \in Rows,
         NEW status \in {"PENDING", "PUBLISHED", "FAILED"}, NEW due \in BOOLEAN,
         Becomes(f, status, due)
  PROVE  /\ outbox' \in [Rows -> Row]
         /\ \A k \in Rows : outbox'[k].live => outbox'[k].status = "LEASED"
         /\ \A k \in Rows \ {flusher[f].row} : outbox'[k] = outbox[k]
         /\ LET k == flusher[f].row
            IN  \/ outbox'[k] = outbox[k]
                \/ /\ outbox[k].status = "LEASED" /\ outbox'[k].status = status
                   /\ outbox'[k].valid = outbox[k].valid
<1> DEFINE k == flusher[f].row
<1> USE DEF TypeOK
<1>1. CASE ~Held(f, k)
  BY <1>1 DEF Becomes
<1>2. CASE Held(f, k)
  <2>1. outbox' = [outbox EXCEPT ![k].status = status, ![k].due = due, ![k].live = FALSE]
    BY <1>2 DEF Becomes
  <2>2. outbox' \in [Rows -> Row]
    BY <2>1, RowUpdates, Zenon
  <2>3. /\ outbox'[k].status = status /\ outbox'[k].valid = outbox[k].valid
        /\ outbox'[k].live = FALSE
        /\ \A j \in Rows \ {k} : outbox'[j] = outbox[j]
    BY <2>1 DEF Row
  <2> QED BY <1>2, <2>2, <2>3 DEF Held
<1> QED BY <1>1, <1>2

\* What a flush knows of its row, as its type says it.
LEMMA AtItsRow ==
  ASSUME Inv, NEW f \in Flushers
  PROVE  /\ flusher[f] \in Flusher
         /\ flusher[f].pc \in AtRow =>
              flusher[f].row \in Rows /\ outbox[flusher[f].row] \in Row
BY DEF Inv, TypeOK, FlusherOK

\* The queue, the work and the switch only go forward.
LEMMA TransportSteps ==
  ASSUME Inv, [Next]_vars
  PROVE  TransportStep
<1> USE DEF Inv, TypeOK
<1>0. UNCHANGED <<queue, work, queueOn, faults>> => TransportStep
  BY DEF TransportStep
<1>1. \A k \in Rows : /\ Sent(k) \in [Rows -> {"unsent", "queued", "taken"}]
                      /\ \A j \in Rows : queue[j] # "unsent" => Sent(k)[j] # "unsent"
  BY DEF Sent
<1>2. \A k \in Rows : /\ Cancelled(k) \in [Rows -> {"open", "taken", "cancelled"}]
                      /\ \A j \in Rows : work[j] # "open" => Cancelled(k)[j] # "open"
  BY DEF Cancelled
<1>3. Fault => faults' \in 0..MaxFaults
  BY OutboxAssumption DEF Fault
<1>4. CASE Disable
  BY <1>4 DEF Disable, TransportStep
<1>5. ASSUME NEW k \in Rows, Stage(k) \/ Time(k) PROVE TransportStep
  BY <1>3, <1>5 DEF Stage, Time, LeaseExpires, BackoffElapses, world, TransportStep
<1>6. ASSUME NEW k \in Rows, Take(k) PROVE TransportStep
  BY <1>6 DEF Take, world, TransportStep
<1>7. ASSUME NEW f \in Flushers, Publish(f) \/ PublishFails(f) PROVE TransportStep
  <2>1. flusher[f].row \in Rows
    BY <1>7, AtItsRow DEF Publish, PublishFails, AtRow
  <2>2. /\ queue' = queue \/ queue' = Sent(flusher[f].row)
        /\ UNCHANGED <<work, queueOn>> /\ (faults' = faults \/ Fault)
    BY <1>7 DEF Publish, PublishFails, world
  <2> QED BY <1>1, <1>3, <2>1, <2>2 DEF TransportStep
<1>8. ASSUME NEW f \in Flushers, CancelWork(f) \/ CancelFails(f) PROVE TransportStep
  <2>1. flusher[f].row \in Rows
    BY <1>8, AtItsRow DEF CancelWork, CancelFails, AtRow
  <2>2. /\ work' = work \/ work' = Cancelled(flusher[f].row)
        /\ UNCHANGED <<queue, queueOn>> /\ (faults' = faults \/ Fault)
    BY <1>8 DEF CancelWork, CancelFails, world
  <2> QED BY <1>2, <1>3, <2>1, <2>2 DEF TransportStep
<1>9. ASSUME NEW f \in Flushers, MarkFails(f) \/ Crash(f) PROVE TransportStep
  BY <1>3, <1>9 DEF MarkFails, Crash, TransportStep
<1> QED
  BY <1>0, <1>4, <1>5, <1>6, <1>7, <1>8, <1>9, Zenon
  DEF Next, Goes, Breaks, Recover, Claim, Begin, PublishDisabled, Mark, Reschedule,
      MarkFailed, world, vars

\* Every step keeps the rows' type, and changes each in one of these ways.
LEMMA RowSteps ==
  ASSUME Inv, [Next]_vars
  PROVE  BoxStep
<1> USE DEF Inv, TypeOK
<1>1. ASSUME NEW f \in Flushers, NEW status \in {"PENDING", "PUBLISHED", "FAILED"},
             NEW due \in BOOLEAN, Becomes(f, status, due), flusher[f].row \in Rows,
             status = "PUBLISHED" => queue[flusher[f].row] # "unsent",
             status = "FAILED" /\ outbox[flusher[f].row].valid =>
               ~queueOn /\ work[flusher[f].row] # "open"
      PROVE  BoxStep
  BY <1>1, BecomesStep DEF BoxStep, RowStep
<1>2. ASSUME NEW f \in Flushers, Mark(f) PROVE BoxStep
  <2>1. flusher[f].row \in Rows /\ queue[flusher[f].row] # "unsent"
    BY <1>2, AtItsRow DEF Mark, AtRow, FlusherOK
  <2> QED BY <1>1, <1>2, <2>1 DEF Mark
<1>3. ASSUME NEW f \in Flushers, Reschedule(f) PROVE BoxStep
  BY <1>1, <1>3, AtItsRow DEF Reschedule, AtRow
<1>4. ASSUME NEW f \in Flushers, MarkFailed(f) PROVE BoxStep
  <2>1. /\ flusher[f].row \in Rows
        /\ outbox[flusher[f].row].valid => ~queueOn /\ work[flusher[f].row] # "open"
    BY <1>4, AtItsRow DEF MarkFailed, AtRow, FlusherOK
  <2> QED BY <1>1, <1>4, <2>1 DEF MarkFailed
<1>5. ASSUME NEW k \in Rows, Stage(k) PROVE BoxStep
  <2>1. PICK valid \in BOOLEAN :
          outbox' = [outbox EXCEPT ![k].status = "PENDING", ![k].valid = valid]
    BY <1>5 DEF Stage
  <2> DEFINE pending == [outbox EXCEPT ![k].status = "PENDING"]
  <2>4. pending \in [Rows -> Row]
    BY RowUpdates
  <2>5. outbox' = [pending EXCEPT ![k].valid = valid]
    BY <2>1
  <2>2. outbox' \in [Rows -> Row]
    BY <2>4, <2>5, RowUpdates
  <2>3. /\ outbox[k].status = "ABSENT" /\ outbox'[k].status = "PENDING"
        /\ outbox'[k].live = outbox[k].live
        /\ \A j \in Rows \ {k} : outbox'[j] = outbox[j]
    BY <1>5, <2>1 DEF Stage, Row
  <2> QED BY <2>2, <2>3 DEF BoxStep, RowStep
<1>6. ASSUME NEW k \in Rows, Time(k) PROVE BoxStep
  <2>1. \/ outbox' = [outbox EXCEPT ![k].live = FALSE]
        \/ outbox' = [outbox EXCEPT ![k].due = TRUE]
    BY <1>6 DEF Time, LeaseExpires, BackoffElapses
  <2>2. outbox' \in [Rows -> Row]
    <3>1. [outbox EXCEPT ![k].live = FALSE] \in [Rows -> Row]
      BY RowUpdates
    <3>2. [outbox EXCEPT ![k].due = TRUE] \in [Rows -> Row]
      BY RowUpdates
    <3> QED BY <2>1, <3>1, <3>2
  <2>3. \A j \in Rows : /\ outbox'[j].status = outbox[j].status
                        /\ outbox'[j].valid = outbox[j].valid
                        /\ outbox'[j].live => outbox[j].live
    BY <2>1 DEF Row
  <2> QED BY <2>2, <2>3 DEF BoxStep, RowStep
<1>7. ASSUME NEW f \in Flushers, Recover(f) PROVE BoxStep
  <2>1. \A k \in Rows : [outbox[k] EXCEPT !.status = "PENDING"] \in Row
    BY DEF Row
  <2>2. outbox' \in [Rows -> Row]
    BY <1>7, <2>1 DEF Recover
  <2>3. \A k \in Rows :
          \/ outbox'[k] = outbox[k]
          \/ /\ outbox[k].status = "LEASED" /\ ~outbox[k].live
             /\ outbox'[k].status = "PENDING" /\ ~outbox'[k].live
             /\ outbox'[k].valid = outbox[k].valid
    BY <1>7 DEF Recover, ExpiredLease, Row
  <2> QED BY <2>2, <2>3 DEF BoxStep, RowStep
<1>8. ASSUME NEW f \in Flushers, Claim(f) PROVE BoxStep
  <2> DEFINE row(k) == [outbox[k] EXCEPT !.status = "LEASED", !.live = TRUE,
                                         !.attempts = @ + 1]
  <2>1. PICK S \in SUBSET Due : outbox' = [k \in Rows |-> IF k \in S THEN row(k) ELSE outbox[k]]
    BY <1>8 DEF Claim
  <2>2. ASSUME NEW k \in Due
        PROVE  /\ row(k) \in Row /\ row(k).status = "LEASED"
               /\ row(k).valid = outbox[k].valid
               /\ outbox[k].status = "PENDING"
    <3>1. outbox[k].attempts + 1 \in 0..MaxAttempts
      BY OutboxAssumption DEF Due, Row
    <3>2. row(k) \in Row
      BY <3>1, ZenonT(60) DEF Due, Row
    <3> QED BY <3>2 DEF Due, Row
  <2> HIDE DEF row
  <2>3. outbox' \in [Rows -> Row]
    BY <2>1, <2>2
  <2> QED BY <2>1, <2>2, <2>3 DEF BoxStep, RowStep
<1>9. UNCHANGED outbox => BoxStep
  BY DEF BoxStep, RowStep
<1> QED
  BY <1>2, <1>3, <1>4, <1>5, <1>6, <1>7, <1>8, <1>9, Zenon
  DEF Next, Disable, Goes, Breaks, Begin, Publish, PublishDisabled, CancelWork,
      PublishFails, MarkFails, CancelFails, Crash, Take, vars

-----------------------------------------------------------------------------
(* What a step does to one flush.                                          *)

\* It goes on with the row it has, turns to a row of its claim, or to the rest
\* of its claim; a claim is of rows that were staged.
FlusherStep(f) ==
  /\ flusher'[f] \in Flusher
  /\ \A k \in flusher'[f].claimed : outbox[k].status # "ABSENT"
  /\ flusher'[f].pc \in AtRow =>
       /\ flusher'[f].row \in Rows
       /\ outbox[flusher'[f].row].status # "ABSENT"
  /\ flusher'[f].pc = "publish" => outbox[flusher'[f].row].valid
  /\ flusher'[f].pc = "mark" => queue'[flusher'[f].row] # "unsent"
  /\ flusher'[f].pc = "cancel" => ~queueOn
  /\ flusher'[f].pc = "fail" /\ outbox[flusher'[f].row].valid =>
       ~queueOn /\ work'[flusher'[f].row] # "open"

\* Every step of a flush is one of these, and others leave it as it was.
LEMMA FlusherSteps ==
  ASSUME Inv, [Next]_vars
  PROVE  flusher' \in [Flushers -> Flusher] /\ \A f \in Flushers : FlusherStep(f)
<1> DEFINE Done == flusher' \in [Flushers -> Flusher] /\ \A f \in Flushers : FlusherStep(f)
<1> USE DEF Inv, TypeOK
<1>1. ASSUME NEW f \in Flushers, flusher'[f] = flusher[f] PROVE FlusherStep(f)
  BY <1>1, TransportSteps DEF FlusherStep, FlusherOK, TransportStep, AtRow, Flusher
<1>2. CASE UNCHANGED flusher
  BY <1>1, <1>2
\* one flush moves
<1>3. ASSUME NEW f \in Flushers, FlusherStep(f), NEW fl,
             flusher' = [flusher EXCEPT ![f] = fl]
      PROVE  Done
  BY <1>1, <1>3 DEF FlusherStep
\* it turns to its next row
<1>4. ASSUME NEW f \in Flushers, NEW fl \in Flusher,
             \A k \in fl.claimed : outbox[k].status # "ABSENT",
             flusher' = [flusher EXCEPT ![f] = NextOf(fl)]
      PROVE  Done
  <2>1. FlusherStep(f)
    BY <1>4, NextTypes, NextFields DEF FlusherStep, AtRow
  <2> QED BY <1>3, <1>4, <2>1
\* it goes to the next statement about the row it has
<1>5. ASSUME NEW f \in Flushers, flusher[f].pc \in AtRow,
             NEW pc \in {"mark", "reschedule", "cancel", "fail"}, GoTo(f, pc),
             pc = "mark" => queue'[flusher[f].row] # "unsent",
             pc = "cancel" => ~queueOn,
             pc = "fail" => ~queueOn /\ work'[flusher[f].row] # "open"
      PROVE  Done
  <2>1. flusher' \in [Flushers -> Flusher]
    BY <1>5, FlusherUpdates DEF GoTo
  <2>2. /\ flusher'[f].pc = pc /\ flusher'[f].row = flusher[f].row
        /\ flusher'[f].claimed = flusher[f].claimed
        /\ \A g \in Flushers \ {f} : flusher'[g] = flusher[g]
    BY <1>5 DEF GoTo, Flusher
  <2>3. FlusherStep(f)
    BY <1>5, <2>1, <2>2 DEF FlusherStep, FlusherOK
  <2> QED BY <1>1, <2>1, <2>2, <2>3
<1>6. ASSUME NEW f \in Flushers, Continue(f) PROVE Done
  <2>1. \A k \in flusher[f].claimed : outbox[k].status # "ABSENT"
    BY DEF FlusherOK
  <2> QED BY <1>4, <1>6, <2>1, AtItsRow DEF Continue
<1>7. ASSUME NEW f \in Flushers, Recover(f) PROVE Done
  <2>1. flusher' \in [Flushers -> Flusher]
    BY <1>7, FlusherUpdates DEF Recover
  <2>2. /\ flusher'[f].pc = "claim" /\ flusher'[f].claimed = flusher[f].claimed
        /\ \A g \in Flushers \ {f} : flusher'[g] = flusher[g]
    BY <1>7 DEF Recover, Flusher
  <2>3. FlusherStep(f)
    BY <2>1, <2>2 DEF FlusherStep, FlusherOK, AtRow
  <2> QED BY <1>1, <2>1, <2>2, <2>3
<1>8. ASSUME NEW f \in Flushers, Claim(f) PROVE Done
  <2>1. PICK S \in SUBSET Due :
          flusher' = [flusher EXCEPT ![f] =
                        NextOf([@ EXCEPT !.claimed = S,
                                         !.token = [k \in Rows |->
                                           IF k \in S THEN outbox[k].attempts + 1
                                           ELSE 0]])]
    BY <1>8 DEF Claim
  <2> DEFINE token == [k \in Rows |-> IF k \in S THEN outbox[k].attempts + 1 ELSE 0]
             fl == [flusher[f] EXCEPT !.claimed = S, !.token = token]
  <2>2. \A k \in S : outbox[k].attempts + 1 \in 0..MaxAttempts
    BY OutboxAssumption DEF Due, Row
  <2>3. 0 \in 0..MaxAttempts
    BY OutboxAssumption
  <2>4. token \in [Rows -> 0..MaxAttempts] /\ S \in SUBSET Rows
    BY <2>2, <2>3 DEF Due
  <2>5. flusher' = [flusher EXCEPT ![f] = NextOf(fl)]
    BY <2>1
  <2> HIDE DEF token
  <2>6. fl \in Flusher /\ fl.claimed = S
    BY <2>4, AtItsRow DEF Flusher
  <2>7. \A k \in S : outbox[k].status # "ABSENT"
    BY DEF Due
  <2> HIDE DEF fl
  <2> QED BY <1>4, <2>5, <2>6, <2>7
<1>9. ASSUME NEW f \in Flushers, Begin(f) PROVE Done
  <2>1. PICK k \in flusher[f].claimed :
          flusher' = [flusher EXCEPT ![f].row = k, ![f].claimed = @ \ {k},
                                     ![f].pc = IF outbox[k].valid THEN "publish"
                                               ELSE "fail"]
    BY <1>9 DEF Begin
  <2>2. k \in Rows /\ outbox[k].status # "ABSENT" /\ flusher[f].claimed \ {k} \in SUBSET Rows
    BY DEF FlusherOK, Flusher
  <2>3. /\ flusher'[f].row = k /\ flusher'[f].claimed = flusher[f].claimed \ {k}
        /\ flusher'[f].pc = IF outbox[k].valid THEN "publish" ELSE "fail"
        /\ \A g \in Flushers \ {f} : flusher'[g] = flusher[g]
    BY <2>1 DEF Flusher
  <2>4. flusher' \in [Flushers -> Flusher]
    <3> DEFINE one == [flusher EXCEPT ![f].row = k]
               two == [one EXCEPT ![f].claimed = flusher[f].claimed \ {k}]
               pc == IF outbox[k].valid THEN "publish" ELSE "fail"
    <3>1. one \in [Flushers -> Flusher]
      BY <2>2, FlusherUpdates
    <3>2. two \in [Flushers -> Flusher]
      BY <2>2, <3>1, FlusherUpdates
    <3>3. flusher' = [two EXCEPT ![f].pc = pc]
      BY <2>1 DEF Flusher
    <3> QED BY <3>2, <3>3, FlusherUpdates
  <2>5. FlusherStep(f)
    BY <2>2, <2>3, <2>4 DEF FlusherStep, FlusherOK, AtRow
  <2> QED BY <1>1, <2>3, <2>4, <2>5
<1>10. ASSUME NEW f \in Flushers, Publish(f) \/ PublishFails(f) PROVE Done
  <2>1. flusher[f].pc \in AtRow /\ flusher[f].row \in Rows
    BY <1>10, AtItsRow DEF Publish, PublishFails, AtRow
  <2>2. CASE Publish(f)
    <3>1. queue'[flusher[f].row] # "unsent"
      BY <2>1, <2>2 DEF Publish, Sent
    <3> QED BY <1>5, <2>1, <2>2, <3>1 DEF Publish
  <2>3. CASE PublishFails(f)
    BY <1>5, <2>1, <2>3 DEF PublishFails
  <2> QED BY <1>10, <2>2, <2>3
<1>11. ASSUME NEW f \in Flushers, PublishDisabled(f) PROVE Done
  BY <1>5, <1>11 DEF PublishDisabled, AtRow
<1>12. ASSUME NEW f \in Flushers, CancelWork(f) PROVE Done
  <2>1. flusher[f].row \in Rows /\ ~queueOn /\ flusher[f].pc \in AtRow
    BY <1>12, AtItsRow DEF CancelWork, AtRow, FlusherOK
  <2>2. work'[flusher[f].row] # "open"
    BY <1>12, <2>1 DEF CancelWork, Cancelled
  <2> QED BY <1>5, <1>12, <2>1, <2>2 DEF CancelWork
<1>13. ASSUME NEW f \in Flushers, CancelFails(f) PROVE Done
  BY <1>5, <1>13 DEF CancelFails, AtRow
<1>14. ASSUME NEW f \in Flushers, Crash(f) PROVE Done
  <2>1. FlusherStep(f)
    BY <1>14, NextTypes DEF Crash, FlusherStep, IdleFlusher, AtRow
  <2> QED BY <1>3, <1>14, <2>1 DEF Crash
<1> HIDE DEF Done
<1>15. ASSUME NEW f \in Flushers, Goes(f) \/ Breaks(f) PROVE Done
  BY <1>6, <1>7, <1>8, <1>9, <1>10, <1>11, <1>12, <1>13, <1>14, <1>15, Zenon
  DEF Goes, Breaks, Mark, MarkFails, Reschedule, MarkFailed
<1>16. ASSUME NEW k \in Rows, Stage(k) \/ Time(k) \/ Take(k) PROVE Done
  <2>1. UNCHANGED flusher
    BY <1>16 DEF Stage, Time, LeaseExpires, BackoffElapses, Take
  <2> QED BY <1>2, <2>1 DEF Done
<1>17. Disable \/ UNCHANGED vars => UNCHANGED flusher
  BY DEF Disable, vars
<1> QED BY <1>2, <1>15, <1>16, <1>17 DEF Done, Next

-----------------------------------------------------------------------------
(* The invariant and the properties.                                       *)

\* An empty outbox satisfies the inductive invariant.
LEMMA InitInv == Init => Inv
<1>1. 0 \in 0..MaxAttempts /\ 0 \in 0..MaxFaults
  BY OutboxAssumption
<1> SUFFICES ASSUME Init PROVE Inv
  OBVIOUS
<1>2. \A k \in Rows : /\ outbox[k] \in Row /\ ~outbox[k].live
                      /\ outbox[k].status = "ABSENT" /\ queue[k] = "unsent"
  BY <1>1 DEF Init, Row
<1>3. outbox \in [Rows -> Row]
  BY <1>2 DEF Init
<1>4. TypeOK
  BY <1>1, <1>2, <1>3, NextTypes DEF Init, TypeOK
<1>5. RowsOK
  BY <1>2 DEF RowsOK
<1>6. ASSUME NEW f \in Flushers PROVE FlusherOK(f)
  BY DEF Init, FlusherOK, IdleFlusher, AtRow
<1> QED BY <1>4, <1>5, <1>6 DEF Inv

\* Every step preserves the inductive invariant.
LEMMA StepInv == Inv /\ [Next]_vars => Inv'
<1> SUFFICES ASSUME Inv, [Next]_vars PROVE Inv'
  OBVIOUS
<1>1. TransportStep /\ BoxStep
  BY TransportSteps, RowSteps
<1>2. flusher' \in [Flushers -> Flusher] /\ \A f \in Flushers : FlusherStep(f)
  BY FlusherSteps
<1>3. TypeOK'
  BY <1>1, <1>2 DEF TypeOK, TransportStep, BoxStep
<1>4. RowsOK'
  <2> SUFFICES ASSUME NEW k \in Rows
               PROVE  /\ outbox'[k].status = "PUBLISHED" => queue'[k] # "unsent"
                      /\ outbox'[k].status = "FAILED" /\ outbox'[k].valid =>
                           ~queueOn' /\ work'[k] # "open"
    BY DEF RowsOK
  <2> QED BY <1>1 DEF TransportStep, BoxStep, RowStep, Inv, RowsOK
<1>5. ASSUME NEW f \in Flushers PROVE FlusherOK(f)'
  <2>1. \A k \in flusher'[f].claimed : k \in Rows
    BY <1>2 DEF Flusher
  <2> QED BY <1>1, <1>2, <2>1 DEF TransportStep, BoxStep, RowStep, FlusherStep, FlusherOK, AtRow
<1> QED BY <1>3, <1>4, <1>5 DEF Inv

\* The inductive invariant holds in every reachable state.
LEMMA Invariance == Spec => []Inv
BY InitInv, StepInv, PTL DEF Spec

\* A closed row is not written: each statement asks for a pending or leased one.
LEMMA ClosedSteps ==
  ASSUME Inv, [Next]_vars, NEW k \in Rows, outbox[k].status \in {"PUBLISHED", "FAILED"}
  PROVE  outbox'[k] = outbox[k]
<1> USE DEF Inv, TypeOK
<1>1. ASSUME NEW f \in Flushers, NEW status, NEW due, Becomes(f, status, due)
      PROVE  outbox'[k] = outbox[k]
  BY <1>1 DEF Becomes, Held
<1>2. ASSUME NEW f \in Flushers, Recover(f) \/ Claim(f)
      PROVE  outbox'[k] = outbox[k]
  BY <1>2 DEF Recover, ExpiredLease, Claim, Due
<1>3. ASSUME NEW j \in Rows, Stage(j) \/ Time(j) PROVE outbox'[k] = outbox[k]
  BY <1>3 DEF Stage, Time, LeaseExpires, BackoffElapses
<1>4. CASE UNCHANGED outbox
  BY <1>4
<1> QED
  BY <1>1, <1>2, <1>3, <1>4, Zenon
  DEF Next, Disable, Goes, Breaks, Begin, Publish, PublishDisabled, Mark, Reschedule,
      CancelWork, MarkFailed, PublishFails, MarkFails, CancelFails, Crash, Take, vars

(* What flushes that overlap keep of the rows: published and failed rows are *)
(* never changed again, and a valid row is given up only with its work       *)
(* settled, whoever took the lease over in between.                          *)
THEOREM OutboxKept == Spec => OutboxHolds
<1>1. Inv => TypeOK /\ FailedIsSettled
  BY DEF Inv, RowsOK, FailedIsSettled
<1>2. Inv /\ [Next]_vars =>
        \A k \in Rows : outbox[k].status \in {"PUBLISHED", "FAILED"} => outbox'[k] = outbox[k]
  BY ClosedSteps
<1> QED BY Invariance, <1>1, <1>2, PTL DEF Spec, OutboxHolds, ClosedStaysClosed

-----------------------------------------------------------------------------
(* The refinement of the mailbox: what a step does to a row is a turn of its *)
(* mail, or leaves it.                                                       *)

\* Rows whose mail stays, and a queue that stays, are a stutter of the mailbox.
LEMMA MailStays ==
  ASSUME UNCHANGED queue, \A k \in Rows : MailOf(k)' = MailOf(k)
  PROVE  [Box!Next]_Box!vars
BY DEF Box!vars

\* One row's turn is a turn of the mailbox.
LEMMA MailTurns ==
  ASSUME UNCHANGED queue, NEW k \in Rows, NEW from, NEW to,
         MailOf(k) = from, MailOf(k)' = to,
         \A j \in Rows \ {k} : MailOf(j)' = MailOf(j)
  PROVE  Box!Turn(k, from, to)
BY DEF Box!Turn

\* A row that is under work has its mail waiting.
LEMMA MailWaits ==
  ASSUME NEW k \in Rows, outbox[k].status \in {"PENDING", "LEASED"}
  PROVE  MailOf(k) = "waiting"
BY DEF MailOf

\* The write under a lease closes or drops the mail of the row, or leaves it.
LEMMA MailBecomes ==
  ASSUME Inv, NEW f \in Flushers, NEW k \in Rows, flusher[f].row = k,
         NEW status \in {"PENDING", "PUBLISHED", "FAILED"}, NEW due \in BOOLEAN,
         Becomes(f, status, due), UNCHANGED queue,
         status = "PUBLISHED" => queue[k] # "unsent"
  PROVE  [Box!Next]_Box!vars
<1>1. /\ \A j \in Rows \ {k} : outbox'[j] = outbox[j]
      /\ \/ outbox'[k] = outbox[k]
         \/ outbox[k].status = "LEASED" /\ outbox'[k].status = status
  BY BecomesStep DEF Inv
<1>2. \A j \in Rows \ {k} : MailOf(j)' = MailOf(j)
  BY <1>1 DEF MailOf
<1>3. CASE outbox'[k] = outbox[k]
  <2>1. MailOf(k)' = MailOf(k)
    BY <1>3 DEF MailOf
  <2> QED BY <1>2, <2>1, MailStays
<1>4. CASE outbox[k].status = "LEASED" /\ outbox'[k].status = status
  <2>1. MailOf(k) = "waiting"
    BY <1>4 DEF MailOf
  <2>2. CASE status = "PENDING"
    <3>1. MailOf(k)' = MailOf(k)
      BY <1>4, <2>1, <2>2 DEF MailOf
    <3> QED BY <1>2, <3>1, MailStays
  <2>3. CASE status = "PUBLISHED"
    <3>1. MailOf(k)' = "closed"
      BY <1>4, <2>3 DEF MailOf
    <3>2. Box!Turn(k, "waiting", "closed")
      BY <1>2, <2>1, <3>1, MailTurns
    <3> QED BY <2>3, <3>2 DEF Box!Close, Box!Next
  <2>4. CASE status = "FAILED"
    <3>1. MailOf(k)' = "dropped"
      BY <1>4, <2>4 DEF MailOf
    <3>2. Box!Turn(k, "waiting", "dropped")
      BY <1>2, <2>1, <3>1, MailTurns
    <3> QED BY <3>2 DEF Box!Drop, Box!Next
  <2> QED BY <2>2, <2>3, <2>4
<1> QED BY <1>1, <1>3, <1>4

\* A message is sent while its mail waits: a row that was published has been
\* sent before, and none is given up while there is a queue.
LEMMA MailSent ==
  ASSUME Inv, NEW f \in Flushers, flusher[f].pc = "publish", queueOn,
         queue' \in {queue, Sent(flusher[f].row)}, UNCHANGED outbox
  PROVE  [Box!Next]_Box!vars
<1>1. PICK k \in Rows : /\ k = flusher[f].row
                        /\ outbox[k].status # "ABSENT" /\ outbox[k].valid
                        /\ outbox[k] \in Row
  BY AtItsRow DEF Inv, FlusherOK, AtRow
<1>2. \A j \in Rows : MailOf(j)' = MailOf(j)
  BY DEF MailOf
<1>3. CASE UNCHANGED queue
  BY <1>2, <1>3, MailStays
<1>4. CASE queue[k] = "unsent" /\ queue' = [queue EXCEPT ![k] = "queued"]
  <2>1. outbox[k].status \in {"PENDING", "LEASED"}
    BY <1>1, <1>4 DEF Inv, RowsOK, Row
  <2>2. MailOf(k) = "waiting"
    BY <1>1, <2>1, MailWaits
  <2>3. Box!Send(k)
    BY <1>1, <1>2, <1>4, <2>2 DEF Box!Send
  <2> QED BY <1>1, <2>3 DEF Box!Next
<1> QED BY <1>1, <1>3, <1>4 DEF Sent

\* Every step of the outbox is a step of the mailbox, or none.
LEMMA MailSteps ==
  ASSUME Inv, [Next]_vars
  PROVE  [Box!Next]_Box!vars
<1>1. CASE UNCHANGED <<outbox, queue>>
  BY <1>1, MailStays DEF MailOf
<1>2. ASSUME NEW k \in Rows, Stage(k) PROVE [Box!Next]_Box!vars
  <2>1. /\ outbox[k].status = "ABSENT" /\ outbox'[k].status = "PENDING"
        /\ \A j \in Rows \ {k} : outbox'[j] = outbox[j]
        /\ UNCHANGED queue
    BY <1>2 DEF Stage, Inv, TypeOK, Row
  <2>2. /\ MailOf(k) = "none" /\ MailOf(k)' = "waiting"
        /\ \A j \in Rows \ {k} : MailOf(j)' = MailOf(j)
    BY <2>1 DEF MailOf
  <2>3. Box!Turn(k, "none", "waiting")
    BY <2>1, <2>2, MailTurns
  <2> QED BY <2>1, <2>3 DEF Box!Stage, Box!Next
<1>3. ASSUME NEW k \in Rows, Time(k) PROVE [Box!Next]_Box!vars
  <2>1. UNCHANGED queue /\ \A j \in Rows : outbox'[j].status = outbox[j].status
    BY <1>3 DEF Time, LeaseExpires, BackoffElapses, Inv, TypeOK, Row
  <2> QED BY <2>1, MailStays DEF MailOf
<1>4. ASSUME NEW k \in Rows, Take(k) PROVE [Box!Next]_Box!vars
  <2>1. \A j \in Rows : MailOf(j)' = MailOf(j)
    BY <1>4 DEF Take, MailOf
  <2>2. Box!Take(k)
    BY <1>4, <2>1 DEF Take, Box!Take
  <2> QED BY <2>2 DEF Box!Next
<1>5. ASSUME NEW f \in Flushers, Recover(f) \/ Claim(f) PROVE [Box!Next]_Box!vars
  <2>1. UNCHANGED queue
    BY <1>5 DEF Recover, Claim
  <2>2. \A k \in Rows : \/ outbox'[k] = outbox[k]
                        \/ /\ outbox[k].status \in {"PENDING", "LEASED"}
                           /\ outbox'[k].status \in {"PENDING", "LEASED"}
    <3>1. CASE Recover(f)
      BY <3>1 DEF Recover, ExpiredLease, Inv, TypeOK, Row
    <3>2. CASE Claim(f)
      <4>1. PICK S \in SUBSET Due :
              outbox' = [k \in Rows |-> IF k \in S
                           THEN [outbox[k] EXCEPT !.status = "LEASED", !.live = TRUE,
                                                  !.attempts = @ + 1]
                           ELSE outbox[k]]
        BY <3>2 DEF Claim
      <4> QED BY <4>1 DEF Due, Inv, TypeOK, Row
    <3> QED BY <1>5, <3>1, <3>2
  <2> QED BY <2>1, <2>2, MailStays DEF MailOf
<1>6. ASSUME NEW f \in Flushers, Publish(f) \/ PublishFails(f) PROVE [Box!Next]_Box!vars
  BY <1>6, MailSent DEF Publish, PublishFails
<1>7. ASSUME NEW f \in Flushers, Mark(f) PROVE [Box!Next]_Box!vars
  <2>1. flusher[f].row \in Rows /\ queue[flusher[f].row] # "unsent"
    BY <1>7, AtItsRow DEF Mark, AtRow, Inv, FlusherOK
  <2> QED BY <1>7, <2>1, MailBecomes DEF Mark
<1>8. ASSUME NEW f \in Flushers, Reschedule(f) \/ MarkFailed(f) PROVE [Box!Next]_Box!vars
  <2>1. flusher[f].row \in Rows
    BY <1>8, AtItsRow DEF Reschedule, MarkFailed, AtRow
  <2> QED BY <1>8, <2>1, MailBecomes DEF Reschedule, MarkFailed
<1>9. ASSUME NEW f \in Flushers, Goes(f) \/ Breaks(f) PROVE [Box!Next]_Box!vars
  BY <1>1, <1>5, <1>6, <1>7, <1>8, <1>9, Zenon
  DEF Goes, Breaks, Begin, PublishDisabled, CancelWork, MarkFails, CancelFails, Crash
<1>10. Disable \/ UNCHANGED vars => UNCHANGED <<outbox, queue>>
  BY DEF Disable, vars
<1> QED BY <1>1, <1>2, <1>3, <1>4, <1>9, <1>10, Zenon DEF Next

(* The outbox implements the mailbox, but for the mailbox's fairness: what   *)
(* was staged is handed over before it is closed, each key once, whatever    *)
(* flushes overlap, fail or stop.                                            *)
THEOREM MailboxRefinement == Spec => Box!Spec
<1>1. Init => Box!Init
  BY DEF Init, Box!Init, MailOf
<1>2. Inv /\ [Next]_vars => [Box!Next]_Box!vars
  BY MailSteps
<1> QED BY Invariance, <1>1, <1>2, PTL DEF Spec, Box!Spec
=============================================================================
