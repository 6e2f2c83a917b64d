---------------------------- MODULE AnalysisOutbox ----------------------------
(***************************************************************************)
(* The transactional outbox of the analysis: rows staged beside the work   *)
(* they announce, and flushed to the queue by any number of concurrent     *)
(* invocations.  A flush recovers expired leases, claims due rows in one   *)
(* transaction, and publishes them one after the other.                    *)
(***************************************************************************)
EXTENDS Naturals, FiniteSets

CONSTANTS
  Rows,         \* AnalysisOutbox rows, by idempotency key
  Flushers,     \* invocations of flushAnalysisOutbox
  Limit,        \* rows that one flush claims
  MayDisable,   \* a deployment may switch the queue off
  MaxAttempts,  \* bound on the claims of one row
  MaxFaults,    \* bound on the faults of a behaviour
  NoRow

ASSUME OutboxAssumption ==
  /\ IsFiniteSet(Rows) /\ IsFiniteSet(Flushers)
  /\ Limit \in Nat \ {0}
  /\ MayDisable \in BOOLEAN
  /\ MaxAttempts \in Nat \ {0} /\ MaxFaults \in Nat
  /\ NoRow \notin Rows

VARIABLES
  outbox,   \* the rows
  flusher,  \* each invocation: where it is, and what it claimed
  queue,    \* the transport, by idempotency key
  work,     \* what a row announces: "open", "taken" up or "cancelled"
  queueOn,  \* FALSE: publishing answers "disabled"
  faults

world == <<queueOn, faults>>
vars == <<outbox, flusher, queue, work, world>>

-----------------------------------------------------------------------------
\* attempts counts the claims of a row, so it names a lease as leaseToken does
Row == [status   : {"ABSENT", "PENDING", "LEASED", "PUBLISHED", "FAILED"},
        valid    : BOOLEAN,   \* its payload parses
        due      : BOOLEAN,   \* availableAt has come
        live     : BOOLEAN,   \* lockedUntil is in the future
        attempts : 0..MaxAttempts]

\* claimed: the rows of the claim still to do, token: their attempts then
Flusher == [pc      : {"idle", "claim", "next", "publish", "mark", "reschedule",
                       "cancel", "fail"},
            claimed : SUBSET Rows,
            row     : Rows \cup {NoRow},
            token   : [Rows -> 0..MaxAttempts]]

IdleFlusher == [pc |-> "idle", claimed |-> {}, row |-> NoRow,
                token |-> [k \in Rows |-> 0]]

Init ==
  /\ outbox = [k \in Rows |-> [status |-> "ABSENT", valid |-> TRUE,
                               due |-> TRUE, live |-> FALSE, attempts |-> 0]]
  /\ flusher = [f \in Flushers |-> IdleFlusher]
  /\ queue = [k \in Rows |-> "unsent"]
  /\ work = [k \in Rows |-> "open"]
  /\ queueOn = TRUE
  /\ faults = 0

Fault == faults < MaxFaults /\ faults' = faults + 1

-----------------------------------------------------------------------------
\* stageAnalysisOutboxMessage: an existing key is left alone.  The payload may
\* be of a version that the flushing deployment does not parse.
Stage(k) ==
  /\ outbox[k].status = "ABSENT"
  /\ \E valid \in BOOLEAN :
       outbox' = [outbox EXCEPT ![k].status = "PENDING", ![k].valid = valid]
  /\ UNCHANGED <<flusher, queue, work, world>>

ExpiredLease(k) == outbox[k].status = "LEASED" /\ ~outbox[k].live

\* recoverExpiredAnalysisOutboxLeases, the first statement of a flush
Recover(f) ==
  /\ flusher[f].pc = "idle"
  /\ outbox' = [k \in Rows |-> IF ExpiredLease(k)
                               THEN [outbox[k] EXCEPT !.status = "PENDING"]
                               ELSE outbox[k]]
  /\ flusher' = [flusher EXCEPT ![f].pc = "claim"]
  /\ UNCHANGED <<queue, work, world>>

Due == {k \in Rows : /\ outbox[k].status = "PENDING" /\ outbox[k].due
                     /\ outbox[k].attempts < MaxAttempts}

\* The next row of the flush, or its end.
NextOf(fl) == IF fl.claimed = {} THEN IdleFlusher
              ELSE [fl EXCEPT !.pc = "next", !.row = NoRow]

\* claimDueOutboxRows.  The oldest rows come first; which these are is not kept.
Claim(f) ==
  /\ flusher[f].pc = "claim"
  /\ \E S \in SUBSET Due :
       /\ IF Cardinality(Due) <= Limit THEN S = Due ELSE Cardinality(S) = Limit
       /\ outbox' = [k \in Rows |->
                       IF k \in S
                       THEN [outbox[k] EXCEPT !.status = "LEASED", !.live = TRUE,
                                              !.attempts = @ + 1]
                       ELSE outbox[k]]
       /\ flusher' = [flusher EXCEPT ![f] =
                        NextOf([@ EXCEPT !.claimed = S,
                                         !.token = [k \in Rows |->
                                           IF k \in S THEN outbox[k].attempts + 1
                                           ELSE 0]])]
  /\ UNCHANGED <<queue, work, world>>

\* One turn of the loop of flushAnalysisOutbox.
Begin(f) ==
  /\ flusher[f].pc = "next"
  /\ \E k \in flusher[f].claimed :
       flusher' = [flusher EXCEPT ![f].row = k,
                                  ![f].claimed = @ \ {k},
                                  ![f].pc = IF outbox[k].valid THEN "publish"
                                            ELSE "fail"]
  /\ UNCHANGED <<outbox, queue, work, world>>

GoTo(f, pc) == flusher' = [flusher EXCEPT ![f].pc = pc]

\* the transport keeps one message of each key
Sent(k) == IF queue[k] = "unsent" THEN [queue EXCEPT ![k] = "queued"] ELSE queue

\* publishBackranqQueueMessage succeeds.
Publish(f) ==
  /\ flusher[f].pc = "publish" /\ queueOn
  /\ queue' = Sent(flusher[f].row)
  /\ GoTo(f, "mark")
  /\ UNCHANGED <<outbox, work, world>>

\* It answers that there is no queue.
PublishDisabled(f) ==
  /\ flusher[f].pc = "publish" /\ ~queueOn
  /\ GoTo(f, "cancel")
  /\ UNCHANGED <<outbox, queue, work, world>>

\* Mutant: a failure passes for a success.
PublishFailsSilently(f) ==
  /\ flusher[f].pc = "publish" /\ queueOn
  /\ Fault
  /\ GoTo(f, "mark")
  /\ UNCHANGED <<outbox, queue, work, queueOn>>

\* It fails; the queue may have the message all the same.
PublishFails(f) ==
  /\ flusher[f].pc = "publish" /\ queueOn
  /\ Fault
  /\ queue' \in {queue, Sent(flusher[f].row)}
  /\ GoTo(f, "reschedule")
  /\ UNCHANGED <<outbox, work, queueOn>>

\* Mutant: whoever has the lease, and whatever became of the row.
HeldByAny(f, k) == TRUE

\* The row is leased under this flush's token.
Held(f, k) ==
  /\ outbox[k].status = "LEASED"
  /\ outbox[k].attempts = flusher[f].token[k]

\* updateMany where the lease is held; any other row stays as it is
Becomes(f, status, due) ==
  LET k == flusher[f].row
  IN  outbox' = IF Held(f, k)
                THEN [outbox EXCEPT ![k].status = status, ![k].due = due,
                                    ![k].live = FALSE]
                ELSE outbox

Continue(f) == flusher' = [flusher EXCEPT ![f] = NextOf(@)]

\* The row is PUBLISHED; a lost lease is logged.
Mark(f) ==
  /\ flusher[f].pc = "mark"
  /\ Becomes(f, "PUBLISHED", TRUE)
  /\ Continue(f)
  /\ UNCHANGED <<queue, work, world>>

\* The mark fails: the lease stays, and the row is published again.
MarkFails(f) ==
  /\ flusher[f].pc = "mark"
  /\ Fault
  /\ Continue(f)
  /\ UNCHANGED <<outbox, queue, work, queueOn>>

\* rescheduleOutboxRow
Reschedule(f) ==
  /\ flusher[f].pc = "reschedule"
  /\ Becomes(f, "PENDING", FALSE)
  /\ Continue(f)
  /\ UNCHANGED <<queue, work, world>>

Cancelled(k) == [work EXCEPT ![k] = IF @ = "open" THEN "cancelled" ELSE @]

\* cancelDisabledOutboxWork
CancelWork(f) ==
  /\ flusher[f].pc = "cancel"
  /\ work' = Cancelled(flusher[f].row)
  /\ GoTo(f, "fail")
  /\ UNCHANGED <<outbox, queue, world>>

\* One of its transactions fails, or the mark after them; what was done
\* before stays done.
CancelFails(f) ==
  /\ \/ flusher[f].pc = "cancel"
     \/ flusher[f].pc = "fail" /\ outbox[flusher[f].row].valid
  /\ Fault
  /\ work' \in {work, Cancelled(flusher[f].row)}
  /\ GoTo(f, "reschedule")
  /\ UNCHANGED <<outbox, queue, queueOn>>

\* markOutboxFailed
MarkFailed(f) ==
  /\ flusher[f].pc = "fail"
  /\ Becomes(f, "FAILED", TRUE)
  /\ Continue(f)
  /\ UNCHANGED <<queue, work, world>>

\* The invocation ends here: it is killed, or one of the statements whose
\* errors nobody catches fails.
Crash(f) ==
  /\ flusher[f].pc # "idle"
  /\ Fault
  /\ flusher' = [flusher EXCEPT ![f] = IdleFlusher]
  /\ UNCHANGED <<outbox, queue, work, queueOn>>

-----------------------------------------------------------------------------
(* Time and the consumer.                                                  *)

InUse(k) == \E f \in Flushers : /\ k \in flusher[f].claimed \cup {flusher[f].row}
                                /\ Held(f, k)

\* One lease covers all rows of a claim: it may end before the last is sent.
LeaseExpires(k) ==
  /\ outbox[k].status = "LEASED" /\ outbox[k].live
  /\ IF InUse(k) THEN Fault ELSE UNCHANGED faults
  /\ outbox' = [outbox EXCEPT ![k].live = FALSE]
  /\ UNCHANGED <<flusher, queue, work, queueOn>>

BackoffElapses(k) ==
  /\ outbox[k].status = "PENDING" /\ ~outbox[k].due
  /\ outbox' = [outbox EXCEPT ![k].due = TRUE]
  /\ UNCHANGED <<flusher, queue, work, world>>

Disable ==
  /\ MayDisable /\ queueOn
  /\ queueOn' = FALSE
  /\ UNCHANGED <<outbox, flusher, queue, work, faults>>

\* The message is delivered, and its work taken up.
Take(k) ==
  /\ queue[k] = "queued"
  /\ queue' = [queue EXCEPT ![k] = "taken"]
  /\ work' = [work EXCEPT ![k] = IF @ = "open" THEN "taken" ELSE @]
  /\ UNCHANGED <<outbox, flusher, world>>

-----------------------------------------------------------------------------
Goes(f) == \/ Recover(f) \/ Claim(f) \/ Begin(f) \/ Publish(f)
           \/ PublishDisabled(f) \/ Mark(f) \/ Reschedule(f) \/ CancelWork(f)
           \/ MarkFailed(f)

Breaks(f) == PublishFails(f) \/ MarkFails(f) \/ CancelFails(f) \/ Crash(f)

Time(k) == LeaseExpires(k) \/ BackoffElapses(k)

Next ==
  \/ Disable
  \/ \E f \in Flushers : Goes(f) \/ Breaks(f)
  \/ \E k \in Rows : Stage(k) \/ Time(k) \/ Take(k)

Spec == Init /\ [][Next]_vars

\* Flushes go on, leases and backoffs end, the queue delivers.
FairSpec ==
  /\ Spec
  /\ \A f \in Flushers : WF_vars(Goes(f))
  /\ \A k \in Rows : /\ WF_vars(~InUse(k) /\ LeaseExpires(k))
                     /\ WF_vars(BackoffElapses(k))
                     /\ WF_vars(Take(k))

-----------------------------------------------------------------------------
TypeOK ==
  /\ outbox \in [Rows -> Row]
  /\ \A k \in Rows : outbox[k].live => outbox[k].status = "LEASED"
  /\ flusher \in [Flushers -> Flusher]
  /\ queue \in [Rows -> {"unsent", "queued", "taken"}]
  /\ work \in [Rows -> {"open", "taken", "cancelled"}]
  /\ queueOn \in BOOLEAN
  /\ faults \in 0..MaxFaults

(* A row is given up only when nothing waits for it: its work was cancelled  *)
(* first, or taken up because an earlier attempt had reached the queue,      *)
(* whatever failed or expired between the two statements.                    *)
FailedIsSettled ==
  \A k \in Rows : outbox[k].status = "FAILED" /\ outbox[k].valid => work[k] # "open"

(* A row that was published or has failed is never reopened, resent or       *)
(* changed by an invocation whose lease another one took over.               *)
ClosedStaysClosed ==
  [][\A k \in Rows : outbox[k].status \in {"PUBLISHED", "FAILED"}
                     => outbox'[k] = outbox[k]]_vars

(* The outbox keeps the promise of the abstract mailbox.                     *)
MailOf(k) ==
  CASE outbox[k].status = "ABSENT" -> "none"
    [] outbox[k].status \in {"PENDING", "LEASED"} -> "waiting"
    [] outbox[k].status = "PUBLISHED" -> "closed"
    [] outbox[k].status = "FAILED" -> "dropped"

Box == INSTANCE Mailbox WITH Keys <- Rows, mail <- [k \in Rows |-> MailOf(k)]

MailboxKept == Box!FairSpec

(* What flushes that overlap keep of the rows (analysisOutbox.ts): closed    *)
(* rows stay closed, and one that was given up has its work settled.         *)
OutboxHolds == [](TypeOK /\ FailedIsSettled) /\ ClosedStaysClosed
=============================================================================
