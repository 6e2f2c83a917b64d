---------------------------- MODULE AnalysisJobs ----------------------------
(***************************************************************************)
(* Server analysis of one user's games: the AnalysisJob row of a game, the *)
(* AnalysisRun it executes, the credit entries of each run, the function   *)
(* invocations that work on jobs, and the maintenance that recovers and    *)
(* reconciles them.                                                        *)
(*                                                                         *)
(* A step is one database transaction (or one statement outside of any     *)
(* transaction) of the code; an invocation can be interleaved with any     *)
(* other, fail, or disappear between two of its steps.                     *)
(*                                                                         *)
(* Abstractions.  Every run has the same price, so a run's credit entries  *)
(* are the set of idempotency keys written for it (AnalysisJobs never asks *)
(* how many credits there are: module BillingAccounts does).  The fence    *)
(* (lockedAt, dispatchedCount) is the dispatch count alone: a claim writes *)
(* both, every count is issued once and lockedAt is NULL exactly when      *)
(* lease = "none".  Clock comparisons are the states of a lease ("live"    *)
(* while lockedUntil > now) and of scheduledFor ("due").                   *)
(***************************************************************************)
EXTENDS Naturals, FiniteSets

CONSTANTS
  Games,        \* the user's AnalyzedGame rows
  Runs,         \* identifiers of AnalysisRun rows, each created at most once
  Workers,      \* function invocations alive at the same time
  Reasons,      \* queuedReason values used
  None,         \* NULL: no run, no game
  MaxAttempts,  \* DEFAULT_ANALYSIS_RETRY_MAX_ATTEMPTS (5 in the code)
  HardStop,     \* TRUE: the platform kills an invocation at maxDuration
  MaxSlices,    \* bound: checkpoints an extraction writes before it ends
  MaxEdits,     \* bound: changes of a game's PGN
  MaxFaults     \* bound: crashes, failed calls, lost or late deliveries

ASSUME ConstantsAssumption ==
  /\ None \notin Runs \cup Games
  /\ IsFiniteSet(Games)
  /\ MaxAttempts \in Nat \ {0}
  /\ HardStop \in BOOLEAN
  /\ {MaxSlices, MaxEdits, MaxFaults} \subseteq Nat

AutoReasons == {"auto-sync", "auto-analysis"}

ASSUME ReasonsAssumption ==
  Reasons \subseteq {"manual", "manual-reanalysis"} \cup AutoReasons

VARIABLES
  game,        \* AnalyzedGame: presence, PGN version, analysis published
  job,         \* AnalysisJob of each game (status "ABSENT": no row)
  run,         \* AnalysisRun rows (status "FREE": not created)
  ledger,      \* idempotency keys of the credit entries of each run
  checkpoint,  \* version of each run's AnalysisRunCheckpoint (0: no row)
  messages,    \* dispatch tokens <<game, dispatchedCount>> in the transport
  worker,      \* invocations of analyzeGameJob and of the recovery
  settler,     \* the reconciliation of unsettled runs
  faults       \* faults so far

vars == <<game, job, run, ledger, checkpoint, messages, worker, settler,
          faults>>

-----------------------------------------------------------------------------
(* Rows and their values.                                                  *)

Active   == {"QUEUED", "RUNNING"}
Terminal == {"SUCCEEDED", "FAILED", "CANCELLED"}

\* lastError, as far as the code reads it back: the prefix
\* CREDIT_SETTLEMENT_PENDING:<action>:
Pending == {"none", "consume", "release"}

Settlements == {"consume", "release", "disabled-release",
                "queue-unavailable-release"}
Keys == {"reserve"} \cup Settlements

GameRow == [present  : BOOLEAN,
            pgn      : 0..MaxEdits,
            analyzed : BOOLEAN,
            current  : Runs \cup {None}]

JobRow == [status   : {"ABSENT"} \cup Active \cup Terminal,
           run      : Runs \cup {None},
           lease    : {"none", "live", "expired"},
           count    : Nat,
           attempts : 0..MaxAttempts,
           due      : BOOLEAN,
           reason   : Reasons \cup {"none"},
           created  : Nat,
           pending  : Pending]

RunRow == [status  : {"FREE", "DELETED"} \cup Active \cup Terminal,
           game    : Games \cup {None},
           pgn     : 0..MaxEdits,
           wrote   : BOOLEAN,
           pending : Pending]

WorkerPC == {"idle", "started", "loaded", "entered", "extracting", "skipping",
             "settling", "marking", "recording"}

WorkerState == [pc      : WorkerPC,
                game    : Games \cup {None},
                count   : Nat,
                run     : Runs \cup {None},
                skip    : BOOLEAN,
                version : 0..MaxSlices,
                path    : {"none", "success", "failure", "recovery",
                           "fallback"},
                action  : Pending]

SettlerState == [pc     : {"idle", "scanned", "settled"},
                 run    : Runs \cup {None},
                 seen   : Active \cup Terminal,
                 action : Pending]

NoJob == [status |-> "ABSENT", run |-> None, lease |-> "none", count |-> 0,
          attempts |-> 0, due |-> FALSE, reason |-> "none", created |-> 0,
          pending |-> "none"]

Idle == [pc |-> "idle", game |-> None, count |-> 0,
         run |-> None, skip |-> FALSE, version |-> 0, path |-> "none",
         action |-> "none"]

SettlerIdle == [pc |-> "idle", run |-> None,
                seen |-> "SUCCEEDED", action |-> "none"]

Init ==
  /\ game = [g \in Games |-> [present |-> TRUE, pgn |-> 0, analyzed |-> FALSE,
                              current |-> None]]
  /\ job = [g \in Games |-> NoJob]
  /\ run = [r \in Runs |-> [status |-> "FREE", game |-> None,
                            pgn |-> 0, wrote |-> FALSE, pending |-> "none"]]
  /\ ledger = [r \in Runs |-> {}]
  /\ checkpoint = [r \in Runs |-> 0]
  /\ messages = {}
  /\ worker = [w \in Workers |-> Idle]
  /\ settler = SettlerIdle
  /\ faults = 0

-----------------------------------------------------------------------------
(* Helpers.                                                                *)

\* A crash, a failed call or a lost or late delivery happens now.
Fault == faults < MaxFaults /\ faults' = faults + 1

\* Mutant: settlements are not subtracted from what was reserved.
EverReserved(r) == "reserve" \in ledger[r]

\* The reservation of run r has not been settled under any key.
Outstanding(r) == "reserve" \in ledger[r] /\ ledger[r] \cap Settlements = {}

\* Whether a settlement of r under key returns without an exception: the key
\* was written before, or r's own entries still hold the reservation.  The
\* entries of a deleted run have lost their reference to it.
CanSettle(r, key) ==
  \/ key \in ledger[r]
  \/ run[r].status # "DELETED" /\ Outstanding(r)

Settled(r, key) == [ledger EXCEPT ![r] = @ \cup {key}]

\* lease cleared, back to the queue, due at once or after a backoff
Requeued(j, isDue) ==
  [j EXCEPT !.status = "QUEUED", !.lease = "none", !.due = isDue,
            !.pending = "none"]

\* lease cleared in a final state
Finished(j, status, pending) ==
  [j EXCEPT !.status = status, !.lease = "none", !.pending = pending]

\* updateMany on the run where its status is one of the given ones
RunMoved(r, from, to) ==
  IF run[r].status \in from
  THEN [run EXCEPT ![r].status = to, ![r].pending = "none"]
  ELSE run

\* Mutant: no marker in the transaction of the completion.
SucceededUnmarked(r, wrote, action) ==
  [run EXCEPT ![r].status = "SUCCEEDED", ![r].wrote = wrote,
              ![r].pending = "none"]

\* the completed run, marked with the settlement that must follow
Succeeded(r, wrote, action) ==
  [run EXCEPT ![r].status = "SUCCEEDED", ![r].wrote = wrote,
              ![r].pending = action]

HasAttempt(g) == job[g].attempts < MaxAttempts

\* Mutant: the fence without the dispatch count.
FencedByStatus(w) == job[worker[w].game].status = "RUNNING"

\* runningFenceWhere: the job still runs under the worker's dispatch
Fenced(w) ==
  LET g == worker[w].game
  IN  job[g].status = "RUNNING" /\ job[g].count = worker[w].count

\* an invocation is at work for the job under its latest dispatch
Attended(g) ==
  \E w \in Workers : /\ worker[w].pc # "idle"
                     /\ worker[w].game = g
                     /\ worker[w].count = job[g].count

Goto(w, pc) == worker' = [worker EXCEPT ![w].pc = pc]
Leave(w)    == worker' = [worker EXCEPT ![w] = Idle]

-----------------------------------------------------------------------------
(* The user's requests.                                                    *)

\* enqueueAnalysisJob: one job per game, a new run per lifecycle, and the
\* reservation in the same serializable transaction.  An existing active job,
\* or a succeeded one without force, is returned unchanged (no step).
Enqueue(g, r, reason, force) ==
  /\ game[g].present
  /\ run[r].status = "FREE"
  /\ job[g].status \in {"ABSENT", "FAILED", "CANCELLED"}
       \cup (IF force THEN {"SUCCEEDED"} ELSE {})
  /\ run' = [run EXCEPT ![r] = [status |-> "QUEUED", game |-> g,
                                pgn |-> game[g].pgn, wrote |-> FALSE,
                                pending |-> "none"]]
  /\ job' = [job EXCEPT ![g] =
       [status |-> "QUEUED", run |-> r, lease |-> "none", count |-> @.count,
        attempts |-> 0, due |-> TRUE, reason |-> reason,
        created |-> IF @.status = "ABSENT"
                    THEN Cardinality({h \in Games : job[h].status # "ABSENT"})
                    ELSE @.created,
        pending |-> "none"]]
  /\ ledger' = [ledger EXCEPT ![r] = {"reserve"}]
  /\ UNCHANGED <<game, checkpoint, messages, worker, settler, faults>>

\* saveNormalizedGame with a changed PGN: the published analysis is dropped,
\* whatever jobs the game has.
EditPgn(g) ==
  /\ game[g].present
  /\ game[g].pgn < MaxEdits
  /\ game' = [game EXCEPT ![g].pgn = @ + 1, ![g].analyzed = FALSE,
                          ![g].current = None]
  /\ UNCHANGED <<job, run, ledger, checkpoint, messages, worker, settler,
                 faults>>

\* createAndCompleteLocalAnalysisRun: the browser's own analysis, whose run is
\* created and completed in one transaction and costs nothing.
AnalyzeLocally(g) ==
  /\ game[g].present
  /\ game' = [game EXCEPT ![g].analyzed = TRUE, ![g].current = None]
  /\ UNCHANGED <<job, run, ledger, checkpoint, messages, worker, settler,
                 faults>>

\* the runs whose reservation the entries of g's job still hold
OwedRuns(g) == {r \in Runs : /\ run[r].status \notin {"FREE", "DELETED"}
                             /\ run[r].game = g
                             /\ Outstanding(r)}

\* The job's entries hold at least the price of a run.
Owing(g) == OwedRuns(g) # {}

\* cancelQueuedAutoAnalysisJobsInTransaction: all queued automatic jobs in the
\* transaction of the preferences update; a release that fails aborts it all.
DisableAutomation ==
  LET stopped == {g \in Games : /\ job[g].status = "QUEUED"
                                /\ job[g].reason \in AutoReasons}
      freed   == {job[g].run : g \in {h \in stopped : Owing(h)}}
  IN  /\ stopped # {}
      /\ \A r \in freed : CanSettle(r, "disabled-release")
      /\ job' = [g \in Games |->
                   IF g \in stopped
                   THEN [Finished(job[g], "CANCELLED", "none")
                           EXCEPT !.due = TRUE]
                   ELSE job[g]]
      /\ run' = [r \in Runs |->
                   IF /\ run[r].status = "QUEUED"
                      /\ \E g \in stopped : job[g].run = r
                   THEN [run[r] EXCEPT !.status = "CANCELLED",
                                       !.pending = "none"]
                   ELSE run[r]]
      /\ ledger' = [r \in Runs |-> IF r \in freed
                                   THEN ledger[r] \cup {"disabled-release"}
                                   ELSE ledger[r]]
      /\ UNCHANGED <<game, checkpoint, messages, worker, settler, faults>>

\* deleteOwnedGameSafely: an active job is cancelled, what the job's entries
\* still hold is settled against its current run, and the rows go with the
\* game.  A settlement that fails aborts the deletion.
DeleteGame(g) ==
  LET j      == job[g]
      action == IF j.status = "SUCCEEDED" /\ j.pending # "release"
                THEN "consume" ELSE "release"
      owed   == OwedRuns(g)
  IN  /\ game[g].present
      /\ IF j.status = "ABSENT" \/ owed = {}
         THEN UNCHANGED ledger
         ELSE /\ action \in ledger[j.run] \/ owed = {j.run}
              /\ ledger' = Settled(j.run, action)
      /\ game' = [game EXCEPT ![g].present = FALSE, ![g].analyzed = FALSE,
                              ![g].current = None]
      /\ job' = [job EXCEPT ![g] = NoJob]
      /\ run' = [r \in Runs |->
                   IF run[r].status # "FREE" /\ run[r].game = g
                   THEN [run[r] EXCEPT !.status = "DELETED",
                                       !.pending = "none"]
                   ELSE run[r]]
      /\ checkpoint' = [r \in Runs |-> IF run[r].game = g THEN 0
                                       ELSE checkpoint[r]]
      /\ UNCHANGED <<messages, worker, settler, faults>>

-----------------------------------------------------------------------------
(* Dispatch.                                                               *)

ReasonRank(reason) == CASE reason \in {"manual", "manual-reanalysis"} -> 0
                        [] reason = "auto-sync" -> 2
                        [] OTHER -> 1

\* compareAnalysisDispatchCandidates
Precedes(g, h) ==
  \/ ReasonRank(job[g].reason) < ReasonRank(job[h].reason)
  \/ /\ ReasonRank(job[g].reason) = ReasonRank(job[h].reason)
     /\ job[g].created < job[h].created

Dispatchable(g) ==
  job[g].status = "QUEUED" /\ job[g].lease # "live" /\ job[g].due

\* Mutant: only running jobs count as holding the user's lease.
LeasedRunning(g) == job[g].status = "RUNNING" /\ job[g].lease = "live"

Leased(g) == job[g].status \in Active /\ job[g].lease = "live"

\* claimOneAnalysisJobForUser, under the user's advisory lock; the outbox row
\* is staged in the same transaction.
Claim(g) ==
  /\ \A h \in Games : ~Leased(h)
  /\ Dispatchable(g)
  /\ \A h \in Games \ {g} : Dispatchable(h) => ~Precedes(h, g)
  /\ job' = [job EXCEPT ![g].lease = "live", ![g].count = @ + 1]
  /\ messages' = messages \cup {<<g, job[g].count + 1>>}
  /\ UNCHANGED <<game, run, ledger, checkpoint, worker, settler, faults>>

\* The transport gives up on a message, or the outbox row never gets there.
Lose(m) ==
  /\ Fault
  /\ messages' = messages \ {m}
  /\ UNCHANGED <<game, job, run, ledger, checkpoint, worker, settler>>

\* The message of the latest claim, or the invocation it started, can still
\* use the lease.
InUse(g) ==
  \/ job[g].status = "RUNNING" /\ Attended(g)
  \/ job[g].status = "QUEUED" /\ <<g, job[g].count>> \in messages

\* now passes lockedUntil.
LeaseExpires(g) ==
  /\ job[g].lease = "live"
  /\ ~InUse(g)
  /\ job' = [job EXCEPT ![g].lease = "expired"]
  /\ UNCHANGED <<game, run, ledger, checkpoint, messages, worker, settler,
                 faults>>

\* now passes lockedUntil although the lease is in use: a delivery that is
\* late or an invocation that stalls, which yields 90 s before its lease ends.
LeaseOverrun(g) ==
  /\ job[g].lease = "live"
  /\ InUse(g)
  /\ Fault
  /\ job' = [job EXCEPT ![g].lease = "expired"]
  /\ UNCHANGED <<game, run, ledger, checkpoint, messages, worker, settler>>

\* now reaches scheduledFor.  The shortest backoff, 60 s, is longer than what
\* the hard stop leaves an invocation after its lease.
BackoffElapses(g) ==
  /\ job[g].status = "QUEUED" /\ ~job[g].due
  /\ HardStop => ~Attended(g)
  /\ job' = [job EXCEPT ![g].due = TRUE]
  /\ UNCHANGED <<game, run, ledger, checkpoint, messages, worker, settler,
                 faults>>

-----------------------------------------------------------------------------
(* analyzeGameJob, statement by statement.                                 *)

\* Mutant: the swap does not ask for a queued job.
StartableTwice(g, n) ==
  job[g].status \in Active /\ job[g].count = n /\ job[g].lease = "live" /\ job[g].due

Startable(g, n) ==
  job[g].status = "QUEUED" /\ job[g].count = n /\ job[g].lease = "live" /\ job[g].due

\* markAnalysisJobRunning: the compare-and-swap that turns a delivery into
\* work.  A delivery it rejects leaves no trace.
Start(w, m) ==
  LET g == m[1]
  IN  /\ worker[w].pc = "idle"
      /\ m \in messages
      /\ Startable(g, m[2])
      /\ job' = [job EXCEPT ![g].status = "RUNNING", ![g].attempts = @ + 1,
                            ![g].pending = "none"]
      /\ worker' = [worker EXCEPT ![w] =
                      [Idle EXCEPT !.pc = "started", !.game = g,
                                   !.count = m[2]]]
      /\ UNCHANGED <<game, run, ledger, checkpoint, messages, settler, faults>>

\* Read the job with its game and run.
Load(w) ==
  LET g == worker[w].game
  IN  /\ worker[w].pc = "started"
      /\ job[g].status # "ABSENT"
      /\ worker' = [worker EXCEPT ![w].pc = "loaded", ![w].run = job[g].run,
                      ![w].skip = /\ game[g].analyzed
                                  /\ job[g].reason # "manual-reanalysis"]
      /\ UNCHANGED <<game, job, run, ledger, checkpoint, messages, settler,
                     faults>>

\* transitionAnalysisRunForJob(RUNNING): the job's run, whatever its status
\* and whoever holds the job.
EnterRunning(w) ==
  LET g == worker[w].game
  IN  /\ worker[w].pc = "loaded"
      /\ job[g].status # "ABSENT"
      /\ run' = [run EXCEPT ![job[g].run].status = "RUNNING"]
      /\ Goto(w, "entered")
      /\ UNCHANGED <<game, job, ledger, checkpoint, messages, settler, faults>>

\* Read the checkpoint, then extract unless the game has been analysed.
ReadCheckpoint(w) ==
  /\ worker[w].pc = "entered"
  /\ worker' = [worker EXCEPT
                  ![w].pc = IF worker[w].skip THEN "skipping" ELSE "extracting",
                  ![w].version = checkpoint[worker[w].run]]
  /\ UNCHANGED <<game, job, run, ledger, checkpoint, messages, settler, faults>>

\* yieldAnalysisJobWithCheckpoint: the slice budget is used up.
Yield(w) ==
  LET g == worker[w].game
      r == worker[w].run
  IN  /\ worker[w].pc = "extracting"
      /\ worker[w].version < MaxSlices
      /\ checkpoint[r] = worker[w].version
      /\ Fenced(w) /\ job[g].attempts >= 1
      /\ job[g].run = r /\ run[r].status = "RUNNING"
      /\ job' = [job EXCEPT ![g] =
                   [Requeued(job[g], TRUE) EXCEPT !.attempts = @ - 1]]
      /\ run' = RunMoved(r, {"RUNNING"}, "QUEUED")
      /\ checkpoint' = [checkpoint EXCEPT ![r] = @ + 1]
      /\ Leave(w)
      /\ UNCHANGED <<game, ledger, messages, settler, faults>>

\* The yield finds another checkpoint generation or another holder of the job:
\* StaleAnalysisDeliveryError, which no handler turns into a failure.
YieldRejected(w) ==
  /\ worker[w].pc = "extracting"
  /\ worker[w].version < MaxSlices
  /\ checkpoint[worker[w].run] # worker[w].version \/ ~Fenced(w)
  /\ Leave(w)
  /\ UNCHANGED <<game, job, run, ledger, checkpoint, messages, settler, faults>>

\* The run can be completed by w: fence, current run and its status.
Completable(w) ==
  LET g == worker[w].game
      r == worker[w].run
  IN  Fenced(w) /\ job[g].run = r /\ run[r].status = "RUNNING"

\* Mutant: the result is saved whatever PGN the game has now.
PgnIgnored(w) == worker[w].pc = "extracting"

PgnUnchanged(w) == game[worker[w].game].pgn = run[worker[w].run].pgn

\* completeAnalysisRunWithGameAnalysis: game, moments, run and job in one
\* transaction, for the PGN the run was created from.  The clean-up of the
\* checkpoint that follows is best effort.
Complete(w) ==
  LET g == worker[w].game
      r == worker[w].run
  IN  /\ worker[w].pc = "extracting"
      /\ Completable(w)
      /\ PgnUnchanged(w)
      /\ job' = [job EXCEPT ![g] = Finished(@, "SUCCEEDED", "consume")]
      /\ run' = Succeeded(r, TRUE, "consume")
      /\ game' = [game EXCEPT ![g].analyzed = TRUE, ![g].current = r]
      /\ checkpoint' \in {checkpoint, [checkpoint EXCEPT ![r] = 0]}
      /\ worker' = [worker EXCEPT ![w].pc = "settling", ![w].path = "success",
                                  ![w].action = "consume"]
      /\ UNCHANGED <<ledger, messages, settler, faults>>

\* completeAnalysisRunWithoutGameWrite: the game was analysed when w read it.
CompleteWithoutWrite(w) ==
  LET g == worker[w].game
      r == worker[w].run
  IN  /\ worker[w].pc = "skipping"
      /\ Completable(w)
      /\ job' = [job EXCEPT ![g] = Finished(@, "SUCCEEDED", "release")]
      /\ run' = Succeeded(r, FALSE, "release")
      /\ checkpoint' = [checkpoint EXCEPT ![r] = 0]
      /\ worker' = [worker EXCEPT ![w].pc = "settling", ![w].path = "success",
                                  ![w].action = "release"]
      /\ UNCHANGED <<game, ledger, messages, settler, faults>>

\* Mutant: the checkpoint is cleaned up after every failure.
RetryAfresh(w) ==
  LET g == worker[w].game
  IN  /\ Fenced(w) /\ HasAttempt(g)
      /\ job' = [job EXCEPT ![g] = Requeued(@, FALSE)]
      /\ run' = RunMoved(job[g].run, {"RUNNING"}, "QUEUED")
      /\ checkpoint' = [checkpoint EXCEPT ![job[g].run] = 0]
      /\ Leave(w)

\* back to the queue after a backoff
Retry(w) ==
  LET g == worker[w].game
  IN  /\ Fenced(w) /\ HasAttempt(g)
      /\ job' = [job EXCEPT ![g] = Requeued(@, FALSE)]
      /\ run' = RunMoved(job[g].run, {"RUNNING"}, "QUEUED")
      /\ UNCHANGED checkpoint
      /\ Leave(w)

\* No attempt is left: the job fails, its run only if it is RUNNING.  The
\* clean-up of the checkpoint is best effort.
GiveUp(w) ==
  LET g == worker[w].game
      r == worker[w].run
  IN  /\ Fenced(w) /\ ~HasAttempt(g)
      /\ job' = [job EXCEPT ![g] = Finished(@, "FAILED", "none")]
      /\ run' = RunMoved(job[g].run, {"RUNNING"}, "FAILED")
      /\ \/ UNCHANGED checkpoint
         \/ r # None /\ checkpoint' = [checkpoint EXCEPT ![r] = 0]
      /\ worker' = [worker EXCEPT ![w].pc = "settling", ![w].path = "failure",
                                  ![w].action = "release"]

\* before the commit of a completion or a failure
Unfinished == {"started", "loaded", "entered", "extracting", "skipping"}

\* markAnalysisJobFailed, after an exception anywhere before the completion.
\* Without the fence it is StaleAnalysisDeliveryError.
Fail(w) ==
  /\ worker[w].pc \in Unfinished
  /\ \/ Retry(w)
     \/ GiveUp(w)
     \/ ~Fenced(w) /\ Leave(w) /\ UNCHANGED <<job, run, checkpoint>>
  /\ UNCHANGED <<game, ledger, messages, settler, faults>>

\* consumeServerAnalysisCredits, or releaseServerAnalysisCreditsAndMarkRun-
\* Released, which also needs the row of the run.
CanSettleNow(r, action) ==
  /\ r # None
  /\ CanSettle(r, action)
  /\ action = "release" => run[r].status # "DELETED"

Settle(w) ==
  LET r == worker[w].run
  IN  /\ worker[w].pc = "settling"
      /\ CanSettleNow(r, worker[w].action)
      /\ ledger' = Settled(r, worker[w].action)
      /\ IF worker[w].path = "success" THEN Goto(w, "marking") ELSE Leave(w)
      /\ UNCHANGED <<game, job, run, checkpoint, messages, settler, faults>>

\* The settlement, or the mark after it, throws.
SettleFails(w) ==
  /\ \/ worker[w].pc \in {"settling", "marking"} /\ Fault
     \/ /\ worker[w].pc = "settling"
        /\ ~CanSettleNow(worker[w].run, worker[w].action)
        /\ UNCHANGED faults
  /\ Goto(w, "recording")
  /\ UNCHANGED <<game, job, run, ledger, checkpoint, messages, settler>>

\* the job's settlement marker is removed where cond holds
Unmarked(j, cond) == IF cond THEN [j EXCEPT !.pending = "none"] ELSE j

\* markSettlementComplete
MarkSettled(w) ==
  LET g == worker[w].game
      r == worker[w].run
  IN  /\ worker[w].pc = "marking"
      /\ job' = [job EXCEPT ![g] =
                   Unmarked(@, @.status = "SUCCEEDED" /\ @.run = r)]
      /\ run' = [run EXCEPT ![r] = Unmarked(@, @.status = "SUCCEEDED")]
      /\ Leave(w)
      /\ UNCHANGED <<game, ledger, checkpoint, messages, settler, faults>>

\* recordSettlementPending writes to the job by its id alone;
\* recordAnalysisReleaseSettlementPending also asks for the run.
RecordPending(w) ==
  LET g == worker[w].game
      r == worker[w].run
      a == worker[w].action
      recovery == worker[w].path = "recovery"
      marks(row) == row.status \in IF recovery THEN {"FAILED"}
                                   ELSE {"SUCCEEDED", "FAILED"}
  IN  /\ worker[w].pc = "recording"
      /\ job' = IF marks(job[g]) /\ (recovery => job[g].run = r)
                THEN [job EXCEPT ![g].pending = a] ELSE job
      /\ run' = IF r # None /\ marks(run[r])
                THEN [run EXCEPT ![r].pending = a] ELSE run
      /\ Leave(w)
      /\ UNCHANGED <<game, ledger, checkpoint, messages, settler, faults>>

\* The record itself throws.  After a committed completion the outer handler
\* records once more, and always "consume".
RecordFails(w) ==
  /\ worker[w].pc = "recording"
  /\ Fault
  /\ IF worker[w].path = "success"
     THEN worker' = [worker EXCEPT ![w].path = "fallback",
                                   ![w].action = "consume"]
     ELSE Leave(w)
  /\ UNCHANGED <<game, job, run, ledger, checkpoint, messages, settler>>

\* The invocation is killed or loses its database.
Crash(w) ==
  /\ worker[w].pc # "idle"
  /\ Fault
  /\ Leave(w)
  /\ UNCHANGED <<game, job, run, ledger, checkpoint, messages, settler>>

-----------------------------------------------------------------------------
(* Maintenance.                                                            *)

\* Mutant: only jobs without a lease are recovered.
ExpiredUnlocked(g) == job[g].status = "RUNNING" /\ job[g].lease = "none"

Expired(g) == job[g].status = "RUNNING" /\ job[g].lease = "expired"

\* recoverExpiredAnalysisJobs, a job with attempts left
Recover(g) ==
  /\ Expired(g) /\ HasAttempt(g)
  /\ job' = [job EXCEPT ![g] = Requeued(@, FALSE)]
  /\ run' = RunMoved(job[g].run, {"RUNNING"}, "QUEUED")
  /\ UNCHANGED <<game, ledger, checkpoint, messages, worker, settler, faults>>

\* recoverExpiredAnalysisJobs, attempts exhausted: the invocation w that runs
\* the recovery goes on to release the reservation.
RecoverExhausted(w, g) ==
  LET r == job[g].run
  IN  /\ worker[w].pc = "idle"
      /\ Expired(g) /\ ~HasAttempt(g)
      /\ job' = [job EXCEPT ![g] = Finished(@, "FAILED", "none")]
      /\ run' = RunMoved(r, Active, "FAILED")
      /\ checkpoint' = [checkpoint EXCEPT ![r] = 0]
      /\ worker' = [worker EXCEPT ![w] =
                      [Idle EXCEPT !.pc = "settling", !.game = g, !.run = r,
                                   !.path = "recovery", !.action = "release"]]
      /\ UNCHANGED <<game, ledger, messages, settler, faults>>

\* cancelUnexecutableAnalysisJobs: the queue is not available.  One
\* transaction; a release that fails rolls all of it back.
CancelUnexecutable(g) ==
  LET r == job[g].run
  IN  /\ job[g].status = "QUEUED"
      /\ CanSettle(r, "queue-unavailable-release")
      /\ job' = [job EXCEPT ![g] =
                   [Finished(@, "CANCELLED", "none") EXCEPT !.due = TRUE]]
      /\ run' = RunMoved(r, {"QUEUED"}, "CANCELLED")
      /\ ledger' = Settled(r, "queue-unavailable-release")
      /\ UNCHANGED <<game, checkpoint, messages, worker, settler, faults>>

\* Mutant: whatever the status of the run.
UnsettledAny(r) ==
  \/ run[r].pending # "none"
  \/ "reserve" \in ledger[r] /\ ledger[r] \cap Settlements = {}

\* What reconcileAnalysisCreditSettlements selects.
Unsettled(r) ==
  /\ run[r].status \in Terminal
  /\ \/ run[r].pending # "none"
     \/ "reserve" \in ledger[r] /\ ledger[r] \cap Settlements = {}

\* The action is decided from the row as selected.
Scan(r) ==
  /\ settler.pc = "idle"
  /\ Unsettled(r)
  /\ settler' = [pc |-> "scanned", run |-> r, seen |-> run[r].status,
                 action |-> IF /\ run[r].pending # "release"
                               /\ run[r].status = "SUCCEEDED"
                            THEN "consume" ELSE "release"]
  /\ UNCHANGED <<game, job, run, ledger, checkpoint, messages, worker, faults>>

Reconcile ==
  /\ settler.pc = "scanned"
  /\ CanSettleNow(settler.run, settler.action)
  /\ ledger' = Settled(settler.run, settler.action)
  /\ settler' = [settler EXCEPT !.pc = "settled"]
  /\ UNCHANGED <<game, job, run, checkpoint, messages, worker, faults>>

\* The markers of the run, and of the job while the run is still its own.
ReconcileMark ==
  LET r == settler.run
  IN  /\ settler.pc = "settled"
      /\ job' = [g \in Games |-> Unmarked(job[g], job[g].run = r)]
      /\ run' = [run EXCEPT ![r] = Unmarked(@, @.status = settler.seen)]
      /\ settler' = SettlerIdle
      /\ UNCHANGED <<game, ledger, checkpoint, messages, worker, faults>>

\* The error is logged; the run is selected again by a later cycle.
ReconcileFails ==
  /\ \/ settler.pc \in {"scanned", "settled"} /\ Fault
     \/ /\ settler.pc = "scanned"
        /\ ~CanSettleNow(settler.run, settler.action)
        /\ UNCHANGED faults
  /\ settler' = SettlerIdle
  /\ UNCHANGED <<game, job, run, ledger, checkpoint, messages, worker>>

-----------------------------------------------------------------------------
Request ==
  \/ \E g \in Games, r \in Runs, reason \in Reasons, force \in BOOLEAN :
       Enqueue(g, r, reason, force)
  \/ \E g \in Games : EditPgn(g) \/ AnalyzeLocally(g) \/ DeleteGame(g)
  \/ DisableAutomation

Dispatch == \E g \in Games : Claim(g)

Time ==
  \E g \in Games : LeaseExpires(g) \/ LeaseOverrun(g) \/ BackoffElapses(g)

\* One invocation goes on with its handler.
Proceed(w) ==
  \/ Load(w) \/ EnterRunning(w) \/ ReadCheckpoint(w)
  \/ Yield(w) \/ YieldRejected(w)
  \/ Complete(w) \/ CompleteWithoutWrite(w) \/ Fail(w)
  \/ Settle(w) \/ SettleFails(w)
  \/ MarkSettled(w) \/ RecordPending(w) \/ RecordFails(w)

Work ==
  \E w \in Workers : \/ \E m \in messages : Start(w, m)
                     \/ Proceed(w)
                     \/ Crash(w)

Recovery ==
  \E g \in Games : \/ Recover(g)
                   \/ \E w \in Workers : RecoverExhausted(w, g)
                   \/ CancelUnexecutable(g)

Reconciliation ==
  \/ \E r \in Runs : Scan(r)
  \/ Reconcile \/ ReconcileMark \/ ReconcileFails

Next ==
  \/ Request \/ Dispatch \/ Time \/ Work \/ Recovery \/ Reconciliation
  \/ \E m \in messages : Lose(m)

Spec == Init /\ [][Next]_vars

(* Fairness.  The queue delivers what it holds; a delivered invocation goes  *)
(* on until it ends or is killed; cron runs dispatch, recovery and           *)
(* reconciliation every minute; the clock advances.  Nothing is assumed of   *)
(* the user, of the platform's faults or of an unavailable queue.            *)
Fairness ==
  /\ WF_vars(Dispatch)
  /\ WF_vars(\E w \in Workers, m \in messages : Start(w, m))
  /\ \A w \in Workers : WF_vars(Proceed(w))
  /\ \A g \in Games : /\ WF_vars(LeaseExpires(g))
                       /\ WF_vars(BackoffElapses(g))
                       /\ WF_vars(Recover(g))
                       /\ WF_vars(\E w \in Workers : RecoverExhausted(w, g))
  /\ WF_vars(Reconciliation)

FairSpec == Spec /\ Fairness

-----------------------------------------------------------------------------
TypeOK ==
  /\ game \in [Games -> GameRow]
  /\ job \in [Games -> JobRow]
  /\ run \in [Runs -> RunRow]
  /\ ledger \in [Runs -> SUBSET Keys]
  /\ checkpoint \in [Runs -> 0..MaxSlices]
  /\ messages \subseteq Games \X Nat
  /\ worker \in [Workers -> WorkerState]
  /\ settler \in SettlerState
  /\ faults \in 0..MaxFaults

(* A user's server work is serialised: at most one job holds a live lease,   *)
(* whatever expires, is recovered, cancelled or redelivered.                 *)
OneLiveLease ==
  \A g, h \in Games :
    /\ job[g].status \in Active /\ job[g].lease = "live"
    /\ job[h].status \in Active /\ job[h].lease = "live"
    => g = h

(* However often a delivery is repeated, one invocation works under each     *)
(* dispatch of a job.                                                        *)
OneHolder ==
  \A v, w \in Workers :
    /\ worker[v].pc \in Unfinished /\ worker[w].pc \in Unfinished
    /\ worker[v].game = worker[w].game /\ worker[v].count = worker[w].count
    => v = w

(* A stale worker cannot complete, fail or give back a newer claim: its      *)
(* steps leave the job alone, but for the settlement marker.                 *)
StaleLeavesJob ==
  [][\A w \in Workers :
       LET g == worker[w].game IN
         /\ worker[w].pc # "idle" /\ worker'[w] # worker[w]
         /\ worker[w].count # job[g].count
         => job'[g] = [job[g] EXCEPT !.pending = job'[g].pending]]_vars

(* A job that waits for dispatch has an attempt left, through retries,       *)
(* yields (which give one back) and recoveries: work stops at MaxAttempts.   *)
AttemptLeft ==
  \A g \in Games : job[g].status = "QUEUED" => job[g].attempts < MaxAttempts

(* The ledger never settles a reservation twice, although worker, recovery,  *)
(* reconciliation, cancellation and deletion use different keys: the code's  *)
(* own metric "oversettled" is 0.                                            *)
SettledOnce ==
  \A r \in Runs : \A k, l \in ledger[r] \cap Settlements : k = l

(* Queued and running work is paid for: no late settlement of an earlier run *)
(* or of a stale invocation takes away the reservation of the current one.   *)
ActiveJobReserved ==
  \A g \in Games : job[g].status \in Active => Outstanding(job[g].run)

(* A cancelled job holds no credit.                                          *)
CancelledJobReleased ==
  \A g \in Games : job[g].status = "CANCELLED" => ~Outstanding(job[g].run)

(* What a game shows as its analysis was computed from the PGN it has now,   *)
(* by a run that completed.                                                  *)
PublishedFromCurrentPgn ==
  \A g \in Games : LET r == game[g].current IN
    r # None => run[r].wrote /\ run[r].game = g /\ run[r].pgn = game[g].pgn

(* A run that wrote its analysis and is not charged yet is marked so, until  *)
(* it is: no crash or retry in between loses the charge.                     *)
UnchargedIsMarked ==
  \A r \in Runs :
    /\ run[r].wrote /\ Outstanding(r) /\ run[r].status # "DELETED"
    => run[r].pending = "consume"

(* Work that was checkpointed is not redone: while a job stays with its run, *)
(* retries and recoveries never take the run's checkpoint back.              *)
CheckpointKept ==
  [][\A g \in Games :
       /\ job[g].status \in Active /\ job'[g].status \in Active
       /\ job'[g].run = job[g].run
       => checkpoint'[job[g].run] >= checkpoint[job[g].run]]_vars

(* Each reservation follows the abstract life cycle: held once, settled once. *)
ReservationOf(r) ==
  CASE ledger[r] = {} -> "none"
    [] "consume" \in ledger[r] -> "consumed"
    [] ledger[r] \cap (Settlements \ {"consume"}) # {} -> "released"
    [] OTHER -> "held"

Credits == INSTANCE CreditReservations
             WITH reservation <- [r \in Runs |-> ReservationOf(r)]

ReservationsSettleOnce == Credits!Spec

(* Every job that is queued or running ends, for any finite number of        *)
(* crashes, stalls and lost messages.                                        *)
JobsFinish ==
  \A g \in Games : job[g].status \in Active ~> job[g].status \notin Active

(* A finished run's reservation does not stay outstanding.                   *)
FinishedRunsSettle ==
  \A r \in Runs : (run[r].status \in Terminal /\ Outstanding(r))
                  ~> (run[r].status \notin Terminal \/ ~Outstanding(r))

(* The holders of work, as analysisJobs.ts keeps them: one invocation under  *)
(* each dispatch, and no waiting job without an attempt.                     *)
HoldersSafe == TypeOK /\ OneHolder /\ AttemptLeft

(* The reservations, whichever path settles them (billingAccounts.ts): never *)
(* twice, never those of present work, always those of cancelled work.       *)
ReservationsSafe == SettledOnce /\ ActiveJobReserved /\ CancelledJobReleased

(* Work ends, and what it holds is settled then (analysisOps.ts).            *)
JobsSettle == JobsFinish /\ FinishedRunsSettle
=============================================================================
