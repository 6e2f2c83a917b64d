--------------------------- MODULE AnalysisBatches ---------------------------
(***************************************************************************)
(* One batch of games that a user asked to analyse.  Its items are planned *)
(* page by page: each page is one delivery of a plan message, leases the   *)
(* next items, enqueues a job for each and stages the message of the page  *)
(* after it.  Maintenance restages the plan when the chain broke, and      *)
(* recomputes the aggregate until the batch has ended.                     *)
(*                                                                         *)
(* A job and its run are two rows: pages decide on the job, the aggregate  *)
(* on the run, and an invocation moves the run only some statements after  *)
(* it claimed the job, unfenced.                                           *)
(*                                                                         *)
(* The plan messages travel through the abstract Mailbox, which            *)
(* AnalysisOutbox implements.                                              *)
(***************************************************************************)
EXTENDS Naturals, FiniteSets, Sequences

CONSTANTS
  NumItems,    \* games of the batch, in the order of their items
  PageSize,    \* items that one page claims
  Pages,       \* concurrent invocations of processAnalysisBatchPage
  Forced,       \* analysed games are analysed again
  MayDisable,  \* the queue may be switched off by a deployment
  HardStop,    \* invocations end before their planning leases do
  Patient,     \* a sent message is done with before maintenance looks again
  MaxRuns,     \* bound on the analysis runs of one game
  MaxPlans,    \* bound on the plan messages
  MaxRequests, \* bound on what others do to the games
  MaxFaults,   \* bound on what fails, a switched off queue included
  None

Items == 1..NumItems

Keys == {<<"initial", 0, 0>>} \cup ({"next"} \X Items \X {0})
          \cup ({"recovery"} \X Items \X (0..MaxPlans))

ASSUME BatchAssumption ==
  /\ NumItems \in Nat \ {0} /\ PageSize \in Nat \ {0}
  /\ IsFiniteSet(Pages)
  /\ {Forced, MayDisable, HardStop, Patient} \subseteq BOOLEAN
  /\ {MaxRuns, MaxPlans, MaxRequests, MaxFaults} \subseteq Nat
  /\ Pages \cap {None, "gone"} = {} /\ None # "gone"

VARIABLES
  status,     \* status of the AnalysisBatch, "ABSENT" before it is created
  item,       \* its AnalysisBatchItems
  runs,       \* the analysis runs of each game, the last one its job's
  job,        \* the AnalysisJob of each game
  page,       \* the invocations that plan
  canceller,  \* the flush that cancels the batch, when there is no queue
  queueOn,
  mail,       \* plan rows of the outbox
  queue,      \* plan messages in the transport
  requests,   \* of others, so far
  faults

plan == <<page, mail, queue>>
games == <<runs, job>>
rest == <<canceller, queueOn, requests>>
vars == <<status, item, games, plan, rest, faults>>

Box == INSTANCE Mailbox

-----------------------------------------------------------------------------
Open     == {"PENDING", "PLANNING", "QUEUED"}
Terminal == {"COMPLETED", "PARTIAL", "FAILED"}
Linked   == {"QUEUED", "ATTACHED"}
Active   == {"QUEUED", "RUNNING"}

\* run: the linked run, by its number among the game's; token: the page whose
\* planningToken it is, "gone" after that page was killed
Item == [status : {"ABSENT", "PENDING", "PLANNING", "SKIPPED", "FAILED",
                   "CANCELLED"} \cup Linked,
         token  : Pages \cup {None, "gone"},
         live   : BOOLEAN,
         run    : 0..MaxRuns]

Ended == {"SUCCEEDED", "FAILED", "CANCELLED"}

\* ours: created for this batch; same: with the batch's configuration;
\* left: it was moved last by an invocation that had lost the job ("late"), or
\* was left where it was by a job that failed before it had begun ("unbegun")
Run == [status : Active \cup Ended,
        ours : BOOLEAN, same : BOOLEAN, left : {"no", "late", "unbegun"}]

\* ahead: its invocation has claimed it, and not moved the run yet; behind:
\* by the run they claimed it for, the invocations that lost it before that
Job == [status : {"ABSENT"} \cup Active \cup Ended,
        ahead  : BOOLEAN,
        behind : [1..MaxRuns -> Nat]]

Page == [pc   : {"idle", "open", "claim", "enqueue", "fail", "giveback",
                 "refresh", "continue"},
         key  : Keys \cup {None},
         todo : SUBSET Items,
         next : Items \cup {0}]

IdlePage == [pc |-> "idle", key |-> None, todo |-> {}, next |-> 0]

Canceller == [pc : {"idle", "jobs", "refresh", "drop"},
              key : Keys \cup {None}, jobs : SUBSET Items]

IdleCanceller == [pc |-> "idle", key |-> None, jobs |-> {}]

NoJob == [status |-> "ABSENT", ahead |-> FALSE, behind |-> [n \in 1..MaxRuns |-> 0]]

Fresh(state) == [status |-> state, token |-> None, live |-> FALSE, run |-> 0]

Init ==
  /\ status = "ABSENT"
  /\ item = [i \in Items |-> Fresh("ABSENT")]
  /\ runs = [i \in Items |-> <<>>]
  /\ job = [i \in Items |-> NoJob]
  /\ page = [p \in Pages |-> IdlePage]
  /\ canceller = IdleCanceller
  /\ queueOn = TRUE
  /\ Box!Init
  /\ requests = 0
  /\ faults = 0

Fault == faults < MaxFaults /\ faults' = faults + 1

First(S) == CHOOSE i \in S : \A j \in S : i <= j

With(state) == {i \in Items : item[i].status = state}

-----------------------------------------------------------------------------
\* createAnalysisBatch: batch, items and the first plan row in one
\* transaction.  A request that repeats finds the batch and changes nothing.
Create ==
  /\ status = "ABSENT"
  /\ status' = "PENDING"
  /\ item' = [i \in Items |-> Fresh("PENDING")]
  /\ Box!Stage(<<"initial", 0, 0>>)
  /\ UNCHANGED <<games, page, rest, faults>>

(* refreshAnalysisBatchAggregate                                           *)

Remaining == With("PENDING") \cup With("PLANNING")

LinkedWith(states) ==
  {i \in Items : item[i].status \in Linked
                 /\ runs[i][item[i].run].status \in states}

Successful   == With("SKIPPED") \cup LinkedWith({"SUCCEEDED"})
Unsuccessful == With("FAILED") \cup With("CANCELLED")
                  \cup LinkedWith({"FAILED", "CANCELLED"})

Aggregate ==
  IF Remaining # {} THEN "PLANNING"
  ELSE IF LinkedWith(Active) # {} THEN "QUEUED"
  ELSE IF Unsuccessful = {} THEN "COMPLETED"
  ELSE IF Successful = {} THEN "FAILED"
  ELSE "PARTIAL"

-----------------------------------------------------------------------------
(* processAnalysisBatchPage                                                *)

Go(p, pc) == page' = [page EXCEPT ![p].pc = pc]

\* A plan message is delivered; it stays in the queue until it is done.
Deliver(p, k) ==
  /\ page[p].pc = "idle" /\ queue[k] = "queued"
  /\ HardStop => \A q \in Pages : page[q].key # k
  /\ page' = [page EXCEPT ![p] = [IdlePage EXCEPT !.pc = "open", !.key = k]]
  /\ UNCHANGED <<status, item, games, mail, queue, rest, faults>>

\* The delivery is done, and its message acknowledged.
Done(p) ==
  /\ page' = [page EXCEPT ![p] = IdlePage]
  /\ queue' = [queue EXCEPT ![page[p].key] = "taken"]

OpenBatch(p) ==
  /\ page[p].pc = "open"
  /\ IF status \in Terminal THEN Done(p) ELSE Go(p, "claim") /\ UNCHANGED queue
  /\ UNCHANGED <<status, item, games, mail, rest, faults>>

\* An item whose planning lease is over counts as pending.
LeaseOver(i) == item[i].status = "PLANNING" /\ ~item[i].live

Claimable == {i \in Items : item[i].status = "PENDING" \/ LeaseOver(i)}

\* The first PageSize of S
Front(S) == {i \in S : Cardinality({j \in S : j < i}) < PageSize}

ClaimPage(p) ==
  LET S == Front(Claimable)
  IN  /\ page[p].pc = "claim"
      /\ item' = [i \in Items |->
                    IF i \in S
                    THEN [item[i] EXCEPT !.status = "PLANNING", !.token = p,
                                         !.live = TRUE]
                    ELSE IF i \in Claimable THEN Fresh("PENDING")
                    ELSE item[i]]
      /\ status' = IF S # {} /\ status \in {"PENDING", "PLANNING"}
                   THEN "PLANNING" ELSE status
      /\ page' = [page EXCEPT ![p].todo = S,
                              ![p].pc = IF S = {} THEN "refresh" ELSE "enqueue"]
      /\ UNCHANGED <<games, mail, queue, rest, faults>>

\* Mutant: the item is linked whoever plans it.
HoldsAny(p, i) == item[i].status # "ABSENT"

\* The item is planned under the token of p.
Holds(p, i) == item[i].status = "PLANNING" /\ item[i].token = p

HasActive(i) == job[i].status \in Active

\* What enqueueAnalysisJob decides of the job, as it finds it.
Skips(i) == ~Forced /\ job[i].status = "SUCCEEDED"
Conflicts(i) == HasActive(i) /\ ~runs[i][Len(runs[i])].same
Attaches(i)  == HasActive(i) /\ runs[i][Len(runs[i])].same

\* The job is queued, for the first time or again, with a run of its own.
NewRun(i, ours, same) ==
  /\ runs' = [runs EXCEPT ![i] = Append(@, [status |-> "QUEUED", ours |-> ours,
                                            same |-> same, left |-> "no"])]
  /\ job' = [job EXCEPT ![i].status = "QUEUED"]

\* linkAnalysisBatchItem
Link(i, state, n) ==
  item' = [item EXCEPT ![i] = [Fresh(state) EXCEPT !.run = n]]

\* The loop goes on after the item, or ends.
After(p) ==
  LET todo == page[p].todo \ {First(page[p].todo)}
  IN  page' = [page EXCEPT ![p].todo = todo,
                           ![p].pc = IF todo = {} THEN "refresh" ELSE "enqueue"]

\* enqueueAnalysisJob: job, run, reservation and link in one transaction
Enqueue(p) ==
  LET i == First(page[p].todo)
      n == Len(runs[i])
  IN  /\ page[p].pc = "enqueue" /\ Holds(p, i)
      /\ \/ /\ Skips(i)
            /\ Link(i, "SKIPPED", n)
            /\ UNCHANGED games
         \/ /\ Attaches(i)
            /\ Link(i, "ATTACHED", n)
            /\ UNCHANGED games
         \/ /\ ~Skips(i) /\ ~HasActive(i) /\ n < MaxRuns
            /\ Link(i, "QUEUED", n + 1)
            /\ NewRun(i, TRUE, TRUE)
      /\ After(p)
      /\ UNCHANGED <<status, mail, queue, rest, faults>>

\* A BillingAccountError or a configuration conflict
EnqueueRefused(p) ==
  LET i == First(page[p].todo)
  IN  /\ page[p].pc = "enqueue" /\ item[i].status # "ABSENT"
      /\ Conflicts(i) \/ (~Skips(i) /\ ~HasActive(i))
      /\ Go(p, "fail")
      /\ UNCHANGED <<status, item, games, mail, queue, rest, faults>>

\* The statement that records the refusal, of an item still held
FailItem(p) ==
  LET i == First(page[p].todo)
  IN  /\ page[p].pc = "fail"
      /\ item' = IF Holds(p, i) THEN [item EXCEPT ![i] = Fresh("FAILED")] ELSE item
      /\ After(p)
      /\ UNCHANGED <<status, games, mail, queue, rest, faults>>

\* The lease was lost, the game is gone, or the database fails.
EnqueueThrows(p) ==
  /\ page[p].pc = "enqueue"
  /\ \/ ~Holds(p, First(page[p].todo)) /\ UNCHANGED faults
     \/ Fault
  /\ Go(p, "giveback")
  /\ UNCHANGED <<status, item, games, mail, queue, rest>>

\* Its items are pending again, and the message will be delivered again.
GiveBack(p) ==
  /\ page[p].pc = "giveback"
  /\ item' = [i \in Items |-> IF Holds(p, i) THEN Fresh("PENDING") ELSE item[i]]
  /\ page' = [page EXCEPT ![p] = IdlePage]
  /\ UNCHANGED <<status, games, mail, queue, rest, faults>>

Refresh(p) ==
  /\ page[p].pc = "refresh"
  /\ status' = Aggregate
  /\ IF With("PENDING") # {}
     THEN /\ page' = [page EXCEPT ![p].pc = "continue",
                                  ![p].next = First(With("PENDING"))]
          /\ UNCHANGED queue
     ELSE Done(p)
  /\ UNCHANGED <<item, games, mail, rest, faults>>

\* The next plan row, unless one of its key exists.
ContinuePlan(p) ==
  LET k == <<"next", page[p].next, 0>>
  IN  /\ page[p].pc = "continue"
      /\ mail' = IF mail[k] = "none" THEN [mail EXCEPT ![k] = "waiting"] ELSE mail
      /\ Done(p)
      /\ UNCHANGED <<status, item, games, rest, faults>>

\* The invocation is killed, or a statement outside of the loop throws.
CrashPage(p) ==
  /\ page[p].pc # "idle"
  /\ Fault
  /\ page' = [page EXCEPT ![p] = IdlePage]
  /\ item' = [i \in Items |-> IF Holds(p, i) THEN [item[i] EXCEPT !.token = "gone"]
                              ELSE item[i]]
  /\ UNCHANGED <<status, games, mail, queue, rest>>

\* The queue gives the message up, undelivered, when its retention ends.
MessageExpires(k) ==
  /\ \A p \in Pages : page[p].key # k
  /\ Fault
  /\ Box!Take(k)
  /\ UNCHANGED <<status, item, games, page, rest>>

LeaseExpires(i) ==
  /\ item[i].status = "PLANNING" /\ item[i].live
  /\ IF item[i].token \in Pages THEN ~HardStop /\ Fault ELSE UNCHANGED faults
  /\ item' = [item EXCEPT ![i].live = FALSE]
  /\ UNCHANGED <<status, games, plan, rest>>

-----------------------------------------------------------------------------
(* Maintenance.                                                            *)

Plans == {k \in Keys : mail[k] # "none"}

\* Mutant: a chain that broke with an item in planning is not restaged.
RestageablePending == With("PENDING")

Restageable == {i \in Items : item[i].status = "PENDING" \/ LeaseOver(i)}

\* recoverAnalysisBatchPlanOutbox.  A waiting row keeps it from restaging
\* unless its lease has expired; a published one does not.
RecoverPlan ==
  /\ status \in Open /\ Restageable # {}
  /\ Cardinality(Plans) < MaxPlans
  /\ Patient => /\ \A k \in Keys : mail[k] # "waiting" /\ queue[k] # "queued"
                /\ \A p \in Pages : page[p].pc = "idle"
  /\ Box!Stage(<<"recovery", First(Restageable), Cardinality(Plans)>>)
  /\ UNCHANGED <<status, item, games, page, rest, faults>>

\* reconcileAnalysisBatchCompletions
Reconcile ==
  /\ status \in Open
  /\ status' = Aggregate
  /\ UNCHANGED <<item, games, plan, rest, faults>>

\* The outbox is flushed to the queue.
Flush(k) ==
  /\ queueOn
  /\ Box!Send(k) \/ Box!Close(k)
  /\ UNCHANGED <<status, item, games, page, rest, faults>>

-----------------------------------------------------------------------------
(* Without a queue: cancelDisabledOutboxWork of a plan row.                *)

Disable ==
  /\ MayDisable /\ queueOn
  /\ Fault
  /\ queueOn' = FALSE
  /\ UNCHANGED <<status, item, games, plan, canceller, requests>>

\* cancelUnavailableAnalysisBatch: its first transaction
CancelItems(k) ==
  /\ ~queueOn /\ mail[k] = "waiting" /\ canceller.pc = "idle"
  /\ item' = [i \in Items |-> IF i \in Remaining THEN Fresh("CANCELLED")
                              ELSE item[i]]
  /\ canceller' = [pc |-> "jobs", key |-> k, jobs |-> With("QUEUED")]
  /\ UNCHANGED <<status, games, plan, queueOn, requests, faults>>

\* Its run moves with it, from one of these states.
RunMoves(i, from, to) ==
  runs' = [runs EXCEPT ![i][Len(runs[i])] =
             IF @.status \in from THEN [@ EXCEPT !.status = to, !.left = "no"]
             ELSE @]

\* The job of i, if it is queued, under whatever run.
CancelJob(i) ==
  IF job[i].status = "QUEUED"
  THEN /\ job' = [job EXCEPT ![i].status = "CANCELLED"]
       /\ RunMoves(i, {"QUEUED"}, "CANCELLED")
  ELSE UNCHANGED games

\* cancelUnexecutableAnalysisJobs, one transaction for each job
CancelJobs ==
  /\ canceller.pc = "jobs"
  /\ IF canceller.jobs = {}
     THEN canceller' = [canceller EXCEPT !.pc = "refresh"] /\ UNCHANGED games
     ELSE LET i == First(canceller.jobs)
          IN  /\ CancelJob(i)
              /\ canceller' = [canceller EXCEPT !.jobs = @ \ {i}]
  /\ UNCHANGED <<status, item, plan, queueOn, requests, faults>>

CancelRefresh ==
  /\ canceller.pc = "refresh"
  /\ status' = Aggregate
  /\ canceller' = [canceller EXCEPT !.pc = "drop"]
  /\ UNCHANGED <<item, games, plan, queueOn, requests, faults>>

\* The row fails.
CancelDrop ==
  /\ canceller.pc = "drop"
  /\ Box!Drop(canceller.key)
  /\ canceller' = IdleCanceller
  /\ UNCHANGED <<status, item, games, page, queueOn, requests, faults>>

\* Mutant: the row fails anyway.
CancelFailsDrops ==
  /\ canceller.pc # "idle"
  /\ Fault
  /\ canceller' = [canceller EXCEPT !.pc = "drop"]
  /\ UNCHANGED <<status, item, games, plan, queueOn, requests>>

\* A step fails: the row is rescheduled.
CancelFails ==
  /\ canceller.pc # "idle"
  /\ Fault
  /\ canceller' = IdleCanceller
  /\ UNCHANGED <<status, item, games, plan, queueOn, requests>>

-----------------------------------------------------------------------------
(* The games and their jobs, of which AnalysisJobs is the model.           *)

Unmoved == UNCHANGED <<status, item, plan, rest>>

\* markAnalysisJobRunning: the job alone
JobStarts(i) ==
  /\ job[i].status = "QUEUED"
  /\ job' = [job EXCEPT ![i].status = "RUNNING", ![i].ahead = TRUE]
  /\ Unmoved /\ UNCHANGED <<runs, faults>>

\* transitionAnalysisRunForJob: whatever state the run is in
RunStarts(i) ==
  /\ job[i].ahead
  /\ job' = [job EXCEPT ![i].ahead = FALSE]
  /\ RunMoves(i, Active \cup Ended, "RUNNING")
  /\ Unmoved /\ UNCHANGED faults

\* The same, of an invocation that claimed the job for run m and lost it: the
\* run is the one that was the job's when it looked.
LateRunStarts(i, m) ==
  /\ job[i].behind[m] > 0
  /\ job' = [job EXCEPT ![i].behind[m] = @ - 1]
  /\ \E n \in m..Len(runs[i]) :
       runs' = [runs EXCEPT ![i][n].status = "RUNNING", ![i][n].left = "late"]
  /\ Unmoved /\ UNCHANGED faults

\* The job leaves RUNNING.  When it was taken from an invocation that stalls
\* before the run's transition, that one is left behind.
JobLeaves(i, to) ==
  /\ job[i].status = "RUNNING"
  /\ \/ /\ job' = [job EXCEPT ![i].status = to, ![i].ahead = FALSE]
        /\ UNCHANGED faults
     \/ /\ job[i].ahead /\ Fault
        /\ job' = [job EXCEPT ![i].status = to, ![i].ahead = FALSE,
                              ![i].behind[Len(runs[i])] = @ + 1]
  /\ Unmoved

\* completeAnalysisRun...: job and run in one transaction
JobSucceeds(i) ==
  /\ job[i].status = "RUNNING" /\ ~job[i].ahead
  /\ runs[i][Len(runs[i])].status = "RUNNING"
  /\ job' = [job EXCEPT ![i].status = "SUCCEEDED"]
  /\ RunMoves(i, {"RUNNING"}, "SUCCEEDED")
  /\ Unmoved /\ UNCHANGED faults

\* markAnalysisJobFailed, the last attempt: only a RUNNING run fails with it.
JobFails(i) ==
  /\ job[i].status = "RUNNING"
  /\ job' = [job EXCEPT ![i].status = "FAILED", ![i].ahead = FALSE]
  /\ runs' = [runs EXCEPT ![i][Len(runs[i])] =
                 IF @.status = "RUNNING"
                 THEN [@ EXCEPT !.status = "FAILED", !.left = "no"]
                 ELSE [@ EXCEPT !.left = "unbegun"]]
  /\ Unmoved /\ UNCHANGED faults

\* recoverExpiredAnalysisJobs, the last attempt
JobExhausted(i) == JobLeaves(i, "FAILED") /\ RunMoves(i, Active, "FAILED")

\* An attempt fails, yields, or is recovered; another follows.
JobRetried(i) == JobLeaves(i, "QUEUED") /\ RunMoves(i, {"RUNNING"}, "QUEUED")

JobEnds(i) == JobSucceeds(i) \/ JobFails(i) \/ JobExhausted(i)

Request == requests < MaxRequests /\ requests' = requests + 1

\* By its user, or by the flush that finds no queue for it.
JobCancelled(i) ==
  /\ job[i].status = "QUEUED"
  /\ CancelJob(i)
  /\ Request \/ (~queueOn /\ UNCHANGED requests)
  /\ UNCHANGED <<status, item, plan, canceller, queueOn, faults>>

\* Another request enqueues the game.
OtherRequest(i, same) ==
  /\ ~HasActive(i) /\ Len(runs[i]) < MaxRuns
  /\ status # "ABSENT" => item[i].status # "ABSENT"
  /\ Request
  /\ NewRun(i, FALSE, same)
  /\ UNCHANGED <<status, item, plan, canceller, queueOn, faults>>

\* The game is deleted: its item, job and runs go with it.
DeleteGame(i) ==
  /\ item[i].status # "ABSENT"
  /\ Request
  /\ item' = [item EXCEPT ![i] = Fresh("ABSENT")]
  /\ runs' = [runs EXCEPT ![i] = <<>>]
  /\ job' = [job EXCEPT ![i] = NoJob]
  /\ UNCHANGED <<status, plan, canceller, queueOn, faults>>

-----------------------------------------------------------------------------
Planning(p) ==
  \/ OpenBatch(p) \/ ClaimPage(p) \/ Enqueue(p) \/ EnqueueRefused(p)
  \/ FailItem(p) \/ EnqueueThrows(p) \/ GiveBack(p) \/ Refresh(p)
  \/ ContinuePlan(p)

Cancelling == \/ \E k \in Keys : CancelItems(k)
              \/ CancelJobs \/ CancelRefresh \/ CancelDrop \/ CancelFails

Jobs == \E i \in Items : \/ JobStarts(i) \/ RunStarts(i) \/ JobEnds(i)
                         \/ JobRetried(i) \/ JobCancelled(i)
                         \/ \E m \in 1..MaxRuns : LateRunStarts(i, m)
                         \/ \E same \in BOOLEAN : OtherRequest(i, same)
                         \/ DeleteGame(i)

Next ==
  \/ Create \/ Disable \/ Cancelling \/ Jobs
  \/ RecoverPlan \/ Reconcile
  \/ \E k \in Keys : Flush(k) \/ MessageExpires(k) \/ \E p \in Pages : Deliver(p, k)
  \/ \E p \in Pages : Planning(p) \/ CrashPage(p)
  \/ \E i \in Items : LeaseExpires(i)

Spec == Init /\ [][Next]_vars

\* Deliveries, pages, flushes and maintenance go on.  A job is attempted a
\* bounded number of times, so one that keeps being started ends.
FairSpec ==
  /\ Spec
  /\ \A p \in Pages : /\ WF_vars(Planning(p))
                      /\ WF_vars(\E k \in Keys : Deliver(p, k))
  /\ WF_vars(\E k \in Keys : Flush(k))
  /\ WF_vars(RecoverPlan) /\ WF_vars(Reconcile)
  /\ WF_vars(Cancelling /\ UNCHANGED faults)
  /\ \A i \in Items : /\ WF_vars(LeaseExpires(i))
                      /\ WF_vars(JobStarts(i)) /\ SF_vars(JobEnds(i))

-----------------------------------------------------------------------------
TypeOK ==
  /\ status \in {"ABSENT"} \cup Open \cup Terminal
  /\ item \in [Items -> Item]
  /\ runs \in [Items -> Seq(Run)]
  /\ \A i \in Items : /\ Len(runs[i]) <= MaxRuns
                      /\ item[i].run <= Len(runs[i])
                      /\ item[i].token # None <=> item[i].status = "PLANNING"
  /\ job \in [Items -> Job]
  /\ page \in [Pages -> Page]
  /\ canceller \in Canceller
  /\ queueOn \in BOOLEAN
  /\ mail \in [Keys -> {"none", "waiting", "closed", "dropped"}]
  /\ queue \in [Keys -> {"unsent", "queued", "taken"}]
  /\ requests \in 0..MaxRequests /\ faults \in 0..MaxFaults

(* Every item is paid for at most once: the game has a run of this batch     *)
(* exactly if its item is QUEUED, and then the item names it.  Redelivered   *)
(* pages, expired planning leases and late enqueues add no second run.       *)
RunsMatchItems ==
  \A i \in Items :
    {n \in 1..Len(runs[i]) : runs[i][n].ours}
      = IF item[i].status = "QUEUED" THEN {item[i].run} ELSE {}

(* What was decided of an item is not decided again.                         *)
DecidedOnce ==
  [][\A i \in Items :
       item[i].status \in {"SKIPPED", "FAILED", "CANCELLED"} \cup Linked
       => item'[i] \in {item[i], Fresh("ABSENT")}]_vars

(* A batch that has ended has nothing left to plan and waits for no run,     *)
(* except one that was over and was put back to RUNNING by an invocation     *)
(* that had lost its job; it is COMPLETED only if nothing in it failed.      *)
EndIsTrue ==
  /\ status \in Terminal =>
       /\ Remaining = {}
       /\ \A i \in LinkedWith(Active) : runs[i][item[i].run].left = "late"
  /\ status = "COMPLETED" => Unsuccessful = {}

\* Run n of the game is active, and no job will move it any more.
Left(i, n) ==
  /\ n \in 1..Len(runs[i]) /\ runs[i][n].status \in Active
  /\ n < Len(runs[i]) \/ ~HasActive(i)

(* A job and its run end together: no run is left active behind its job,     *)
(* except by a last attempt that failed before the run had begun, or by the  *)
(* transition of an invocation that had lost the job.                        *)
RunsEndWithJobs ==
  \A i \in Items : \A n \in 1..Len(runs[i]) : Left(i, n) => runs[i][n].left # "no"

(* A plan row is given up only after its batch was told: nothing is left to  *)
(* plan, not even by a page that was planning meanwhile, and the batch has   *)
(* ended or waits for runs.                                                  *)
GivenUpIsTold ==
  (\E k \in Keys : mail[k] = "dropped")
    => Remaining = {} /\ status \in Terminal \cup {"QUEUED"}

(* A batch ends: lost messages and invocations, a continuation whose key was *)
(* used before and a queue that goes away only delay it.  The aggregate      *)
(* looks at runs alone, so one waits forever for a run its job has left.     *)
BatchEnds ==
  status \in Open ~> \/ status \in Terminal
                     \/ \E i \in LinkedWith(Active) : Left(i, item[i].run)

(* What pages that overlap keep of a batch (analysisBatches.ts): each item   *)
(* is paid for once and decided once, and the end of the batch is true.      *)
BatchHolds == [](TypeOK /\ RunsMatchItems /\ EndIsTrue /\ RunsEndWithJobs) /\ DecidedOnce
=============================================================================
