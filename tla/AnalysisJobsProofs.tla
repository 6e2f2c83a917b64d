------------------------- MODULE AnalysisJobsProofs -------------------------
(***************************************************************************)
(* Proofs about AnalysisJobs, for any games, runs, workers and bounds.     *)
(*                                                                         *)
(* The safety properties rest on one inductive invariant, Inv: TypeOK and  *)
(* four statements about how the rows refer to each other.                 *)
(***************************************************************************)
EXTENDS AnalysisJobs, FiniteSetTheorems, TLAPS

\* A job's run belongs to the job's game; an active job's run is active and
\* has written nothing; a run that was not created has no entries.
RowsOK ==
  /\ \A g \in Games : job[g].status # "ABSENT" =>
       /\ game[g].present
       /\ job[g].run \in Runs
       /\ run[job[g].run].game = g
       /\ run[job[g].run].status \notin {"FREE", "DELETED"}
  /\ \A g \in Games : job[g].status \in Active =>
       /\ run[job[g].run].status \in Active
       /\ ~run[job[g].run].wrote
  /\ \A g \in Games : job[g].status = "QUEUED" => job[g].attempts < MaxAttempts
  /\ \A r \in Runs : run[r].status = "FREE" => ledger[r] = {} /\ ~run[r].wrote

Settling == {"settling", "marking", "recording"}

Loaded == {"loaded", "entered", "extracting", "skipping"}

\* An invocation works on a run of its game, and once it settles that run, no
\* active job has it.
WorkerOK(w) ==
  worker[w].pc # "idle" =>
    /\ worker[w].game \in Games
    /\ worker[w].pc \in Loaded => worker[w].run \in Runs
    /\ worker[w].run \in Runs =>
         /\ run[worker[w].run].status # "FREE"
         /\ run[worker[w].run].game = worker[w].game
    /\ worker[w].pc \in Settling =>
         /\ worker[w].action \in {"consume", "release"}
         /\ \A g \in Games : job[g].status \in Active => job[g].run # worker[w].run

WorkersOK == \A w \in Workers : WorkerOK(w)

\* The same of the reconciliation.
SettlerOK ==
  settler.pc # "idle" =>
    /\ settler.run \in Runs
    /\ settler.action \in {"consume", "release"}
    /\ run[settler.run].status # "FREE"
    /\ \A g \in Games : job[g].status \in Active => job[g].run # settler.run

USE DEF Active, Terminal, Pending

\* The bounds are natural numbers, and version 0 is one of a checkpoint's.
LEMMA Bounds ==
  MaxSlices \in Nat /\ MaxFaults \in Nat /\ MaxAttempts \in Nat /\ 0 \in 0..MaxSlices
BY ConstantsAssumption

-----------------------------------------------------------------------------
(* Updates of one field of a row keep its type.                            *)

\* A changed field leaves the rows of games in their type.
LEMMA GameUpdates ==
  \A f \in [Games -> GameRow], g \in Games :
    /\ \A x \in BOOLEAN : /\ [f EXCEPT ![g].present = x] \in [Games -> GameRow]
                          /\ [f EXCEPT ![g].analyzed = x] \in [Games -> GameRow]
    /\ \A x \in 0..MaxEdits : [f EXCEPT ![g].pgn = x] \in [Games -> GameRow]
    /\ \A x \in Runs \cup {None} : [f EXCEPT ![g].current = x] \in [Games -> GameRow]
BY DEF GameRow

\* The same of the rows of jobs.
LEMMA JobUpdates ==
  \A f \in [Games -> JobRow], g \in Games :
    /\ \A x \in Active \cup Terminal : [f EXCEPT ![g].status = x] \in [Games -> JobRow]
    /\ \A x \in {"none", "live", "expired"} : [f EXCEPT ![g].lease = x] \in [Games -> JobRow]
    /\ \A x \in Nat : [f EXCEPT ![g].count = x] \in [Games -> JobRow]
    /\ \A x \in 0..MaxAttempts : [f EXCEPT ![g].attempts = x] \in [Games -> JobRow]
    /\ \A x \in BOOLEAN : [f EXCEPT ![g].due = x] \in [Games -> JobRow]
    /\ \A x \in Pending : [f EXCEPT ![g].pending = x] \in [Games -> JobRow]
BY DEF JobRow

\* The same of one job's row.
LEMMA JobRowUpdates ==
  \A j \in JobRow :
    /\ \A x \in Active \cup Terminal : [j EXCEPT !.status = x] \in JobRow
    /\ \A x \in {"none", "live", "expired"} : [j EXCEPT !.lease = x] \in JobRow
    /\ \A x \in 0..MaxAttempts : [j EXCEPT !.attempts = x] \in JobRow
    /\ \A x \in BOOLEAN : [j EXCEPT !.due = x] \in JobRow
    /\ \A x \in Pending : [j EXCEPT !.pending = x] \in JobRow
BY DEF JobRow

\* The same of the rows of runs.
LEMMA RunUpdates ==
  \A f \in [Runs -> RunRow], r \in Runs :
    /\ \A x \in {"DELETED"} \cup Active \cup Terminal :
         [f EXCEPT ![r].status = x] \in [Runs -> RunRow]
    /\ \A x \in BOOLEAN : [f EXCEPT ![r].wrote = x] \in [Runs -> RunRow]
    /\ \A x \in Pending : [f EXCEPT ![r].pending = x] \in [Runs -> RunRow]
BY DEF RunRow

\* The same of the invocations.
LEMMA WorkerUpdates ==
  \A f \in [Workers -> WorkerState], w \in Workers :
    /\ \A x \in WorkerPC : [f EXCEPT ![w].pc = x] \in [Workers -> WorkerState]
    /\ \A x \in Runs \cup {None} : [f EXCEPT ![w].run = x] \in [Workers -> WorkerState]
    /\ \A x \in BOOLEAN : [f EXCEPT ![w].skip = x] \in [Workers -> WorkerState]
    /\ \A x \in 0..MaxSlices : [f EXCEPT ![w].version = x] \in [Workers -> WorkerState]
    /\ \A x \in {"none", "success", "failure", "recovery", "fallback"} :
         [f EXCEPT ![w].path = x] \in [Workers -> WorkerState]
    /\ \A x \in Pending : [f EXCEPT ![w].action = x] \in [Workers -> WorkerState]
BY DEF WorkerState

\* The same of one invocation.
LEMMA WorkerRowUpdates ==
  \A v \in WorkerState :
    /\ \A x \in WorkerPC : [v EXCEPT !.pc = x] \in WorkerState
    /\ \A x \in Games : [v EXCEPT !.game = x] \in WorkerState
    /\ \A x \in Nat : [v EXCEPT !.count = x] \in WorkerState
    /\ \A x \in Runs : [v EXCEPT !.run = x] \in WorkerState
    /\ \A x \in {"recovery"} : [v EXCEPT !.path = x] \in WorkerState
    /\ \A x \in Pending : [v EXCEPT !.action = x] \in WorkerState
BY DEF WorkerState

\* The rows that stand for no job and for idle processes have the rows' types.
LEMMA NullRows == NoJob \in JobRow /\ Idle \in WorkerState /\ SettlerIdle \in SettlerState
BY ConstantsAssumption DEF NoJob, JobRow, Idle, WorkerState, WorkerPC, SettlerIdle, SettlerState

\* What the helpers of the actions return has the type of the rows they change.
LEMMA HelperTypes ==
  ASSUME TypeOK
  PROVE  /\ \A j \in JobRow : \A x \in BOOLEAN : Requeued(j, x) \in JobRow
         /\ \A j \in JobRow, x \in Terminal, p \in Pending : Finished(j, x, p) \in JobRow
         /\ \A r, from : \A to \in Active \cup Terminal :
              RunMoved(r, from, to) \in [Runs -> RunRow]
         /\ \A r \in Runs, b \in BOOLEAN, p \in Pending :
              Succeeded(r, b, p) \in [Runs -> RunRow]
         /\ \A r : \A k \in Settlements : Settled(r, k) \in [Runs -> SUBSET Keys]
<1> USE DEF TypeOK
<1>1. ASSUME NEW j \in JobRow, NEW x \in BOOLEAN PROVE Requeued(j, x) \in JobRow
  BY JobRowUpdates, Zenon DEF Requeued
<1>2. ASSUME NEW j \in JobRow, NEW x \in Terminal, NEW p \in Pending
      PROVE  Finished(j, x, p) \in JobRow
  BY JobRowUpdates, Zenon DEF Finished
<1>3. ASSUME NEW r, NEW from, NEW to \in Active \cup Terminal
      PROVE  RunMoved(r, from, to) \in [Runs -> RunRow]
  BY RunUpdates DEF RunMoved
<1>4. ASSUME NEW r \in Runs, NEW b \in BOOLEAN, NEW p \in Pending
      PROVE  Succeeded(r, b, p) \in [Runs -> RunRow]
  BY RunUpdates DEF Succeeded
<1>5. ASSUME NEW r, NEW k \in Settlements
      PROVE  Settled(r, k) \in [Runs -> SUBSET Keys]
  BY DEF Settled, Keys
<1> QED BY <1>1, <1>2, <1>3, <1>4, <1>5

-----------------------------------------------------------------------------
(* Every step keeps the variables in their types. *)
LEMMA TypeStep ==
  ASSUME TypeOK, RowsOK, WorkersOK, SettlerOK, [Next]_vars
  PROVE  TypeOK'
<1> USE ConstantsAssumption
<1> USE DEF TypeOK
<1>1. ASSUME NEW g \in Games, NEW r \in Runs, NEW reason \in Reasons,
             NEW force \in BOOLEAN, Enqueue(g, r, reason, force)
      PROVE  TypeOK'
  <2> DEFINE rows == {h \in Games : job[h].status # "ABSENT"}
  <2>1. Cardinality(rows) \in Nat
    BY FS_Subset, FS_CardinalityType
  <2>2. job' \in [Games -> JobRow]
    BY <1>1, <2>1 DEF Enqueue, JobRow
  <2>3. run' \in [Runs -> RunRow]
    BY <1>1 DEF Enqueue, RunRow, GameRow
  <2>4. ledger' \in [Runs -> SUBSET Keys]
    BY <1>1 DEF Enqueue, Keys
  <2> QED BY <1>1, <2>2, <2>3, <2>4 DEF Enqueue
<1>2. ASSUME NEW g \in Games, EditPgn(g) PROVE TypeOK'
  <2>1. game[g].pgn + 1 \in 0..MaxEdits
    BY <1>2 DEF EditPgn, GameRow
  <2>2. game' \in [Games -> GameRow]
    BY <1>2, <2>1, GameUpdates, Zenon DEF EditPgn
  <2> QED BY <1>2, <2>2 DEF EditPgn
<1>3. ASSUME NEW g \in Games, AnalyzeLocally(g) PROVE TypeOK'
  <2>1. game' \in [Games -> GameRow]
    BY <1>3, GameUpdates, Zenon DEF AnalyzeLocally
  <2> QED BY <1>3, <2>1 DEF AnalyzeLocally
<1>4. ASSUME NEW g \in Games, DeleteGame(g) PROVE TypeOK'
  <2>1. game' \in [Games -> GameRow]
    BY <1>4, GameUpdates, Zenon DEF DeleteGame
  <2>2. job' \in [Games -> JobRow]
    BY <1>4, NullRows DEF DeleteGame
  <2>3. \A r \in Runs : [run[r] EXCEPT !.status = "DELETED", !.pending = "none"] \in RunRow
    BY ZenonT(60) DEF RunRow
  <2>4. run' \in [Runs -> RunRow]
    BY <1>4, <2>3 DEF DeleteGame
  <2>5. PICK k \in {"consume", "release"} :
          ledger' = ledger \/ ledger' = [ledger EXCEPT ![job[g].run] = @ \cup {k}]
    BY <1>4, Zenon DEF DeleteGame, Settled
  <2>6. ledger' \in [Runs -> SUBSET Keys]
    BY <2>5 DEF Keys, Settlements
  <2>7. checkpoint' \in [Runs -> 0..MaxSlices]
    BY <1>4, Bounds, Zenon DEF DeleteGame
  <2> QED BY <1>4, <2>1, <2>2, <2>4, <2>6, <2>7 DEF DeleteGame
<1>5. CASE DisableAutomation
  <2>1. \A g \in Games : Finished(job[g], "CANCELLED", "none") \in JobRow
    BY HelperTypes, Zenon
  <2>2. \A g \in Games :
          [Finished(job[g], "CANCELLED", "none") EXCEPT !.due = TRUE] \in JobRow
    BY <2>1, JobRowUpdates, Zenon
  <2>3. \A r \in Runs : [run[r] EXCEPT !.status = "CANCELLED", !.pending = "none"] \in RunRow
    BY ZenonT(60) DEF RunRow
  <2>4. job' \in [Games -> JobRow]
    BY <1>5, <2>2 DEF DisableAutomation
  <2>5. run' \in [Runs -> RunRow]
    BY <1>5, <2>3 DEF DisableAutomation
  <2>6. ledger' \in [Runs -> SUBSET Keys]
    BY <1>5 DEF DisableAutomation, Keys, Settlements
  <2> QED BY <1>5, <2>4, <2>5, <2>6 DEF DisableAutomation
<1>6. ASSUME NEW g \in Games, Claim(g) PROVE TypeOK'
  <2>1. job[g].count \in Nat
    BY DEF JobRow
  <2>2. job[g].count + 1 \in Nat
    BY <2>1
  <2>3. job' \in [Games -> JobRow]
    BY <1>6, <2>1, <2>2, JobUpdates, Zenon DEF Claim
  <2>4. messages' \subseteq Games \X Nat
    BY <1>6, <2>2 DEF Claim
  <2> QED BY <1>6, <2>3, <2>4 DEF Claim
<1>7. ASSUME NEW g \in Games, LeaseExpires(g) \/ LeaseOverrun(g) \/ BackoffElapses(g)
      PROVE  TypeOK'
  <2>1. \/ job' = [job EXCEPT ![g].lease = "expired"]
        \/ job' = [job EXCEPT ![g].due = TRUE]
    BY <1>7 DEF LeaseExpires, LeaseOverrun, BackoffElapses
  <2>2. job' \in [Games -> JobRow]
    <3>1. CASE job' = [job EXCEPT ![g].lease = "expired"]
      BY <3>1, JobUpdates, Zenon
    <3>2. CASE job' = [job EXCEPT ![g].due = TRUE]
      BY <3>2, JobUpdates, Zenon
    <3> QED BY <2>1, <3>1, <3>2
  <2>3. faults' \in 0..MaxFaults
    BY <1>7 DEF LeaseExpires, LeaseOverrun, BackoffElapses, Fault
  <2> QED BY <1>7, <2>2, <2>3 DEF LeaseExpires, LeaseOverrun, BackoffElapses
<1>8. ASSUME NEW w \in Workers, NEW m \in messages, Start(w, m) PROVE TypeOK'
  <2>1. m[1] \in Games /\ m[2] \in Nat
    OBVIOUS
  <2>2. job[m[1]].attempts + 1 \in 0..MaxAttempts
    BY <1>8, <2>1 DEF Start, Startable, RowsOK, JobRow
  <2>3. job' \in [Games -> JobRow]
    BY <1>8, <2>1, <2>2, JobUpdates, Zenon DEF Start
  <2>4. [Idle EXCEPT !.pc = "started", !.game = m[1], !.count = m[2]] \in WorkerState
    BY <2>1, NullRows, WorkerRowUpdates, Zenon DEF WorkerPC
  <2>5. worker' \in [Workers -> WorkerState]
    BY <1>8, <2>4 DEF Start
  <2> QED BY <1>8, <2>3, <2>5 DEF Start
<1>9. ASSUME NEW w \in Workers, Proceed(w) PROVE TypeOK'
  <2> DEFINE g == worker[w].game
             r == worker[w].run
  <2>1. Idle \in WorkerState /\ [worker EXCEPT ![w] = Idle] \in [Workers -> WorkerState]
    BY NullRows
  <2>2. CASE Load(w)
    <3>1. job[g].run \in Runs
      BY <2>2 DEF Load, WorkersOK, WorkerOK, Loaded, RowsOK
    <3>2. worker' \in [Workers -> WorkerState]
      BY <2>2, <3>1, WorkerUpdates, ZenonT(60) DEF Load, WorkerPC
    <3> QED BY <2>2, <3>2 DEF Load
  <2>3. CASE EnterRunning(w)
    <3>1. job[g].run \in Runs
      BY <2>3 DEF EnterRunning, WorkersOK, WorkerOK, Loaded, RowsOK
    <3>2. run' \in [Runs -> RunRow]
      BY <2>3, <3>1, RunUpdates, Zenon DEF EnterRunning
    <3>3. worker' \in [Workers -> WorkerState]
      BY <2>3, WorkerUpdates, Zenon DEF EnterRunning, Goto, WorkerPC
    <3> QED BY <2>3, <3>2, <3>3 DEF EnterRunning
  <2>4. CASE ReadCheckpoint(w)
    <3>1. checkpoint[r] \in 0..MaxSlices
      BY <2>4 DEF ReadCheckpoint, WorkersOK, WorkerOK, Loaded
    <3>2. (IF worker[w].skip THEN "skipping" ELSE "extracting") \in WorkerPC
      BY DEF WorkerPC
    <3>3. worker' \in [Workers -> WorkerState]
      BY <2>4, <3>1, <3>2, WorkerUpdates, Zenon DEF ReadCheckpoint
    <3> QED BY <2>4, <3>3 DEF ReadCheckpoint
  <2>5. CASE Yield(w)
    <3>1. g \in Games /\ r \in Runs
      BY <2>5 DEF Yield, WorkersOK, WorkerOK, Loaded
    <3>2. Requeued(job[g], TRUE) \in JobRow /\ job[g].attempts - 1 \in 0..MaxAttempts
      <4>1. job[g].attempts \in 0..MaxAttempts /\ job[g].attempts >= 1
        BY <2>5, <3>1 DEF Yield, JobRow
      <4>2. job[g].attempts - 1 \in 0..MaxAttempts
        BY <4>1, Bounds
      <4> QED BY <3>1, <4>2, HelperTypes, Zenon
    <3>3. Requeued(job[g], TRUE).attempts = job[g].attempts
      BY <3>1 DEF Requeued, JobRow
    <3>4. [Requeued(job[g], TRUE) EXCEPT !.attempts = @ - 1] \in JobRow
      BY <3>2, <3>3, JobRowUpdates
    <3>5. PICK row \in JobRow : job' = [job EXCEPT ![g] = row]
      BY <2>5, <3>4, Zenon DEF Yield
    <3>6. job' \in [Games -> JobRow]
      BY <3>1, <3>5
    <3>7. checkpoint' \in [Runs -> 0..MaxSlices]
      BY <2>5, <3>1, Bounds DEF Yield, WorkerState
    <3>8. run' \in [Runs -> RunRow]
      BY <2>5, HelperTypes DEF Yield
    <3> QED BY <2>1, <2>5, <3>6, <3>7, <3>8 DEF Yield, Leave
  <2>6. CASE YieldRejected(w)
    BY <2>1, <2>6 DEF YieldRejected, Leave
  <2>7. CASE Complete(w)
    <3>1. g \in Games /\ r \in Runs
      BY <2>7 DEF Complete, WorkersOK, WorkerOK, Loaded
    <3>2. job' \in [Games -> JobRow]
      BY <2>7, <3>1, HelperTypes DEF Complete
    <3>3. run' \in [Runs -> RunRow]
      BY <2>7, <3>1, HelperTypes DEF Complete
    <3>4. game' \in [Games -> GameRow]
      BY <2>7, <3>1, GameUpdates, Zenon DEF Complete
    <3>5. checkpoint' \in [Runs -> 0..MaxSlices]
      BY <2>7, Bounds DEF Complete
    <3>6. worker' \in [Workers -> WorkerState]
      BY <2>7, WorkerUpdates, Zenon DEF Complete, WorkerPC
    <3> QED BY <2>7, <3>2, <3>3, <3>4, <3>5, <3>6 DEF Complete
  <2>8. CASE CompleteWithoutWrite(w)
    <3>1. g \in Games /\ r \in Runs
      BY <2>8 DEF CompleteWithoutWrite, WorkersOK, WorkerOK, Loaded
    <3>2. job' \in [Games -> JobRow]
      BY <2>8, <3>1, HelperTypes DEF CompleteWithoutWrite
    <3>3. run' \in [Runs -> RunRow]
      BY <2>8, <3>1, HelperTypes DEF CompleteWithoutWrite
    <3>4. checkpoint' \in [Runs -> 0..MaxSlices]
      BY <2>8, Bounds, Zenon DEF CompleteWithoutWrite
    <3>5. worker' \in [Workers -> WorkerState]
      BY <2>8, WorkerUpdates, Zenon DEF CompleteWithoutWrite, WorkerPC
    <3> QED BY <2>8, <3>2, <3>3, <3>4, <3>5 DEF CompleteWithoutWrite
  <2>9. CASE Fail(w)
    <3>1. g \in Games
      BY <2>9 DEF Fail, WorkersOK, WorkerOK, Loaded, Unfinished
    <3>2. CASE Retry(w)
      <4>1. job' \in [Games -> JobRow] /\ run' \in [Runs -> RunRow]
        BY <3>1, <3>2, HelperTypes DEF Retry
      <4> QED BY <2>1, <2>9, <3>2, <4>1 DEF Fail, Retry, Leave
    <3>3. CASE GiveUp(w)
      <4>1. job' \in [Games -> JobRow] /\ run' \in [Runs -> RunRow]
        BY <3>1, <3>3, HelperTypes DEF GiveUp
      <4>2. checkpoint' \in [Runs -> 0..MaxSlices]
        BY <3>3, Bounds DEF GiveUp
      <4>3. worker' \in [Workers -> WorkerState]
        BY <3>3, WorkerUpdates, Zenon DEF GiveUp, WorkerPC
      <4> QED BY <2>9, <3>3, <4>1, <4>2, <4>3 DEF Fail
    <3>4. CASE Leave(w) /\ UNCHANGED <<job, run, checkpoint>>
      BY <2>1, <2>9, <3>4 DEF Fail, Leave
    <3> QED BY <2>9, <3>2, <3>3, <3>4 DEF Fail
  <2>10. CASE Settle(w)
    <3>1. ledger' \in [Runs -> SUBSET Keys]
      BY <2>10 DEF Settle, Settled, WorkersOK, WorkerOK, Loaded, Settling, Keys, Settlements
    <3>2. worker' \in [Workers -> WorkerState]
      <4>1. CASE Leave(w)
        BY <2>1, <4>1 DEF Leave
      <4>2. CASE Goto(w, "marking")
        BY <4>2, WorkerUpdates, Zenon DEF Goto, WorkerPC
      <4> QED BY <2>10, <4>1, <4>2 DEF Settle
    <3> QED BY <2>10, <3>1, <3>2 DEF Settle
  <2>11. CASE SettleFails(w)
    <3>1. worker' \in [Workers -> WorkerState]
      BY <2>11, WorkerUpdates, Zenon DEF SettleFails, Goto, WorkerPC
    <3> QED BY <2>11, <3>1 DEF SettleFails, Fault
  <2>12. CASE MarkSettled(w)
    <3>1. job' \in [Games -> JobRow]
      BY <2>12, JobRowUpdates DEF MarkSettled, Unmarked
    <3>2. run' \in [Runs -> RunRow]
      <4>1. \A q \in Runs : \A c : Unmarked(run[q], c) \in RunRow
        BY ZenonT(60) DEF Unmarked, RunRow
      <4> QED BY <2>12, <4>1 DEF MarkSettled
    <3> QED BY <2>1, <2>12, <3>1, <3>2 DEF MarkSettled, Leave
  <2>13. CASE RecordPending(w)
    <3>1. worker[w].action \in Pending
      BY DEF WorkerState
    <3>2. g \in Games
      BY <2>13 DEF RecordPending, WorkersOK, WorkerOK, Loaded
    <3>3. job' \in [Games -> JobRow]
      BY <2>13, <3>1, <3>2, JobUpdates, Zenon DEF RecordPending
    <3>4. r \in Runs \/ r = None
      BY DEF WorkerState
    <3>5. run' \in [Runs -> RunRow]
      BY <2>13, <3>1, <3>4, RunUpdates, Zenon DEF RecordPending
    <3> QED BY <2>1, <2>13, <3>3, <3>5 DEF RecordPending, Leave
  <2>14. CASE RecordFails(w)
    <3>1. worker' \in [Workers -> WorkerState]
      <4>1. CASE Leave(w)
        BY <2>1, <4>1 DEF Leave
      <4>2. CASE worker' = [worker EXCEPT ![w].path = "fallback", ![w].action = "consume"]
        BY <4>2, WorkerUpdates, Zenon
      <4> QED BY <2>14, <4>1, <4>2 DEF RecordFails
    <3> QED BY <2>14, <3>1 DEF RecordFails, Fault
  <2> QED
    BY <1>9, <2>2, <2>3, <2>4, <2>5, <2>6, <2>7, <2>8, <2>9, <2>10, <2>11, <2>12,
       <2>13, <2>14 DEF Proceed
<1>10. ASSUME NEW w \in Workers, Crash(w) PROVE TypeOK'
  <2>1. worker' \in [Workers -> WorkerState]
    BY <1>10 DEF Crash, Leave, Idle, WorkerState, WorkerPC
  <2> QED BY <1>10, <2>1 DEF Crash, Fault
<1>11. ASSUME NEW g \in Games, Recover(g) PROVE TypeOK'
  <2>1. job' \in [Games -> JobRow]
    BY <1>11, HelperTypes DEF Recover
  <2> QED BY <1>11, <2>1, HelperTypes DEF Recover
<1>12. ASSUME NEW w \in Workers, NEW g \in Games, RecoverExhausted(w, g) PROVE TypeOK'
  <2>1. job' \in [Games -> JobRow]
    BY <1>12, HelperTypes DEF RecoverExhausted
  <2>2. checkpoint' \in [Runs -> 0..MaxSlices]
    BY <1>12, Bounds, Zenon DEF RecoverExhausted
  <2>3. job[g].run \in Runs
    BY <1>12 DEF RecoverExhausted, Expired, RowsOK
  <2>4. [Idle EXCEPT !.pc = "settling", !.game = g, !.run = job[g].run,
                     !.path = "recovery", !.action = "release"] \in WorkerState
    BY <2>3, NullRows, WorkerRowUpdates, Zenon DEF WorkerPC
  <2>5. worker' \in [Workers -> WorkerState]
    BY <1>12, <2>4 DEF RecoverExhausted
  <2> QED BY <1>12, <2>1, <2>2, <2>5, HelperTypes DEF RecoverExhausted
<1>13. ASSUME NEW g \in Games, CancelUnexecutable(g) PROVE TypeOK'
  <2>1. [Finished(job[g], "CANCELLED", "none") EXCEPT !.due = TRUE] \in JobRow
    BY HelperTypes, JobRowUpdates, Zenon
  <2>2. job' \in [Games -> JobRow]
    BY <1>13, <2>1 DEF CancelUnexecutable
  <2>3. run' \in [Runs -> RunRow]
    BY <1>13, HelperTypes DEF CancelUnexecutable
  <2>4. ledger' \in [Runs -> SUBSET Keys]
    BY <1>13 DEF CancelUnexecutable, Settled, Settlements, Keys
  <2> QED BY <1>13, <2>2, <2>3, <2>4 DEF CancelUnexecutable
<1>14. CASE Reconciliation
  <2>1. ASSUME NEW r \in Runs, Scan(r) PROVE TypeOK'
    <3>1. settler' \in SettlerState
      BY <2>1 DEF Scan, Unsettled, SettlerState
    <3> QED BY <2>1, <3>1 DEF Scan
  <2>2. CASE Reconcile
    <3>1. ledger' \in [Runs -> SUBSET Keys]
      BY <2>2 DEF Reconcile, Settled, SettlerOK, Keys, Settlements
    <3>2. settler' \in SettlerState
      BY <2>2, Zenon DEF Reconcile, SettlerState
    <3> QED BY <2>2, <3>1, <3>2 DEF Reconcile
  <2>3. CASE ReconcileMark
    <3>1. job' \in [Games -> JobRow]
      BY <2>3, JobRowUpdates DEF ReconcileMark, Unmarked
    <3>2. \A q \in Runs : \A c : Unmarked(run[q], c) \in RunRow
      BY ZenonT(60) DEF Unmarked, RunRow
    <3>3. run' \in [Runs -> RunRow]
      BY <2>3, <3>2 DEF ReconcileMark
    <3> QED BY <2>3, <3>1, <3>3, NullRows DEF ReconcileMark
  <2>4. CASE ReconcileFails
    BY <2>4, NullRows DEF ReconcileFails, Fault
  <2> QED BY <1>14, <2>1, <2>2, <2>3, <2>4 DEF Reconciliation
<1>15. ASSUME NEW m \in messages, Lose(m) PROVE TypeOK'
  BY <1>15 DEF Lose, Fault
<1>16. CASE UNCHANGED vars
  BY <1>16 DEF vars
<1> QED
  BY <1>1, <1>2, <1>3, <1>4, <1>5, <1>6, <1>7, <1>8, <1>9, <1>10, <1>11, <1>12,
     <1>13, <1>14, <1>15, <1>16
  DEF Next, Request, Dispatch, Time, Work, Recovery

-----------------------------------------------------------------------------
(* What a step does to one row.  The invariant and the properties need to  *)
(* know no more of the actions than this.                                  *)

GameStep(g) ==
  /\ game'[g].present = game[g].present \/ job'[g].status = "ABSENT"
  /\ game'[g].present => game[g].present

JobStep(g) ==
  \/ /\ job'[g].status = job[g].status
     /\ job'[g].run = job[g].run
     /\ job'[g].attempts = job[g].attempts
  \/ /\ job[g].status = "QUEUED" /\ job'[g].status = "RUNNING"
     /\ job'[g].run = job[g].run
     /\ job[g].lease = "live"
  \/ /\ job[g].status = "RUNNING" /\ job'[g].status = "QUEUED"
     /\ job'[g].run = job[g].run
     /\ job'[g].attempts < MaxAttempts
  \/ /\ job[g].status \in Active /\ job'[g].status \in Terminal
     /\ job'[g].run = job[g].run
     /\ job'[g].status = "CANCELLED" => ~Outstanding(job[g].run)'
  \/ /\ job[g].status \notin Active /\ job'[g].status = "QUEUED"
     /\ job'[g].attempts = 0
     /\ job'[g].run \in Runs /\ run[job'[g].run].status = "FREE"
     /\ run'[job'[g].run].status = "QUEUED"
     /\ run'[job'[g].run].game = g
     /\ ~run'[job'[g].run].wrote
     /\ game[g].present
  \/ job'[g].status = "ABSENT" /\ ~game'[g].present

\* No job is at work on run r after the step.
Dropped(r) == \A g \in Games : job'[g].run = r => job'[g].status \notin Active

RunStep(r) ==
  \/ /\ run[r].status = "FREE" /\ run'[r].status = "QUEUED"
     /\ ledger[r] = {} /\ ledger'[r] = {"reserve"}
     /\ ~run[r].wrote /\ ~run'[r].wrote
  \/ /\ run'[r].game = run[r].game
     /\ run'[r].pgn = run[r].pgn
     /\ run[r].wrote => run'[r].wrote
     /\ \/ /\ run'[r].status = run[r].status
           /\ run'[r].wrote = run[r].wrote
        \/ /\ run[r].status \notin {"FREE", "DELETED"}
           /\ run'[r].status \in Active
           /\ run'[r].wrote = run[r].wrote
        \/ /\ run[r].status \notin {"FREE", "DELETED"}
           /\ run'[r].status \in Terminal
           /\ Dropped(r)
        \/ /\ run[r].status # "FREE" /\ run'[r].status = "DELETED"
           /\ job'[run[r].game].status = "ABSENT"

LedgerStep(r) ==
  \/ ledger'[r] = ledger[r]
  \/ /\ run[r].status = "FREE" /\ run'[r].status = "QUEUED"
     /\ ledger'[r] = {"reserve"}
  \/ /\ Outstanding(r) /\ Dropped(r)
     /\ \E k \in Settlements : ledger'[r] = ledger[r] \cup {k}

\* What the helpers write and what they leave as it was, field by field.
LEMMA HelperFields ==
  ASSUME TypeOK
  PROVE  /\ \A j \in JobRow, x \in BOOLEAN :
              /\ Requeued(j, x).status = "QUEUED"
              /\ Requeued(j, x).run = j.run
              /\ Requeued(j, x).attempts = j.attempts
              /\ Requeued(j, x).count = j.count
              /\ Requeued(j, x).lease = "none"
         /\ \A j \in JobRow : \A x, p :
              /\ Finished(j, x, p).status = x
              /\ Finished(j, x, p).run = j.run
              /\ Finished(j, x, p).attempts = j.attempts
              /\ Finished(j, x, p).count = j.count
              /\ Finished(j, x, p).lease = "none"
         /\ \A q \in Runs : \A r, from, to :
              /\ RunMoved(r, from, to)[q].game = run[q].game
              /\ RunMoved(r, from, to)[q].pgn = run[q].pgn
              /\ RunMoved(r, from, to)[q].wrote = run[q].wrote
              /\ RunMoved(r, from, to)[q].status =
                   IF q = r /\ run[q].status \in from THEN to ELSE run[q].status
         /\ \A q, r \in Runs : \A b, p :
              /\ Succeeded(r, b, p)[q].game = run[q].game
              /\ Succeeded(r, b, p)[q].pgn = run[q].pgn
              /\ Succeeded(r, b, p)[q].wrote = IF q = r THEN b ELSE run[q].wrote
              /\ Succeeded(r, b, p)[q].status =
                   IF q = r THEN "SUCCEEDED" ELSE run[q].status
         /\ \A j \in JobRow : \A c :
              /\ Unmarked(j, c).status = j.status
              /\ Unmarked(j, c).run = j.run
              /\ Unmarked(j, c).attempts = j.attempts
              /\ Unmarked(j, c).count = j.count
              /\ Unmarked(j, c).lease = j.lease
         /\ \A q \in RunRow : \A c :
              /\ Unmarked(q, c).status = q.status
              /\ Unmarked(q, c).game = q.game
              /\ Unmarked(q, c).pgn = q.pgn
              /\ Unmarked(q, c).wrote = q.wrote
<1> USE DEF TypeOK
<1>1. ASSUME NEW j \in JobRow, NEW x \in BOOLEAN
      PROVE  /\ Requeued(j, x).status = "QUEUED"
             /\ Requeued(j, x).run = j.run
             /\ Requeued(j, x).attempts = j.attempts
             /\ Requeued(j, x).count = j.count
             /\ Requeued(j, x).lease = "none"
  BY DEF Requeued, JobRow
<1>2. ASSUME NEW j \in JobRow, NEW x, NEW p
      PROVE  /\ Finished(j, x, p).status = x
             /\ Finished(j, x, p).run = j.run
             /\ Finished(j, x, p).attempts = j.attempts
             /\ Finished(j, x, p).count = j.count
             /\ Finished(j, x, p).lease = "none"
  BY DEF Finished, JobRow
<1>3. ASSUME NEW q \in Runs, NEW r, NEW from, NEW to
      PROVE  /\ RunMoved(r, from, to)[q].game = run[q].game
             /\ RunMoved(r, from, to)[q].pgn = run[q].pgn
             /\ RunMoved(r, from, to)[q].wrote = run[q].wrote
             /\ RunMoved(r, from, to)[q].status =
                  IF q = r /\ run[q].status \in from THEN to ELSE run[q].status
  BY DEF RunMoved, RunRow
<1>4. ASSUME NEW q \in Runs, NEW r \in Runs, NEW b, NEW p
      PROVE  /\ Succeeded(r, b, p)[q].game = run[q].game
             /\ Succeeded(r, b, p)[q].pgn = run[q].pgn
             /\ Succeeded(r, b, p)[q].wrote = IF q = r THEN b ELSE run[q].wrote
             /\ Succeeded(r, b, p)[q].status =
                  IF q = r THEN "SUCCEEDED" ELSE run[q].status
  BY DEF Succeeded, RunRow
<1>5. ASSUME NEW j \in JobRow, NEW c
      PROVE  /\ Unmarked(j, c).status = j.status
             /\ Unmarked(j, c).run = j.run
             /\ Unmarked(j, c).attempts = j.attempts
             /\ Unmarked(j, c).count = j.count
             /\ Unmarked(j, c).lease = j.lease
  BY DEF Unmarked, JobRow
<1>6. ASSUME NEW q \in RunRow, NEW c
      PROVE  /\ Unmarked(q, c).status = q.status
             /\ Unmarked(q, c).game = q.game
             /\ Unmarked(q, c).pgn = q.pgn
             /\ Unmarked(q, c).wrote = q.wrote
  BY DEF Unmarked, RunRow
<1> QED BY <1>1, <1>2, <1>3, <1>4, <1>5, <1>6, Zenon

\* A run that changes with its job: no other job has it.
LEMMA OwnRun ==
  ASSUME TypeOK, RowsOK, NEW g \in Games, job[g].status # "ABSENT",
         \A h \in Games \ {g} : job'[h] = job[h],
         job'[g].status \notin Active
  PROVE  Dropped(job[g].run)
BY DEF Dropped, RowsOK, TypeOK, JobRow

\* Whatever settles it, a run's ledger only grows, by one settlement of what it
\* still holds.
LEMMA LedgerSteps ==
  ASSUME TypeOK, RowsOK, WorkersOK, SettlerOK, [Next]_vars
  PROVE  \A q \in Runs : LedgerStep(q)
<1> USE DEF TypeOK
<1>0. CASE UNCHANGED ledger
  BY <1>0 DEF LedgerStep
<1>1. ASSUME NEW g \in Games, NEW r \in Runs, NEW reason \in Reasons,
             NEW force \in BOOLEAN, Enqueue(g, r, reason, force)
      PROVE  \A q \in Runs : LedgerStep(q)
  BY <1>1 DEF Enqueue, LedgerStep
\* A settlement under one key of a run that no job is at work on afterwards.
<1>2. ASSUME NEW r \in Runs, NEW k \in Settlements, k \in ledger[r] \/ Outstanding(r),
             ledger' = Settled(r, k), Dropped(r)
      PROVE  \A q \in Runs : LedgerStep(q)
  <2>1. \A q \in Runs \ {r} : ledger'[q] = ledger[q]
    BY <1>2 DEF Settled
  <2>2. ledger'[r] = ledger[r] \cup {k}
    BY <1>2 DEF Settled
  <2> QED BY <1>2, <2>1, <2>2 DEF LedgerStep
<1>3. ASSUME NEW g \in Games, DeleteGame(g) PROVE \A q \in Runs : LedgerStep(q)
  <2> DEFINE r == job[g].run
  <2>1. CASE job[g].status = "ABSENT" \/ OwedRuns(g) = {}
    BY <1>0, <1>3, <2>1 DEF DeleteGame
  <2>2. CASE ~(job[g].status = "ABSENT" \/ OwedRuns(g) = {})
    <3>1. PICK k \in {"consume", "release"} :
            /\ k \in ledger[r] \/ OwedRuns(g) = {r}
            /\ ledger' = Settled(r, k)
      BY <1>3, <2>2, Zenon DEF DeleteGame
    <3>2. r \in Runs
      BY <2>2 DEF RowsOK
    <3>3. k \in ledger[r] \/ Outstanding(r)
      BY <3>1, <3>2 DEF OwedRuns
    <3>4. job'[g].status = "ABSENT" /\ \A h \in Games \ {g} : job'[h] = job[h]
      BY <1>3 DEF DeleteGame, NoJob
    <3>5. Dropped(r)
      BY <2>2, <3>4, OwnRun
    <3> QED BY <1>2, <3>1, <3>2, <3>3, <3>5 DEF Settlements
  <2> QED BY <2>1, <2>2
<1>4. CASE DisableAutomation
  <2> DEFINE stopped == {g \in Games : /\ job[g].status = "QUEUED"
                                       /\ job[g].reason \in AutoReasons}
             freed == {job[g].run : g \in {h \in stopped : Owing(h)}}
  <2>1. ASSUME NEW g \in stopped PROVE job'[g].status = "CANCELLED"
    BY <1>4 DEF DisableAutomation, Finished, JobRow
  <2>2. ASSUME NEW g \in Games \ stopped PROVE job'[g] = job[g]
    BY <1>4 DEF DisableAutomation
  <2>3. ASSUME NEW r \in freed PROVE Dropped(r)
    <3>1. PICK g \in stopped : job[g].run = r
      OBVIOUS
    <3>2. ASSUME NEW h \in Games, job'[h].run = r, job'[h].status \in Active
          PROVE  FALSE
      <4>1. h \notin stopped /\ job[h].run = r /\ job[h].status \in Active
        BY <2>1, <2>2, <3>2
      <4> QED BY <3>1, <4>1 DEF RowsOK
    <3> QED BY <3>2 DEF Dropped
  <2>4. \A r \in freed : CanSettle(r, "disabled-release")
    BY <1>4 DEF DisableAutomation
  <2>5. ledger' = [r \in Runs |-> IF r \in freed
                                  THEN ledger[r] \cup {"disabled-release"} ELSE ledger[r]]
    BY <1>4 DEF DisableAutomation
  <2> HIDE DEF freed
  <2>6. ASSUME NEW q \in Runs PROVE LedgerStep(q)
    BY <2>3, <2>4, <2>5 DEF LedgerStep, CanSettle, Settlements
  <2> QED BY <2>6
<1>5. ASSUME NEW w \in Workers, Settle(w) PROVE \A q \in Runs : LedgerStep(q)
  <2> DEFINE r == worker[w].run
             k == worker[w].action
  <2>1. r \in Runs
    BY <1>5 DEF Settle, CanSettleNow, WorkerState
  <2>2. /\ k \in Settlements
        /\ k \in ledger[r] \/ Outstanding(r)
        /\ ledger' = Settled(r, k)
    BY <1>5 DEF Settle, CanSettleNow, CanSettle, WorkersOK, WorkerOK, Loaded, Settling, Settlements
  <2>3. Dropped(r)
    BY <1>5 DEF Settle, WorkersOK, WorkerOK, Loaded, Settling, Dropped
  <2> QED BY <1>2, <2>1, <2>2, <2>3
<1>6. ASSUME NEW g \in Games, CancelUnexecutable(g) PROVE \A q \in Runs : LedgerStep(q)
  <2> DEFINE r == job[g].run
  <2>1. /\ job[g].status = "QUEUED" /\ r \in Runs
        /\ "queue-unavailable-release" \in ledger[r] \/ Outstanding(r)
        /\ ledger' = Settled(r, "queue-unavailable-release")
    BY <1>6 DEF CancelUnexecutable, CanSettle, RowsOK
  <2>2. job'[g].status = "CANCELLED" /\ \A h \in Games \ {g} : job'[h] = job[h]
    BY <1>6 DEF CancelUnexecutable, Finished, JobRow
  <2>3. Dropped(r)
    BY <2>1, <2>2, OwnRun
  <2> QED BY <1>2, <2>1, <2>3 DEF Settlements
<1>7. CASE Reconcile
  <2> DEFINE r == settler.run
  <2>1. /\ r \in Runs /\ settler.action \in Settlements
        /\ settler.action \in ledger[r] \/ Outstanding(r)
        /\ ledger' = Settled(r, settler.action)
    BY <1>7 DEF Reconcile, CanSettleNow, CanSettle, SettlerOK, Settlements
  <2>2. Dropped(r)
    BY <1>7 DEF Reconcile, SettlerOK, Dropped
  <2> QED BY <1>2, <2>1, <2>2
<1> QED
  BY <1>0, <1>1, <1>3, <1>4, <1>5, <1>6, <1>7, ZenonT(60)
  DEF Next, Request, Dispatch, Time, Work, Proceed, Fail, Recovery, Reconciliation,
      EditPgn, AnalyzeLocally, Claim, LeaseExpires, LeaseOverrun, BackoffElapses,
      Start, Load, EnterRunning, ReadCheckpoint, Yield, YieldRejected, Complete,
      CompleteWithoutWrite, Retry, GiveUp, SettleFails, MarkSettled, RecordPending,
      RecordFails, Crash, Recover, RecoverExhausted, Scan, ReconcileMark,
      ReconcileFails, Lose, vars

\* How one step may change a job: its run, status and attempts.
LEMMA JobSteps ==
  ASSUME TypeOK, RowsOK, WorkersOK, SettlerOK, [Next]_vars
  PROVE  \A h \in Games : JobStep(h)
<1> USE DEF TypeOK
<1>0. CASE UNCHANGED job
  BY <1>0 DEF JobStep
<1>1. ASSUME NEW g \in Games, NEW r \in Runs, NEW reason \in Reasons,
             NEW force \in BOOLEAN, Enqueue(g, r, reason, force)
      PROVE  \A h \in Games : JobStep(h)
  BY <1>1 DEF Enqueue, JobStep
<1>2. ASSUME NEW g \in Games, DeleteGame(g) PROVE \A h \in Games : JobStep(h)
  <2>1. job'[g].status = "ABSENT" /\ ~game'[g].present
    BY <1>2 DEF DeleteGame, NoJob, GameRow
  <2>2. \A h \in Games \ {g} : job'[h] = job[h]
    BY <1>2 DEF DeleteGame
  <2> QED BY <2>1, <2>2 DEF JobStep
<1>3. CASE DisableAutomation
  <2> DEFINE row(g) == [Finished(job[g], "CANCELLED", "none") EXCEPT !.due = TRUE]
             stopped == {g \in Games : /\ job[g].status = "QUEUED"
                                       /\ job[g].reason \in AutoReasons}
  <2>1. ASSUME NEW g \in Games
        PROVE  row(g).status = "CANCELLED" /\ row(g).run = job[g].run
    BY DEF Finished, JobRow
  <2>2. ASSUME NEW g \in stopped PROVE ~Outstanding(job[g].run)'
    <3> DEFINE r == job[g].run
    <3>1. /\ r \in Runs /\ run[r].game = g
          /\ run[r].status \notin {"FREE", "DELETED"}
          /\ job'[g].run = r
      BY <1>3, <2>1 DEF DisableAutomation, RowsOK
    <3>2. CASE Owing(g)
      <4>1. "disabled-release" \in ledger'[r]
        BY <1>3, <3>1, <3>2 DEF DisableAutomation
      <4> QED BY <3>1, <4>1 DEF Outstanding, Settlements
    <3>3. CASE ~Owing(g)
      <4>1. ~Outstanding(r)
        BY <3>1, <3>3 DEF Owing, OwedRuns
      <4>2. LedgerStep(r)
        BY <3>1, LedgerSteps
      <4> QED BY <3>1, <4>1, <4>2 DEF LedgerStep, Outstanding
    <3> QED BY <3>2, <3>3
  <2>3. ASSUME NEW g \in Games PROVE JobStep(g)
    <3>1. CASE g \in stopped
      BY <1>3, <2>1, <2>2, <3>1 DEF DisableAutomation, JobStep
    <3>2. CASE g \notin stopped
      BY <1>3, <3>2 DEF DisableAutomation, JobStep
    <3> QED BY <3>1, <3>2
  <2> QED BY <2>3
<1>4. ASSUME NEW g \in Games, \/ Claim(g) \/ LeaseExpires(g) \/ LeaseOverrun(g)
                              \/ BackoffElapses(g)
      PROVE  \A h \in Games : JobStep(h)
  <2>1. \A h \in Games : /\ job'[h].status = job[h].status
                         /\ job'[h].run = job[h].run
                         /\ job'[h].attempts = job[h].attempts
    BY <1>4 DEF Claim, LeaseExpires, LeaseOverrun, BackoffElapses, JobRow
  <2> QED BY <2>1 DEF JobStep
<1>5. ASSUME NEW w \in Workers, NEW m \in messages, Start(w, m)
      PROVE  \A h \in Games : JobStep(h)
  <2>1. /\ job[m[1]].status = "QUEUED" /\ job'[m[1]].status = "RUNNING"
        /\ job'[m[1]].run = job[m[1]].run /\ job[m[1]].lease = "live"
    BY <1>5 DEF Start, Startable, JobRow
  <2>2. \A h \in Games \ {m[1]} : job'[h] = job[h]
    BY <1>5 DEF Start
  <2> QED BY <2>1, <2>2 DEF JobStep
<1>6. ASSUME NEW w \in Workers, Yield(w) PROVE \A h \in Games : JobStep(h)
  <2> DEFINE g == worker[w].game
  <2>1. g \in Games /\ job[g].status = "RUNNING"
    BY <1>6 DEF Yield, WorkersOK, WorkerOK, Loaded, Fenced
  <2>2. /\ job'[g].status = "QUEUED" /\ job'[g].run = job[g].run
        /\ job'[g].attempts = job[g].attempts - 1
    BY <1>6, <2>1 DEF Yield, Requeued, JobRow
  <2>3. job'[g].attempts < MaxAttempts
    BY <2>1, <2>2, Bounds DEF JobRow
  <2>4. \A h \in Games \ {g} : job'[h] = job[h]
    BY <1>6 DEF Yield
  <2> QED BY <2>1, <2>2, <2>3, <2>4 DEF JobStep
<1>7. ASSUME NEW w \in Workers, Complete(w) \/ CompleteWithoutWrite(w)
      PROVE  \A h \in Games : JobStep(h)
  <2> DEFINE g == worker[w].game
  <2>1. /\ g \in Games /\ job[g].status = "RUNNING"
        /\ \E p : job' = [job EXCEPT ![g] = Finished(job[g], "SUCCEEDED", p)]
    BY <1>7 DEF Complete, CompleteWithoutWrite, WorkersOK, WorkerOK, Loaded, Completable, Fenced
  <2>2. PICK p : job' = [job EXCEPT ![g] = Finished(job[g], "SUCCEEDED", p)]
    BY <2>1
  <2>3. /\ job'[g].status = "SUCCEEDED" /\ job'[g].run = job[g].run
        /\ \A h \in Games \ {g} : job'[h] = job[h]
    BY <2>1, <2>2, HelperFields
  <2> QED BY <2>1, <2>3 DEF JobStep
<1>8. ASSUME NEW w \in Workers, Fail(w), Retry(w) PROVE \A h \in Games : JobStep(h)
  <2> DEFINE g == worker[w].game
  <2>1. /\ g \in Games /\ job[g].status = "RUNNING" /\ job[g].attempts < MaxAttempts
        /\ job' = [job EXCEPT ![g] = Requeued(job[g], FALSE)]
    BY <1>8 DEF Fail, Unfinished, Retry, WorkersOK, WorkerOK, Loaded, Fenced, HasAttempt
  <2>2. /\ Requeued(job[g], FALSE).status = "QUEUED"
        /\ Requeued(job[g], FALSE).run = job[g].run
        /\ Requeued(job[g], FALSE).attempts = job[g].attempts
    BY <2>1, HelperFields
  <2> QED BY <2>1, <2>2 DEF JobStep
<1>9. ASSUME NEW w \in Workers, Fail(w), GiveUp(w) PROVE \A h \in Games : JobStep(h)
  <2> DEFINE g == worker[w].game
  <2>1. /\ g \in Games /\ job[g].status = "RUNNING"
        /\ job' = [job EXCEPT ![g] = Finished(job[g], "FAILED", "none")]
    BY <1>9 DEF Fail, Unfinished, GiveUp, WorkersOK, WorkerOK, Loaded, Fenced
  <2>2. /\ job'[g].status = "FAILED" /\ job'[g].run = job[g].run
        /\ \A h \in Games \ {g} : job'[h] = job[h]
    BY <2>1, HelperFields
  <2> QED BY <2>1, <2>2 DEF JobStep
<1>10. ASSUME NEW w \in Workers, MarkSettled(w) \/ RecordPending(w)
       PROVE  \A h \in Games : JobStep(h)
  <2>1. \A h \in Games : /\ job'[h].status = job[h].status
                         /\ job'[h].run = job[h].run
                         /\ job'[h].attempts = job[h].attempts
    BY <1>10, SMTT(60) DEF MarkSettled, Unmarked, RecordPending, JobRow
  <2> QED BY <2>1 DEF JobStep
<1>11. ASSUME NEW g \in Games, Recover(g) PROVE \A h \in Games : JobStep(h)
  <2>1. /\ job[g].status = "RUNNING" /\ job[g].attempts < MaxAttempts
        /\ job' = [job EXCEPT ![g] = Requeued(job[g], FALSE)]
    BY <1>11 DEF Recover, Expired, HasAttempt
  <2>2. /\ Requeued(job[g], FALSE).status = "QUEUED"
        /\ Requeued(job[g], FALSE).run = job[g].run
        /\ Requeued(job[g], FALSE).attempts = job[g].attempts
    BY <2>1, HelperFields
  <2> QED BY <2>1, <2>2 DEF JobStep
<1>12. ASSUME NEW w \in Workers, NEW g \in Games, RecoverExhausted(w, g)
       PROVE  \A h \in Games : JobStep(h)
  <2>1. /\ job[g].status = "RUNNING"
        /\ job' = [job EXCEPT ![g] = Finished(job[g], "FAILED", "none")]
    BY <1>12 DEF RecoverExhausted, Expired
  <2> QED BY <2>1, HelperFields DEF JobStep
<1>13. ASSUME NEW g \in Games, CancelUnexecutable(g) PROVE \A h \in Games : JobStep(h)
  <2>1. /\ job[g].status = "QUEUED"
        /\ job'[g].status = "CANCELLED" /\ job'[g].run = job[g].run
    BY <1>13 DEF CancelUnexecutable, Finished, JobRow
  <2>2. \A h \in Games \ {g} : job'[h] = job[h]
    BY <1>13 DEF CancelUnexecutable
  <2>3. job[g].run \in Runs
    BY <2>1 DEF RowsOK
  <2>4. "queue-unavailable-release" \in ledger'[job[g].run]
    BY <1>13, <2>3 DEF CancelUnexecutable, Settled
  <2>5. ~Outstanding(job[g].run)'
    BY <2>1, <2>4 DEF Outstanding, Settlements
  <2> QED BY <2>1, <2>2, <2>5 DEF JobStep
<1>14. CASE ReconcileMark
  <2>1. \A h \in Games : job'[h] = Unmarked(job[h], job[h].run = settler.run)
    BY <1>14 DEF ReconcileMark
  <2> QED BY <2>1, HelperFields DEF JobStep
<1>15. CASE \/ \E g \in Games : EditPgn(g) \/ AnalyzeLocally(g)
            \/ \E w \in Workers : \/ Load(w) \/ EnterRunning(w) \/ ReadCheckpoint(w)
                                  \/ YieldRejected(w) \/ Settle(w) \/ SettleFails(w)
                                  \/ RecordFails(w) \/ Crash(w)
            \/ \E r \in Runs : Scan(r)
            \/ Reconcile \/ ReconcileFails
            \/ \E m \in messages : Lose(m)
            \/ UNCHANGED vars
  BY <1>0, <1>15, Zenon
  DEF EditPgn, AnalyzeLocally, Load, EnterRunning, ReadCheckpoint, YieldRejected,
      Settle, SettleFails, RecordFails, Crash, Scan, Reconcile, ReconcileFails,
      Lose, vars
<1> QED
  BY <1>0, <1>1, <1>2, <1>3, <1>4, <1>5, <1>6, <1>7, <1>8, <1>9, <1>10, <1>11,
     <1>12, <1>13, <1>14, <1>15, Zenon
  DEF Next, Request, Dispatch, Time, Work, Proceed, Fail, Recovery, Reconciliation

\* A game that is gone stays gone, and no job is left behind.
LEMMA GameSteps ==
  ASSUME TypeOK, WorkersOK, [Next]_vars
  PROVE  \A h \in Games : GameStep(h)
<1> USE DEF TypeOK
<1>0. CASE UNCHANGED game
  BY <1>0 DEF GameStep
<1>1. ASSUME NEW g \in Games, EditPgn(g) \/ AnalyzeLocally(g)
      PROVE  \A h \in Games : GameStep(h)
  <2>1. \A h \in Games : game'[h].present = game[h].present
    <3>1. CASE EditPgn(g)
      BY <3>1 DEF EditPgn, GameRow
    <3>2. CASE AnalyzeLocally(g)
      BY <3>2 DEF AnalyzeLocally, GameRow
    <3> QED BY <1>1, <3>1, <3>2
  <2> QED BY <2>1 DEF GameStep
<1>2. ASSUME NEW g \in Games, DeleteGame(g) PROVE \A h \in Games : GameStep(h)
  <2>1. job'[g].status = "ABSENT" /\ ~game'[g].present
    BY <1>2 DEF DeleteGame, NoJob, GameRow
  <2>2. \A h \in Games \ {g} : game'[h] = game[h]
    BY <1>2 DEF DeleteGame
  <2> QED BY <2>1, <2>2 DEF GameStep
<1>3. ASSUME NEW w \in Workers, Complete(w) PROVE \A h \in Games : GameStep(h)
  BY <1>3 DEF Complete, GameStep, GameRow
<1> QED
  BY <1>0, <1>1, <1>2, <1>3, ZenonT(60)
  DEF Next, Request, Dispatch, Time, Work, Proceed, Fail, Recovery, Reconciliation,
      Enqueue, DisableAutomation, Claim, LeaseExpires, LeaseOverrun, BackoffElapses,
      Start, Load, EnterRunning, ReadCheckpoint, Yield, YieldRejected,
      CompleteWithoutWrite, Settle, SettleFails, MarkSettled, RecordPending,
      RecordFails, Crash, Recover, RecoverExhausted, CancelUnexecutable, Scan,
      Reconcile, ReconcileMark, ReconcileFails, Lose, vars

\* How one step may change a run: only from the states the code asks for.
LEMMA RunSteps ==
  ASSUME TypeOK, RowsOK, WorkersOK, SettlerOK, [Next]_vars
  PROVE  \A q \in Runs : RunStep(q)
<1> USE DEF TypeOK
<1>0. CASE UNCHANGED run
  BY <1>0 DEF RunStep
<1>1. ASSUME NEW g \in Games, NEW r \in Runs, NEW reason \in Reasons,
             NEW force \in BOOLEAN, Enqueue(g, r, reason, force)
      PROVE  \A q \in Runs : RunStep(q)
  <2>1. /\ run[r].status = "FREE"
        /\ ledger' = [ledger EXCEPT ![r] = {"reserve"}]
        /\ \E x : run' = [run EXCEPT ![r] = [status |-> "QUEUED", game |-> g, pgn |-> x,
                                             wrote |-> FALSE, pending |-> "none"]]
    BY <1>1, Zenon DEF Enqueue
  <2>2. /\ run'[r].status = "QUEUED" /\ ~run'[r].wrote
        /\ ledger'[r] = {"reserve"}
        /\ \A q \in Runs \ {r} : run'[q] = run[q]
    BY <2>1
  <2>3. ledger[r] = {} /\ ~run[r].wrote
    BY <2>1 DEF RowsOK
  <2> QED BY <2>1, <2>2, <2>3 DEF RunStep
<1>2. ASSUME NEW g \in Games, DeleteGame(g) PROVE \A q \in Runs : RunStep(q)
  <2>1. job'[g].status = "ABSENT"
    BY <1>2 DEF DeleteGame, NoJob
  <2>2. ASSUME NEW q \in Runs, run[q].status # "FREE", run[q].game = g
        PROVE  /\ run'[q].status = "DELETED" /\ run'[q].game = run[q].game
               /\ run'[q].pgn = run[q].pgn /\ run'[q].wrote = run[q].wrote
    <3>1. run'[q] = [run[q] EXCEPT !.status = "DELETED", !.pending = "none"]
      BY <1>2, <2>2 DEF DeleteGame
    <3> QED BY <3>1 DEF RunRow
  <2>3. ASSUME NEW q \in Runs, ~(run[q].status # "FREE" /\ run[q].game = g)
        PROVE  run'[q] = run[q]
    BY <1>2, <2>3 DEF DeleteGame
  <2> QED BY <2>1, <2>2, <2>3 DEF RunStep
<1>3. CASE DisableAutomation
  <2>1. \A g \in Games : Finished(job[g], "CANCELLED", "none") \in JobRow
    BY HelperTypes, Zenon
  <2>2. ASSUME NEW g \in Games,
               job[g].status = "QUEUED" /\ job[g].reason \in AutoReasons
        PROVE  job'[g].status = "CANCELLED"
    BY <1>3, <2>2 DEF DisableAutomation, Finished, JobRow
  <2>3. ASSUME NEW g \in Games,
               ~(job[g].status = "QUEUED" /\ job[g].reason \in AutoReasons)
        PROVE  job'[g] = job[g]
    BY <1>3, <2>3 DEF DisableAutomation
  <2>4. ASSUME NEW q \in Runs, run'[q] # run[q]
        PROVE  /\ run[q].status = "QUEUED" /\ run'[q].status = "CANCELLED"
               /\ run'[q].game = run[q].game /\ run'[q].pgn = run[q].pgn
               /\ run'[q].wrote = run[q].wrote
               /\ \E g \in Games : /\ job[g].status = "QUEUED"
                                   /\ job[g].reason \in AutoReasons
                                   /\ job[g].run = q
    BY <1>3, <2>4 DEF DisableAutomation, RunRow
  <2>5. ASSUME NEW q \in Runs, run'[q] # run[q] PROVE Dropped(q)
    <3>1. PICK g \in Games : /\ job[g].status = "QUEUED"
                             /\ job[g].reason \in AutoReasons
                             /\ job[g].run = q
      BY <2>4, <2>5
    <3>2. \A h \in Games : job'[h].run = q /\ job'[h].status \in Active => h = g
      <4>1. SUFFICES ASSUME NEW h \in Games, job'[h].run = q, job'[h].status \in Active
                     PROVE  h = g
        OBVIOUS
      <4>2. job[h].status \in Active /\ job[h].run = q
        BY <2>2, <2>3, <4>1
      <4> QED BY <3>1, <4>2 DEF RowsOK
    <3> QED BY <2>2, <3>1, <3>2 DEF Dropped
  <2> QED BY <2>4, <2>5 DEF RunStep
<1>4. ASSUME NEW w \in Workers, EnterRunning(w) PROVE \A q \in Runs : RunStep(q)
  <2> DEFINE r == job[worker[w].game].run
  <2>1. r \in Runs /\ run[r].status \notin {"FREE", "DELETED"}
    BY <1>4 DEF EnterRunning, WorkersOK, WorkerOK, Loaded, RowsOK
  <2>2. /\ run'[r].status = "RUNNING" /\ run'[r].game = run[r].game
        /\ run'[r].wrote = run[r].wrote /\ run'[r].pgn = run[r].pgn
    BY <1>4, <2>1 DEF EnterRunning, RunRow
  <2>3. \A q \in Runs \ {r} : run'[q] = run[q]
    BY <1>4 DEF EnterRunning
  <2> QED BY <2>1, <2>2, <2>3 DEF RunStep
<1>5. ASSUME NEW r, run' = RunMoved(r, {"RUNNING"}, "QUEUED")
      PROVE  \A q \in Runs : RunStep(q)
  BY <1>5, HelperFields DEF RunStep
<1>6. ASSUME NEW g \in Games, job[g].status # "ABSENT",
             \A h \in Games \ {g} : job'[h] = job[h],
             job'[g].status \notin Active,
             NEW from \in {{"QUEUED"}, {"RUNNING"}, Active}, NEW to \in Terminal,
             run' = RunMoved(job[g].run, from, to)
      PROVE  \A q \in Runs : RunStep(q)
  <2>1. Dropped(job[g].run)
    BY <1>6, OwnRun
  <2> QED BY <1>6, <2>1, HelperFields DEF RunStep
<1>7. ASSUME NEW w \in Workers, Complete(w) \/ CompleteWithoutWrite(w)
      PROVE  \A q \in Runs : RunStep(q)
  <2> DEFINE g == worker[w].game
             r == worker[w].run
  <2>0. /\ \E p : job' = [job EXCEPT ![g] = Finished(job[g], "SUCCEEDED", p)]
        /\ \E b, p : run' = Succeeded(r, b, p)
    BY <1>7, Zenon DEF Complete, CompleteWithoutWrite
  <2>1. /\ g \in Games /\ r \in Runs
        /\ job[g].status = "RUNNING" /\ job[g].run = r /\ run[r].status = "RUNNING"
    BY <1>7 DEF Complete, CompleteWithoutWrite, WorkersOK, WorkerOK, Loaded, Completable, Fenced
  <2>4. ~run[r].wrote
    BY <2>1 DEF RowsOK
  <2>2. job'[g].status = "SUCCEEDED" /\ \A h \in Games \ {g} : job'[h] = job[h]
    BY <2>0, <2>1, HelperFields
  <2>3. Dropped(r)
    BY <2>1, <2>2, OwnRun
  <2> QED BY <2>0, <2>1, <2>3, <2>4, HelperFields DEF RunStep
<1>8. ASSUME NEW w \in Workers, Fail(w), GiveUp(w) PROVE \A q \in Runs : RunStep(q)
  <2> DEFINE g == worker[w].game
  <2>1. /\ g \in Games /\ job[g].status = "RUNNING"
        /\ job' = [job EXCEPT ![g] = Finished(job[g], "FAILED", "none")]
        /\ run' = RunMoved(job[g].run, {"RUNNING"}, "FAILED")
    BY <1>8 DEF Fail, Unfinished, GiveUp, WorkersOK, WorkerOK, Loaded, Fenced
  <2>2. job'[g].status = "FAILED" /\ \A h \in Games \ {g} : job'[h] = job[h]
    BY <2>1, HelperFields
  <2> QED BY <1>6, <2>1, <2>2
<1>9. ASSUME NEW w \in Workers, MarkSettled(w) \/ RecordPending(w)
      PROVE  \A q \in Runs : RunStep(q)
  <2>1. ASSUME NEW q \in Runs
        PROVE  /\ run'[q].status = run[q].status
               /\ run'[q].game = run[q].game
               /\ run'[q].wrote = run[q].wrote
               /\ run'[q].pgn = run[q].pgn
    <3>1. CASE MarkSettled(w)
      BY <3>1 DEF MarkSettled, Unmarked, RunRow
    <3>2. CASE RecordPending(w)
      BY <3>2 DEF RecordPending, RunRow
    <3> QED BY <1>9, <3>1, <3>2
  <2> QED BY <2>1 DEF RunStep
<1>10. ASSUME NEW w \in Workers, NEW g \in Games, RecoverExhausted(w, g)
       PROVE  \A q \in Runs : RunStep(q)
  <2>1. /\ job[g].status = "RUNNING"
        /\ job' = [job EXCEPT ![g] = Finished(job[g], "FAILED", "none")]
        /\ run' = RunMoved(job[g].run, Active, "FAILED")
    BY <1>10 DEF RecoverExhausted, Expired
  <2>2. job'[g].status = "FAILED" /\ \A h \in Games \ {g} : job'[h] = job[h]
    BY <2>1, HelperFields
  <2> QED BY <1>6, <2>1, <2>2
<1>11. ASSUME NEW g \in Games, CancelUnexecutable(g) PROVE \A q \in Runs : RunStep(q)
  <2>1. /\ job[g].status = "QUEUED" /\ job'[g].status = "CANCELLED"
        /\ \A h \in Games \ {g} : job'[h] = job[h]
        /\ run' = RunMoved(job[g].run, {"QUEUED"}, "CANCELLED")
    BY <1>11 DEF CancelUnexecutable, Finished, JobRow
  <2> QED BY <1>6, <2>1
<1>12. CASE ReconcileMark
  <2>1. \A q \in Runs : /\ run'[q].status = run[q].status
                        /\ run'[q].game = run[q].game
                        /\ run'[q].wrote = run[q].wrote
                        /\ run'[q].pgn = run[q].pgn
    BY <1>12 DEF ReconcileMark, Unmarked, RunRow
  <2> QED BY <2>1 DEF RunStep
<1> QED
  BY <1>0, <1>1, <1>2, <1>3, <1>4, <1>5, <1>7, <1>8, <1>9, <1>10, <1>11, <1>12,
     ZenonT(60)
  DEF Next, Request, Dispatch, Time, Work, Proceed, Fail, Recovery, Reconciliation,
      EditPgn, AnalyzeLocally, Claim, LeaseExpires, LeaseOverrun, BackoffElapses,
      Start, Load, ReadCheckpoint, Yield, YieldRejected, Retry, Settle, SettleFails,
      RecordFails, Crash, Recover, Scan, Reconcile, ReconcileFails, Lose, vars

-----------------------------------------------------------------------------
(* The invariant.                                                          *)

\* The rows go on to refer to each other as RowsOK says.
LEMMA RowsStep ==
  ASSUME TypeOK, RowsOK, WorkersOK, SettlerOK, [Next]_vars
  PROVE  RowsOK'
<1>1. /\ \A g \in Games : GameStep(g) /\ JobStep(g)
      /\ \A r \in Runs : RunStep(r) /\ LedgerStep(r)
  BY GameSteps, JobSteps, RunSteps, LedgerSteps
<1>2. ASSUME NEW g \in Games, job'[g].status # "ABSENT"
      PROVE  /\ game'[g].present
             /\ job'[g].run \in Runs
             /\ run'[job'[g].run].game = g
             /\ run'[job'[g].run].status \notin {"FREE", "DELETED"}
  <2>1. CASE job[g].status # "ABSENT" /\ job'[g].run = job[g].run
    BY <1>1, <1>2, <2>1 DEF GameStep, RunStep, RowsOK
  <2>2. CASE /\ game[g].present
             /\ job'[g].run \in Runs
             /\ run'[job'[g].run].status = "QUEUED"
             /\ run'[job'[g].run].game = g
    BY <1>1, <1>2, <2>2 DEF GameStep
  <2> QED BY <1>1, <1>2, <2>1, <2>2 DEF JobStep
<1>3. ASSUME NEW g \in Games, job'[g].status \in Active
      PROVE  run'[job'[g].run].status \in Active /\ ~run'[job'[g].run].wrote
  <2>1. CASE job[g].status \in Active /\ job'[g].run = job[g].run
    <3>1. job[g].run \in Runs /\ run[job[g].run].game = g
      BY <2>1 DEF RowsOK
    <3> QED BY <1>1, <1>3, <2>1, <3>1 DEF RunStep, RowsOK, Dropped
  <2>2. CASE /\ run'[job'[g].run].status = "QUEUED"
             /\ ~run'[job'[g].run].wrote
    BY <2>2
  <2> QED BY <1>1, <1>3, <2>1, <2>2 DEF JobStep
<1>4. ASSUME NEW g \in Games, job'[g].status = "QUEUED"
      PROVE  job'[g].attempts < MaxAttempts
  <2>1. MaxAttempts \in Nat \ {0}
    BY ConstantsAssumption
  <2> QED BY <1>1, <1>4, <2>1 DEF JobStep, RowsOK
<1>5. ASSUME NEW r \in Runs, run'[r].status = "FREE"
      PROVE  ledger'[r] = {} /\ ~run'[r].wrote
  BY <1>1, <1>5 DEF RunStep, LedgerStep, RowsOK, Outstanding
<1> QED BY <1>2, <1>3, <1>4, <1>5 DEF RowsOK

\* What the other parts of the invariant need: an active job keeps its run or
\* has taken a new one, and a run that exists goes on to exist in its game.
LEMMA ActiveRuns ==
  ASSUME TypeOK, RowsOK, WorkersOK, SettlerOK, [Next]_vars
  PROVE  /\ \A g \in Games : job'[g].status \in Active =>
              \/ job[g].status \in Active /\ job'[g].run = job[g].run
              \/ job'[g].run \in Runs /\ run[job'[g].run].status = "FREE"
         /\ \A r \in Runs : run[r].status # "FREE" =>
              run'[r].status # "FREE" /\ run'[r].game = run[r].game
BY JobSteps, RunSteps DEF JobStep, RunStep

\* The invocation goes on with the run and game it has.
GoesOn(w) ==
  worker'[w].pc # "idle" =>
    /\ worker[w].pc # "idle"
    /\ worker'[w].game = worker[w].game
    /\ worker'[w].run = worker[w].run
    /\ worker'[w].pc \in Loaded => worker[w].pc \in Loaded
    /\ worker'[w].pc \in Settling =>
         /\ worker[w].pc \in Settling
         /\ worker'[w].action \in {worker[w].action, "consume"}

\* Nothing other invocations do breaks what an invocation relies on.
LEMMA WorkersStep ==
  ASSUME TypeOK, RowsOK, WorkersOK, SettlerOK, [Next]_vars
  PROVE  WorkersOK'
<1> USE DEF TypeOK
<1>1. ASSUME NEW v \in Workers, GoesOn(v) PROVE WorkerOK(v)'
  BY <1>1, ActiveRuns, ConstantsAssumption
  DEF GoesOn, WorkersOK, WorkerOK, RowsOK, Loaded, Settling, WorkerState
<1>2. ASSUME \A v \in Workers : GoesOn(v) PROVE WorkersOK'
  BY <1>1, <1>2 DEF WorkersOK
<1>3. ASSUME NEW v \in Workers, worker'[v] = worker[v] PROVE GoesOn(v)
  BY <1>3 DEF GoesOn
<1>4. ASSUME NEW w \in Workers, \A v \in Workers \ {w} : worker'[v] = worker[v],
             GoesOn(w) \/ WorkerOK(w)'
      PROVE  WorkersOK'
  BY <1>1, <1>3, <1>4 DEF WorkersOK
<1>5. ASSUME NEW w \in Workers, NEW m \in messages, Start(w, m) PROVE WorkersOK'
  <2>1. /\ worker'[w].pc = "started" /\ worker'[w].game = m[1]
        /\ worker'[w].run = None
    BY <1>5 DEF Start, Idle
  <2>2. m[1] \in Games /\ None \notin Runs
    BY ConstantsAssumption
  <2>3. WorkerOK(w)'
    BY <2>1, <2>2 DEF WorkerOK, Loaded, Settling
  <2> QED BY <1>4, <1>5, <2>3 DEF Start
<1>6. ASSUME NEW w \in Workers, Load(w) PROVE WorkersOK'
  <2>1. /\ worker'[w].pc = "loaded" /\ worker'[w].game = worker[w].game
        /\ worker'[w].run = job[worker[w].game].run
        /\ run' = run
    BY <1>6 DEF Load, WorkerState
  <2>2. worker[w].game \in Games /\ job[worker[w].game].status # "ABSENT"
    BY <1>6 DEF Load, WorkersOK, WorkerOK
  <2>3. WorkerOK(w)'
    BY <2>1, <2>2 DEF WorkerOK, RowsOK, Loaded, Settling
  <2> QED BY <1>4, <1>6, <2>3 DEF Load
\* An invocation that begins to settle its run, which its job has left.
<1>7. ASSUME NEW w \in Workers, \A v \in Workers \ {w} : worker'[v] = worker[v],
             worker'[w].pc = "settling",
             worker'[w].action \in {"consume", "release"},
             NEW g \in Games, worker'[w].game = g, job'[g].status \notin Active,
             worker'[w].run \in Runs =>
               run[worker'[w].run].status # "FREE" /\ run[worker'[w].run].game = g,
             worker'[w].run \in Runs \cup {None}
      PROVE  WorkersOK'
  <2>1. worker'[w].run \in Runs =>
          run'[worker'[w].run].status # "FREE" /\ run'[worker'[w].run].game = g
    BY <1>7, ActiveRuns
  <2>2. ASSUME NEW h \in Games, job'[h].status \in Active
        PROVE  job'[h].run # worker'[w].run
    BY <1>7, <2>1, <2>2, RowsStep, ConstantsAssumption DEF RowsOK
  <2>3. WorkerOK(w)'
    BY <1>7, <2>1, <2>2 DEF WorkerOK, Loaded, Settling
  <2> QED BY <1>4, <1>7, <2>3
<1>8. ASSUME NEW w \in Workers, Complete(w) \/ CompleteWithoutWrite(w)
      PROVE  WorkersOK'
  <2> DEFINE g == worker[w].game
  <2>1. /\ worker'[w].pc = "settling"
        /\ worker'[w].action \in {"consume", "release"}
        /\ worker'[w].game = g
        /\ worker'[w].run = worker[w].run
        /\ \A v \in Workers \ {w} : worker'[v] = worker[v]
    <3>1. \E a \in {"consume", "release"} :
            worker' = [worker EXCEPT ![w].pc = "settling", ![w].path = "success",
                                     ![w].action = a]
      BY <1>8, Zenon DEF Complete, CompleteWithoutWrite
    <3> QED BY <3>1 DEF WorkerState
  <2>2. /\ g \in Games /\ worker[w].run \in Runs
        /\ run[worker[w].run].status # "FREE" /\ run[worker[w].run].game = g
    BY <1>8 DEF Complete, CompleteWithoutWrite, WorkersOK, WorkerOK, Loaded
  <2>3. job'[g].status = "SUCCEEDED"
    <3>1. \E p : job' = [job EXCEPT ![g] = Finished(job[g], "SUCCEEDED", p)]
      BY <1>8, Zenon DEF Complete, CompleteWithoutWrite
    <3> QED BY <2>2, <3>1, HelperFields
  <2> QED BY <1>7, <2>1, <2>2, <2>3
<1>9. ASSUME NEW w \in Workers, Fail(w), GiveUp(w) PROVE WorkersOK'
  <2> DEFINE g == worker[w].game
  <2>1. /\ worker'[w].pc = "settling"
        /\ worker'[w].action = "release"
        /\ worker'[w].game = g
        /\ worker'[w].run = worker[w].run
        /\ \A v \in Workers \ {w} : worker'[v] = worker[v]
    BY <1>9 DEF GiveUp, WorkerState
  <2>2. /\ g \in Games /\ worker[w].run \in Runs \cup {None}
        /\ worker[w].run \in Runs =>
             run[worker[w].run].status # "FREE" /\ run[worker[w].run].game = g
    BY <1>9 DEF Fail, Unfinished, WorkersOK, WorkerOK, WorkerState
  <2>3. job'[g].status = "FAILED"
    BY <1>9, <2>2 DEF GiveUp, Finished, JobRow
  <2> QED BY <1>7, <2>1, <2>2, <2>3
<1>10. ASSUME NEW w \in Workers, NEW g \in Games, RecoverExhausted(w, g)
       PROVE  WorkersOK'
  <2>1. /\ worker'[w].pc = "settling"
        /\ worker'[w].action = "release"
        /\ worker'[w].game = g
        /\ worker'[w].run = job[g].run
        /\ \A v \in Workers \ {w} : worker'[v] = worker[v]
    BY <1>10 DEF RecoverExhausted, Idle
  <2>2. /\ job[g].run \in Runs
        /\ run[job[g].run].status # "FREE" /\ run[job[g].run].game = g
    BY <1>10 DEF RecoverExhausted, Expired, RowsOK
  <2>3. job'[g].status = "FAILED"
    BY <1>10 DEF RecoverExhausted, Finished, JobRow
  <2> QED BY <1>7, <2>1, <2>2, <2>3
<1>11. ASSUME NEW w \in Workers, Leave(w) PROVE WorkersOK'
  <2>1. GoesOn(w)
    BY <1>11 DEF Leave, Idle, GoesOn
  <2> QED BY <1>4, <1>11, <2>1 DEF Leave
<1>12. ASSUME NEW w \in Workers, EnterRunning(w) \/ ReadCheckpoint(w) PROVE WorkersOK'
  <2>1. /\ worker[w].pc \in Loaded /\ worker'[w].pc \in Loaded
        /\ worker'[w].game = worker[w].game /\ worker'[w].run = worker[w].run
        /\ \A v \in Workers \ {w} : worker'[v] = worker[v]
    BY <1>12 DEF EnterRunning, ReadCheckpoint, Goto, Loaded, WorkerState
  <2>2. GoesOn(w)
    BY <2>1 DEF GoesOn, Loaded, Settling
  <2> QED BY <1>4, <2>1, <2>2
<1>13. ASSUME NEW w \in Workers, Settle(w) \/ SettleFails(w) \/ RecordFails(w), ~Leave(w)
       PROVE  WorkersOK'
  <2>1. /\ worker[w].pc \in Settling /\ worker'[w].pc \in Settling
        /\ worker'[w].game = worker[w].game /\ worker'[w].run = worker[w].run
        /\ worker'[w].action \in {worker[w].action, "consume"}
        /\ \A v \in Workers \ {w} : worker'[v] = worker[v]
    BY <1>13 DEF Settle, SettleFails, RecordFails, Goto, Settling, WorkerState
  <2>2. GoesOn(w)
    BY <2>1 DEF GoesOn, Loaded, Settling
  <2> QED BY <1>4, <2>1, <2>2
<1>14. CASE UNCHANGED worker
  BY <1>2, <1>3, <1>14
<1> QED
  BY <1>5, <1>6, <1>8, <1>9, <1>10, <1>11, <1>12, <1>13, <1>14, Zenon
  DEF Next, Request, Dispatch, Time, Work, Proceed, Fail, Recovery, Reconciliation,
      Enqueue, EditPgn, AnalyzeLocally, DeleteGame, DisableAutomation, Claim,
      LeaseExpires, LeaseOverrun, BackoffElapses, Yield, YieldRejected, Retry,
      MarkSettled, RecordPending, Crash, Recover, CancelUnexecutable, Scan,
      Reconcile, ReconcileMark, ReconcileFails, Lose, vars

\* Nothing that happens between its selection and its settlement gives an
\* active job the run that the reconciliation settles.
LEMMA SettlerStep ==
  ASSUME TypeOK, RowsOK, WorkersOK, SettlerOK, [Next]_vars
  PROVE  SettlerOK'
<1> USE DEF TypeOK
<1>1. ASSUME settler'.pc # "idle" => /\ settler.pc # "idle"
                                     /\ settler'.run = settler.run
                                     /\ settler'.action = settler.action
      PROVE  SettlerOK'
  BY <1>1, ActiveRuns DEF SettlerOK
<1>2. ASSUME NEW r \in Runs, Scan(r) PROVE SettlerOK'
  <2>1. /\ settler'.run = r /\ settler'.action \in {"consume", "release"}
        /\ run[r].status \in Terminal
    BY <1>2 DEF Scan, Unsettled
  <2>2. \A g \in Games : job[g].status \in Active => job[g].run # r
    BY <2>1 DEF RowsOK
  <2> QED BY <1>2, <2>1, <2>2 DEF Scan, SettlerOK
<1>3. CASE Reconcile
  <2>1. settler'.run = settler.run /\ settler'.action = settler.action
    BY <1>3 DEF Reconcile, SettlerState
  <2>2. settler.pc # "idle"
    BY <1>3 DEF Reconcile
  <2> QED BY <1>1, <2>1, <2>2
<1>4. CASE ReconcileMark \/ ReconcileFails
  BY <1>4 DEF ReconcileMark, ReconcileFails, SettlerIdle, SettlerOK
<1>5. CASE UNCHANGED settler
  BY <1>1, <1>5
<1> QED
  BY <1>2, <1>3, <1>4, <1>5, ZenonT(60)
  DEF Next, Request, Dispatch, Time, Work, Proceed, Fail, Recovery, Reconciliation,
      Enqueue, EditPgn, AnalyzeLocally, DeleteGame, DisableAutomation, Claim,
      LeaseExpires, LeaseOverrun, BackoffElapses, Start, Load, EnterRunning,
      ReadCheckpoint, Yield, YieldRejected, Complete, CompleteWithoutWrite, Retry,
      GiveUp, Settle, SettleFails, MarkSettled, RecordPending, RecordFails, Crash,
      Recover, RecoverExhausted, CancelUnexecutable, Lose, vars

Inv == TypeOK /\ RowsOK /\ WorkersOK /\ SettlerOK

\* The initial state, with no job and no run, satisfies the inductive
\* invariant.
LEMMA InitInv == Init => Inv
BY NullRows, Bounds, ConstantsAssumption
DEF Init, Inv, TypeOK, RowsOK, WorkersOK, WorkerOK, SettlerOK, NoJob, Idle,
    SettlerIdle, GameRow, RunRow, Keys, Settling, Loaded

\* Every step preserves the inductive invariant.
LEMMA StepInv == Inv /\ [Next]_vars => Inv'
BY TypeStep, RowsStep, WorkersStep, SettlerStep DEF Inv

\* The inductive invariant holds in every reachable state.
LEMMA Invariance == Spec => []Inv
BY InitInv, StepInv, PTL DEF Spec

-----------------------------------------------------------------------------
(* Every variable keeps its type: the rows hold what the schema lets them  *)
(* hold, and no counter passes its bound.                                  *)
THEOREM TypeCorrect == Spec => []TypeOK
<1>1. Inv => TypeOK
  BY DEF Inv
<1> QED BY <1>1, Invariance, PTL

(* A job that waits for dispatch has an attempt left, whatever retries,      *)
(* yields and recoveries did to the counter.                                 *)
THEOREM AttemptsBounded == Spec => []AttemptLeft
<1>1. Inv => AttemptLeft
  BY DEF Inv, RowsOK, AttemptLeft
<1> QED BY <1>1, Invariance, PTL

(* No reservation is settled under two keys, by whichever of the worker, the *)
(* recovery, the reconciliation, a cancellation or a deletion.               *)
THEOREM NeverOversettled == Spec => []SettledOnce
<1>1. Init => SettledOnce
  BY DEF Init, SettledOnce, Settlements
<1>2. Inv /\ SettledOnce /\ [Next]_vars => SettledOnce'
  <2> SUFFICES ASSUME Inv, SettledOnce, [Next]_vars, NEW r \in Runs
               PROVE  \A k, l \in ledger'[r] \cap Settlements : k = l
    BY DEF SettledOnce
  <2>1. LedgerStep(r)
    BY LedgerSteps DEF Inv
  <2> QED BY <2>1 DEF LedgerStep, SettledOnce, Outstanding, Settlements
<1> QED BY <1>1, <1>2, Invariance, PTL DEF Spec

(* A queued or running job has its reservation: no late settlement of an     *)
(* earlier run or of a stale invocation takes it away.                       *)
THEOREM WorkIsReserved == Spec => []ActiveJobReserved
<1>1. Init => ActiveJobReserved
  BY DEF Init, NoJob, ActiveJobReserved
<1>2. Inv /\ ActiveJobReserved /\ [Next]_vars => ActiveJobReserved'
  <2> SUFFICES ASSUME Inv, ActiveJobReserved, [Next]_vars,
                      NEW g \in Games, job'[g].status \in Active
               PROVE  Outstanding(job[g].run)'
    BY DEF ActiveJobReserved
  <2> USE DEF Inv
  <2>1. CASE job[g].status \in Active /\ job'[g].run = job[g].run
    <3>1. /\ job[g].run \in Runs /\ run[job[g].run].status # "FREE"
          /\ Outstanding(job[g].run)
      BY <2>1 DEF RowsOK, ActiveJobReserved
    <3>2. LedgerStep(job[g].run)
      BY <3>1, LedgerSteps
    <3> QED BY <2>1, <3>1, <3>2 DEF LedgerStep, Dropped, Outstanding
  <2>2. CASE job'[g].run \in Runs /\ run[job'[g].run].status = "FREE"
    <3>1. run'[job'[g].run].status \in Active
      BY RowsStep DEF RowsOK
    <3>2. RunStep(job'[g].run)
      BY <2>2, RunSteps
    <3> QED BY <2>2, <3>1, <3>2 DEF RunStep, Outstanding, Settlements
  <2> QED BY <2>1, <2>2, ActiveRuns
<1> QED BY <1>1, <1>2, Invariance, PTL DEF Spec

(* A cancelled job holds no credit, whichever cancellation stopped it.       *)
THEOREM CancelledIsReleased == Spec => []CancelledJobReleased
<1>1. Init => CancelledJobReleased
  BY DEF Init, NoJob, CancelledJobReleased
<1>2. Inv /\ CancelledJobReleased /\ [Next]_vars => CancelledJobReleased'
  <2> SUFFICES ASSUME Inv, CancelledJobReleased, [Next]_vars,
                      NEW g \in Games, job'[g].status = "CANCELLED"
               PROVE  ~Outstanding(job[g].run)'
    BY DEF CancelledJobReleased
  <2> USE DEF Inv, TypeOK
  <2>1. CASE job[g].status = "CANCELLED" /\ job'[g].run = job[g].run
    <3>1. job[g].run \in Runs /\ run[job[g].run].status # "FREE"
      BY <2>1 DEF RowsOK
    <3>2. LedgerStep(job[g].run)
      BY <3>1, LedgerSteps
    <3> QED BY <2>1, <3>1, <3>2 DEF LedgerStep, CancelledJobReleased, Outstanding
  <2>2. CASE ~Outstanding(job[g].run)' /\ job'[g].run = job[g].run
    BY <2>2 DEF Outstanding
  <2> QED BY <2>1, <2>2, JobSteps DEF JobStep
<1> QED BY <1>1, <1>2, Invariance, PTL DEF Spec

-----------------------------------------------------------------------------
(* Leases and dispatch counts.                                             *)

\* A step other than the claim of g gives g no lease and no new count.
DispatchStep(g) ==
  /\ job'[g].status # "ABSENT" =>
       \/ job'[g].count = job[g].count
       \/ Claim(g) /\ job'[g].count = job[g].count + 1
  /\ job'[g].lease # "none" =>
       \/ Claim(g)
       \/ /\ job[g].lease # "none"
          /\ job'[g].lease = "live" => job[g].lease = "live"
          /\ job'[g].status \in Active => job[g].status \in Active
          /\ job'[g].status = "QUEUED" => job[g].status = "QUEUED"
          /\ job'[g].count = job[g].count

\* Only a claim makes a lease live, and only when no other is; the other steps
\* keep or drop it.
LEMMA DispatchSteps ==
  ASSUME TypeOK, WorkersOK, [Next]_vars
  PROVE  \A h \in Games : DispatchStep(h)
<1> USE DEF TypeOK
<1>0. CASE UNCHANGED job
  BY <1>0 DEF DispatchStep
<1>1. ASSUME NEW g \in Games, \A h \in Games \ {g} : job'[h] = job[h], DispatchStep(g)
      PROVE  \A h \in Games : DispatchStep(h)
  BY <1>1 DEF DispatchStep
\* the lease is given back
<1>2. ASSUME NEW g \in Games, NEW row \in JobRow, job' = [job EXCEPT ![g] = row],
             row.lease = "none", row.count = job[g].count
      PROVE  \A h \in Games : DispatchStep(h)
  BY <1>1, <1>2 DEF DispatchStep
<1>3. ASSUME NEW g \in Games, NEW r \in Runs, NEW reason \in Reasons,
             NEW force \in BOOLEAN, Enqueue(g, r, reason, force)
      PROVE  \A h \in Games : DispatchStep(h)
  <2>1. job'[g].lease = "none" /\ job'[g].count = job[g].count
    BY <1>3 DEF Enqueue
  <2>2. \A h \in Games \ {g} : job'[h] = job[h]
    BY <1>3 DEF Enqueue
  <2> QED BY <1>1, <2>1, <2>2 DEF DispatchStep
<1>4. ASSUME NEW g \in Games, DeleteGame(g) PROVE \A h \in Games : DispatchStep(h)
  <2>1. job'[g].lease = "none" /\ job'[g].status = "ABSENT"
    BY <1>4 DEF DeleteGame, NoJob
  <2>2. \A h \in Games \ {g} : job'[h] = job[h]
    BY <1>4 DEF DeleteGame
  <2> QED BY <1>1, <2>1, <2>2 DEF DispatchStep
<1>5. CASE DisableAutomation
  <2> DEFINE row(g) == [Finished(job[g], "CANCELLED", "none") EXCEPT !.due = TRUE]
  <2>1. ASSUME NEW g \in Games
        PROVE  row(g).lease = "none" /\ row(g).count = job[g].count
    BY DEF Finished, JobRow
  <2>2. \A g \in Games : job'[g] = job[g] \/ job'[g] = row(g)
    BY <1>5 DEF DisableAutomation
  <2> QED BY <2>1, <2>2 DEF DispatchStep
<1>6. ASSUME NEW g \in Games, Claim(g) PROVE \A h \in Games : DispatchStep(h)
  <2>1. job'[g].count = job[g].count + 1 /\ \A h \in Games \ {g} : job'[h] = job[h]
    BY <1>6 DEF Claim, JobRow
  <2> QED BY <1>1, <1>6, <2>1 DEF DispatchStep
<1>7. ASSUME NEW g \in Games,
             LeaseExpires(g) \/ LeaseOverrun(g) \/ BackoffElapses(g)
      PROVE  \A h \in Games : DispatchStep(h)
  <2>1. /\ job'[g].count = job[g].count /\ job'[g].status = job[g].status
        /\ job'[g].lease # job[g].lease =>
             job[g].lease = "live" /\ job'[g].lease = "expired"
    BY <1>7 DEF LeaseExpires, LeaseOverrun, BackoffElapses, JobRow
  <2>2. \A h \in Games \ {g} : job'[h] = job[h]
    BY <1>7 DEF LeaseExpires, LeaseOverrun, BackoffElapses
  <2> QED BY <1>1, <2>1, <2>2 DEF DispatchStep
<1>8. ASSUME NEW w \in Workers, NEW m \in messages, Start(w, m)
      PROVE  \A h \in Games : DispatchStep(h)
  <2>1. /\ job'[m[1]].count = job[m[1]].count
        /\ job'[m[1]].lease = job[m[1]].lease
        /\ job[m[1]].status = "QUEUED" /\ job'[m[1]].status = "RUNNING"
        /\ job[m[1]].lease = "live"
    BY <1>8 DEF Start, Startable, JobRow
  <2>2. m[1] \in Games /\ \A h \in Games \ {m[1]} : job'[h] = job[h]
    BY <1>8 DEF Start
  <2> QED BY <1>1, <2>1, <2>2 DEF DispatchStep
<1>9. ASSUME NEW w \in Workers, Yield(w) PROVE \A h \in Games : DispatchStep(h)
  <2> DEFINE g == worker[w].game
  <2>1. g \in Games
    BY <1>9 DEF Yield, WorkersOK, WorkerOK
  <2>2. /\ job'[g].lease = "none" /\ job'[g].count = job[g].count
        /\ \A h \in Games \ {g} : job'[h] = job[h]
    BY <1>9, <2>1 DEF Yield, Requeued, JobRow
  <2> QED BY <1>1, <2>1, <2>2 DEF DispatchStep
<1>10. ASSUME NEW g \in Games, \/ \E x \in BOOLEAN : job' = [job EXCEPT ![g] = Requeued(@, x)]
                               \/ \E x \in Terminal, p \in Pending :
                                    job' = [job EXCEPT ![g] = Finished(@, x, p)]
       PROVE  \A h \in Games : DispatchStep(h)
  <2>1. CASE \E x \in BOOLEAN : job' = [job EXCEPT ![g] = Requeued(@, x)]
    <3>1. PICK x \in BOOLEAN : job' = [job EXCEPT ![g] = Requeued(job[g], x)]
      BY <2>1
    <3>2. /\ Requeued(job[g], x) \in JobRow
          /\ Requeued(job[g], x).lease = "none"
          /\ Requeued(job[g], x).count = job[g].count
      BY HelperTypes, HelperFields
    <3> QED BY <1>2, <3>1, <3>2
  <2>2. CASE \E x \in Terminal, p \in Pending : job' = [job EXCEPT ![g] = Finished(@, x, p)]
    <3>1. PICK x \in Terminal, p \in Pending : job' = [job EXCEPT ![g] = Finished(job[g], x, p)]
      BY <2>2
    <3>2. /\ Finished(job[g], x, p) \in JobRow
          /\ Finished(job[g], x, p).lease = "none"
          /\ Finished(job[g], x, p).count = job[g].count
      BY HelperTypes, HelperFields
    <3> QED BY <1>2, <3>1, <3>2
  <2> QED BY <1>10, <2>1, <2>2
<1>11. ASSUME NEW w \in Workers, Complete(w) \/ CompleteWithoutWrite(w)
       PROVE  \A h \in Games : DispatchStep(h)
  <2>1. worker[w].game \in Games
    BY <1>11 DEF Complete, CompleteWithoutWrite, WorkersOK, WorkerOK
  <2>2. \E x \in Terminal, p \in Pending :
          job' = [job EXCEPT ![worker[w].game] = Finished(@, x, p)]
    BY <1>11, Zenon DEF Complete, CompleteWithoutWrite
  <2> QED BY <1>10, <2>1, <2>2
<1>12. ASSUME NEW w \in Workers, Fail(w), Retry(w) PROVE \A h \in Games : DispatchStep(h)
  <2>1. worker[w].game \in Games
    BY <1>12 DEF Fail, Unfinished, WorkersOK, WorkerOK
  <2>2. \E x \in BOOLEAN : job' = [job EXCEPT ![worker[w].game] = Requeued(@, x)]
    BY <1>12, Zenon DEF Retry
  <2> QED BY <1>10, <2>1, <2>2
<1>13. ASSUME NEW w \in Workers, Fail(w), GiveUp(w) PROVE \A h \in Games : DispatchStep(h)
  <2>1. worker[w].game \in Games
    BY <1>13 DEF Fail, Unfinished, WorkersOK, WorkerOK
  <2>2. \E x \in Terminal, p \in Pending :
          job' = [job EXCEPT ![worker[w].game] = Finished(@, x, p)]
    BY <1>13, Zenon DEF GiveUp
  <2> QED BY <1>10, <2>1, <2>2
<1>14. ASSUME NEW g \in Games, Recover(g) PROVE \A h \in Games : DispatchStep(h)
  <2>1. \E x \in BOOLEAN : job' = [job EXCEPT ![g] = Requeued(@, x)]
    BY <1>14, Zenon DEF Recover
  <2> QED BY <1>10, <2>1
<1>15. ASSUME NEW g \in Games, NEW w \in Workers, RecoverExhausted(w, g)
       PROVE  \A h \in Games : DispatchStep(h)
  <2>1. \E x \in Terminal, p \in Pending : job' = [job EXCEPT ![g] = Finished(@, x, p)]
    BY <1>15, Zenon DEF RecoverExhausted
  <2> QED BY <1>10, <2>1
<1>16. ASSUME NEW g \in Games, CancelUnexecutable(g)
       PROVE  \A h \in Games : DispatchStep(h)
  <2>1. /\ job'[g].lease = "none" /\ job'[g].count = job[g].count
        /\ \A h \in Games \ {g} : job'[h] = job[h]
    BY <1>16 DEF CancelUnexecutable, Finished, JobRow
  <2> QED BY <1>1, <2>1 DEF DispatchStep
<1>17. ASSUME \A h \in Games : /\ job'[h].status = job[h].status
                               /\ job'[h].lease = job[h].lease
                               /\ job'[h].count = job[h].count
       PROVE  \A h \in Games : DispatchStep(h)
  BY <1>17 DEF DispatchStep
<1>18. ASSUME NEW w \in Workers, MarkSettled(w) \/ RecordPending(w)
       PROVE  \A h \in Games : DispatchStep(h)
  <2>1. \A h \in Games : /\ job'[h].status = job[h].status
                         /\ job'[h].lease = job[h].lease
                         /\ job'[h].count = job[h].count
    BY <1>18 DEF MarkSettled, Unmarked, RecordPending, JobRow
  <2> QED BY <1>17, <2>1
<1>19. CASE ReconcileMark
  <2>1. \A h \in Games : job'[h] = Unmarked(job[h], job[h].run = settler.run)
    BY <1>19 DEF ReconcileMark
  <2> QED BY <1>17, <2>1, HelperFields
<1> QED
  BY <1>0, <1>3, <1>4, <1>5, <1>6, <1>7, <1>8, <1>9, <1>11, <1>12, <1>16, <1>18,
     <1>19, <1>13, <1>14, <1>15, Zenon
  DEF Next, Request, Dispatch, Time, Work, Proceed, Fail, Recovery, Reconciliation,
      EditPgn, AnalyzeLocally, Load, EnterRunning, ReadCheckpoint, YieldRejected,
      Settle, SettleFails, RecordFails, Crash, Scan, Reconcile, ReconcileFails,
      Lose, vars

(* A user's server work is serialised: no two jobs hold a live lease.        *)
THEOREM Serialised == Spec => []OneLiveLease
<1>1. Init => OneLiveLease
  BY DEF Init, NoJob, OneLiveLease
<1>2. Inv /\ OneLiveLease /\ [Next]_vars => OneLiveLease'
  <2> SUFFICES ASSUME Inv, OneLiveLease, [Next]_vars, NEW g \in Games, NEW h \in Games,
                      job'[g].status \in Active, job'[g].lease = "live",
                      job'[h].status \in Active, job'[h].lease = "live"
               PROVE  g = h
    BY DEF OneLiveLease
  <2>1. DispatchStep(g) /\ DispatchStep(h)
    BY DispatchSteps DEF Inv
  <2>2. ASSUME NEW a \in Games, NEW b \in Games, Claim(a), a # b,
               job'[b].status \in Active, job'[b].lease = "live"
        PROVE  FALSE
    BY <2>2 DEF Claim, Leased, Inv, TypeOK
  <2>3. CASE Claim(g) \/ Claim(h)
    BY <2>2, <2>3
  <2>4. CASE ~Claim(g) /\ ~Claim(h)
    BY <2>1, <2>4 DEF DispatchStep, OneLiveLease
  <2> QED BY <2>3, <2>4
<1> QED BY <1>1, <1>2, Invariance, PTL DEF Spec

-----------------------------------------------------------------------------
(* One invocation per dispatch.                                            *)

Works(w, g) == worker[w].pc \in Unfinished /\ worker[w].game = g

\* No invocation is ahead of its job's dispatches; a claim that nobody took up
\* has no invocation yet; a game that never had a job has none either.
HoldersOK ==
  /\ \A w \in Workers, g \in Games :
       Works(w, g) /\ job[g].status # "ABSENT" => worker[w].count <= job[g].count
  /\ \A w \in Workers, g \in Games :
       job[g].status = "QUEUED" /\ job[g].lease # "none" =>
         ~(Works(w, g) /\ worker[w].count = job[g].count)
  /\ \A w \in Workers, g \in Games :
       job[g].status = "ABSENT" /\ game[g].present => ~Works(w, g)
  /\ OneHolder

\* The invocation goes on under the dispatch it has, if it does.
KeepsDispatch(w) ==
  worker'[w].pc \in Unfinished =>
    /\ worker[w].pc \in Unfinished
    /\ worker'[w].game = worker[w].game
    /\ worker'[w].count = worker[w].count

\* An invocation stays with the dispatch it was started under until it ends.
LEMMA WorkerSteps ==
  ASSUME TypeOK, [Next]_vars
  PROVE  \/ \A v \in Workers : KeepsDispatch(v)
         \/ \E w \in Workers, m \in messages : Start(w, m)
<1> USE DEF TypeOK
<1>1. ASSUME NEW w \in Workers, \A v \in Workers \ {w} : worker'[v] = worker[v],
             KeepsDispatch(w)
      PROVE  \A v \in Workers : KeepsDispatch(v)
  BY <1>1 DEF KeepsDispatch
<1>2. ASSUME NEW w \in Workers, Leave(w) PROVE \A v \in Workers : KeepsDispatch(v)
  BY <1>1, <1>2 DEF Leave, Idle, KeepsDispatch, Unfinished
<1>3. ASSUME NEW w \in Workers, Load(w) \/ EnterRunning(w) \/ ReadCheckpoint(w)
      PROVE  \A v \in Workers : KeepsDispatch(v)
  <2>1. /\ worker[w].pc \in Unfinished
        /\ worker'[w].game = worker[w].game /\ worker'[w].count = worker[w].count
        /\ \A v \in Workers \ {w} : worker'[v] = worker[v]
    BY <1>3 DEF Load, EnterRunning, ReadCheckpoint, Goto, Unfinished, WorkerState
  <2> QED BY <1>1, <2>1 DEF KeepsDispatch
<1>4. ASSUME NEW w \in Workers, Complete(w) \/ CompleteWithoutWrite(w) \/ GiveUp(w)
      PROVE  \A v \in Workers : KeepsDispatch(v)
  <2>1. PICK p, a : worker' = [worker EXCEPT ![w].pc = "settling", ![w].path = p,
                                             ![w].action = a]
    BY <1>4, Zenon DEF Complete, CompleteWithoutWrite, GiveUp
  <2>2. worker'[w].pc = "settling" /\ \A v \in Workers \ {w} : worker'[v] = worker[v]
    BY <2>1 DEF WorkerState
  <2> QED BY <1>1, <2>2 DEF KeepsDispatch, Unfinished
<1>5. ASSUME NEW w \in Workers, Settle(w) \/ SettleFails(w) \/ RecordFails(w), ~Leave(w)
      PROVE  \A v \in Workers : KeepsDispatch(v)
  <2>1. /\ worker'[w].pc \in {"marking", "recording"}
        /\ \A v \in Workers \ {w} : worker'[v] = worker[v]
    BY <1>5 DEF Settle, SettleFails, RecordFails, Goto, WorkerState
  <2> QED BY <1>1, <2>1 DEF KeepsDispatch, Unfinished
<1>6. ASSUME NEW w \in Workers, NEW g \in Games, RecoverExhausted(w, g)
      PROVE  \A v \in Workers : KeepsDispatch(v)
  <2>1. worker'[w].pc = "settling" /\ \A v \in Workers \ {w} : worker'[v] = worker[v]
    BY <1>6 DEF RecoverExhausted, Idle
  <2> QED BY <1>1, <2>1 DEF KeepsDispatch, Unfinished
<1>7. CASE UNCHANGED worker
  BY <1>7 DEF KeepsDispatch
<1> QED
  BY <1>2, <1>3, <1>4, <1>5, <1>6, <1>7, Zenon
  DEF Next, Request, Dispatch, Time, Work, Proceed, Fail, Recovery, Reconciliation,
      Enqueue, EditPgn, AnalyzeLocally, DeleteGame, DisableAutomation, Claim,
      LeaseExpires, LeaseOverrun, BackoffElapses, Yield, YieldRejected, Retry,
      MarkSettled, RecordPending, Crash, Recover, CancelUnexecutable, Scan,
      Reconcile, ReconcileMark, ReconcileFails, Lose, vars

\* No step starts a second invocation under a dispatch that has one.
LEMMA HoldersStep ==
  ASSUME Inv, HoldersOK, [Next]_vars
  PROVE  HoldersOK'
<1> USE DEF Inv, TypeOK
<1>1. \A g \in Games : JobStep(g) /\ GameStep(g) /\ DispatchStep(g)
  BY JobSteps, GameSteps, DispatchSteps
<1>2. /\ \A g \in Games : job[g].count \in Nat /\ job'[g].count \in Nat
      /\ \A w \in Workers : worker[w].count \in Nat
  BY TypeStep DEF JobRow, WorkerState
<1>3. CASE \A v \in Workers : KeepsDispatch(v)
  <2>1. \A v \in Workers, g \in Games :
          Works(v, g)' => Works(v, g) /\ worker'[v].count = worker[v].count
    BY <1>3 DEF KeepsDispatch, Works
  <2>2. ASSUME NEW v \in Workers, NEW g \in Games, Works(v, g)',
               job'[g].status # "ABSENT"
        PROVE  worker'[v].count <= job'[g].count
    <3>1. job[g].status # "ABSENT"
      BY <1>1, <2>1, <2>2 DEF JobStep, HoldersOK
    <3> QED BY <1>1, <1>2, <2>1, <2>2, <3>1 DEF DispatchStep, HoldersOK
  <2>3. ASSUME NEW v \in Workers, NEW g \in Games, Works(v, g)',
               job'[g].status = "QUEUED", job'[g].lease # "none"
        PROVE  worker'[v].count # job'[g].count
    <3>1. CASE Claim(g)
      <4>1. job[g].status = "QUEUED" /\ job'[g].count = job[g].count + 1
        BY <3>1 DEF Claim, Dispatchable, JobRow
      <4> QED BY <1>2, <2>1, <2>3, <4>1 DEF HoldersOK
    <3>2. CASE ~Claim(g)
      BY <1>1, <2>1, <2>3, <3>2 DEF DispatchStep, HoldersOK
    <3> QED BY <3>1, <3>2
  <2>4. ASSUME NEW v \in Workers, NEW g \in Games, Works(v, g)',
               job'[g].status = "ABSENT"
        PROVE  ~game'[g].present
    BY <1>1, <2>1, <2>4 DEF JobStep, GameStep, HoldersOK
  <2>5. OneHolder'
    BY <1>3 DEF KeepsDispatch, OneHolder, HoldersOK
  <2> QED BY <2>2, <2>3, <2>4, <2>5 DEF HoldersOK
<1>4. ASSUME NEW w \in Workers, NEW m \in messages, Start(w, m) PROVE HoldersOK'
  <2> DEFINE h == m[1]
  <2>1. /\ h \in Games
        /\ job[h].status = "QUEUED" /\ job[h].lease = "live" /\ job[h].count = m[2]
        /\ job'[h].status = "RUNNING" /\ job'[h].count = m[2]
        /\ worker'[w].game = h /\ worker'[w].count = m[2]
        /\ \A g \in Games \ {h} : job'[g] = job[g]
        /\ \A v \in Workers \ {w} : worker'[v] = worker[v]
        /\ game' = game
    BY <1>4 DEF Start, Startable, Idle, JobRow
  <2>2. \A v \in Workers \ {w} : ~(Works(v, h) /\ worker[v].count = m[2])
    BY <2>1 DEF HoldersOK
  <2>3. ASSUME NEW v \in Workers, NEW g \in Games, Works(v, g)'
        PROVE  /\ job'[g].status # "ABSENT" => worker'[v].count <= job'[g].count
               /\ job'[g].status = "QUEUED" /\ job'[g].lease # "none" =>
                    worker'[v].count # job'[g].count
               /\ job'[g].status = "ABSENT" => ~game'[g].present
    BY <1>2, <2>1, <2>3 DEF Works, HoldersOK
  <2>4. OneHolder'
    BY <2>1, <2>2 DEF OneHolder, HoldersOK, Works
  <2> QED BY <2>3, <2>4 DEF HoldersOK
<1> QED BY <1>3, <1>4, WorkerSteps

\* There is no invocation before the first dispatch.
LEMMA HoldersInit == Init => HoldersOK
BY DEF Init, HoldersOK, OneHolder, Works, Idle, Unfinished

\* What is known of the invocations holds in every reachable state.
LEMMA HoldersInvariance == Spec => []HoldersOK
<1>1. Inv /\ HoldersOK /\ [Next]_vars => HoldersOK'
  BY HoldersStep
<1> QED BY <1>1, HoldersInit, Invariance, PTL DEF Spec

(* However often a dispatch message is delivered, one invocation works under *)
(* each dispatch of a job: the fence is unique among those that could write. *)
THEOREM UniqueHolder == Spec => []OneHolder
<1>1. HoldersOK => OneHolder
  BY DEF HoldersOK
<1> QED BY <1>1, HoldersInvariance, PTL

-----------------------------------------------------------------------------
(* What a stale invocation may write.                                      *)

\* At most the settlement marker of g's job changes.
SameButMark(g) == job'[g] = [job[g] EXCEPT !.pending = job'[g].pending]

LeavesJob(w) ==
  LET g == worker[w].game IN
    /\ worker[w].pc # "idle" /\ worker'[w] # worker[w]
    /\ worker[w].count # job[g].count
    => SameButMark(g)

\* A job that is not touched, or whose marker is removed or set, is the same
\* but for the marker.
LEMMA MarkUpdates ==
  /\ \A j \in JobRow : j = [j EXCEPT !.pending = j.pending]
  /\ \A j \in JobRow, x \in Pending :
       [j EXCEPT !.pending = x] = [j EXCEPT !.pending = [j EXCEPT !.pending = x].pending]
BY DEF JobRow

\* The steps of an invocation that write more than the marker of its job are
\* those that check the fence.
LEMMA StaleSteps ==
  ASSUME Inv, [Next]_vars
  PROVE  \A w \in Workers : LeavesJob(w)
<1> USE DEF Inv, TypeOK
<1>1. CASE UNCHANGED job
  <2>1. \A w \in Workers : worker[w].pc # "idle" => worker[w].game \in Games
    BY DEF WorkersOK, WorkerOK
  <2>2. \A g \in Games : SameButMark(g)
    BY <1>1, MarkUpdates, Zenon DEF SameButMark
  <2> QED BY <2>1, <2>2, Zenon DEF LeavesJob
<1>2. CASE UNCHANGED worker
  BY <1>2 DEF LeavesJob
<1>3. ASSUME NEW v \in Workers, worker[v].pc = "idle",
             \A w \in Workers \ {v} : worker'[w] = worker[w]
      PROVE  \A w \in Workers : LeavesJob(w)
  BY <1>3 DEF LeavesJob
<1>4. ASSUME NEW v \in Workers, Fenced(v),
             \A w \in Workers \ {v} : worker'[w] = worker[w]
      PROVE  \A w \in Workers : LeavesJob(w)
  BY <1>4 DEF LeavesJob, Fenced
<1>5. ASSUME NEW v \in Workers, worker[v].pc # "idle",
             SameButMark(worker[v].game),
             \A w \in Workers \ {v} : worker'[w] = worker[w]
      PROVE  \A w \in Workers : LeavesJob(w)
  BY <1>5 DEF LeavesJob
<1>6. ASSUME NEW v \in Workers, NEW m \in messages, Start(v, m)
      PROVE  \A w \in Workers : LeavesJob(w)
  BY <1>3, <1>6 DEF Start
<1>7. ASSUME NEW v \in Workers, NEW g \in Games, RecoverExhausted(v, g)
      PROVE  \A w \in Workers : LeavesJob(w)
  BY <1>3, <1>7 DEF RecoverExhausted
<1>8. ASSUME NEW v \in Workers,
             Complete(v) \/ CompleteWithoutWrite(v) \/ Retry(v) \/ GiveUp(v) \/ Yield(v)
      PROVE  \A w \in Workers : LeavesJob(w)
  <2>1. Fenced(v)
    BY <1>8, Zenon DEF Complete, CompleteWithoutWrite, Completable, Retry, GiveUp, Yield
  <2>2. \A w \in Workers \ {v} : worker'[w] = worker[w]
    <3>1. CASE Complete(v) \/ CompleteWithoutWrite(v) \/ GiveUp(v)
      <4>1. PICK p, a : worker' = [worker EXCEPT ![v].pc = "settling", ![v].path = p,
                                                 ![v].action = a]
        BY <3>1, Zenon DEF Complete, CompleteWithoutWrite, GiveUp
      <4> QED BY <4>1
    <3>2. CASE Retry(v) \/ Yield(v)
      BY <3>2 DEF Retry, Yield, Leave
    <3> QED BY <1>8, <3>1, <3>2
  <2> QED BY <1>4, <2>1, <2>2
<1>9. ASSUME NEW v \in Workers, MarkSettled(v) \/ RecordPending(v)
      PROVE  \A w \in Workers : LeavesJob(w)
  <2>1. worker[v].pc # "idle" /\ \A w \in Workers \ {v} : worker'[w] = worker[w]
    BY <1>9 DEF MarkSettled, RecordPending, Leave
  <2>2. worker[v].game \in Games /\ worker[v].action \in Pending
    BY <2>1 DEF WorkersOK, WorkerOK, WorkerState
  <2>3. \/ job'[worker[v].game] = job[worker[v].game]
        \/ \E x \in Pending : job'[worker[v].game] = [job[worker[v].game] EXCEPT !.pending = x]
    <3>1. CASE MarkSettled(v)
      BY <2>2, <3>1 DEF MarkSettled, Unmarked
    <3>2. CASE RecordPending(v)
      BY <2>2, <3>2 DEF RecordPending
    <3> QED BY <1>9, <3>1, <3>2
  <2>4. SameButMark(worker[v].game)
    BY <2>2, <2>3, MarkUpdates, Zenon DEF SameButMark
  <2> QED BY <1>5, <2>1, <2>4
<1> QED
  BY <1>1, <1>2, <1>6, <1>7, <1>8, <1>9, Zenon
  DEF Next, Request, Dispatch, Time, Work, Proceed, Fail, Recovery, Reconciliation,
      Enqueue, EditPgn, AnalyzeLocally, DeleteGame, DisableAutomation, Claim,
      LeaseExpires, LeaseOverrun, BackoffElapses, YieldRejected, Load, EnterRunning,
      ReadCheckpoint, Settle, SettleFails, RecordFails, Crash, Recover,
      CancelUnexecutable, Scan, Reconcile, ReconcileMark, ReconcileFails, Lose, vars

(* A stale worker cannot complete, fail or give back a newer claim: once the *)
(* job was claimed again, its steps leave the job alone but for the marker.  *)
THEOREM StaleIsHarmless == Spec => StaleLeavesJob
<1>1. Inv /\ [Next]_vars => \A w \in Workers : LeavesJob(w)
  BY StaleSteps
<1>2. (\A w \in Workers : LeavesJob(w)) =>
        \A w \in Workers :
          LET g == worker[w].game IN
            /\ worker[w].pc # "idle" /\ worker'[w] # worker[w]
            /\ worker[w].count # job[g].count
            => job'[g] = [job[g] EXCEPT !.pending = job'[g].pending]
  BY DEF LeavesJob, SameButMark
<1> QED BY Invariance, <1>1, <1>2, PTL DEF Spec, StaleLeavesJob
-----------------------------------------------------------------------------
(* The analysis a game shows.                                               *)

PublishedOK ==
  \A g \in Games : game[g].current # None =>
    /\ game[g].current \in Runs
    /\ run[game[g].current].wrote
    /\ run[game[g].current].game = g
    /\ run[game[g].current].pgn = game[g].pgn

\* A game keeps its analysis and its PGN, loses the analysis, or gets one that
\* was computed from the PGN it has.
PublishStep(g) ==
  \/ game'[g].current = game[g].current /\ game'[g].pgn = game[g].pgn
  \/ game'[g].current = None
  \/ /\ game'[g].current \in Runs
     /\ run[game'[g].current].status # "FREE"
     /\ run'[game'[g].current].wrote
     /\ run[game'[g].current].game = g
     /\ run[game'[g].current].pgn = game'[g].pgn

\* Only a completion publishes, and it checks the PGN.
LEMMA PublishSteps ==
  ASSUME Inv, [Next]_vars
  PROVE  \A g \in Games : PublishStep(g)
<1> USE DEF Inv, TypeOK
<1>1. CASE UNCHANGED game
  BY <1>1 DEF PublishStep
<1>2. ASSUME NEW h \in Games, EditPgn(h) \/ AnalyzeLocally(h) \/ DeleteGame(h)
      PROVE  \A g \in Games : PublishStep(g)
  <2>1. game'[h].current = None /\ \A g \in Games \ {h} : game'[g] = game[g]
    <3>1. CASE EditPgn(h)
      BY <3>1 DEF EditPgn, GameRow
    <3>2. CASE AnalyzeLocally(h)
      BY <3>2 DEF AnalyzeLocally, GameRow
    <3>3. CASE DeleteGame(h)
      <4>1. game' = [game EXCEPT ![h].present = FALSE, ![h].analyzed = FALSE,
                                 ![h].current = None]
        BY <3>3, Zenon DEF DeleteGame
      <4> QED BY <4>1 DEF GameRow
    <3> QED BY <1>2, <3>1, <3>2, <3>3
  <2> QED BY <2>1 DEF PublishStep
<1>3. ASSUME NEW w \in Workers, Complete(w)
      PROVE  \A g \in Games : PublishStep(g)
  <2> DEFINE h == worker[w].game
             r == worker[w].run
  <2>1. /\ h \in Games /\ r \in Runs
        /\ run[r].status # "FREE" /\ run[r].game = h
    BY <1>3 DEF Complete, WorkersOK, WorkerOK, Loaded
  <2>2. run[r].pgn = game[h].pgn
    BY <1>3, Zenon DEF Complete, PgnUnchanged
  <2>3. run'[r].wrote
    BY <1>3, <2>1 DEF Complete, Succeeded, RunRow
  <2>4. /\ game'[h].current = r /\ game'[h].pgn = game[h].pgn
        /\ \A g \in Games \ {h} : game'[g] = game[g]
    BY <1>3, <2>1 DEF Complete, GameRow
  <2> QED BY <2>1, <2>2, <2>3, <2>4 DEF PublishStep
<1> QED
  BY <1>1, <1>2, <1>3, ZenonT(60)
  DEF Next, Request, Dispatch, Time, Work, Proceed, Fail, Recovery, Reconciliation,
      Enqueue, DisableAutomation, Claim, LeaseExpires, LeaseOverrun, BackoffElapses,
      Start, Load, EnterRunning, ReadCheckpoint, Yield, YieldRejected,
      CompleteWithoutWrite, Settle, SettleFails, MarkSettled, RecordPending,
      RecordFails, Crash, Recover, RecoverExhausted, CancelUnexecutable, Scan,
      Reconcile, ReconcileMark, ReconcileFails, Lose, vars

\* A run that wrote its result keeps its game and its PGN.
LEMMA PublishedStep ==
  ASSUME Inv, PublishedOK, [Next]_vars
  PROVE  PublishedOK'
<1> USE DEF Inv
<1>1. \A g \in Games : PublishStep(g)
  BY PublishSteps
<1>2. \A r \in Runs : RunStep(r)
  BY RunSteps
<1>3. ASSUME NEW r \in Runs, run[r].status # "FREE"
      PROVE  /\ run'[r].game = run[r].game /\ run'[r].pgn = run[r].pgn
             /\ run[r].wrote => run'[r].wrote
  BY <1>2, <1>3 DEF RunStep
<1>4. \A r \in Runs : run[r].wrote => run[r].status # "FREE"
  BY DEF RowsOK
<1> QED BY <1>1, <1>3, <1>4 DEF PublishStep, PublishedOK

(* What a game shows was computed by a completed run from the PGN it has     *)
(* now, although analysis and import do not know of each other.              *)
THEOREM PublishedIsCurrent == Spec => []PublishedFromCurrentPgn
<1>1. Init => PublishedOK
  BY DEF Init, PublishedOK
<1>2. PublishedOK => PublishedFromCurrentPgn
  BY DEF PublishedOK, PublishedFromCurrentPgn
<1> QED BY Invariance, PublishedStep, <1>1, <1>2, PTL DEF Spec

-----------------------------------------------------------------------------
(* The ledger implements the abstract life cycle of a reservation.          *)

Reservations == [r \in Runs |-> ReservationOf(r)]

\* The states of a reservation in terms of the run's entries.
LEMMA ReservationStates ==
  ASSUME NEW r \in Runs
  PROVE  /\ ledger[r] = {} => ReservationOf(r) = "none"
         /\ Outstanding(r) => ReservationOf(r) = "held"
BY DEF ReservationOf, Outstanding, Settlements

\* The same after a step.
LEMMA NewReservationStates ==
  ASSUME NEW r \in Runs
  PROVE  /\ ledger'[r] = {"reserve"} => ReservationOf(r)' = "held"
         /\ \A k \in Settlements :
              Outstanding(r) /\ ledger'[r] = ledger[r] \cup {k} =>
                ReservationOf(r)' = IF k = "consume" THEN "consumed" ELSE "released"
         /\ ledger'[r] = ledger[r] => ReservationOf(r)' = ReservationOf(r)
<1>1. ledger'[r] = {"reserve"} => ReservationOf(r)' = "held"
  BY DEF ReservationOf, Settlements
<1>2. ASSUME NEW k \in Settlements, Outstanding(r), ledger'[r] = ledger[r] \cup {k}
      PROVE  ReservationOf(r)' = IF k = "consume" THEN "consumed" ELSE "released"
  <2>1. CASE k = "consume"
    BY <1>2, <2>1 DEF ReservationOf, Outstanding, Settlements
  <2>2. CASE k # "consume"
    BY <1>2, <2>2 DEF ReservationOf, Outstanding, Settlements
  <2> QED BY <2>1, <2>2
<1>3. ledger'[r] = ledger[r] => ReservationOf(r)' = ReservationOf(r)
  BY Zenon DEF ReservationOf
<1> QED BY <1>1, <1>2, <1>3

\* A transaction touches the entries of one run, but for the cancellation of a
\* user's automatic jobs, which releases those of several.
LEMMA LedgerChanges ==
  ASSUME Inv, [Next]_vars
  PROVE  \/ \E r \in Runs : \A q \in Runs \ {r} : ledger'[q] = ledger[q]
         \/ UNCHANGED ledger
         \/ DisableAutomation
<1> USE DEF Inv, TypeOK
<1> DEFINE Few == \/ \E r \in Runs : \A q \in Runs \ {r} : ledger'[q] = ledger[q]
                  \/ UNCHANGED ledger
                  \/ DisableAutomation
<1>0. ASSUME UNCHANGED ledger PROVE Few
  BY <1>0
<1>1. ASSUME NEW r, NEW k, ledger' = Settled(r, k) PROVE Few
  BY <1>1 DEF Settled
<1>2. ASSUME NEW g \in Games, NEW r \in Runs, NEW reason \in Reasons,
             NEW force \in BOOLEAN, Enqueue(g, r, reason, force)
      PROVE  Few
  BY <1>2 DEF Enqueue
<1>6. ASSUME DisableAutomation PROVE Few
  BY <1>6
<1> HIDE DEF Few
<1>3. ASSUME NEW g \in Games, DeleteGame(g) \/ CancelUnexecutable(g) PROVE Few
  <2>1. UNCHANGED ledger \/ \E r, k : ledger' = Settled(r, k)
    BY <1>3, Zenon DEF DeleteGame, CancelUnexecutable
  <2> QED BY <1>0, <1>1, <2>1, Zenon
<1>4. ASSUME NEW w \in Workers, Settle(w) PROVE Few
  BY <1>1, <1>4, Zenon DEF Settle
<1>5. ASSUME Reconcile PROVE Few
  BY <1>1, <1>5, Zenon DEF Reconcile
<1>7. Few
  BY <1>0, <1>2, <1>3, <1>4, <1>5, <1>6, ZenonT(60)
  DEF Next, Request, Dispatch, Time, Work, Proceed, Fail, Recovery, Reconciliation,
      EditPgn, AnalyzeLocally, Claim, LeaseExpires, LeaseOverrun, BackoffElapses,
      Start, Load, EnterRunning, ReadCheckpoint, Yield, YieldRejected, Complete,
      CompleteWithoutWrite, Retry, GiveUp, SettleFails, MarkSettled, RecordPending,
      RecordFails, Crash, Recover, RecoverExhausted, Scan, ReconcileMark,
      ReconcileFails, Lose, vars
<1> QED BY <1>7 DEF Few

\* A change of one run's entries is a step of the abstract life cycle.
LEMMA OneReservation ==
  ASSUME Inv, NEW r \in Runs, LedgerStep(r),
         \A q \in Runs \ {r} : ledger'[q] = ledger[q]
  PROVE  Credits!Next \/ UNCHANGED Reservations
<1> USE DEF Inv
<1>1. \A q \in Runs \ {r} : ReservationOf(q)' = ReservationOf(q)
  BY NewReservationStates
<1>2. CASE ledger'[r] = ledger[r]
  BY <1>1, <1>2, NewReservationStates, Zenon DEF Reservations
<1>3. CASE run[r].status = "FREE" /\ ledger'[r] = {"reserve"}
  <2>1. ReservationOf(r) = "none" /\ ReservationOf(r)' = "held"
    BY <1>3, ReservationStates, NewReservationStates DEF RowsOK
  <2>2. Credits!Reserve(r)
    BY <1>1, <2>1 DEF Credits!Reserve, Credits!Move
  <2> QED BY <2>2 DEF Credits!Next
<1>4. ASSUME NEW k \in Settlements, Outstanding(r), ledger'[r] = ledger[r] \cup {k}
      PROVE  Credits!Next
  <2>1. ReservationOf(r) = "held"
    BY <1>4, ReservationStates
  <2>2. ReservationOf(r)' = IF k = "consume" THEN "consumed" ELSE "released"
    BY <1>4, NewReservationStates
  <2>3. CASE k = "consume"
    <3>1. Credits!Consume(r)
      BY <1>1, <2>1, <2>2, <2>3 DEF Credits!Consume, Credits!Move
    <3> QED BY <3>1 DEF Credits!Next
  <2>4. CASE k # "consume"
    <3>1. Credits!Release({r})
      BY <1>1, <2>1, <2>2, <2>4 DEF Credits!Release, Credits!Move
    <3> QED BY <3>1 DEF Credits!Next
  <2> QED BY <2>3, <2>4
<1> QED BY <1>2, <1>3, <1>4 DEF LedgerStep

\* The cancellation of a user's automatic jobs releases a set of reservations.
LEMMA ManyReservations ==
  ASSUME Inv, DisableAutomation, \A q \in Runs : LedgerStep(q)
  PROVE  Credits!Next \/ UNCHANGED Reservations
<1> USE DEF Inv, TypeOK
<1>1. PICK freed : ledger' = [r \in Runs |-> IF r \in freed
                                             THEN ledger[r] \cup {"disabled-release"}
                                             ELSE ledger[r]]
  BY Zenon DEF DisableAutomation
<1> DEFINE S == {r \in Runs : ledger'[r] # ledger[r]}
<1>2. ASSUME NEW r \in S
      PROVE  ReservationOf(r) = "held" /\ ReservationOf(r)' = "released"
  <2>1. ledger'[r] = ledger[r] \cup {"disabled-release"} /\ ledger'[r] # {"reserve"}
    BY <1>1, <1>2
  <2>2. Outstanding(r)
    BY <1>2, <2>1 DEF LedgerStep
  <2> QED BY <2>1, <2>2, ReservationStates, NewReservationStates DEF Settlements
<1>3. \A r \in Runs \ S : ReservationOf(r)' = ReservationOf(r)
  BY NewReservationStates
<1>4. Credits!Release(S)
  BY <1>2, <1>3 DEF Credits!Release, Credits!Move
<1>5. S \in SUBSET Runs
  OBVIOUS
<1> QED BY <1>4, <1>5 DEF Credits!Next

(* The entries that worker, recovery, reconciliation, cancellation and       *)
(* deletion write are steps of the abstract life cycle: each reservation is  *)
(* made once, then consumed once or released once, and never reopened.       *)
THEOREM ReservationRefinement == Spec => ReservationsSettleOnce
<1>1. Init => Credits!Init
  BY ReservationStates DEF Init, Credits!Init
<1>2. ASSUME Inv, [Next]_vars
      PROVE  Credits!Next \/ UNCHANGED Reservations
  <2>1. \A q \in Runs : LedgerStep(q)
    BY <1>2, LedgerSteps DEF Inv
  <2>2. UNCHANGED ledger => UNCHANGED Reservations
    BY NewReservationStates, Zenon DEF Reservations
  <2> QED BY <1>2, <2>1, <2>2, LedgerChanges, OneReservation, ManyReservations, Zenon
<1>3. Inv /\ [Next]_vars => [Credits!Next]_Reservations
  BY <1>2
<1> QED BY Invariance, <1>1, <1>3, PTL DEF Spec, ReservationsSettleOnce, Credits!Spec, Reservations

-----------------------------------------------------------------------------
(* The holders of work are safe: the rows are typed, each dispatch of a job  *)
(* has one invocation, and no queued job is without an attempt.              *)
THEOREM HoldersKept == Spec => []HoldersSafe
<1>1. TypeOK /\ OneHolder /\ AttemptLeft => HoldersSafe
  BY DEF HoldersSafe
<1> QED BY TypeCorrect, UniqueHolder, AttemptsBounded, <1>1, PTL

(* The reservations are safe: settled under one key at most, never taken     *)
(* from a queued or running job, never left with a cancelled one.            *)
THEOREM ReservationsKept == Spec => []ReservationsSafe
<1>1. SettledOnce /\ ActiveJobReserved /\ CancelledJobReleased => ReservationsSafe
  BY DEF ReservationsSafe
<1> QED BY NeverOversettled, WorkIsReserved, CancelledIsReleased, <1>1, PTL

-----------------------------------------------------------------------------
(* A completed analysis stays marked until it is charged.                  *)
(* UnchargedIsMarked is not inductive: what a marker becomes is decided by *)
(* what an invocation or the reconciliation carries from an earlier step.  *)
(* ChargesOK adds that to it, and rests on Inv and HoldersOK.              *)

\* An invocation that holds the fence has no run yet, or the one its job has.
KeepsRun ==
  \A w \in Workers :
    /\ worker[w].pc = "started" => worker[w].run = None
    /\ worker[w].pc \in Loaded /\ Fenced(w) => worker[w].run = job[worker[w].game].run

\* Who is about to release a run's credit releases that of a run without result.
ReleasesUnwritten ==
  \A w \in Workers :
    /\ worker[w].pc \in Settling /\ worker[w].action = "release"
    /\ worker[w].run \in Runs
    => ~run[worker[w].run].wrote

\* Who is about to remove a marker has settled what it stands for.
MarksSettled ==
  /\ \A w \in Workers : worker[w].pc = "marking" =>
       worker[w].run \in Runs /\ ~Outstanding(worker[w].run)
  /\ settler.pc = "settled" => ~Outstanding(settler.run)

ChargesOK == KeepsRun /\ ReleasesUnwritten /\ MarksSettled /\ UnchargedIsMarked

USE DEF Active, Terminal, Pending

-----------------------------------------------------------------------------
(* What a step does to the result and the marker of one run.               *)

ChargeStep(q) ==
  \/ /\ run'[q].wrote = run[q].wrote
     /\ \/ run'[q].pending = run[q].pending
        \/ ~run[q].wrote
        \/ ~Outstanding(q)
        \/ run'[q].status = "DELETED"
        \/ run'[q].pending = "consume"
  \/ ~run'[q].wrote
  \/ /\ run'[q].pending = "consume"
     /\ \E g \in Games : job[g].status \in Active /\ job[g].run = q

\* A marker goes with its charge, or is that of a run without a result.
LEMMA ChargeSteps ==
  ASSUME Inv, ChargesOK, [Next]_vars
  PROVE  \A q \in Runs : ChargeStep(q)
<1> USE DEF Inv, TypeOK
<1>0. CASE UNCHANGED run
  BY <1>0 DEF ChargeStep
<1>1. ASSUME NEW g \in Games, NEW r \in Runs, NEW reason \in Reasons,
             NEW force \in BOOLEAN, Enqueue(g, r, reason, force)
      PROVE  \A q \in Runs : ChargeStep(q)
  <2>1. ~run'[r].wrote /\ \A q \in Runs \ {r} : run'[q] = run[q]
    BY <1>1 DEF Enqueue
  <2> QED BY <2>1 DEF ChargeStep
<1>2. ASSUME NEW g \in Games, DeleteGame(g) PROVE \A q \in Runs : ChargeStep(q)
  <2>1. ASSUME NEW q \in Runs
        PROVE  \/ run'[q] = run[q]
               \/ run'[q].status = "DELETED" /\ run'[q].wrote = run[q].wrote
    BY <1>2 DEF DeleteGame, RunRow
  <2> QED BY <2>1 DEF ChargeStep
<1>3. CASE DisableAutomation
  <2>1. ASSUME NEW q \in Runs
        PROVE  \/ run'[q] = run[q]
               \/ /\ run'[q].wrote = run[q].wrote
                  /\ \E g \in Games : job[g].status = "QUEUED" /\ job[g].run = q
    BY <1>3 DEF DisableAutomation, RunRow
  <2> QED BY <2>1 DEF ChargeStep, RowsOK
<1>4. ASSUME NEW w \in Workers, EnterRunning(w) PROVE \A q \in Runs : ChargeStep(q)
  <2>1. \A q \in Runs : /\ run'[q].wrote = run[q].wrote
                        /\ run'[q].pending = run[q].pending
    BY <1>4 DEF EnterRunning, RunRow
  <2> QED BY <2>1 DEF ChargeStep
\* the run of an active job, which has no result yet, is moved
<1>5. ASSUME NEW g \in Games, job[g].status \in Active, NEW from, NEW to,
             run' = RunMoved(job[g].run, from, to)
      PROVE  \A q \in Runs : ChargeStep(q)
  <2>1. \A q \in Runs : run'[q].wrote = run[q].wrote
    BY <1>5, HelperFields
  <2>2. \A q \in Runs \ {job[g].run} : run'[q] = run[q]
    BY <1>5 DEF RunMoved
  <2>3. ~run[job[g].run].wrote
    BY <1>5 DEF RowsOK
  <2> QED BY <2>1, <2>2, <2>3 DEF ChargeStep
<1>6. ASSUME NEW w \in Workers, Yield(w) \/ Fail(w) PROVE \A q \in Runs : ChargeStep(q)
  <2> DEFINE g == worker[w].game
  <2>1. g \in Games
    BY <1>6 DEF Yield, Fail, Unfinished, WorkersOK, WorkerOK
  <2>2. CASE Yield(w)
    <3>1. job[g].status = "RUNNING" /\ run' = RunMoved(job[g].run, {"RUNNING"}, "QUEUED")
      BY <2>2 DEF Yield, Fenced
    <3> QED BY <1>5, <2>1, <3>1
  <2>3. CASE Fail(w)
    <3>1. \/ run' = run
          \/ /\ job[g].status = "RUNNING"
             /\ \E to : run' = RunMoved(job[g].run, {"RUNNING"}, to)
      BY <2>3 DEF Fail, Retry, GiveUp, Fenced
    <3> QED BY <1>0, <1>5, <2>1, <3>1
  <2> QED BY <1>6, <2>2, <2>3
<1>7. ASSUME NEW w \in Workers, Complete(w) PROVE \A q \in Runs : ChargeStep(q)
  <2> DEFINE g == worker[w].game
             r == worker[w].run
  <2>1. g \in Games /\ r \in Runs /\ job[g].status = "RUNNING" /\ job[g].run = r
    BY <1>7 DEF Complete, Completable, Fenced, WorkersOK, WorkerOK, Loaded
  <2>2. run'[r].pending = "consume" /\ \A q \in Runs \ {r} : run'[q] = run[q]
    BY <1>7, <2>1 DEF Complete, Succeeded, RunRow
  <2> QED BY <2>1, <2>2 DEF ChargeStep
<1>8. ASSUME NEW w \in Workers, CompleteWithoutWrite(w)
      PROVE  \A q \in Runs : ChargeStep(q)
  <2>1. ~run'[worker[w].run].wrote /\ \A q \in Runs \ {worker[w].run} : run'[q] = run[q]
    BY <1>8 DEF CompleteWithoutWrite, Succeeded, RunRow, WorkersOK, WorkerOK, Loaded
  <2> QED BY <2>1 DEF ChargeStep
<1>9. ASSUME NEW w \in Workers, MarkSettled(w) PROVE \A q \in Runs : ChargeStep(q)
  <2> DEFINE r == worker[w].run
  <2>1. r \in Runs /\ ~Outstanding(r)
    BY <1>9 DEF MarkSettled, ChargesOK, MarksSettled
  <2>2. run'[r].wrote = run[r].wrote /\ \A q \in Runs \ {r} : run'[q] = run[q]
    BY <1>9, <2>1, HelperFields DEF MarkSettled
  <2> QED BY <2>1, <2>2 DEF ChargeStep
<1>10. ASSUME NEW w \in Workers, RecordPending(w) PROVE \A q \in Runs : ChargeStep(q)
  <2> DEFINE r == worker[w].run
             a == worker[w].action
  <2>1. \/ run' = run
        \/ r \in Runs /\ run' = [run EXCEPT ![r].pending = a]
    BY <1>10 DEF RecordPending, WorkerState
  <2>2. CASE r \in Runs /\ run' = [run EXCEPT ![r].pending = a]
    <3>1. /\ run'[r].wrote = run[r].wrote /\ run'[r].pending = a
          /\ \A q \in Runs \ {r} : run'[q] = run[q]
      BY <2>2 DEF RunRow
    <3>2. a \in {"consume", "release"}
      BY <1>10 DEF RecordPending, WorkersOK, WorkerOK, Settling
    <3>3. a = "release" => ~run[r].wrote
      BY <1>10, <2>2 DEF RecordPending, ChargesOK, ReleasesUnwritten, Settling
    <3> QED BY <3>1, <3>2, <3>3 DEF ChargeStep
  <2> QED BY <1>0, <2>1, <2>2
<1>11. ASSUME NEW g \in Games,
              \/ Recover(g) \/ CancelUnexecutable(g)
              \/ \E w \in Workers : RecoverExhausted(w, g)
       PROVE  \A q \in Runs : ChargeStep(q)
  <2>1. /\ job[g].status \in Active
        /\ \E from, to : run' = RunMoved(job[g].run, from, to)
    BY <1>11, Zenon DEF Recover, RecoverExhausted, Expired, CancelUnexecutable
  <2> QED BY <1>5, <2>1
<1>12. CASE ReconcileMark
  <2> DEFINE r == settler.run
  <2>1. r \in Runs /\ ~Outstanding(r)
    BY <1>12 DEF ReconcileMark, SettlerOK, ChargesOK, MarksSettled
  <2>2. run'[r].wrote = run[r].wrote /\ \A q \in Runs \ {r} : run'[q] = run[q]
    BY <1>12, <2>1, HelperFields DEF ReconcileMark
  <2> QED BY <2>1, <2>2 DEF ChargeStep
<1> QED
  BY <1>0, <1>1, <1>2, <1>3, <1>4, <1>6, <1>7, <1>8, <1>9, <1>10, <1>11, <1>12,
     ZenonT(60)
  DEF Next, Request, Dispatch, Time, Work, Proceed, Recovery, Reconciliation,
      EditPgn, AnalyzeLocally, Claim, LeaseExpires, LeaseOverrun, BackoffElapses,
      Start, Load, ReadCheckpoint, YieldRejected, Settle, SettleFails, RecordFails,
      Crash, Scan, Reconcile, ReconcileFails, Lose, vars

-----------------------------------------------------------------------------
(* What a step does to one invocation, as far as the charge depends on it. *)

\* The run that an invocation works on is read once, from its job.
LoadedStep(w) ==
  /\ worker'[w].pc = "started" =>
       worker'[w].run = None \/ worker'[w] = worker[w]
  /\ worker'[w].pc \in Loaded =>
       /\ worker[w].pc \in Unfinished
       /\ worker'[w].game = worker[w].game
       /\ worker'[w].count = worker[w].count
       /\ \/ worker[w].pc \in Loaded /\ worker'[w].run = worker[w].run
          \/ worker'[w].run = job[worker[w].game].run /\ job' = job

\* A release begins where a job gives up, or where nothing was written.
SettlingStep(w) ==
  /\ worker'[w].pc \in Settling /\ worker'[w].action = "release" =>
       \/ /\ worker[w].pc \in Settling /\ worker[w].action = "release"
          /\ worker'[w].run = worker[w].run
       \/ worker'[w].run \in Runs => ~run'[worker'[w].run].wrote
  /\ worker'[w].pc = "marking" =>
       \/ worker[w].pc = "marking" /\ worker'[w].run = worker[w].run
       \/ \E r \in Runs : worker'[w].run = r /\ ~Outstanding(r)'

\* Every step of an invocation is one of these.
LEMMA ChargeWorkerSteps ==
  ASSUME Inv, ChargesOK, [Next]_vars
  PROVE  \A v \in Workers : LoadedStep(v) /\ SettlingStep(v)
<1> USE DEF Inv, TypeOK
<1>1. ASSUME NEW w \in Workers, \A v \in Workers \ {w} : worker'[v] = worker[v],
             LoadedStep(w), SettlingStep(w)
      PROVE  \A v \in Workers : LoadedStep(v) /\ SettlingStep(v)
  BY <1>1 DEF LoadedStep, SettlingStep, Loaded, Unfinished
<1>2. ASSUME NEW w \in Workers, worker'[w].pc \in {"idle", "started"},
             worker'[w].run = None, \A v \in Workers \ {w} : worker'[v] = worker[v]
      PROVE  \A v \in Workers : LoadedStep(v) /\ SettlingStep(v)
  BY <1>1, <1>2 DEF LoadedStep, SettlingStep, Loaded, Settling
<1>3. ASSUME NEW w \in Workers, Leave(w)
      PROVE  \A v \in Workers : LoadedStep(v) /\ SettlingStep(v)
  BY <1>2, <1>3 DEF Leave, Idle
<1>4. ASSUME NEW w \in Workers, NEW m \in messages, Start(w, m)
      PROVE  \A v \in Workers : LoadedStep(v) /\ SettlingStep(v)
  BY <1>2, <1>4 DEF Start, Idle
<1>5. ASSUME NEW w \in Workers, Load(w) \/ EnterRunning(w) \/ ReadCheckpoint(w)
      PROVE  \A v \in Workers : LoadedStep(v) /\ SettlingStep(v)
  <2>1. /\ worker'[w].pc \in Loaded
        /\ worker'[w].game = worker[w].game /\ worker'[w].count = worker[w].count
        /\ \A v \in Workers \ {w} : worker'[v] = worker[v]
        /\ \/ worker[w].pc \in Loaded /\ worker'[w].run = worker[w].run
           \/ worker[w].pc = "started" /\ worker'[w].run = job[worker[w].game].run /\ job' = job
    BY <1>5 DEF Load, EnterRunning, ReadCheckpoint, Goto, Loaded, WorkerState
  <2> QED BY <1>1, <2>1 DEF LoadedStep, SettlingStep, Loaded, Settling, Unfinished
\* an invocation that begins to settle, or whose settlement fails
<1>6. ASSUME NEW w \in Workers, \A v \in Workers \ {w} : worker'[v] = worker[v],
             worker'[w].pc \in {"settling", "recording"},
             worker'[w].action = "release" =>
               \/ /\ worker[w].pc \in Settling /\ worker[w].action = "release"
                  /\ worker'[w].run = worker[w].run
               \/ worker'[w].run \in Runs => ~run'[worker'[w].run].wrote
      PROVE  \A v \in Workers : LoadedStep(v) /\ SettlingStep(v)
  BY <1>1, <1>6 DEF LoadedStep, SettlingStep, Loaded, Settling
<1>7. ASSUME NEW w \in Workers, Complete(w) \/ CompleteWithoutWrite(w)
      PROVE  \A v \in Workers : LoadedStep(v) /\ SettlingStep(v)
  <2>1. PICK a \in {"consume", "release"} :
          /\ worker' = [worker EXCEPT ![w].pc = "settling", ![w].path = "success",
                                      ![w].action = a]
          /\ a = "release" => CompleteWithoutWrite(w)
    BY <1>7, Zenon DEF Complete, CompleteWithoutWrite
  <2>2. /\ worker'[w].pc = "settling" /\ worker'[w].action = a
        /\ worker'[w].run = worker[w].run
        /\ \A v \in Workers \ {w} : worker'[v] = worker[v]
    BY <2>1 DEF WorkerState
  <2>3. CompleteWithoutWrite(w) => ~run'[worker[w].run].wrote
    BY DEF CompleteWithoutWrite, Succeeded, RunRow, WorkersOK, WorkerOK, Loaded
  <2> QED BY <1>6, <2>1, <2>2, <2>3
<1>8. ASSUME NEW w \in Workers, Fail(w), GiveUp(w)
      PROVE  \A v \in Workers : LoadedStep(v) /\ SettlingStep(v)
  <2> DEFINE g == worker[w].game
             r == worker[w].run
  <2>1. /\ worker'[w].pc = "settling" /\ worker'[w].run = r
        /\ \A v \in Workers \ {w} : worker'[v] = worker[v]
    BY <1>8 DEF GiveUp, WorkerState
  <2>2. g \in Games /\ Fenced(w) /\ job[g].status = "RUNNING"
    BY <1>8 DEF Fail, Unfinished, GiveUp, Fenced, WorkersOK, WorkerOK
  <2>3. ASSUME r \in Runs, worker[w].pc \in Loaded PROVE ~run[r].wrote
    BY <2>2, <2>3 DEF ChargesOK, KeepsRun, RowsOK
  <2>4. run' = RunMoved(job[g].run, {"RUNNING"}, "FAILED")
    BY <1>8, Zenon DEF GiveUp
  <2>5. \A q \in Runs : run'[q].wrote = run[q].wrote
    BY <2>4, HelperFields
  <2>6. worker[w].pc = "started" => r \notin Runs
    BY ConstantsAssumption DEF ChargesOK, KeepsRun
  <2>7. worker[w].pc \in Loaded \/ worker[w].pc = "started"
    BY <1>8 DEF Fail, Unfinished, Loaded
  <2> QED BY <1>6, <2>1, <2>3, <2>5, <2>6, <2>7
<1>9. ASSUME NEW w \in Workers, NEW g \in Games, RecoverExhausted(w, g)
      PROVE  \A v \in Workers : LoadedStep(v) /\ SettlingStep(v)
  <2>1. /\ worker'[w].pc = "settling" /\ worker'[w].run = job[g].run
        /\ \A v \in Workers \ {w} : worker'[v] = worker[v]
    BY <1>9 DEF RecoverExhausted, Idle
  <2>2. ~run[job[g].run].wrote /\ job[g].run \in Runs
    BY <1>9 DEF RecoverExhausted, Expired, RowsOK
  <2>3. run' = RunMoved(job[g].run, Active, "FAILED")
    BY <1>9, Zenon DEF RecoverExhausted
  <2>4. ~run'[job[g].run].wrote
    BY <2>2, <2>3, HelperFields
  <2> QED BY <1>6, <2>1, <2>4
<1>10. ASSUME NEW w \in Workers, Settle(w), ~Leave(w)
       PROVE  \A v \in Workers : LoadedStep(v) /\ SettlingStep(v)
  <2> DEFINE r == worker[w].run
  <2>1. /\ worker[w].pc = "settling" /\ worker'[w].pc = "marking"
        /\ worker'[w].run = r /\ worker'[w].action = worker[w].action
        /\ \A v \in Workers \ {w} : worker'[v] = worker[v]
    BY <1>10 DEF Settle, Goto, WorkerState
  <2>2. r \in Runs /\ worker[w].action \in {"consume", "release"}
    BY <1>10 DEF Settle, CanSettleNow, WorkerState, WorkersOK, WorkerOK, Settling
  <2>3. worker[w].action \in ledger'[r]
    BY <1>10, <2>2 DEF Settle, Settled
  <2>4. ~Outstanding(r)'
    BY <2>1, <2>2, <2>3 DEF Outstanding, Settlements
  <2> QED BY <1>1, <2>1, <2>2, <2>4 DEF LoadedStep, SettlingStep, Loaded, Settling
<1>11. ASSUME NEW w \in Workers, SettleFails(w) \/ RecordFails(w), ~Leave(w)
       PROVE  \A v \in Workers : LoadedStep(v) /\ SettlingStep(v)
  <2>1. /\ worker[w].pc \in Settling /\ worker'[w].pc = "recording"
        /\ worker'[w].run = worker[w].run
        /\ worker'[w].action \in {worker[w].action, "consume"}
        /\ \A v \in Workers \ {w} : worker'[v] = worker[v]
    BY <1>11 DEF SettleFails, RecordFails, Goto, Settling, WorkerState
  <2> QED BY <1>6, <2>1
<1>12. CASE UNCHANGED worker
  BY <1>12 DEF LoadedStep, SettlingStep, Loaded, Unfinished
<1> QED
  BY <1>3, <1>4, <1>5, <1>7, <1>8, <1>9, <1>10, <1>11, <1>12, Zenon
  DEF Next, Request, Dispatch, Time, Work, Proceed, Fail, Recovery, Reconciliation,
      Enqueue, EditPgn, AnalyzeLocally, DeleteGame, DisableAutomation, Claim,
      LeaseExpires, LeaseOverrun, BackoffElapses, Yield, YieldRejected, Retry,
      MarkSettled, RecordPending, Crash, Recover, CancelUnexecutable, Scan,
      Reconcile, ReconcileMark, ReconcileFails, Lose, vars

\* What the reconciliation has settled it keeps until it removes the markers.
LEMMA SettlerMoves ==
  ASSUME TypeOK, [Next]_vars, settler'.pc = "settled"
  PROVE  (settler.pc = "settled" /\ settler'.run = settler.run) \/ Reconcile
<1>1. CASE UNCHANGED settler
  BY <1>1
<1>2. ASSUME NEW r \in Runs, Scan(r) PROVE FALSE
  BY <1>2 DEF Scan
<1>3. CASE ReconcileMark \/ ReconcileFails
  BY <1>3 DEF ReconcileMark, ReconcileFails, SettlerIdle
<1> QED
  BY <1>1, <1>2, <1>3, ZenonT(60)
  DEF Next, Request, Dispatch, Time, Work, Proceed, Fail, Recovery, Reconciliation,
      Enqueue, EditPgn, AnalyzeLocally, DeleteGame, DisableAutomation, Claim,
      LeaseExpires, LeaseOverrun, BackoffElapses, Start, Load, EnterRunning,
      ReadCheckpoint, Yield, YieldRejected, Complete, CompleteWithoutWrite, Retry,
      GiveUp, Settle, SettleFails, MarkSettled, RecordPending, RecordFails, Crash,
      Recover, RecoverExhausted, CancelUnexecutable, Lose, vars

-----------------------------------------------------------------------------
(* The invariant.                                                          *)

\* A reservation is outstanding after a step only if it was, or is new.
LEMMA OutstandingSteps ==
  ASSUME Inv, [Next]_vars
  PROVE  \A q \in Runs :
           /\ run[q].status # "FREE" /\ Outstanding(q)' => Outstanding(q)
           /\ run[q].status = "FREE" => ~run[q].wrote
           /\ run[q].status = "DELETED" => run'[q].status = "DELETED"
<1>1. ASSUME NEW q \in Runs
      PROVE  /\ run[q].status # "FREE" /\ Outstanding(q)' => Outstanding(q)
             /\ run[q].status = "FREE" => ~run[q].wrote
             /\ run[q].status = "DELETED" => run'[q].status = "DELETED"
  <2>1. LedgerStep(q) /\ RunStep(q)
    BY LedgerSteps, RunSteps DEF Inv
  <2> QED BY <2>1 DEF LedgerStep, RunStep, Outstanding, Inv, RowsOK
<1> QED BY <1>1

\* The invocation that holds the fence after a step held it before, or has just
\* read the job, or has just taken it up.
LEMMA KeepsRunStep ==
  ASSUME Inv, HoldersOK, ChargesOK, [Next]_vars
  PROVE  KeepsRun'
<1> USE DEF Inv, TypeOK
<1> SUFFICES ASSUME NEW w \in Workers
             PROVE  /\ worker'[w].pc = "started" => worker'[w].run = None
                    /\ worker'[w].pc \in Loaded /\ Fenced(w)' =>
                         worker'[w].run = job'[worker'[w].game].run
  BY DEF KeepsRun
<1>1. LoadedStep(w)
  BY ChargeWorkerSteps
<1>2. ASSUME worker'[w].pc \in Loaded, Fenced(w)'
      PROVE  worker'[w].run = job'[worker'[w].game].run
  <2> DEFINE g == worker[w].game
  <2>1. /\ worker[w].pc \in Unfinished /\ g \in Games
        /\ worker'[w].game = g /\ worker'[w].count = worker[w].count
        /\ job'[g].status = "RUNNING" /\ job'[g].count = worker[w].count
    BY <1>1, <1>2 DEF LoadedStep, Fenced, WorkersOK, WorkerOK, Unfinished
  <2>2. CASE worker'[w].run = job[g].run /\ job' = job
    BY <2>1, <2>2
  <2>3. CASE worker[w].pc \in Loaded /\ worker'[w].run = worker[w].run
    <3>1. Works(w, g)
      BY <2>1 DEF Works
    <3>2. JobStep(g) /\ DispatchStep(g)
      BY <2>1, JobSteps, DispatchSteps
    <3>3. job[g].count \in Nat /\ worker[w].count \in Nat
      BY <2>1 DEF JobRow, WorkerState
    <3>4. /\ job[g].status \in {"QUEUED", "RUNNING"} /\ job'[g].run = job[g].run
          /\ job[g].status = "QUEUED" => job[g].lease = "live"
      BY <2>1, <3>2 DEF JobStep
    <3>5. job'[g].count = job[g].count
      BY <2>1, <3>1, <3>2, <3>3, <3>4 DEF DispatchStep, HoldersOK
    <3>6. job[g].status = "RUNNING"
      BY <2>1, <3>1, <3>4, <3>5 DEF HoldersOK
    <3> QED BY <2>1, <2>3, <3>4, <3>5, <3>6 DEF ChargesOK, KeepsRun, Fenced
  <2> QED BY <1>1, <1>2, <2>2, <2>3 DEF LoadedStep
<1> QED BY <1>1, <1>2 DEF LoadedStep, ChargesOK, KeepsRun

\* Every step preserves the strengthened statement.
LEMMA ChargesStep ==
  ASSUME Inv, HoldersOK, ChargesOK, [Next]_vars
  PROVE  ChargesOK'
<1> USE DEF Inv, TypeOK
<1>1. \A q \in Runs : ChargeStep(q)
  BY ChargeSteps
<1>2. \A v \in Workers : LoadedStep(v) /\ SettlingStep(v)
  BY ChargeWorkerSteps
<1>3. \A v \in Workers : worker[v].pc \in Settling /\ worker[v].run \in Runs =>
        /\ run[worker[v].run].status # "FREE"
        /\ \A g \in Games : job[g].status \in Active => job[g].run # worker[v].run
  BY DEF WorkersOK, WorkerOK, Settling
<1>4. ReleasesUnwritten'
  <2> SUFFICES ASSUME NEW w \in Workers, worker'[w].pc \in Settling,
                      worker'[w].action = "release", worker'[w].run \in Runs
               PROVE  ~run'[worker'[w].run].wrote
    BY DEF ReleasesUnwritten
  <2>1. CASE /\ worker[w].pc \in Settling /\ worker[w].action = "release"
             /\ worker'[w].run = worker[w].run
    <3>1. ~run[worker[w].run].wrote
      BY <2>1 DEF ChargesOK, ReleasesUnwritten
    <3> QED BY <1>1, <1>3, <2>1, <3>1 DEF ChargeStep
  <2> QED BY <1>2, <2>1 DEF SettlingStep
<1>5. MarksSettled'
  <2>1. ASSUME NEW w \in Workers, worker'[w].pc = "marking"
        PROVE  \E r \in Runs : worker'[w].run = r /\ ~Outstanding(r)'
    <3>1. CASE worker[w].pc = "marking" /\ worker'[w].run = worker[w].run
      <4>1. worker[w].run \in Runs /\ ~Outstanding(worker[w].run)
        BY <3>1 DEF ChargesOK, MarksSettled
      <4> QED BY <1>3, <3>1, <4>1, OutstandingSteps DEF Settling
    <3> QED BY <1>2, <2>1, <3>1 DEF SettlingStep
  <2>2. ASSUME settler'.pc = "settled" PROVE \E r \in Runs : settler'.run = r /\ ~Outstanding(r)'
    <3>1. \/ settler.pc = "settled" /\ settler'.run = settler.run
          \/ Reconcile
      BY <2>2, SettlerMoves
    <3>2. CASE settler.pc = "settled" /\ settler'.run = settler.run
      BY <3>2, OutstandingSteps DEF SettlerOK, ChargesOK, MarksSettled
    <3>3. CASE Reconcile
      <4>1. /\ settler'.run = settler.run /\ settler.run \in Runs
            /\ settler.action \in Settlements
            /\ ledger' = Settled(settler.run, settler.action)
        BY <3>3 DEF Reconcile, SettlerOK, SettlerState, Settlements
      <4>2. settler.action \in ledger'[settler.run]
        BY <4>1 DEF Settled
      <4> QED BY <4>1, <4>2 DEF Outstanding
    <3> QED BY <3>1, <3>2, <3>3
  <2> QED BY <2>1, <2>2 DEF MarksSettled, Outstanding
<1>6. UnchargedIsMarked'
  <2> SUFFICES ASSUME NEW r \in Runs, run'[r].wrote, Outstanding(r)',
                      run'[r].status # "DELETED"
               PROVE  run'[r].pending = "consume"
    BY DEF UnchargedIsMarked
  <2>1. CASE run[r].wrote
    <3>1. Outstanding(r) /\ run[r].status # "DELETED"
      BY <2>1, OutstandingSteps
    <3>2. run[r].pending = "consume"
      BY <2>1, <3>1 DEF ChargesOK, UnchargedIsMarked
    <3> QED BY <1>1, <2>1, <3>1, <3>2 DEF ChargeStep
  <2>2. CASE ~run[r].wrote
    BY <1>1, <2>2 DEF ChargeStep, RunRow
  <2> QED BY <2>1, <2>2
<1> QED BY <1>4, <1>5, <1>6, KeepsRunStep DEF ChargesOK

(* A run that wrote its analysis and is not charged yet is marked so, until  *)
(* it is, whatever crashes, fails, is repeated or is deleted in between: the *)
(* reconciliation finds every charge that is due.                            *)
THEOREM ChargeIsMarked == Spec => []UnchargedIsMarked
<1>1. Init => ChargesOK
  BY DEF Init, ChargesOK, KeepsRun, ReleasesUnwritten, MarksSettled, UnchargedIsMarked,
         Idle, SettlerIdle, Loaded, Settling
<1>2. ChargesOK => UnchargedIsMarked
  BY DEF ChargesOK
<1>3. Inv /\ HoldersOK /\ ChargesOK /\ [Next]_vars => ChargesOK'
  BY ChargesStep
<1> QED BY <1>1, <1>2, <1>3, HoldersInvariance, Invariance, PTL DEF Spec

-----------------------------------------------------------------------------
(* Checkpoints.                                                            *)

\* While its job is at work, a run's checkpoint is not taken back.
CheckpointStep(g) ==
  /\ job[g].status \in Active /\ job'[g].status \in Active
  /\ job'[g].run = job[g].run
  => checkpoint'[job[g].run] >= checkpoint[job[g].run]

\* Only the end of its job, or of its game, removes a run's checkpoint.
LEMMA CheckpointSteps ==
  ASSUME Inv, [Next]_vars
  PROVE  \A h \in Games : CheckpointStep(h)
<1> USE DEF Inv, TypeOK
<1>0. \A h \in Games : job[h].status \in Active =>
        job[h].run \in Runs /\ run[job[h].run].game = h /\ checkpoint[job[h].run] \in Nat
  BY Bounds DEF RowsOK
<1>1. CASE UNCHANGED checkpoint
  BY <1>0, <1>1 DEF CheckpointStep
\* the checkpoints of runs whose game's job ends are removed
<1>2. ASSUME NEW g \in Games, job'[g].status \notin Active,
             \A q \in Runs : run[q].game # g => checkpoint'[q] = checkpoint[q]
      PROVE  \A h \in Games : CheckpointStep(h)
  BY <1>0, <1>2 DEF CheckpointStep
<1>3. ASSUME NEW g \in Games, DeleteGame(g) PROVE \A h \in Games : CheckpointStep(h)
  <2>1. /\ job'[g].status = "ABSENT"
        /\ \A q \in Runs : run[q].game # g => checkpoint'[q] = checkpoint[q]
    BY <1>3 DEF DeleteGame, NoJob
  <2> QED BY <1>2, <2>1
<1>4. ASSUME NEW w \in Workers, Yield(w) PROVE \A h \in Games : CheckpointStep(h)
  <2> DEFINE r == worker[w].run
  <2>1. /\ r \in Runs /\ checkpoint[r] \in Nat /\ checkpoint'[r] = checkpoint[r] + 1
        /\ \A q \in Runs \ {r} : checkpoint'[q] = checkpoint[q]
    BY <1>4, Bounds DEF Yield, WorkersOK, WorkerOK, Loaded
  <2>2. \A q \in Runs : checkpoint[q] \in Nat => checkpoint'[q] >= checkpoint[q]
    BY <2>1
  <2> QED BY <1>0, <2>2 DEF CheckpointStep
<1>5. ASSUME NEW w \in Workers, Complete(w) \/ CompleteWithoutWrite(w) \/ (Fail(w) /\ GiveUp(w))
      PROVE  \A h \in Games : CheckpointStep(h)
  <2> DEFINE g == worker[w].game
             r == worker[w].run
  <2>1. g \in Games /\ (r \in Runs => run[r].game = g)
    BY <1>5 DEF Complete, CompleteWithoutWrite, Fail, Unfinished, WorkersOK, WorkerOK
  <2>2. /\ \E x \in Terminal : \E p : job' = [job EXCEPT ![g] = Finished(job[g], x, p)]
        /\ checkpoint' \in {checkpoint, [checkpoint EXCEPT ![r] = 0]}
    BY <1>5, Zenon DEF Complete, CompleteWithoutWrite, GiveUp
  <2>3. g \in Games /\ job'[g].status \notin Active
    BY <2>1, <2>2, HelperFields
  <2>4. \A q \in Runs : run[q].game # g => checkpoint'[q] = checkpoint[q]
    BY <2>1, <2>2, <2>3
  <2> QED BY <1>2, <2>3, <2>4
<1>6. ASSUME NEW w \in Workers, NEW g \in Games, RecoverExhausted(w, g)
      PROVE  \A h \in Games : CheckpointStep(h)
  <2>1. /\ job[g].status = "RUNNING"
        /\ job' = [job EXCEPT ![g] = Finished(job[g], "FAILED", "none")]
        /\ checkpoint' = [checkpoint EXCEPT ![job[g].run] = 0]
    BY <1>6 DEF RecoverExhausted, Expired
  <2>2. job'[g].status = "FAILED"
    BY <2>1, HelperFields
  <2>3. \A q \in Runs : run[q].game # g => checkpoint'[q] = checkpoint[q]
    BY <1>0, <2>1
  <2> QED BY <1>2, <2>2, <2>3
<1> QED
  BY <1>1, <1>3, <1>4, <1>5, <1>6, ZenonT(60)
  DEF Next, Request, Dispatch, Time, Work, Proceed, Fail, Recovery, Reconciliation,
      Enqueue, EditPgn, AnalyzeLocally, DisableAutomation, Claim,
      LeaseExpires, LeaseOverrun, BackoffElapses, Start, Load, EnterRunning,
      ReadCheckpoint, YieldRejected, Retry, Settle, SettleFails, MarkSettled,
      RecordPending, RecordFails, Crash, Recover, CancelUnexecutable, Scan, Reconcile,
      ReconcileMark, ReconcileFails, Lose, vars

(* Work that was checkpointed is not redone: while a job stays with its run, *)
(* no retry, recovery or late invocation takes the run's checkpoint back.    *)
THEOREM CheckpointIsKept == Spec => CheckpointKept
<1>1. Inv /\ [Next]_vars => \A g \in Games : CheckpointStep(g)
  BY CheckpointSteps
<1>2. (\A g \in Games : CheckpointStep(g)) =>
        \A g \in Games :
          /\ job[g].status \in Active /\ job'[g].status \in Active
          /\ job'[g].run = job[g].run
          => checkpoint'[job[g].run] >= checkpoint[job[g].run]
  BY DEF CheckpointStep
<1> QED BY Invariance, <1>1, <1>2, PTL DEF Spec, CheckpointKept
=============================================================================
