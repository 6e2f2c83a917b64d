------------------------------ MODULE ProviderSync ------------------------------
(***************************************************************************)
(* Synchronisation of one user with one provider.  A sync job is claimed   *)
(* under a lease, imports one batch of games of the linked account, newest *)
(* first, and moves a cursor or the watermark with them.  The account and  *)
(* the import rules may change at any statement, and games become visible  *)
(* at the provider some time after they were played.                       *)
(***************************************************************************)
EXTENDS Integers, FiniteSets

CONSTANTS
  Accounts,     \* names of the provider's accounts
  NoAccount,    \* no account is linked
  Policies,     \* values of importPolicyHash
  Games,        \* games at the provider
  Owner,        \* the account of a game
  Played,       \* when it was played
  Wanted,       \* the games that a policy imports
  Workers,      \* invocations of processSyncJob
  Page,         \* games of one batch
  Overlap,      \* LICHESS_CURSOR_OVERLAP_MS
  Delay,        \* the provider shows a game this long after it was played
  MaxAttempts,  \* SYNC_JOB_MAX_ATTEMPTS
  MaxNow,       \* bound on time
  MaxChanges,   \* bound on changes of account and policy
  MaxFaults     \* bound on the faults of a behaviour

ASSUME SyncAssumption ==
  /\ NoAccount \notin Accounts
  /\ Policies # {}
  /\ IsFiniteSet(Games) /\ IsFiniteSet(Workers) /\ "nobody" \notin Workers
  /\ MaxNow \in Nat \ {0} /\ MaxChanges \in Nat /\ MaxFaults \in Nat
  /\ MaxAttempts \in Nat \ {0} /\ Page \in Nat \ {0}
  /\ Owner \in [Games -> Accounts] /\ Played \in [Games -> 1..MaxNow]
  /\ Wanted \in [Policies -> SUBSET Games]
  /\ Overlap \in Nat /\ Delay \in 0..Overlap

VARIABLES
  now,      \* time
  visible,  \* the games that the provider shows
  saved,    \* the games imported for the user
  conn,     \* ChessAccountConnection: the linked account
  policy,   \* the import rules of the user's preferences
  state,    \* ProviderSyncState
  job,      \* the newest SyncJob
  worker,   \* each invocation: where it is, and what it read
  changes, faults

user == <<conn, policy>>
world == <<now, visible>>
counts == <<changes, faults>>
vars == <<world, saved, user, state, job, worker, counts>>

-----------------------------------------------------------------------------
Times == 0..MaxNow
NoWindow == [since |-> 0, until |-> 0, end |-> 0]
Window == [since : Int, until : Times, end : Times]

Identities == [account : Accounts \cup {NoAccount},
               policy  : Policies \cup {"none"}]

\* last = 0: no watermark, cursor = NoWindow: no cursor
State == [account : Accounts \cup {NoAccount},
          policy  : Policies \cup {"none"},
          last    : Times,
          cursor  : Window]

\* holder stands for leaseToken
Job == [status   : {"NONE", "QUEUED", "RUNNING", "SUCCEEDED", "FAILED"},
        attempts : 0..(MaxAttempts + MaxFaults),
        due      : BOOLEAN,   \* scheduledFor has come
        live     : BOOLEAN,   \* lockedUntil is in the future
        holder   : Workers \cup {"nobody"}]

\* seen: the identity or policy that a reset replaces, complete and next: what
\* the provider said of the batch
Worker == [pc       : {"idle", "load", "prepare", "assert", "reset", "fetch",
                       "commit", "done", "more", "error", "changed"},
           account  : Accounts \cup {NoAccount},
           policy   : Policies,
           start    : Times,
           seen     : Identities,
           window   : Window,
           batch    : SUBSET Games,
           complete : BOOLEAN,
           next     : Times]

Identity(s) == [account |-> s.account, policy |-> s.policy]

NoState == [account |-> NoAccount, policy |-> "none", last |-> 0,
            cursor |-> NoWindow]

IdleWorker == [pc |-> "idle", account |-> NoAccount,
               policy |-> CHOOSE p \in Policies : TRUE,
               start |-> 0, seen |-> Identity(NoState), window |-> NoWindow,
               batch |-> {}, complete |-> FALSE, next |-> 0]

\* What syncUserProvider returns; the rest is of no use any more.
Result(pc) == [IdleWorker EXCEPT !.pc = pc]

\* An account has just been linked.
Init ==
  /\ now = 1
  /\ visible = {} /\ saved = {}
  /\ conn \in Accounts
  /\ policy \in Policies
  /\ state = [NoState EXCEPT !.account = conn]
  /\ job = [status |-> "NONE", attempts |-> 0, due |-> TRUE, live |-> FALSE,
            holder |-> "nobody"]
  /\ worker = [w \in Workers |-> IdleWorker]
  /\ changes = 0 /\ faults = 0

Fault == faults < MaxFaults /\ faults' = faults + 1
Change == changes < MaxChanges /\ changes' = changes + 1

-----------------------------------------------------------------------------
\* The provider.

\* A game becomes visible, at most Delay after it was played.
Publish(g) ==
  /\ g \notin visible /\ Played[g] <= now
  /\ visible' = visible \cup {g}
  /\ UNCHANGED <<now, saved, user, state, job, worker, counts>>

Tick ==
  /\ now < MaxNow
  /\ \A g \in Games \ visible : now < Played[g] + Delay
  /\ now' = now + 1
  /\ UNCHANGED <<visible, saved, user, state, job, worker, counts>>

-----------------------------------------------------------------------------
\* The user.

\* persistProfileUpdates and the OAuth link: the state is reset with the link,
\* its policy is left.
Relink(a) ==
  /\ a # conn /\ Change
  /\ conn' = a
  /\ state' = [state EXCEPT !.account = a, !.last = 0, !.cursor = NoWindow]
  /\ UNCHANGED <<world, saved, policy, job, worker, faults>>

\* Preferences: the state is reset with the rules.
SetPolicy(p) ==
  /\ p # policy /\ Change
  /\ policy' = p
  /\ state' = [state EXCEPT !.policy = p, !.last = 0, !.cursor = NoWindow]
  /\ UNCHANGED <<world, saved, conn, job, worker, faults>>

-----------------------------------------------------------------------------
\* Planning.

Active(status) == status \in {"QUEUED", "RUNNING"}

\* planUserProviderSyncJob; at most one active job exists by a unique index.
PlanNew ==
  /\ conn # NoAccount
  /\ ~Active(job.status)
  /\ job' = [status |-> "QUEUED", attempts |-> 0, due |-> TRUE, live |-> FALSE,
             holder |-> "nobody"]
  /\ UNCHANGED <<world, saved, user, state, worker, counts>>

\* Mutant: only a job that was never claimed is given up.
ExpiredNever == job.status = "RUNNING" /\ job.attempts = 0

Expired == job.status = "RUNNING" /\ ~job.live

Requeued(due) == [job EXCEPT !.status = "QUEUED", !.due = due, !.live = FALSE,
                             !.holder = "nobody"]

Ended(status) == [job EXCEPT !.status = status, !.live = FALSE,
                             !.holder = "nobody"]

\* The retry that is left, or the end.
Retried(due) == IF job.attempts < MaxAttempts THEN Requeued(due)
                ELSE Ended("FAILED")

\* recoverExpiredSyncJobForProvider
RecoverExpired ==
  /\ conn # NoAccount
  /\ Expired
  /\ job' = Retried(FALSE)
  /\ UNCHANGED <<world, saved, user, state, worker, counts>>

BackoffElapses ==
  /\ job.status = "QUEUED" /\ ~job.due
  /\ job' = [job EXCEPT !.due = TRUE]
  /\ UNCHANGED <<world, saved, user, state, worker, counts>>

-----------------------------------------------------------------------------
\* processSyncJob.

\* The claim of a due job, or of a running one whose lease is over.
Claim(w) ==
  /\ worker[w].pc = "idle"
  /\ (job.status = "QUEUED" /\ job.due) \/ Expired
  /\ job' = [job EXCEPT !.status = "RUNNING", !.attempts = @ + 1, !.live = TRUE,
                        !.holder = w]
  /\ worker' = [worker EXCEPT ![w] = [IdleWorker EXCEPT !.pc = "load"]]
  /\ UNCHANGED <<world, saved, user, state, counts>>

\* The job is read with its user; without an account nothing is to be done.
Load(w) ==
  /\ worker[w].pc = "load"
  /\ worker' = [worker EXCEPT ![w] =
                  IF conn = NoAccount THEN Result("done")
                  ELSE [@ EXCEPT !.account = conn, !.policy = policy,
                                 !.start = now, !.pc = "prepare"]]
  /\ UNCHANGED <<world, saved, user, state, job, counts>>

\* Mutant: the window begins where the last one ended.
NoOverlap(s, start) ==
  IF s.cursor # NoWindow THEN s.cursor
  ELSE [since |-> IF s.last = 0 THEN 0 ELSE s.last + 1,
        until |-> start, end |-> start]

\* syncWindow: what the cursor leaves, or what is new.  The lookback of the
\* first synchronisation reaches behind all games.
SyncWindow(s, start) ==
  IF s.cursor # NoWindow THEN s.cursor
  ELSE [since |-> IF s.last = 0 THEN 0 ELSE s.last - Overlap,
        until |-> start, end |-> start]

\* A window is fetched unless the rules import nothing.
Prepared(wk, s) ==
  IF Wanted[wk.policy] = {} THEN Result("done")
  ELSE [wk EXCEPT !.window = SyncWindow(s, wk.start), !.start = 0,
                  !.seen = Identity(NoState), !.pc = "fetch"]

\* prepareSyncState, its upsert: the state fits, or has to be reset first.
Prepare(w) ==
  /\ worker[w].pc = "prepare"
  /\ worker' =
       [worker EXCEPT ![w] =
          IF state.account # @.account
          THEN [@ EXCEPT !.seen = Identity(state), !.pc = "assert"]
          ELSE IF state.policy # @.policy
          THEN [@ EXCEPT !.seen = Identity(state), !.pc = "reset"]
          ELSE Prepared(@, state)]
  /\ UNCHANGED <<world, saved, user, state, job, counts>>

\* assertProviderIdentityCurrent
AssertLinked(w) ==
  /\ worker[w].pc = "assert"
  /\ worker' = [worker EXCEPT ![w] = IF conn = @.account
                                     THEN [@ EXCEPT !.pc = "reset"]
                                     ELSE Result("changed")]
  /\ UNCHANGED <<world, saved, user, state, job, counts>>

\* The reset holds if what it replaces has not changed: the identity, or under
\* the same identity the policy.
Resettable(wk) == IF wk.seen.account # wk.account
                  THEN state.account = wk.seen.account
                  ELSE state.policy = wk.seen.policy

Reset(w) ==
  /\ worker[w].pc = "reset"
  /\ LET wk == worker[w]
         fresh == [state EXCEPT !.account = IF wk.seen.account # wk.account
                                            THEN wk.account ELSE @,
                                !.policy = wk.policy,
                                !.last = 0, !.cursor = NoWindow]
     IN  \/ /\ Resettable(wk)
            /\ state' = fresh
            /\ worker' = [worker EXCEPT ![w] = Prepared(wk, fresh)]
         \/ /\ ~Resettable(wk)
            /\ worker' = [worker EXCEPT ![w] = Result("changed")]
            /\ UNCHANGED state
  /\ UNCHANGED <<world, saved, user, job, counts>>

\* The games that the provider has for a window.
InWindow(wk) == {g \in visible : /\ Owner[g] = wk.account
                                 /\ g \in Wanted[wk.policy]
                                 /\ Played[g] \in wk.window.since..wk.window.until}

\* The newest games of a window, when it has more than a batch holds.
IsNewest(S, all) == /\ S \subseteq all /\ Cardinality(S) = Page
                    /\ \A g \in S, h \in all \ S : Played[h] <= Played[g]

Oldest(S, t) == /\ \A g \in S : t <= Played[g]
                /\ \E g \in S : t = Played[g]

\* fetchProviderBatch: the rest of the window, or one batch of it and the time
\* of its oldest game, from which the next batch goes on.
Fetch(w) ==
  LET wk == worker[w]
      all == InWindow(wk)
  IN
  /\ wk.pc = "fetch"
  /\ \/ /\ Cardinality(all) < Page
        /\ worker' = [worker EXCEPT ![w] =
                        [wk EXCEPT !.batch = all, !.complete = TRUE,
                                   !.next = 0, !.pc = "commit"]]
     \/ \E S \in SUBSET all, t \in Times :
          /\ IsNewest(S, all) /\ Oldest(S, t)
          /\ worker' = [worker EXCEPT ![w] =
                          IF t < wk.window.until
                          THEN [wk EXCEPT !.batch = S, !.complete = FALSE,
                                          !.next = t, !.pc = "commit"]
                          ELSE Result("error")]
  /\ UNCHANGED <<world, saved, user, state, job, counts>>

\* It fails or times out.
FetchFails(w) ==
  /\ worker[w].pc = "fetch"
  /\ Fault
  /\ worker' = [worker EXCEPT ![w] = Result("error")]
  /\ UNCHANGED <<world, saved, user, state, job, changes>>

-----------------------------------------------------------------------------
\* The transaction that imports the batch.

\* Mutant: whoever imports last holds the lease.
HoldsAny(w) == job.status = "RUNNING"

\* lockAndAssertSyncJobLease, and the fence of every update of a job
Holds(w) == job.status = "RUNNING" /\ job.holder = w

\* lockAndAssertProviderIdentity
Linked(wk) == conn = wk.account

\* The state the update is for.
Fits(wk) == state.account = wk.account /\ state.policy = wk.policy

\* The batch is still what the user wants; a relink is noticed twice.
Current(wk) == Linked(wk) /\ Fits(wk)

\* The watermark at the end of a complete window, or the cursor.
Advanced(wk) ==
  IF wk.complete
  THEN [state EXCEPT !.last = wk.window.end, !.cursor = NoWindow]
  ELSE [state EXCEPT !.cursor = [wk.window EXCEPT !.until = wk.next]]

\* All games of the batch are saved, and the state moves.
Commit(w) ==
  LET wk == worker[w] IN
  /\ wk.pc = "commit"
  /\ Current(wk) /\ Holds(w)
  /\ saved' = saved \cup wk.batch
  /\ state' = Advanced(wk)
  /\ worker' = [worker EXCEPT ![w] =
                  Result(IF wk.complete THEN "done" ELSE "more")]
  /\ UNCHANGED <<world, user, job, counts>>

\* The window stays as it was.
AfterErrors(wk) == [state EXCEPT !.cursor = wk.window]

\* Some games fail: the others are saved, and the window is fetched again.
CommitPartly(w) ==
  LET wk == worker[w] IN
  /\ wk.pc = "commit"
  /\ Current(wk) /\ Holds(w)
  /\ Fault
  /\ \E S \in SUBSET wk.batch : S # wk.batch /\ saved' = saved \cup S
  /\ state' = AfterErrors(wk)
  /\ worker' = [worker EXCEPT ![w] = Result("error")]
  /\ UNCHANGED <<world, user, job, changes>>

\* The transaction rolls back: the account or the policy has changed, or the
\* lease is another's, which ends the invocation.
CommitRejected(w) ==
  LET wk == worker[w] IN
  /\ wk.pc = "commit"
  /\ ~(Current(wk) /\ Holds(w))
  /\ worker' = [worker EXCEPT ![w] = IF Linked(wk) /\ ~Holds(w) THEN IdleWorker
                                     ELSE Result("changed")]
  /\ UNCHANGED <<world, saved, user, state, job, counts>>

-----------------------------------------------------------------------------
\* The end of an invocation.

\* Each outcome's update of the job, fenced by the lease.
Outcome(w) ==
  CASE worker[w].pc = "done"    -> Ended("SUCCEEDED")
    [] worker[w].pc = "more"    -> [Requeued(TRUE) EXCEPT !.attempts = 0]
    [] worker[w].pc = "error"   -> Retried(FALSE)
    [] worker[w].pc = "changed" -> Retried(TRUE)

Finish(w) ==
  /\ worker[w].pc \in {"done", "more", "error", "changed"}
  /\ job' = IF Holds(w) THEN Outcome(w) ELSE job
  /\ worker' = [worker EXCEPT ![w] = IdleWorker]
  /\ UNCHANGED <<world, saved, user, state, counts>>

Crash(w) ==
  /\ worker[w].pc # "idle"
  /\ Fault
  /\ worker' = [worker EXCEPT ![w] = IdleWorker]
  /\ UNCHANGED <<world, saved, user, state, job, changes>>

EndLease ==
  /\ job.status = "RUNNING" /\ job.live
  /\ job' = [job EXCEPT !.live = FALSE]

\* The heartbeat stopped with its invocation.
LeaseExpires ==
  /\ EndLease
  /\ worker[job.holder].pc = "idle"
  /\ UNCHANGED <<world, saved, user, state, worker, counts>>

\* The heartbeat of an invocation fails until the lease is over.
LeaseOverrun ==
  /\ EndLease
  /\ worker[job.holder].pc # "idle"
  /\ Fault
  /\ UNCHANGED <<world, saved, user, state, worker, changes>>

\* startSyncJobHeartbeat, the first time after a failure
Heartbeat(w) ==
  /\ worker[w].pc # "idle"
  /\ Holds(w) /\ ~job.live
  /\ job' = [job EXCEPT !.live = TRUE]
  /\ UNCHANGED <<world, saved, user, state, worker, counts>>

-----------------------------------------------------------------------------
Step(w) == \/ Load(w) \/ Prepare(w) \/ AssertLinked(w) \/ Reset(w) \/ Fetch(w)
           \/ Commit(w) \/ CommitRejected(w) \/ Finish(w)

Next ==
  \/ Tick \/ \E g \in Games : Publish(g)
  \/ \E a \in Accounts \cup {NoAccount} : Relink(a)
  \/ \E p \in Policies : SetPolicy(p)
  \/ PlanNew \/ RecoverExpired \/ BackoffElapses
  \/ LeaseExpires \/ LeaseOverrun
  \/ \E w \in Workers : \/ Claim(w) \/ Step(w) \/ Heartbeat(w)
                         \/ FetchFails(w) \/ CommitPartly(w) \/ Crash(w)

Spec == Init /\ [][Next]_vars

\* The daily plan covers the accounts whose rules import something.
PlanDaily == Wanted[policy] # {} /\ PlanNew

Fairness ==
  /\ WF_vars(PlanDaily) /\ WF_vars(RecoverExpired) /\ WF_vars(BackoffElapses)
  /\ WF_vars(LeaseExpires)
  /\ WF_vars(\E w \in Workers : Claim(w))
  /\ \A w \in Workers : WF_vars(Step(w))

FairSpec == Spec /\ Fairness

-----------------------------------------------------------------------------
\* Every variable keeps its type, which bounds the attempts of a job and keeps
\* a lease with a running job: the claims and ends of jobs in syncJobs.ts.
TypeOK ==
  /\ now \in Times /\ visible \subseteq Games /\ saved \subseteq visible
  /\ conn \in Accounts \cup {NoAccount} /\ policy \in Policies
  /\ state \in State /\ job \in Job
  /\ worker \in [Workers -> Worker]
  /\ changes \in 0..MaxChanges /\ faults \in 0..MaxFaults
  /\ (job.holder # "nobody") <=> (job.status = "RUNNING")

\* The watermark is true: under the rules and for the account of the state,
\* every game played long enough before lastSyncedPlayedAt that the next window
\* leaves it out has been saved, however late it became visible.
WatermarkIsTrue ==
  state.policy # "none" =>
    \A g \in Games : /\ Owner[g] = state.account /\ g \in Wanted[state.policy]
                     /\ Played[g] < state.last - Overlap
                     => g \in saved

\* Only games of the account that is linked at that moment are imported: the
\* transaction of autoSync.ts against a relink while the batch was fetched.
ImportsAreLinked ==
  [][\A g \in saved' \ saved : Owner[g] = conn]_vars

\* Without a new account or new rules a watermark never goes back, and only
\* an import moves it: a stale invocation takes nothing of a newer one back.
WatermarkAdvances ==
  [][ (state'.last # 0 /\ state'.account = state.account
                      /\ state'.policy = state.policy)
      => state'.last >= state.last ]_vars

\* The synchronisation of syncJobs.ts and autoSync.ts is safe: its state is true, of
\* the linked account, and never goes back.
SyncHolds == [](TypeOK /\ WatermarkIsTrue) /\ ImportsAreLinked /\ WatermarkAdvances

\* Nothing is missing: what the provider shows of the linked account and the
\* rules import has been saved.
CaughtUp == \A g \in visible :
              conn = Owner[g] /\ g \in Wanted[policy] => g \in saved

\* The synchronisation catches up again and again, whatever game arrives late,
\* whichever account and rules the user ends with: plans, retries and batches
\* of syncJobs.ts taken together.
CatchesUp == []<>CaughtUp

\* No sync job runs for ever: it succeeds or fails.
JobsEnd == []<>(~Active(job.status))
==============================================================================
