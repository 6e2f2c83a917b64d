------------------------------- MODULE SyncMonitor -------------------------------
(***************************************************************************)
(* What a page tells of the imports it asked for: SyncGamesWidget.tsx and   *)
(* syncClient.ts over the synchronisation route.                            *)
(*                                                                          *)
(* The owner of the page may change while its requests are in the air, and  *)
(* return.  A request, a read or a monitor that was aborted is forgotten.   *)
(* All providers are linked.                                                *)
(***************************************************************************)
EXTENDS Naturals, Sequences, FiniteSets

CONSTANTS
  Providers,
  Automatic,          \* providers that the account synchronises by itself
  MaxOwners,          \* accounts that the page may have; its owner 0 is nobody
  MaxSyncJobs,
  MaxPolls,           \* of a monitor
  MaxManual,          \* clicks on Sync now
  MaxReads,           \* of the status
  MaxSyncFaults

ASSUME ProvidersAssumption == IsFiniteSet(Providers) /\ Automatic \subseteq Providers
ASSUME OwnersAssumption == MaxOwners \in Nat /\ MaxOwners > 0

VARIABLES
  owner,
  syncJobs,           \* of the server
  manual, appOpen,    \* requests in the air
  attemptedFor,       \* appOpenAttemptedFor
  monitor,            \* what waits for jobs to end
  feedback,           \* syncFeedback
  reads, statusGeneration,
  shown,              \* the status that is kept, and for whom it was asked
  newest,             \* history: the newest status that was shown to each
  clicks, syncFaults

monitorVars == <<owner, syncJobs, manual, appOpen, attemptedFor, monitor, feedback, reads,
                 statusGeneration, shown, newest, clicks, syncFaults>>

NoRequest == [state |-> "none"]
NoMonitor == [jobs |-> {}]
NoStatus == [owner |-> 0, state |-> "loading", some |-> FALSE, ended |-> 0]
\* `left` is history: the page has had another owner since.
Feedback(o, kind, js) == [owner |-> o, kind |-> kind, jobs |-> js, left |-> FALSE]

Ended == {"SUCCEEDED", "FAILED", "CANCELLED"}
Jobs == DOMAIN syncJobs
OfOwner(o) == {j \in Jobs : syncJobs[j].owner = o}
EndedOf(o) == Cardinality({j \in OfOwner(o) : syncJobs[j].status \in Ended})
In(js, status) == {j \in js : syncJobs[j].status = status}
ImportedBy(js) == {j \in js : syncJobs[j].created > 0}

MonitorInit ==
  /\ owner = 1 /\ syncJobs = <<>>
  /\ manual = NoRequest /\ appOpen = NoRequest /\ attemptedFor = 0
  /\ monitor = NoMonitor /\ feedback = Feedback(0, "idle", {})
  /\ reads = {[generation |-> 1, ended |-> 0, served |-> FALSE]} /\ statusGeneration = 1
  /\ shown = NoStatus /\ newest = [o \in 1..MaxOwners |-> 0]
  /\ clicks = 0 /\ syncFaults = 0

SyncFault == syncFaults < MaxSyncFaults /\ syncFaults' = syncFaults + 1

-----------------------------------------------------------------------------
(* The status *)

\* refreshStatus: aborts the read before it.
RefreshStatus ==
  /\ statusGeneration' = statusGeneration + 1
  /\ reads' = IF statusGeneration < MaxReads
              THEN {[generation |-> statusGeneration + 1, ended |-> 0, served |-> FALSE]} ELSE {}

ServeStatus ==
  /\ \E r \in reads :
       /\ ~r.served
       /\ reads' = (reads \ {r}) \cup {[r EXCEPT !.ended = EndedOf(owner), !.served = TRUE]}
  /\ UNCHANGED <<owner, syncJobs, manual, appOpen, attemptedFor, monitor, feedback, statusGeneration,
                 shown, newest, clicks, syncFaults>>

\* A new status ends the effect of the old one, and its app-open request.
ShowStatus ==
  /\ \E r \in reads :
       /\ r.served /\ r.generation = statusGeneration
       /\ reads' = reads \ {r}
       /\ shown' = [owner |-> owner, state |-> "ready", some |-> TRUE, ended |-> r.ended]
       /\ newest' = [newest EXCEPT ![owner] = IF r.ended > @ THEN r.ended ELSE @]
       /\ appOpen' = NoRequest
  /\ UNCHANGED <<owner, syncJobs, manual, attemptedFor, monitor, feedback, statusGeneration, clicks,
                 syncFaults>>

\* The status of whom it was before is kept.
StatusFails ==
  /\ reads # {} /\ SyncFault
  /\ reads' = {} /\ shown' = [shown EXCEPT !.owner = owner, !.state = "error"]
  /\ UNCHANGED <<owner, syncJobs, manual, appOpen, attemptedFor, monitor, feedback, statusGeneration,
                 newest, clicks>>

TryAgain ==
  /\ owner # 0 /\ shown.owner = owner /\ shown.state = "error"
  /\ shown' = [shown EXCEPT !.state = "loading"]
  /\ RefreshStatus
  /\ UNCHANGED <<owner, syncJobs, manual, appOpen, attemptedFor, monitor, feedback, newest, clicks,
                 syncFaults>>

\* The session of the page ends, or becomes another's: what is in the air is aborted, and what was
\* said stays.
ChangeOwner ==
  /\ statusGeneration < MaxReads
  /\ \E o \in (0..MaxOwners) \ {owner} :
       /\ owner' = o
       /\ IF o # 0 THEN RefreshStatus ELSE statusGeneration' = statusGeneration + 1 /\ reads' = {}
  /\ manual' = NoRequest /\ appOpen' = NoRequest /\ monitor' = NoMonitor
  /\ feedback' = [feedback EXCEPT !.left = TRUE]
  /\ UNCHANGED <<syncJobs, attemptedFor, shown, newest, clicks, syncFaults>>

-----------------------------------------------------------------------------
(* The route *)

\* dispatchUserSyncJobs for one provider: an active job is found again.
ActiveJob(p) == {j \in OfOwner(owner) : syncJobs[j].provider = p /\ syncJobs[j].status \notin Ended}
UpToDate(p) == \E j \in OfOwner(owner) : syncJobs[j].provider = p /\ syncJobs[j].status = "SUCCEEDED"

JobState(status, published) ==
  IF status = "RUNNING" THEN "already-running" ELSE IF published THEN "started" ELSE "awaiting-worker"

FoundJob(p) == CHOOSE j \in ActiveJob(p) : TRUE

\* What the route answers of a provider; a new job is the one that `next` numbers.
Planned(p, ifStale, next, published) ==
  IF ActiveJob(p) # {}
  THEN [state |-> JobState(syncJobs[FoundJob(p)].status, published), job |-> FoundJob(p)]
  ELSE IF ifStale /\ UpToDate(p) THEN [state |-> "up-to-date", job |-> 0]
  ELSE [state |-> JobState("QUEUED", published), job |-> next]

Created(p) == [owner |-> owner, provider |-> p, status |-> "QUEUED", created |-> 0]

\* The providers that get a new job, in the order in which the jobs are made.
NewOf(ps, ifStale) == {p \in ps : Planned(p, ifStale, Len(syncJobs) + 1, TRUE).job = Len(syncJobs) + 1}
InOrder(new) == CHOOSE s \in [1..Cardinality(new) -> new] : \A p \in new : \E i \in DOMAIN s : s[i] = p
Place(p, order) == CHOOSE i \in DOMAIN order : order[i] = p

\* The jobs of a request for the providers ps, of which those in `unpublished` could not be announced.
Dispatch(ps, ifStale, unpublished) ==
  LET new == NewOf(ps, ifStale)
      order == InOrder(new)
  IN [jobs |-> syncJobs \o [i \in DOMAIN order |-> Created(order[i])],
      result |-> [p \in ps |-> Planned(p, ifStale, IF p \in new THEN Len(syncJobs) + Place(p, order) ELSE 0,
                                       p \notin unpublished)]]

Answered(ps, ifStale, request) ==
  \E unpublished \in SUBSET ps :
    LET d == Dispatch(ps, ifStale, unpublished)
    IN /\ IF unpublished = {} THEN UNCHANGED syncFaults ELSE SyncFault
       /\ Len(d.jobs) <= MaxSyncJobs
       /\ syncJobs' = d.jobs
       /\ request' = [state |-> "answered", result |-> d.result]

JobIds(r) == {r[p].job : p \in DOMAIN r} \ {0}
All(r, state) == \A p \in DOMAIN r : r[p].state = state
Some(r, state) == \E p \in DOMAIN r : r[p].state = state

\* parseIncrementalSyncResponse
ResultState(r) ==
  CASE Some(r, "awaiting-worker") -> "awaiting-worker"
    [] All(r, "already-running") -> "already-running"
    [] All(r, "up-to-date") -> "up-to-date"
    [] OTHER -> "started"

\* monitorSyncCompletion: ends the monitor before it, unless there is nothing to wait for.
Monitored(r, silent) ==
  IF JobIds(r) = {} THEN monitor
  ELSE [jobs |-> JobIds(r), silent |-> silent, polls |-> 0, complete |-> FALSE,
        awaiting |-> Some(r, "awaiting-worker")]

-----------------------------------------------------------------------------
(* Requests of the page *)

HasStatus == owner # 0 /\ shown.owner = owner /\ shown.some
SyncReady == HasStatus /\ shown.state = "ready"

SyncNow ==
  /\ SyncReady /\ ~(feedback.owner = owner /\ feedback.kind = "syncing")
  /\ clicks < MaxManual /\ clicks' = clicks + 1
  /\ manual' = [state |-> "asked"]
  /\ feedback' = Feedback(owner, "syncing", {})
  /\ UNCHANGED <<owner, syncJobs, appOpen, attemptedFor, monitor, reads, statusGeneration, shown,
                 newest, syncFaults>>

ServeSyncNow ==
  /\ manual.state = "asked"
  /\ Answered(Providers, FALSE, manual)
  /\ UNCHANGED <<owner, appOpen, attemptedFor, monitor, feedback, reads, statusGeneration, shown, newest,
                 clicks>>

SyncNowAnswered ==
  /\ manual.state = "answered" /\ manual' = NoRequest
  /\ LET r == manual.result
     IN /\ feedback' = Feedback(owner, IF ResultState(r) = "awaiting-worker" THEN "error"
                                       ELSE IF JobIds(r) # {} THEN "syncing" ELSE "success", JobIds(r))
        /\ monitor' = Monitored(r, FALSE)
        /\ IF JobIds(r) = {} THEN RefreshStatus ELSE UNCHANGED <<reads, statusGeneration>>
  /\ UNCHANGED <<owner, syncJobs, appOpen, attemptedFor, shown, newest, clicks, syncFaults>>

SyncNowFails ==
  /\ manual.state # "none" /\ SyncFault
  /\ manual' = NoRequest /\ feedback' = Feedback(owner, "error", {})
  /\ UNCHANGED <<owner, syncJobs, appOpen, attemptedFor, monitor, reads, statusGeneration, shown, newest,
                 clicks>>

\* One request an hour, if the page can remember the last.
AppOpen ==
  /\ HasStatus /\ Automatic # {} /\ attemptedFor # owner
  /\ attemptedFor' = owner
  /\ appOpen' = [state |-> "asked"] \/ UNCHANGED appOpen
  /\ UNCHANGED <<owner, syncJobs, manual, monitor, feedback, reads, statusGeneration, shown, newest,
                 clicks, syncFaults>>

ServeAppOpen ==
  /\ appOpen.state = "asked"
  /\ \/ Answered(Automatic, TRUE, appOpen)
     \/ SyncFault /\ appOpen' = NoRequest /\ UNCHANGED syncJobs
  /\ UNCHANGED <<owner, manual, attemptedFor, monitor, feedback, reads, statusGeneration, shown, newest,
                 clicks>>

AppOpenAnswered ==
  /\ appOpen.state = "answered" /\ appOpen' = NoRequest
  /\ LET r == appOpen.result
     IN /\ feedback' = CASE ResultState(r) = "awaiting-worker" -> Feedback(owner, "error", JobIds(r))
                         [] ResultState(r) = "started" -> Feedback(owner, "syncing", JobIds(r))
                         [] OTHER -> feedback
        /\ monitor' = Monitored(r, TRUE)
  /\ UNCHANGED <<owner, syncJobs, manual, attemptedFor, reads, statusGeneration, shown, newest, clicks,
                 syncFaults>>

-----------------------------------------------------------------------------
(* The monitor: waitForIncrementalSyncJobs *)

Watching == monitor # NoMonitor

\* Mutant: one job that has ended is enough.
SomeEnded(js) == \E j \in js : syncJobs[j].status \in Ended
\* observeIncrementalSyncJobs
AllEnded(js) == \A j \in js : syncJobs[j].status \in Ended

PollJobs ==
  /\ Watching /\ ~monitor.complete /\ monitor.polls < MaxPolls
  /\ \/ /\ monitor' = [monitor EXCEPT !.polls = @ + 1, !.complete = AllEnded(monitor.jobs)]
        /\ UNCHANGED <<feedback, syncFaults>>
     \/ /\ SyncFault
        /\ IF monitor.polls + 1 = MaxPolls
           THEN monitor' = NoMonitor /\ feedback' = Feedback(owner, "error", {})
           ELSE monitor' = [monitor EXCEPT !.polls = @ + 1] /\ UNCHANGED feedback
  /\ UNCHANGED <<owner, syncJobs, manual, appOpen, attemptedFor, reads, statusGeneration, shown, newest,
                 clicks>>

TimedOut ==
  /\ Watching /\ ~monitor.complete /\ monitor.polls = MaxPolls
  /\ feedback' = Feedback(owner, IF monitor.awaiting THEN "error" ELSE "in background", monitor.jobs)
  /\ monitor' = NoMonitor /\ RefreshStatus
  /\ UNCHANGED <<owner, syncJobs, manual, appOpen, attemptedFor, shown, newest, clicks, syncFaults>>

Completed ==
  /\ Watching /\ monitor.complete
  /\ feedback' = IF In(monitor.jobs, "FAILED") \cup In(monitor.jobs, "CANCELLED") # {}
                 THEN Feedback(owner, "attention", monitor.jobs)
                 ELSE IF ImportedBy(monitor.jobs) # {} THEN Feedback(owner, "imported", monitor.jobs)
                 ELSE IF monitor.silent THEN Feedback(owner, "idle", {})
                 ELSE Feedback(owner, "up to date", monitor.jobs)
  /\ monitor' = NoMonitor /\ RefreshStatus
  /\ UNCHANGED <<owner, syncJobs, manual, appOpen, attemptedFor, shown, newest, clicks, syncFaults>>

-----------------------------------------------------------------------------
(* The jobs *)

RunJob(j) ==
  /\ \/ syncJobs[j].status = "QUEUED" /\ syncJobs' = [syncJobs EXCEPT ![j].status = "RUNNING"]
     \/ /\ syncJobs[j].status = "RUNNING"
        /\ \E s \in {"SUCCEEDED", "FAILED"}, n \in {0, 1} :
             /\ s = "FAILED" => n = 0
             /\ syncJobs' = [syncJobs EXCEPT ![j].status = s, ![j].created = n]
     \/ syncJobs[j].status = "QUEUED" /\ syncJobs' = [syncJobs EXCEPT ![j].status = "CANCELLED"]
  /\ UNCHANGED <<owner, manual, appOpen, attemptedFor, monitor, feedback, reads, statusGeneration, shown,
                 newest, clicks, syncFaults>>

MonitorNext ==
  \/ ServeStatus \/ ShowStatus \/ StatusFails \/ TryAgain \/ ChangeOwner
  \/ SyncNow \/ ServeSyncNow \/ SyncNowAnswered \/ SyncNowFails
  \/ AppOpen \/ ServeAppOpen \/ AppOpenAnswered
  \/ PollJobs \/ TimedOut \/ Completed
  \/ \E j \in Jobs : RunJob(j)

MonitorSpec == MonitorInit /\ [][MonitorNext]_monitorVars

-----------------------------------------------------------------------------
(* Properties *)

\* A page that says it is synchronising, and so offers no Sync now, has something that will end it,
\* unless its owner has left meanwhile: the requests were aborted, and who returns reads what was said.
NoneStuck ==
  feedback.owner = owner /\ feedback.kind = "syncing" /\ ~feedback.left =>
    manual # NoRequest \/ Watching

\* What a page says of the end of its imports is so, of every job that the request began or found.
FeedbackIsTrue ==
  /\ feedback.jobs \subseteq OfOwner(feedback.owner)
  /\ feedback.kind \in {"imported", "up to date"} => In(feedback.jobs, "SUCCEEDED") = feedback.jobs
  /\ feedback.kind = "up to date" => ImportedBy(feedback.jobs) = {}
  /\ feedback.kind = "attention" => In(feedback.jobs, "SUCCEEDED") # feedback.jobs

\* The status shown is never older than one that was shown to the owner before.
StatusIsNewest == SyncReady => shown.ended = newest[owner]

\* The page tells its owner of the imports, and tells the truth (SyncGamesWidget.tsx).
SyncIsTold == NoneStuck /\ FeedbackIsTrue /\ StatusIsNewest

=============================================================================
