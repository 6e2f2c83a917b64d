--------------------------- MODULE AutoAnalysisBacklog ---------------------------
(***************************************************************************)
(* Automatic analysis: how the games of users who have turned it on become  *)
(* jobs, and jobs become results (lib/services/autoAnalysisBacklog.ts, the claims  *)
(* of analysisScheduler.ts, analysisMaintenance.ts and the messages of      *)
(* backranqQueueProcessor.ts).                                              *)
(*                                                                          *)
(* The games without a job are the backlog: nothing is queued before it can *)
(* be paid for, so every step hangs on a message that wakes the next one.   *)
(* Publications fail, messages are given up, handlers and workers stop; the *)
(* daily cron starts again what has been lost.                              *)
(***************************************************************************)
EXTENDS Integers, FiniteSets, FiniteSetsExt

CONSTANTS Players,        \* numbered in the order of their ids
          BacklogOf,      \* the games of each, numbered from the newest
          Long,           \* games that are long enough: not a matter of the query
          ClassOf,        \* the time class of a game
          Fresh,          \* games that are imported later
          ScanLimit,      \* RECONCILE_CANDIDATE_SCAN_LIMIT
          SweepPage,      \* AUTO_ANALYSIS_SWEEP_PAGE_SIZE
          MaxTries,       \* DEFAULT_ANALYSIS_RETRY_MAX_ATTEMPTS
          Allowances,     \* what a player can pay for, at first and after a renewal
          MaxChanges, MaxFaults

\* Players and games are numbered and finitely many, and a game is one player's.
ASSUME BacklogAssumption ==
  /\ IsFiniteSet(Players) /\ Players \subseteq Nat \ {0}
  /\ \A u \in Players : IsFiniteSet(BacklogOf[u]) /\ BacklogOf[u] \subseteq Nat \ {0}
  /\ \A u, v \in Players : u # v => BacklogOf[u] \cap BacklogOf[v] = {}
  /\ Long \subseteq UNION {BacklogOf[u] : u \in Players}
  /\ ScanLimit \in Nat \ {0} /\ SweepPage \in Nat \ {0}
  /\ IsFiniteSet(Allowances) /\ Allowances # {} /\ Allowances \subseteq Nat

VARIABLES
  rules,      \* the classes that each player has on automatic
  allowance,  \* games that the player can pay for
  job,        \* status, attempts and run of each game's job
  inbox,      \* messages of the queue
  work,       \* the invocation that handles a message
  woken,      \* runs whose end has been announced
  changes, faults

backlogVars == <<rules, allowance, job, inbox, work, woken, changes, faults>>

BacklogGames == UNION {BacklogOf[u] : u \in Players}
PlayerOf(g) == CHOOSE u \in Players : g \in BacklogOf[u]

Reconcile(u, cursor) == <<"reconcile", u, cursor>>
Sweep(cursor) == <<"sweep", 0, cursor>>
JobMessage(g) == <<"job", g, 0>>
Heartbeat == <<"beat", 0, 0>>

Messages ==
  {Reconcile(u, c) : u \in Players, c \in {0} \cup BacklogGames}
    \cup {Sweep(c) : c \in {0} \cup Players}
    \cup {JobMessage(g) : g \in BacklogGames} \cup {Heartbeat}

NoWork == [stage |-> "idle", pick |-> 0, next |-> 0]

Is(g, statuses) == job[g].status \in statuses
UnderLease == {"leased", "running"}
Unfinished == UnderLease \cup {"queued", "waiting", "lapsed"}
Finished == {"succeeded", "failed"}

\* Games that are paid for: a failed or cancelled run gives its credit back.
Committed(u) == {g \in BacklogOf[u] : Is(g, Unfinished \cup {"succeeded"})}
Room(u) == allowance[u] - Cardinality(Committed(u))

-----------------------------------------------------------------------------
\* Messages are published, or the publication fails and says so.

Sends(messages) ==
  \/ inbox' = inbox \cup messages /\ UNCHANGED faults
  \/ /\ messages # {} /\ faults < MaxFaults
     /\ faults' = faults + 1 /\ UNCHANGED inbox

Done(m) == work' = [work EXCEPT ![m] = NoWork]

\* The daily cron: a sweep over all players, and the maintenance.
Daily ==
  /\ Sends({Sweep(0), Heartbeat})
  /\ UNCHANGED <<rules, allowance, job, work, woken, changes>>

\* dispatchAutoAnalysisPolicySweep: a page of players, then the next page.
SweepPlayers(c) ==
  /\ Sweep(c) \in inbox
  /\ LET behind == {u \in Players : u > c}
         page == {u \in behind : Cardinality({v \in behind : v < u}) < SweepPage}
         wakeups == {Reconcile(u, 0) : u \in {v \in page : rules[v] # {}}}
         rest == IF page = behind THEN {} ELSE {Sweep(Max(page))}
     IN \/ inbox' = (inbox \ {Sweep(c)}) \cup wakeups \cup rest /\ UNCHANGED faults
        \/ /\ faults < MaxFaults /\ faults' = faults + 1
           /\ inbox' \in {(inbox \ {Sweep(c)}) \cup rest, (inbox \ {Sweep(c)}) \cup wakeups}
  /\ UNCHANGED <<rules, allowance, job, work, woken, changes>>

\* The policy is changed: what is still queued is cancelled with it.
ChangeRules(u, classes) ==
  /\ changes < MaxChanges /\ classes # rules[u]
  /\ changes' = changes + 1
  /\ rules' = [rules EXCEPT ![u] = classes]
  /\ job' = [g \in BacklogGames |->
       IF g \in BacklogOf[u] /\ Is(g, {"queued", "waiting", "leased"})
       THEN [job[g] EXCEPT !.status = "cancelled"] ELSE job[g]]
  /\ Sends(IF classes = {} THEN {} ELSE {Reconcile(u, 0)})
  /\ UNCHANGED <<allowance, work, woken>>

\* A renewal of the plan.
Renew(u) ==
  /\ allowance[u] < Max(Allowances)
  /\ allowance' = [allowance EXCEPT ![u] = Max(Allowances)]
  /\ Sends(IF rules[u] = {} THEN {} ELSE {Reconcile(u, 0)})
  /\ UNCHANGED <<rules, job, work, woken, changes>>

\* The synchronisation adds a game.
Imports(g) ==
  /\ Is(g, {"absent"})
  /\ job' = [job EXCEPT ![g].status = "none"]
  /\ Sends(IF rules[PlayerOf(g)] = {} THEN {} ELSE {Reconcile(PlayerOf(g), 0)})
  /\ UNCHANGED <<rules, allowance, work, woken, changes>>

-----------------------------------------------------------------------------
\* Claims: recoverExpiredAnalysisJobs, then one job for each player.

\* A run that has lapsed is tried again later, or has failed.
Recovered ==
  [g \in BacklogGames |->
    IF Is(g, {"lapsed"})
    THEN [job[g] EXCEPT !.status = IF job[g].tries >= MaxTries THEN "failed" ELSE "waiting"]
    ELSE job[g]]

\* The next job of a player who has none under way.
Claimed(jobs, u) ==
  LET of(statuses) == {g \in BacklogOf[u] : jobs[g].status \in statuses} IN
  IF of(UnderLease) # {} \/ of({"queued"}) = {} THEN {} ELSE {Min(of({"queued"}))}

Leased(jobs, players) ==
  LET claimed == UNION {Claimed(jobs, u) : u \in players} IN
  [g \in BacklogGames |-> IF g \in claimed THEN [jobs[g] EXCEPT !.status = "leased"] ELSE jobs[g]]

\* A claim and the message of its outbox are committed together; the release of
\* what has failed wakes the backlog, unless the publication fails.
Dispatches(players, sent, wakeups) ==
  LET jobs == Leased(Recovered, players)
      deliveries == {JobMessage(g) : g \in {x \in BacklogGames :
                       jobs[x].status = "leased" /\ ~Is(x, {"leased"})}}
      releases == {Reconcile(PlayerOf(g), 0) : g \in {x \in BacklogGames :
                       jobs[x].status = "failed" /\ ~Is(x, {"failed"})}}
  IN /\ job' = jobs
     /\ \/ inbox' = sent \cup deliveries \cup releases \cup wakeups /\ UNCHANGED faults
        \/ /\ releases \cup wakeups # {} /\ faults < MaxFaults
           /\ faults' = faults + 1
           /\ inbox' = sent \cup deliveries

\* A lease lapses when its delivery is gone, or while it is still under way.
LeaseLapses(g) ==
  /\ Is(g, UnderLease)
  /\ job' = [job EXCEPT ![g].status = IF @ = "running" THEN "lapsed" ELSE "queued"]
  /\ IF JobMessage(g) \notin inbox /\ work[JobMessage(g)] = NoWork THEN UNCHANGED faults
     ELSE faults < MaxFaults /\ faults' = faults + 1
  /\ UNCHANGED <<rules, allowance, inbox, work, woken, changes>>

FallsDue(g) ==
  /\ Is(g, {"waiting"})
  /\ job' = [job EXCEPT ![g].status = "queued"]
  /\ UNCHANGED <<rules, allowance, inbox, work, woken, changes, faults>>

\* The heartbeat of the maintenance ends with the message of the next one, or it
\* throws before, and the message comes again.
Beats ==
  /\ Heartbeat \in inbox
  /\ Dispatches(Players, inbox, {})
  /\ UNCHANGED <<rules, allowance, work, woken, changes>>

-----------------------------------------------------------------------------
\* reconcileAndDispatchAutoAnalysisBacklog.

\* What the query finds behind a cursor, the newest first.
Candidates(u, cursor) ==
  {g \in BacklogOf[u] : g > cursor /\ ClassOf[g] \in rules[u] /\ Is(g, {"none", "cancelled"})}

Scanned(u, cursor) ==
  {g \in Candidates(u, cursor) :
     Cardinality({h \in Candidates(u, cursor) : h < g}) < ScanLimit}

\* Where the next scan starts, if this one has left candidates.
BehindScan(u, cursor) ==
  IF Scanned(u, cursor) = Candidates(u, cursor) THEN 0 ELSE Max(Scanned(u, cursor))

\* The context is read first: the policy, the candidates and the capacity.
ReadsBacklog(u, cursor) ==
  LET m == Reconcile(u, cursor)
      eligible == Scanned(u, cursor) \cap Long
      pays == rules[u] # {} /\ Room(u) > 0
      quiet == ~\E g \in BacklogOf[u] : Is(g, Unfinished)
  IN /\ m \in inbox /\ work[m] = NoWork
     /\ inbox' = inbox \ {m}
     /\ \E g \in IF eligible = {} \/ ~pays THEN {0} ELSE eligible :
          work' = [work EXCEPT ![m] =
            [stage |-> "enqueue", pick |-> g,
             next |-> IF pays /\ quiet THEN BehindScan(u, cursor) ELSE 0]]
     /\ UNCHANGED <<rules, allowance, job, woken, changes, faults>>

\* Mutant: the policy and the capacity are those that the context was read with.
AcceptsAsRead(u, g) == Is(g, {"none", "cancelled"})

\* The transaction reads the policy and the account again.
Accepts(u, g) == Is(g, {"none", "cancelled"}) /\ rules[u] # {} /\ Room(u) > 0

Enqueues(u, cursor) ==
  LET m == Reconcile(u, cursor)
      g == work[m].pick
      accepted == g # 0 /\ Accepts(u, g)
  IN /\ work[m].stage = "enqueue"
     /\ job' = IF accepted
               THEN [job EXCEPT ![g] = [status |-> "queued", tries |-> 0, run |-> @.run + 1]] ELSE job
     /\ work' = [work EXCEPT ![m].stage = "dispatch", ![m].next = IF accepted THEN 0 ELSE @]
     /\ UNCHANGED <<rules, allowance, inbox, woken, changes, faults>>

\* The player's next job is claimed; a scan that has queued nothing goes on.
DispatchesBacklog(u, cursor) ==
  LET m == Reconcile(u, cursor) IN
  /\ work[m].stage = "dispatch"
  /\ Dispatches({u}, inbox, IF work[m].next = 0 THEN {} ELSE {Reconcile(u, work[m].next)})
  /\ Done(m)
  /\ UNCHANGED <<rules, allowance, woken, changes>>

-----------------------------------------------------------------------------
\* A delivery of a job, and what its callback does after it.

StartsJob(g) ==
  LET m == JobMessage(g) IN
  /\ m \in inbox /\ work[m] = NoWork
  /\ inbox' = inbox \ {m}
  /\ job' = IF Is(g, {"leased"})
            THEN [job EXCEPT ![g].status = "running", ![g].tries = @ + 1] ELSE job
  /\ work' = [work EXCEPT ![m].stage = IF Is(g, {"leased"}) THEN "run" ELSE "after"]
  /\ UNCHANGED <<rules, allowance, woken, changes, faults>>

\* The run ends under its lease; without it the result is refused.
EndsJob(g, status) ==
  LET m == JobMessage(g) IN
  /\ work[m].stage = "run"
  /\ status = "waiting" => job[g].tries < MaxTries
  /\ status # "succeeded" => faults < MaxFaults
  /\ job' = IF Is(g, {"running"}) THEN [job EXCEPT ![g].status = status] ELSE job
  /\ inbox' = IF status = "failed" /\ Is(g, {"running"})
              THEN inbox \cup {Reconcile(PlayerOf(g), 0)} ELSE inbox
  /\ faults' = IF status = "succeeded" THEN faults ELSE faults + 1
  /\ work' = [work EXCEPT ![m].stage = "after"]
  /\ UNCHANGED <<rules, allowance, woken, changes>>

\* Every delivery claims the next jobs and announces the end of its run, once.
AfterJob(g) ==
  LET m == JobMessage(g)
      run == <<g, job[g].run>>
      wakes == job[g].status \in Finished /\ run \notin woken
  IN /\ work[m].stage = "after"
     /\ Dispatches(Players, inbox, IF wakes THEN {Reconcile(PlayerOf(g), 0)} ELSE {})
     /\ woken' = IF wakes /\ faults' = faults THEN woken \cup {run} ELSE woken
     /\ Done(m)
     /\ UNCHANGED <<rules, allowance, changes>>

\* An invocation stops: its message comes again.
StopsWork(m) ==
  /\ work[m] # NoWork /\ faults < MaxFaults
  /\ faults' = faults + 1
  /\ Done(m)
  /\ inbox' = inbox \cup {m}
  /\ UNCHANGED <<rules, allowance, job, woken, changes>>

\* The queue gives a message up.
GivesUp(m) ==
  /\ m \in inbox /\ faults < MaxFaults
  /\ faults' = faults + 1
  /\ inbox' = inbox \ {m}
  /\ UNCHANGED <<rules, allowance, job, work, woken, changes>>

BacklogInit ==
  /\ rules \in [Players -> SUBSET {ClassOf[g] : g \in BacklogGames}]
  /\ allowance = [u \in Players |-> Min(Allowances)]
  /\ job = [g \in BacklogGames |->
              [status |-> IF g \in Fresh THEN "absent" ELSE "none", tries |-> 0, run |-> 0]]
  /\ inbox = {Sweep(0), Heartbeat} /\ work = [m \in Messages |-> NoWork]
  /\ woken = {} /\ changes = 0 /\ faults = 0

HandlesBacklog(u, cursor) ==
  ReadsBacklog(u, cursor) \/ Enqueues(u, cursor) \/ DispatchesBacklog(u, cursor)

HandlesJob(g) == StartsJob(g) \/ EndsJob(g, "succeeded") \/ AfterJob(g)

BacklogNext ==
  \/ Daily \/ Beats
  \/ \E c \in {0} \cup Players : SweepPlayers(c)
  \/ \E u \in Players : \/ Renew(u)
                        \/ \E classes \in SUBSET {ClassOf[g] : g \in BacklogGames} : ChangeRules(u, classes)
                        \/ \E c \in {0} \cup BacklogGames : HandlesBacklog(u, c)
  \/ \E g \in BacklogGames : \/ Imports(g) \/ LeaseLapses(g) \/ FallsDue(g) \/ HandlesJob(g)
                             \/ EndsJob(g, "failed") \/ EndsJob(g, "waiting")
  \/ \E m \in Messages : StopsWork(m) \/ GivesUp(m)

BacklogSpec == BacklogInit /\ [][BacklogNext]_backlogVars

-----------------------------------------------------------------------------
\* What a player has turned off is not started, though a wake-up that was read
\* with the old policy is still under way.
OffIsOff ==
  \A u \in Players : rules[u] = {} =>
    \A g \in BacklogOf[u] : Is(g, {"queued", "leased"}) => job[g].tries > 0

\* A wake-up of a player, or of the sweep that will reach it, is on its way, or
\* the end of a job will send one.
Woken(u) ==
  \/ \E m \in inbox \cup {n \in DOMAIN work : work[n] # NoWork} :
       \/ m[1] = "reconcile" /\ m[2] = u
       \/ m[1] = "sweep" /\ m[3] < u
  \/ \E g \in BacklogOf[u] :
       \/ Is(g, Unfinished) /\ Heartbeat \in inbox
       \/ work[JobMessage(g)] # NoWork \/ JobMessage(g) \in inbox

\* As long as no publication, message or invocation is lost, no game on
\* automatic that can be paid for waits for the next day's cron.
NoneForgotten ==
  faults = 0 => \A g \in Long :
    (/\ Is(g, {"none", "cancelled"}) /\ ClassOf[g] \in rules[PlayerOf(g)]
     /\ Room(PlayerOf(g)) > 0) => Woken(PlayerOf(g))

\* What autoAnalysisBacklog.ts keeps of the automatic games: nothing that is off, nothing forgotten.
BacklogHolds == OffIsOff /\ NoneForgotten
=============================================================================
