-------------------------- MODULE ProviderSyncProofs --------------------------
(***************************************************************************)
(* Proofs about ProviderSync, for any accounts, rules, games, workers and  *)
(* bounds, as long as the overlap of two windows is no shorter than the    *)
(* delay of the provider (SyncAssumption).                                 *)
(*                                                                         *)
(* The properties rest on one inductive invariant, Inv.  What a window has *)
(* brought is stated of its account, its rules and its bounds alone        *)
(* (Covered), so it stays true while the account, the rules and the state  *)
(* change under an invocation.                                             *)
(***************************************************************************)
EXTENDS ProviderSync, TLAPS

\* The games of an account that the rules import and a window that ends at t
\* has to have brought: the next one begins an overlap before t.
Due(a, p, t) ==
  {g \in Games : Owner[g] = a /\ g \in Wanted[p] /\ Played[g] < t - Overlap}

\* Those that a window is to bring are in got, or are still inside of it.
Covered(a, p, window, got) ==
  \A g \in Due(a, p, window.end) :
    g \in got \/ Played[g] \in window.since..window.until

\* The provider shows a game when its delay is over.
ProviderOK == \A g \in Games \ visible : now <= Played[g] + Delay

\* The watermark and the end of the cursor's window have come; what lies
\* before the watermark, or outside of the cursor's window, has been saved.
StateOK ==
  /\ state.last <= now
  /\ state.cursor # NoWindow => state.last <= state.cursor.end /\ state.cursor.end <= now
  /\ state.policy \in Policies =>
       /\ Due(state.account, state.policy, state.last) \subseteq saved
       /\ state.cursor # NoWindow =>
            Covered(state.account, state.policy, state.cursor, saved)

Windowed == {"fetch", "commit"}
Planned  == {"prepare", "assert", "reset"}

\* What an invocation knows, with the lease or without it, of the window that
\* it fetches.
WindowOK(wk) ==
  /\ wk.pc \in Planned => wk.start <= now
  /\ wk.pc \in Windowed => /\ wk.window.end <= now
                           /\ Covered(wk.account, wk.policy, wk.window, saved)
  /\ wk.pc = "commit" =>
       /\ \A g \in wk.batch : g \in visible /\ Owner[g] = wk.account
       /\ wk.complete =>
            Due(wk.account, wk.policy, wk.window.end) \subseteq saved \cup wk.batch
       /\ ~wk.complete =>
            Covered(wk.account, wk.policy, [wk.window EXCEPT !.until = wk.next],
                    saved \cup wk.batch)

\* While it holds the lease, nobody else moves the watermark.
FenceOK(w) ==
  Holds(w) => /\ worker[w].pc \in Planned => state.last <= worker[w].start
              /\ worker[w].pc \in Windowed => state.last <= worker[w].window.end

\* Attempts beyond the limit are claims of expired leases, each after a fault.
AttemptsOK ==
  /\ job.status = "QUEUED" => job.attempts < MaxAttempts
  /\ job.status = "RUNNING" =>
       /\ job.attempts <= MaxAttempts + faults
       /\ ~job.live \/ worker[job.holder].pc = "idle" => job.attempts < MaxAttempts + faults

Inv == /\ TypeOK /\ ProviderOK /\ StateOK /\ AttemptsOK
       /\ \A w \in Workers : WindowOK(worker[w]) /\ FenceOK(w)

-----------------------------------------------------------------------------
(* Types of the operators.                                                 *)

\* The numbers that SyncAssumption gives.
LEMMA Numbers ==
  /\ MaxNow \in Nat /\ MaxAttempts \in Nat \ {0} /\ MaxFaults \in Nat /\ MaxChanges \in Nat
  /\ Overlap \in Nat /\ Delay \in Nat /\ Delay <= Overlap /\ Page \in Nat
  /\ \A g \in Games : /\ Played[g] \in Nat /\ 1 <= Played[g] /\ Played[g] <= MaxNow
                      /\ Owner[g] \in Accounts
  /\ \A p \in Policies : Wanted[p] \in SUBSET Games
  /\ Times \subseteq Nat /\ 0 \in Times
BY SyncAssumption DEF Times

LEMMA IdleType == IdleWorker \in Worker
<1>1. (CHOOSE p \in Policies : TRUE) \in Policies
  BY SyncAssumption, Zenon
<1>2. NoWindow \in Window
  BY Numbers DEF NoWindow, Window
<1>3. Identity(NoState) \in Identities
  BY DEF Identity, NoState, Identities
<1> QED BY <1>1, <1>2, <1>3, Numbers, Zenon DEF IdleWorker, Worker

\* The outcomes, of which no window is left.
LEMMA ResultType ==
  ASSUME NEW pc \in {"done", "more", "error", "changed"}
  PROVE  Result(pc) \in Worker /\ Result(pc).pc = pc
<1>1. IdleWorker \in Worker
  BY IdleType
<1> QED BY <1>1 DEF Result, Worker

LEMMA SyncWindowType ==
  ASSUME NEW s \in State, NEW start \in Times
  PROVE  /\ SyncWindow(s, start) \in Window
         /\ SyncWindow(s, start).end \in Nat
<1>1. s.cursor \in Window /\ s.last \in Times
  BY DEF State
<1>2. [since |-> IF s.last = 0 THEN 0 ELSE s.last - Overlap,
       until |-> start, end |-> start] \in Window
  BY <1>1, Numbers DEF Window
<1>3. SyncWindow(s, start) \in Window
  BY <1>1, <1>2 DEF SyncWindow
<1> QED BY <1>3, Numbers DEF Window

\* What a reset leaves of a state.
FreshOf(s, a, p) == [s EXCEPT !.account = a, !.policy = p, !.last = 0, !.cursor = NoWindow]

LEMMA FreshState ==
  ASSUME NEW s \in State, NEW a \in Accounts \cup {NoAccount},
         NEW p \in Policies \cup {"none"}
  PROVE  /\ FreshOf(s, a, p) \in State
         /\ FreshOf(s, a, p).last = 0 /\ FreshOf(s, a, p).cursor = NoWindow
<1>1. NoWindow \in Window
  BY Numbers DEF NoWindow, Window
<1>2. 0 \in Times
  BY Numbers
<1>3. FreshOf(s, a, p) \in State
  BY <1>1, <1>2 DEF State, FreshOf
<1>4. FreshOf(s, a, p).last = 0 /\ FreshOf(s, a, p).cursor = NoWindow
  BY DEF State, FreshOf
<1> QED BY <1>3, <1>4

\* More games saved leave a window covered.
LEMMA CoveredMore ==
  ASSUME NEW a, NEW p, NEW window, NEW got, NEW more,
         Covered(a, p, window, got), got \subseteq more
  PROVE  Covered(a, p, window, more)
BY DEF Covered

\* The window that syncWindow makes is covered: what lies before it is saved.
LEMMA SyncWindowCovered ==
  ASSUME NEW s \in State, NEW start \in Times, NEW a, NEW p,
         Due(a, p, s.last) \subseteq saved,
         s.cursor # NoWindow => Covered(a, p, s.cursor, saved)
  PROVE  Covered(a, p, SyncWindow(s, start), saved)
<1>1. CASE s.cursor # NoWindow
  BY <1>1 DEF SyncWindow
<1>2. CASE s.cursor = NoWindow
  <2> DEFINE window == [since |-> IF s.last = 0 THEN 0 ELSE s.last - Overlap,
                        until |-> start, end |-> start]
  <2>1. SyncWindow(s, start) = window
    BY <1>2 DEF SyncWindow
  <2>2. ASSUME NEW g \in Due(a, p, start)
        PROVE  g \in saved \/ Played[g] \in window.since..window.until
    <3>1. g \in Games /\ Played[g] < start - Overlap
      BY <2>2 DEF Due
    <3>2. Played[g] \in Nat /\ start \in Nat /\ s.last \in Nat /\ Overlap \in Nat
      BY <3>1, Numbers DEF State
    <3>3. CASE s.last # 0 /\ Played[g] < s.last - Overlap
      <4>1. g \in Due(a, p, s.last)
        BY <2>2, <3>3 DEF Due
      <4> QED BY <4>1
    <3>4. CASE s.last = 0 \/ ~(Played[g] < s.last - Overlap)
      BY <3>1, <3>2, <3>4
    <3> QED BY <3>3, <3>4
  <2> QED BY <2>1, <2>2 DEF Covered
<1> QED BY <1>1, <1>2

-----------------------------------------------------------------------------
(* The invocations.                                                        *)

WorkersStep == /\ worker' \in [Workers -> Worker]
               /\ \A w \in Workers : WindowOK(worker[w])'

\* Time, the provider's games and the saved ones only grow.
Grows == /\ now' \in Times /\ now <= now'
         /\ visible \subseteq visible' /\ saved \subseteq saved'

\* An invocation that does nothing knows what it knew.
LEMMA KeptWindow ==
  ASSUME TypeOK, Grows, NEW w \in Workers, WindowOK(worker[w]), worker'[w] = worker[w]
  PROVE  WindowOK(worker[w])'
<1> DEFINE wk == worker[w]
<1>1. /\ now \in Nat /\ now' \in Nat /\ now <= now' /\ saved \subseteq saved'
      /\ visible \subseteq visible'
  BY Numbers DEF TypeOK, Grows
<1>2. wk \in Worker
  BY DEF TypeOK
<1>3. wk.start \in Nat /\ wk.window.end \in Nat
  BY <1>2, Numbers DEF Worker, Window
<1>4. /\ wk.pc \in Planned => wk.start <= now
      /\ wk.pc \in Windowed => wk.window.end <= now
      /\ wk.pc \in Windowed => Covered(wk.account, wk.policy, wk.window, saved)
      /\ wk.pc = "commit" => \A g \in wk.batch : g \in visible /\ Owner[g] = wk.account
      /\ wk.pc = "commit" /\ wk.complete =>
           Due(wk.account, wk.policy, wk.window.end) \subseteq saved \cup wk.batch
      /\ wk.pc = "commit" /\ ~wk.complete =>
            Covered(wk.account, wk.policy, [wk.window EXCEPT !.until = wk.next],
                    saved \cup wk.batch)
  BY DEF WindowOK
<1> HIDE DEF wk
<1>5. /\ wk.pc \in Planned => wk.start <= now'
      /\ wk.pc \in Windowed => wk.window.end <= now'
  BY <1>1, <1>3, <1>4
<1>6. wk.pc \in Windowed => Covered(wk.account, wk.policy, wk.window, saved')
  BY <1>1, <1>4, CoveredMore
<1>7. wk.pc = "commit" => \A g \in wk.batch : g \in visible' /\ Owner[g] = wk.account
  BY <1>1, <1>4
<1>8. wk.pc = "commit" /\ wk.complete =>
        Due(wk.account, wk.policy, wk.window.end) \subseteq saved' \cup wk.batch
  BY <1>1, <1>4
<1>9. wk.pc = "commit" /\ ~wk.complete =>
        Covered(wk.account, wk.policy, [wk.window EXCEPT !.until = wk.next],
                saved' \cup wk.batch)
  <2>1. saved \cup wk.batch \subseteq saved' \cup wk.batch
    BY <1>1
  <2> QED BY <2>1, <1>4, CoveredMore
<1>10. worker'[w] = wk
  BY DEF wk
<1> QED BY <1>5, <1>6, <1>7, <1>8, <1>9, <1>10, Zenon DEF WindowOK, Due, Covered

\* One invocation changes, and knows what it says it knows.
LEMMA ChangedWorker ==
  ASSUME TypeOK, Grows, \A v \in Workers : WindowOK(worker[v]),
         NEW w \in Workers, NEW wk \in Worker, worker' = [worker EXCEPT ![w] = wk],
         worker'[w] = wk => WindowOK(worker[w])'
  PROVE  WorkersStep
<1>1. worker' \in [Workers -> Worker] /\ worker'[w] = wk
  BY DEF TypeOK
<1>2. ASSUME NEW v \in Workers, v # w
      PROVE  WindowOK(worker[v])'
  <2>1. worker'[v] = worker[v]
    BY <1>2 DEF TypeOK
  <2> QED BY <2>1, KeptWindow
<1> QED BY <1>1, <1>2 DEF WorkersStep

\* One that fetches no window, and plans none, knows nothing.
LEMMA BlankWorker ==
  ASSUME TypeOK, Grows, \A v \in Workers : WindowOK(worker[v]),
         NEW w \in Workers, NEW wk \in Worker, worker' = [worker EXCEPT ![w] = wk],
         wk.pc \notin Planned \cup Windowed
  PROVE  WorkersStep
<1>1. worker'[w] = wk => WindowOK(worker[w])'
  BY DEF WindowOK, Windowed
<1> QED BY <1>1, ChangedWorker

LEMMA KeptWorkers ==
  ASSUME TypeOK, Grows, \A v \in Workers : WindowOK(worker[v]), worker' = worker
  PROVE  WorkersStep
BY KeptWindow DEF TypeOK, WorkersStep

\* While nothing else moves, what is true of the new invocation is true after.
LEMMA MovedWorker ==
  ASSUME TypeOK, \A v \in Workers : WindowOK(worker[v]), UNCHANGED <<now, visible, saved>>,
         NEW w \in Workers, NEW wk \in Worker, worker' = [worker EXCEPT ![w] = wk],
         WindowOK(wk)
  PROVE  WorkersStep
<1>1. Grows
  BY Numbers DEF Grows, TypeOK
<1>2. worker'[w] = wk => WindowOK(worker[w])'
  BY Zenon DEF WindowOK, Covered, Due
<1> QED BY <1>1, <1>2, ChangedWorker

\* The window of a state that fits.
LEMMA PreparedWorker ==
  ASSUME TypeOK, NEW wk \in Worker, wk.start <= now,
         NEW s \in State,
         Due(wk.account, wk.policy, s.last) \subseteq saved,
         s.cursor # NoWindow => /\ s.cursor.end <= now
                                /\ Covered(wk.account, wk.policy, s.cursor, saved)
  PROVE  /\ Prepared(wk, s) \in Worker
         /\ WindowOK(Prepared(wk, s))
         /\ Prepared(wk, s).pc \in {"done", "fetch"}
         /\ Prepared(wk, s).pc = "fetch" => Prepared(wk, s).window = SyncWindow(s, wk.start)
<1> DEFINE window == SyncWindow(s, wk.start)
           next == [wk EXCEPT !.window = window, !.start = 0,
                              !.seen = Identity(NoState), !.pc = "fetch"]
<1>1. wk.policy \in Policies /\ wk.start \in Times
  BY DEF Worker
<1>2. window \in Window /\ window.end <= now
  BY <1>1, SyncWindowType DEF SyncWindow
<1>3. Covered(wk.account, wk.policy, window, saved)
  BY <1>1, SyncWindowCovered
<1> HIDE DEF window
<1>4. Identity(NoState) \in Identities
  BY DEF Identity, NoState, Identities
<1>5. next \in Worker
  BY <1>2, <1>4, Numbers DEF Worker
<1>6. next.pc = "fetch" /\ next.window = window /\ next.account = wk.account
      /\ next.policy = wk.policy
  BY DEF Worker
<1>7. WindowOK(next)
  <2> HIDE DEF next
  <2> QED BY <1>2, <1>3, <1>6 DEF WindowOK, Planned, Windowed
<1>8. CASE Wanted[wk.policy] = {}
  <2>1. Prepared(wk, s) = Result("done")
    BY <1>8 DEF Prepared
  <2>2. WindowOK(Result("done"))
    BY ResultType DEF WindowOK, Planned, Windowed
  <2> QED BY <2>1, <2>2, ResultType
<1>9. CASE Wanted[wk.policy] # {}
  <2>1. Prepared(wk, s) = next
    BY <1>9 DEF Prepared, window
  <2> HIDE DEF next
  <2> QED BY <2>1, <1>5, <1>6, <1>7 DEF window
<1> QED BY <1>8, <1>9

\* Its first statements.
LEMMA PreparingWorkers ==
  ASSUME Inv, NEW w \in Workers, Load(w) \/ Prepare(w) \/ AssertLinked(w) \/ Reset(w)
  PROVE  WorkersStep
<1> DEFINE wk == worker[w]
<1>1. wk \in Worker /\ WindowOK(wk) /\ state \in State /\ TypeOK
      /\ \A v \in Workers : WindowOK(worker[v])
  BY DEF Inv, TypeOK
<1>2. UNCHANGED <<now, visible, saved>>
  BY DEF Load, Prepare, AssertLinked, Reset, world
<1>3. \A pc \in {"done", "changed"} : WindowOK(Result(pc)) /\ Result(pc) \in Worker
  BY ResultType DEF WindowOK, Planned, Windowed
<1>4. Identity(state) \in Identities
  BY <1>1 DEF Identity, State, Identities
<1> HIDE DEF wk
<1>5. CASE Load(w)
  <2> DEFINE next == [wk EXCEPT !.account = conn, !.policy = policy, !.start = now,
                                !.pc = "prepare"]
  <2>1. next \in Worker /\ next.pc = "prepare" /\ next.start = now
    BY <1>1 DEF Inv, TypeOK, Worker
  <2>2. now <= now
    BY <1>1, Numbers DEF TypeOK
  <2>3. worker' = [worker EXCEPT ![w] = next] \/ worker' = [worker EXCEPT ![w] = Result("done")]
    BY <1>5 DEF Load, wk
  <2> HIDE DEF next
  <2>4. WindowOK(next)
    BY <2>1, <2>2 DEF WindowOK, Planned, Windowed
  <2> QED BY <1>1, <1>2, <1>3, <2>1, <2>3, <2>4, MovedWorker
<1>6. ASSUME NEW pc \in {"assert", "reset"}, NEW seen \in Identities, wk.pc \in Planned,
             worker' = [worker EXCEPT ![w] = [wk EXCEPT !.seen = seen, !.pc = pc]]
      PROVE  WorkersStep
  <2> DEFINE next == [wk EXCEPT !.seen = seen, !.pc = pc]
  <2>1. next \in Worker /\ next.pc = pc /\ next.start = wk.start
    BY <1>1 DEF Worker
  <2>2. worker' = [worker EXCEPT ![w] = next]
    BY <1>6
  <2> HIDE DEF next
  <2>3. WindowOK(next)
    BY <1>1, <1>6, <2>1 DEF WindowOK, Planned, Windowed
  <2> QED BY <1>1, <1>2, <2>1, <2>2, <2>3, MovedWorker
<1>7. CASE Prepare(w)
  <2>1. CASE state.account = wk.account /\ state.policy = wk.policy
    <3>1. worker' = [worker EXCEPT ![w] = Prepared(wk, state)]
      BY <1>7, <2>1 DEF Prepare, wk
    <3>2. wk.start <= now
      BY <1>1, <1>7 DEF Prepare, wk, WindowOK, Planned
    <3>3. state.policy \in Policies
      BY <1>1, <2>1 DEF Worker
    <3>4. /\ Due(state.account, state.policy, state.last) \subseteq saved
          /\ state.cursor # NoWindow =>
               /\ state.cursor.end <= now
               /\ Covered(state.account, state.policy, state.cursor, saved)
      BY <3>3 DEF Inv, StateOK
    <3>5. Prepared(wk, state) \in Worker /\ WindowOK(Prepared(wk, state))
      BY <1>1, <2>1, <3>2, <3>4, PreparedWorker
    <3> QED BY <1>1, <1>2, <3>1, <3>5, MovedWorker
  <2>2. CASE ~(state.account = wk.account /\ state.policy = wk.policy)
    <3>1. PICK pc \in {"assert", "reset"} :
            worker' = [worker EXCEPT ![w] = [wk EXCEPT !.seen = Identity(state), !.pc = pc]]
      BY <1>7, <2>2 DEF Prepare, wk
    <3>2. wk.pc \in Planned
      BY <1>7 DEF Prepare, Planned, wk
    <3> QED BY <1>4, <1>6, <3>1, <3>2
  <2> QED BY <2>1, <2>2
<1>8. CASE AssertLinked(w)
  <2>1. \/ worker' = [worker EXCEPT ![w] = [wk EXCEPT !.pc = "reset"]]
        \/ worker' = [worker EXCEPT ![w] = Result("changed")]
    BY <1>8 DEF AssertLinked, wk
  <2>2. [wk EXCEPT !.pc = "reset"] = [wk EXCEPT !.seen = wk.seen, !.pc = "reset"]
        /\ wk.seen \in Identities
    BY <1>1 DEF Worker
  <2>3. wk.pc \in Planned
    BY <1>8 DEF AssertLinked, Planned, wk
  <2> QED BY <1>1, <1>2, <1>3, <1>6, <2>1, <2>2, <2>3, MovedWorker
<1>9. CASE Reset(w)
  <2> DEFINE fresh == [state EXCEPT !.account = IF wk.seen.account # wk.account
                                                THEN wk.account ELSE @,
                                    !.policy = wk.policy,
                                    !.last = 0, !.cursor = NoWindow]
  <2>1. \/ Resettable(wk) /\ worker' = [worker EXCEPT ![w] = Prepared(wk, fresh)]
        \/ worker' = [worker EXCEPT ![w] = Result("changed")]
    BY <1>9 DEF Reset, wk
  <2>2. wk.start <= now
    BY <1>1, <1>9 DEF Reset, wk, WindowOK, Planned
  <2>3. fresh \in State /\ fresh.last = 0 /\ fresh.cursor = NoWindow
    <3> DEFINE a == IF wk.seen.account # wk.account THEN wk.account ELSE state.account
    <3>1. a \in Accounts \cup {NoAccount} /\ wk.policy \in Policies
      BY <1>1 DEF State, Worker
    <3>2. fresh = FreshOf(state, a, wk.policy)
      BY <1>1 DEF State, FreshOf
    <3> HIDE DEF a, fresh
    <3> QED BY <1>1, <3>1, <3>2, FreshState
  <2> HIDE DEF fresh
  <2>4. Due(wk.account, wk.policy, 0) = {}
    BY Numbers DEF Due
  <2>5. Prepared(wk, fresh) \in Worker /\ WindowOK(Prepared(wk, fresh))
    BY <1>1, <2>2, <2>3, <2>4, PreparedWorker
  <2> QED BY <1>1, <1>2, <1>3, <2>1, <2>5, MovedWorker
<1> QED BY <1>5, <1>7, <1>8, <1>9

\* What the provider shows holds all that a window is to bring from it.
LEMMA DueIsVisible ==
  ASSUME TypeOK, ProviderOK, NEW t \in Nat, t <= now, NEW a, NEW p,
         NEW g \in Due(a, p, t)
  PROVE  g \in visible
<1>1. g \in Games /\ Played[g] < t - Overlap
  BY DEF Due
<1>2. Played[g] \in Nat /\ now \in Nat
  BY <1>1, Numbers DEF TypeOK
<1>3. ~(now <= Played[g] + Delay)
  BY <1>1, <1>2, Numbers
<1> QED BY <1>1, <1>3 DEF ProviderOK

\* Those of a batch, and those that are left for the next one.
LEMMA FetchedWorkers ==
  ASSUME Inv, NEW w \in Workers, Fetch(w)
  PROVE  WorkersStep
<1> DEFINE wk == worker[w]
           all == InWindow(wk)
<1>1. wk \in Worker /\ WindowOK(wk) /\ TypeOK /\ ProviderOK
      /\ \A v \in Workers : WindowOK(worker[v])
  BY DEF Inv, TypeOK
<1>2. UNCHANGED <<now, visible, saved>> /\ wk.pc = "fetch"
  BY DEF Fetch, world
<1>3. /\ wk.window \in Window /\ wk.window.end \in Nat /\ wk.window.until \in Nat
      /\ wk.window.since \in Int /\ wk.policy \in Policies
  BY <1>1, Numbers DEF Worker, Window
<1>4. /\ wk.window.end <= now
      /\ Covered(wk.account, wk.policy, wk.window, saved)
  BY <1>1, <1>2 DEF WindowOK, Windowed
<1>5. \/ worker' = [worker EXCEPT ![w] = [wk EXCEPT !.batch = all, !.complete = TRUE,
                                                   !.next = 0, !.pc = "commit"]]
      \/ \E S \in SUBSET all, t \in Times :
           /\ IsNewest(S, all) /\ Oldest(S, t)
           /\ \/ worker' = [worker EXCEPT ![w] = [wk EXCEPT !.batch = S, !.complete = FALSE,
                                                           !.next = t, !.pc = "commit"]]
              \/ worker' = [worker EXCEPT ![w] = Result("error")]
  BY DEF Fetch
<1>6. ASSUME NEW g \in Due(wk.account, wk.policy, wk.window.end)
      PROVE  g \in saved \/ (g \in all /\ Played[g] \in wk.window.since..wk.window.until)
  <2>1. g \in visible
    BY <1>1, <1>3, <1>4, DueIsVisible
  <2>2. g \in saved \/ Played[g] \in wk.window.since..wk.window.until
    BY <1>4 DEF Covered
  <2> QED BY <2>1, <2>2 DEF InWindow, Due
<1>7. \A g \in all : g \in visible /\ g \in Games /\ Owner[g] = wk.account
  BY <1>1 DEF InWindow, TypeOK
<1> HIDE DEF all, wk
<1>8. ASSUME NEW S \in SUBSET all, NEW c \in BOOLEAN, NEW t \in Times,
             worker' = [worker EXCEPT ![w] = [wk EXCEPT !.batch = S, !.complete = c,
                                                        !.next = t, !.pc = "commit"]],
             c => Due(wk.account, wk.policy, wk.window.end) \subseteq saved \cup S,
             ~c => Covered(wk.account, wk.policy, [wk.window EXCEPT !.until = t],
                           saved \cup S)
      PROVE  WorkersStep
  <2> DEFINE next == [wk EXCEPT !.batch = S, !.complete = c, !.next = t, !.pc = "commit"]
  <2>1. S \in SUBSET Games
    BY <1>7
  <2>2. next \in Worker
    BY <1>1, <2>1 DEF Worker
  <2>3. /\ next.pc = "commit" /\ next.batch = S /\ next.complete = c /\ next.next = t
        /\ next.window = wk.window /\ next.account = wk.account /\ next.policy = wk.policy
    BY <1>1 DEF Worker
  <2>4. worker' = [worker EXCEPT ![w] = next]
    BY <1>8
  <2> HIDE DEF next
  <2>5. WindowOK(next)
    BY <1>4, <1>7, <1>8, <2>3 DEF WindowOK, Planned, Windowed
  <2> QED BY <1>1, <1>2, <2>2, <2>4, <2>5, MovedWorker
<1>9. ASSUME NEW S \in SUBSET all, NEW t \in Times, IsNewest(S, all), Oldest(S, t)
      PROVE  Covered(wk.account, wk.policy, [wk.window EXCEPT !.until = t], saved \cup S)
  <2> DEFINE win == [wk.window EXCEPT !.until = t]
  <2>1. win.since = wk.window.since /\ win.until = t /\ win.end = wk.window.end
    BY <1>3 DEF Window
  <2>2. PICK h \in S : t = Played[h]
    BY <1>9 DEF Oldest
  <2>3. ASSUME NEW g \in all \ S
        PROVE  Played[g] <= t
    BY <1>9, <2>2, <2>3 DEF IsNewest
  <2>4. ASSUME NEW g \in Due(wk.account, wk.policy, wk.window.end)
        PROVE  g \in saved \cup S \/ Played[g] \in wk.window.since..t
    <3>1. g \in saved \/ (g \in all /\ Played[g] \in wk.window.since..wk.window.until)
      BY <1>6
    <3>2. CASE g \in all \ S /\ Played[g] \in wk.window.since..wk.window.until
      <4>1. Played[g] <= t /\ Played[g] \in Int /\ wk.window.since <= Played[g]
        BY <1>3, <2>3, <3>2
      <4> QED BY <1>3, <4>1, Numbers
    <3> QED BY <3>1, <3>2
  <2> HIDE DEF win
  <2>5. Covered(wk.account, wk.policy, win, saved \cup S)
    BY <2>1, <2>4 DEF Covered
  <2> QED BY <2>5 DEF win
<1>10. Due(wk.account, wk.policy, wk.window.end) \subseteq saved \cup all
  BY <1>6
<1>11. CASE worker' = [worker EXCEPT ![w] = [wk EXCEPT !.batch = all, !.complete = TRUE,
                                                       !.next = 0, !.pc = "commit"]]
  BY <1>8, <1>10, <1>11, Numbers
<1>12. ASSUME NEW S \in SUBSET all, NEW t \in Times, IsNewest(S, all), Oldest(S, t),
              worker' = [worker EXCEPT ![w] = [wk EXCEPT !.batch = S, !.complete = FALSE,
                                                         !.next = t, !.pc = "commit"]]
       PROVE  WorkersStep
  BY <1>8, <1>9, <1>12
<1>13. CASE worker' = [worker EXCEPT ![w] = Result("error")]
  <2>1. WindowOK(Result("error")) /\ Result("error") \in Worker
    BY ResultType DEF WindowOK, Planned, Windowed
  <2> QED BY <1>1, <1>2, <1>13, <2>1, MovedWorker
<1> QED BY <1>5, <1>11, <1>12, <1>13

-----------------------------------------------------------------------------
(* Time, the provider and the games that are saved.                        *)

WorldStep == /\ Grows /\ visible' \in SUBSET Games /\ saved' \in SUBSET visible'
             /\ ProviderOK'

LEMMA KeptWorld ==
  ASSUME Inv, UNCHANGED <<now, visible>>, saved \subseteq saved', saved' \subseteq visible
  PROVE  WorldStep
<1>1. now \in Times /\ now <= now /\ visible \in SUBSET Games
  BY Numbers DEF Inv, TypeOK
<1> QED BY <1>1 DEF WorldStep, Grows, ProviderOK, Inv

LEMMA CommittedWorld ==
  ASSUME Inv, NEW w \in Workers, Commit(w) \/ CommitPartly(w)
  PROVE  WorldStep
<1>1. \A g \in worker[w].batch : g \in visible
  BY DEF Inv, WindowOK, Commit, CommitPartly
<1>2. saved \subseteq visible /\ UNCHANGED <<now, visible>>
  BY DEF Inv, TypeOK, Commit, CommitPartly, world
<1>3. saved \subseteq saved' /\ saved' \subseteq saved \cup worker[w].batch
  BY DEF Commit, CommitPartly
<1> QED BY <1>1, <1>2, <1>3, KeptWorld

\* All other steps but those of time and of the provider leave it alone.
LEMMA WorldStepOfNext ==
  ASSUME Inv, [Next]_vars
  PROVE  WorldStep
<1>1. now \in Nat /\ now \in Times /\ visible \in SUBSET Games /\ saved \in SUBSET visible
      /\ MaxNow \in Nat
  BY Numbers DEF Inv, TypeOK
<1>2. \A g \in Games : Played[g] \in Nat /\ Delay \in Nat
  BY Numbers
<1>3. CASE Tick
  <2>1. now' = now + 1 /\ UNCHANGED <<visible, saved>> /\ now < MaxNow
        /\ \A g \in Games \ visible : now < Played[g] + Delay
    BY <1>3 DEF Tick
  <2>2. now' \in Times /\ now <= now'
    BY <1>1, <2>1 DEF Times
  <2>3. \A g \in Games \ visible : now' <= Played[g] + Delay
    BY <1>1, <1>2, <2>1
  <2> QED BY <1>1, <2>1, <2>2, <2>3 DEF WorldStep, Grows, ProviderOK
<1>4. ASSUME NEW g \in Games, Publish(g)
      PROVE  WorldStep
  <2>1. now' = now /\ visible' = visible \cup {g} /\ saved' = saved
    BY <1>4 DEF Publish
  <2>2. ProviderOK'
    BY <2>1 DEF Inv, ProviderOK
  <2> QED BY <1>1, <2>1, <2>2 DEF WorldStep, Grows
<1>5. ASSUME UNCHANGED <<now, visible, saved>>
      PROVE  WorldStep
  BY <1>1, <1>5, KeptWorld
<1>6. ASSUME NEW w \in Workers, Claim(w) \/ Step(w) \/ Heartbeat(w) \/ FetchFails(w)
                                \/ CommitPartly(w) \/ Crash(w)
      PROVE  WorldStep
  <2>1. CASE Commit(w) \/ CommitPartly(w)
    BY <2>1, CommittedWorld
  <2> QED BY <1>5, <1>6, <2>1
          DEF Step, Claim, Load, Prepare, AssertLinked, Reset, Fetch, CommitRejected,
              Finish, Heartbeat, FetchFails, Crash, world
<1>7. ASSUME (\E a \in Accounts \cup {NoAccount} : Relink(a))
               \/ (\E p \in Policies : SetPolicy(p))
      PROVE  UNCHANGED <<now, visible, saved>>
  BY <1>7 DEF Relink, SetPolicy, world
<1>8. CASE PlanNew \/ RecoverExpired \/ BackoffElapses \/ LeaseExpires \/ LeaseOverrun
           \/ UNCHANGED vars
  BY <1>5, <1>8 DEF PlanNew, RecoverExpired, BackoffElapses, LeaseExpires, LeaseOverrun,
                    world, vars
<1> QED BY <1>3, <1>4, <1>5, <1>6, <1>7, <1>8 DEF Next

\* Whatever happens, each invocation knows what it says it knows.
LEMMA WorkersStepOfNext ==
  ASSUME Inv, [Next]_vars
  PROVE  WorkersStep
<1>1. TypeOK /\ (\A v \in Workers : WindowOK(worker[v])) /\ Grows
  BY WorldStepOfNext DEF Inv, WorldStep
<1>2. ASSUME NEW w \in Workers, NEW pc \in {"done", "more", "error", "changed"},
             worker' = [worker EXCEPT ![w] = Result(pc)]
      PROVE  WorkersStep
  <2>1. Result(pc) \in Worker /\ Result(pc).pc \notin Planned \cup Windowed
    BY ResultType DEF Planned, Windowed
  <2> QED BY <1>1, <1>2, <2>1, BlankWorker
<1>3. IdleWorker \in Worker /\ IdleWorker.pc \notin Planned \cup Windowed
  BY IdleType DEF IdleWorker, Planned, Windowed
<1>4. ASSUME NEW w \in Workers, worker' = [worker EXCEPT ![w] = IdleWorker]
      PROVE  WorkersStep
  BY <1>1, <1>3, <1>4, BlankWorker
<1>5. ASSUME NEW w \in Workers, Claim(w)
      PROVE  WorkersStep
  <2> DEFINE wk == [IdleWorker EXCEPT !.pc = "load"]
  <2>1. wk \in Worker /\ wk.pc = "load"
    BY <1>3 DEF Worker
  <2>2. worker' = [worker EXCEPT ![w] = wk]
    BY <1>5 DEF Claim
  <2> HIDE DEF wk
  <2> QED BY <1>1, <2>1, <2>2, BlankWorker DEF Planned, Windowed
<1>6. ASSUME NEW w \in Workers, Commit(w) \/ CommitPartly(w) \/ FetchFails(w)
      PROVE  \E pc \in {"done", "more", "error"} : worker' = [worker EXCEPT ![w] = Result(pc)]
  BY <1>6 DEF Commit, CommitPartly, FetchFails
<1>7. ASSUME NEW w \in Workers, CommitRejected(w)
      PROVE  worker' = [worker EXCEPT ![w] = Result("changed")]
             \/ worker' = [worker EXCEPT ![w] = IdleWorker]
  BY <1>7 DEF CommitRejected
<1>8. ASSUME NEW w \in Workers, Step(w) \/ FetchFails(w) \/ CommitPartly(w) \/ Crash(w)
                                \/ Heartbeat(w)
      PROVE  WorkersStep
  <2>1. CASE Load(w) \/ Prepare(w) \/ AssertLinked(w) \/ Reset(w)
    BY <2>1, PreparingWorkers
  <2>2. CASE Fetch(w)
    BY <2>2, FetchedWorkers
  <2>3. CASE Commit(w) \/ CommitPartly(w) \/ FetchFails(w)
    BY <1>2, <1>6, <2>3
  <2>4. CASE CommitRejected(w)
    BY <1>2, <1>4, <1>7, <2>4
  <2>5. CASE Finish(w) \/ Crash(w)
    BY <1>4, <2>5 DEF Finish, Crash
  <2>6. CASE Heartbeat(w)
    BY <1>1, <2>6, KeptWorkers DEF Heartbeat
  <2> QED BY <1>8, <2>1, <2>2, <2>3, <2>4, <2>5, <2>6 DEF Step
<1>9. ASSUME Tick \/ (\E g \in Games : Publish(g))
               \/ (\E a \in Accounts \cup {NoAccount} : Relink(a))
               \/ (\E p \in Policies : SetPolicy(p))
      PROVE  worker' = worker
  BY <1>9 DEF Tick, Publish, Relink, SetPolicy
<1>10. CASE PlanNew \/ RecoverExpired \/ BackoffElapses \/ LeaseExpires \/ LeaseOverrun
            \/ UNCHANGED vars
  BY <1>1, <1>10, KeptWorkers DEF PlanNew, RecoverExpired, BackoffElapses, LeaseExpires,
                                  LeaseOverrun, vars
<1> QED BY <1>1, <1>5, <1>8, <1>9, <1>10, KeptWorkers DEF Next

-----------------------------------------------------------------------------
(* The synchronisation state.                                              *)

\* An import moves the watermark to the end of its window, or the cursor inside
\* of it.
Advances(w) ==
  /\ worker[w].pc = "commit" /\ Holds(w) /\ Current(worker[w])
  /\ worker'[w].pc \notin Planned \cup Windowed
  /\ state'.account = state.account /\ state'.policy = state.policy
  /\ \/ /\ state'.last = worker[w].window.end /\ state'.cursor = NoWindow
        /\ Due(state.account, state.policy, worker[w].window.end) \subseteq saved'
     \/ /\ state'.last = state.last /\ state'.cursor.end = worker[w].window.end
        /\ Covered(state.account, state.policy, state'.cursor, saved')

StateStep ==
  /\ state' \in State
  /\ \/ state' = state
     \/ state'.last = 0 /\ state'.cursor = NoWindow
     \/ \E w \in Workers : Advances(w)

LEMMA CommittedState ==
  ASSUME Inv, NEW w \in Workers, Commit(w) \/ CommitPartly(w)
  PROVE  state' \in State /\ Advances(w)
<1> DEFINE wk == worker[w]
<1>1. /\ wk \in Worker /\ state \in State /\ wk.pc = "commit" /\ Holds(w) /\ Current(wk)
      /\ state.account = wk.account /\ state.policy = wk.policy
  BY DEF Inv, TypeOK, Commit, CommitPartly, Current, Fits
<1>2. wk.window \in Window /\ wk.next \in Times /\ wk.window.end \in Times
      /\ NoWindow \in Window
  BY <1>1, Numbers DEF Worker, Window, NoWindow
<1>3. /\ Covered(wk.account, wk.policy, wk.window, saved)
      /\ wk.complete =>
           Due(wk.account, wk.policy, wk.window.end) \subseteq saved \cup wk.batch
      /\ ~wk.complete =>
           Covered(wk.account, wk.policy, [wk.window EXCEPT !.until = wk.next],
                   saved \cup wk.batch)
  BY <1>1 DEF Inv, WindowOK, Windowed
<1> HIDE DEF wk
<1>7. worker'[w].pc \notin Planned \cup Windowed
  <2>1. PICK pc \in {"done", "more", "error"} : worker' = [worker EXCEPT ![w] = Result(pc)]
    BY DEF Commit, CommitPartly
  <2>2. worker'[w] = Result(pc)
    BY <2>1 DEF Inv, TypeOK
  <2> QED BY <2>2, ResultType DEF Planned, Windowed
<1>4. ASSUME NEW win \in Window, win.end = wk.window.end,
             state' = [state EXCEPT !.cursor = win],
             Covered(wk.account, wk.policy, win, saved')
      PROVE  state' \in State /\ Advances(w)
  <2>1. /\ state' \in State /\ state'.cursor = win /\ state'.last = state.last
        /\ state'.account = state.account /\ state'.policy = state.policy
    BY <1>1, <1>4 DEF State
  <2> QED BY <1>1, <1>4, <1>7, <2>1 DEF Advances, wk
<1>5. CASE Commit(w)
  <2>1. saved' = saved \cup wk.batch /\ state' = Advanced(wk)
    BY <1>5 DEF Commit, wk
  <2>2. CASE wk.complete
    <3>1. state' = [state EXCEPT !.last = wk.window.end, !.cursor = NoWindow]
      BY <2>1, <2>2 DEF Advanced
    <3>2. /\ state' \in State /\ state'.cursor = NoWindow /\ state'.last = wk.window.end
          /\ state'.account = state.account /\ state'.policy = state.policy
      BY <1>1, <1>2, <3>1 DEF State
    <3>3. Due(state.account, state.policy, wk.window.end) \subseteq saved'
      BY <1>1, <1>3, <2>1, <2>2
    <3> QED BY <1>1, <1>7, <3>2, <3>3 DEF Advances, wk
  <2>3. CASE ~wk.complete
    <3> DEFINE win == [wk.window EXCEPT !.until = wk.next]
    <3>1. win \in Window /\ win.end = wk.window.end
      BY <1>2 DEF Window
    <3>2. state' = [state EXCEPT !.cursor = win]
      BY <2>1, <2>3 DEF Advanced
    <3>3. Covered(wk.account, wk.policy, win, saved')
      BY <1>3, <2>1, <2>3
    <3> HIDE DEF win
    <3> QED BY <1>4, <3>1, <3>2, <3>3
  <2> QED BY <2>2, <2>3
<1>6. CASE CommitPartly(w)
  <2>1. saved \subseteq saved' /\ state' = [state EXCEPT !.cursor = wk.window]
    BY <1>6 DEF CommitPartly, AfterErrors, wk
  <2>2. Covered(wk.account, wk.policy, wk.window, saved')
    BY <1>3, <2>1, CoveredMore
  <2> QED BY <1>2, <1>4, <2>1, <2>2
<1> QED BY <1>5, <1>6

LEMMA ResetState ==
  ASSUME Inv, NEW w \in Workers, Reset(w)
  PROVE  StateStep
<1> DEFINE wk == worker[w]
           a == IF wk.seen.account # wk.account THEN wk.account ELSE state.account
<1>1. wk \in Worker /\ state \in State
  BY DEF Inv, TypeOK
<1>2. a \in Accounts \cup {NoAccount} /\ wk.policy \in Policies
  BY <1>1 DEF State, Worker
<1>3. state' = FreshOf(state, a, wk.policy) \/ state' = state
  BY <1>1 DEF Reset, FreshOf, State
<1> HIDE DEF a, wk
<1> QED BY <1>1, <1>2, <1>3, FreshState DEF StateStep

LEMMA StateStepOfNext ==
  ASSUME Inv, [Next]_vars
  PROVE  StateStep
<1>1. state \in State /\ policy \in Policies /\ conn \in Accounts \cup {NoAccount}
  BY DEF Inv, TypeOK
<1>2. ASSUME NEW a \in Accounts \cup {NoAccount}, Relink(a)
      PROVE  StateStep
  <2>1. state' = FreshOf(state, a, state.policy)
    BY <1>1, <1>2 DEF Relink, FreshOf, State
  <2>2. state.policy \in Policies \cup {"none"}
    BY <1>1 DEF State
  <2> QED BY <1>1, <2>1, <2>2, FreshState DEF StateStep
<1>3. ASSUME NEW p \in Policies, SetPolicy(p)
      PROVE  StateStep
  <2>1. state' = FreshOf(state, state.account, p)
    BY <1>1, <1>3 DEF SetPolicy, FreshOf, State
  <2>2. state.account \in Accounts \cup {NoAccount}
    BY <1>1 DEF State
  <2> QED BY <1>1, <2>1, <2>2, FreshState DEF StateStep
<1>4. ASSUME NEW w \in Workers, Claim(w) \/ Step(w) \/ Heartbeat(w) \/ FetchFails(w)
                                \/ CommitPartly(w) \/ Crash(w)
      PROVE  StateStep
  <2>1. CASE Commit(w) \/ CommitPartly(w)
    BY <2>1, CommittedState DEF StateStep
  <2>2. CASE Reset(w)
    BY <2>2, ResetState
  <2> QED BY <1>1, <1>4, <2>1, <2>2
          DEF Step, Claim, Load, Prepare, AssertLinked, Fetch, CommitRejected, Finish,
              Heartbeat, FetchFails, Crash, StateStep
<1>5. ASSUME Tick \/ (\E g \in Games : Publish(g))
      PROVE  state' = state
  BY <1>5 DEF Tick, Publish
<1>6. CASE PlanNew \/ RecoverExpired \/ BackoffElapses \/ LeaseExpires \/ LeaseOverrun
           \/ UNCHANGED vars
  BY <1>1, <1>6 DEF PlanNew, RecoverExpired, BackoffElapses, LeaseExpires, LeaseOverrun,
                    vars, StateStep
<1> QED BY <1>1, <1>2, <1>3, <1>4, <1>5, <1>6 DEF Next, StateStep

\* What an import moves is true, of whatever account and rules.
LEMMA StateKept ==
  ASSUME Inv, WorldStep, StateStep
  PROVE  StateOK'
<1>1. /\ now \in Nat /\ now' \in Nat /\ now <= now' /\ saved \subseteq saved'
  BY Numbers DEF Inv, TypeOK, WorldStep, Grows
<1>2. state \in State /\ state' \in State
  BY DEF Inv, TypeOK, StateStep
<1>3. /\ state.last \in Nat /\ state'.last \in Nat /\ state.cursor.end \in Nat
      /\ state'.cursor.end \in Nat
  BY <1>2, Numbers DEF State, Window
<1>4. CASE state' = state
  <2>1. state.policy \in Policies =>
          /\ Due(state.account, state.policy, state.last) \subseteq saved'
          /\ state.cursor # NoWindow =>
               Covered(state.account, state.policy, state.cursor, saved')
    BY <1>1, CoveredMore DEF Inv, StateOK
  <2>2. /\ state.last <= now'
        /\ state.cursor # NoWindow => state.last <= state.cursor.end
                                      /\ state.cursor.end <= now'
    BY <1>1, <1>3 DEF Inv, StateOK
  <2> QED BY <1>4, <2>1, <2>2, Zenon DEF StateOK, Due, Covered
<1>5. CASE state'.last = 0 /\ state'.cursor = NoWindow
  <2>1. ASSUME NEW a, NEW p
        PROVE  Due(a, p, 0) = {}
    BY Numbers DEF Due
  <2>2. 0 <= now'
    BY <1>1
  <2> QED BY <1>5, <2>1, <2>2, Zenon DEF StateOK, Due
<1>6. ASSUME NEW w \in Workers, Advances(w)
      PROVE  StateOK'
  <2> DEFINE end == worker[w].window.end
  <2>1. end \in Nat /\ end <= now' /\ state.last <= end
    <3>1. worker[w] \in Worker
      BY DEF Inv, TypeOK
    <3>2. end \in Nat
      BY <3>1, Numbers DEF Worker, Window
    <3>3. end <= now /\ state.last <= end
      BY <1>6 DEF Inv, Advances, WindowOK, FenceOK, Windowed
    <3> QED BY <1>1, <3>2, <3>3
  <2>2. state'.account = state.account /\ state'.policy = state.policy
    BY <1>6 DEF Advances
  <2> HIDE DEF end
  <2>3. CASE /\ state'.last = end /\ state'.cursor = NoWindow
             /\ Due(state.account, state.policy, end) \subseteq saved'
    BY <2>1, <2>2, <2>3, Zenon DEF StateOK, Due
  <2>4. CASE /\ state'.last = state.last /\ state'.cursor.end = end
             /\ Covered(state.account, state.policy, state'.cursor, saved')
    <3>1. state.policy \in Policies => Due(state.account, state.policy, state.last) \subseteq saved'
      BY <1>1 DEF Inv, StateOK
    <3>2. state.last <= now'
      BY <1>1, <1>3 DEF Inv, StateOK
    <3> QED BY <2>1, <2>2, <2>4, <3>1, <3>2, Zenon DEF StateOK, Due, Covered
  <2> QED BY <1>6, <2>3, <2>4 DEF Advances, end
<1> QED BY <1>4, <1>5, <1>6 DEF StateStep

-----------------------------------------------------------------------------
(* The lease: only its holder moves the watermark.                         *)

\* How an invocation comes to plan or to fetch a window.
Turn(w) ==
  \/ worker'[w].pc \notin Planned \cup Windowed
  \/ worker'[w] = worker[w]
  \/ state'.last = 0
  \/ /\ state' = state
     /\ \/ /\ worker'[w].pc \in Planned /\ worker'[w].start = now
        \/ /\ worker'[w].pc \in Planned /\ worker[w].pc \in Planned
           /\ worker'[w].start = worker[w].start
        \/ /\ worker'[w].pc = "fetch" /\ worker[w].pc \in Planned
           /\ worker'[w].window = SyncWindow(state, worker[w].start)
        \/ /\ worker'[w].pc = "commit" /\ worker[w].pc = "fetch"
           /\ worker'[w].window = worker[w].window

LEMMA PreparedTurn ==
  ASSUME NEW wk \in Worker, NEW s
  PROVE  /\ Prepared(wk, s).pc \in {"done", "fetch"}
         /\ Prepared(wk, s).pc = "fetch" => Prepared(wk, s).window = SyncWindow(s, wk.start)
<1>1. Result("done").pc = "done"
  BY ResultType
<1>2. CASE Wanted[wk.policy] = {}
  BY <1>1, <1>2 DEF Prepared
<1>3. CASE Wanted[wk.policy] # {}
  <2>1. Prepared(wk, s) = [wk EXCEPT !.window = SyncWindow(s, wk.start), !.start = 0,
                                     !.seen = Identity(NoState), !.pc = "fetch"]
    BY <1>3 DEF Prepared
  <2> QED BY <2>1 DEF Worker
<1> QED BY <1>2, <1>3

LEMMA StepTurn ==
  ASSUME Inv, NEW w \in Workers, Step(w)
  PROVE  Turn(w)
<1> DEFINE wk == worker[w]
<1>1. wk \in Worker /\ worker \in [Workers -> Worker] /\ state \in State
  BY DEF Inv, TypeOK
<1>2. \A pc \in {"done", "more", "error", "changed"} :
        Result(pc).pc \notin Planned \cup Windowed
  BY ResultType DEF Planned, Windowed
<1>3. IdleWorker.pc \notin Planned \cup Windowed
  BY DEF IdleWorker, Planned, Windowed
<1> HIDE DEF wk
<1>4. CASE Load(w)
  <2>1. worker'[w] = Result("done")
        \/ worker'[w] = [wk EXCEPT !.account = conn, !.policy = policy, !.start = now,
                                   !.pc = "prepare"]
    BY <1>1, <1>4 DEF Load, wk
  <2>2. state' = state
    BY <1>4 DEF Load
  <2>3. LET next == [wk EXCEPT !.account = conn, !.policy = policy, !.start = now,
                               !.pc = "prepare"]
        IN  next.pc = "prepare" /\ next.start = now
    BY <1>1 DEF Worker
  <2> QED BY <1>2, <2>1, <2>2, <2>3 DEF Turn, Planned
<1>5. CASE Prepare(w)
  <2>1. \/ worker'[w] = Prepared(wk, state)
        \/ worker'[w] = [wk EXCEPT !.seen = Identity(state), !.pc = "assert"]
        \/ worker'[w] = [wk EXCEPT !.seen = Identity(state), !.pc = "reset"]
    BY <1>1, <1>5 DEF Prepare, wk
  <2>2. state' = state /\ wk.pc \in Planned
    BY <1>5 DEF Prepare, Planned, wk
  <2>3. ASSUME NEW pc \in {"assert", "reset"},
               worker'[w] = [wk EXCEPT !.seen = Identity(state), !.pc = pc]
        PROVE  worker'[w].pc = pc /\ worker'[w].start = wk.start
    BY <1>1, <2>3 DEF Worker
  <2>4. CASE worker'[w] = Prepared(wk, state)
    <3>1. worker'[w].pc \in {"done", "fetch"}
          /\ (worker'[w].pc = "fetch" => worker'[w].window = SyncWindow(state, wk.start))
      BY <1>1, <2>4, PreparedTurn
    <3> QED BY <2>2, <3>1 DEF Turn, Planned, Windowed, wk
  <2> QED BY <2>1, <2>2, <2>3, <2>4 DEF Turn, Planned, wk
<1>6. CASE AssertLinked(w)
  <2>1. \/ worker'[w] = [wk EXCEPT !.pc = "reset"]
        \/ worker'[w] = Result("changed")
    BY <1>1, <1>6 DEF AssertLinked, wk
  <2>2. state' = state /\ wk.pc \in Planned
    BY <1>6 DEF AssertLinked, Planned, wk
  <2>3. [wk EXCEPT !.pc = "reset"].pc = "reset" /\ [wk EXCEPT !.pc = "reset"].start = wk.start
    BY <1>1 DEF Worker
  <2> QED BY <1>2, <2>1, <2>2, <2>3 DEF Turn, Planned, wk
<1>7. CASE Reset(w)
  <2>1. CASE Resettable(wk) /\ state'.last = 0
    BY <2>1 DEF Turn
  <2>2. CASE worker' = [worker EXCEPT ![w] = Result("changed")]
    <3>1. worker'[w] = Result("changed")
      BY <1>1, <2>2
    <3> QED BY <1>2, <3>1 DEF Turn
  <2>3. [state EXCEPT !.account = IF wk.seen.account # wk.account THEN wk.account ELSE @,
                      !.policy = wk.policy, !.last = 0, !.cursor = NoWindow].last = 0
    BY <1>1 DEF State
  <2> QED BY <1>7, <2>1, <2>2, <2>3 DEF Reset, wk
<1>8. CASE Fetch(w)
  <2>1. \/ worker'[w] = Result("error")
        \/ \E S \in SUBSET Games, c \in BOOLEAN, t \in Times :
             worker'[w] = [wk EXCEPT !.batch = S, !.complete = c, !.next = t,
                                     !.pc = "commit"]
    <3>1. InWindow(wk) \in SUBSET Games
      BY DEF InWindow, Inv, TypeOK
    <3> QED BY <1>1, <1>8, <3>1, Numbers DEF Fetch, wk
  <2>2. state' = state /\ wk.pc = "fetch"
    BY <1>8 DEF Fetch, wk
  <2>3. ASSUME NEW S \in SUBSET Games, NEW c \in BOOLEAN, NEW t \in Times,
               worker'[w] = [wk EXCEPT !.batch = S, !.complete = c, !.next = t,
                                       !.pc = "commit"]
        PROVE  worker'[w].pc = "commit" /\ worker'[w].window = wk.window
    BY <1>1, <2>3 DEF Worker
  <2> QED BY <1>2, <2>1, <2>2, <2>3 DEF Turn, wk
<1>9. CASE Commit(w) \/ CommitRejected(w) \/ Finish(w)
  <2>1. \/ worker'[w] = IdleWorker
        \/ \E pc \in {"done", "more", "error", "changed"} : worker'[w] = Result(pc)
    BY <1>1, <1>9 DEF Commit, CommitRejected, Finish
  <2> QED BY <1>2, <1>3, <2>1 DEF Turn
<1> QED BY <1>4, <1>5, <1>6, <1>7, <1>8, <1>9 DEF Step

LEMMA TurnOfNext ==
  ASSUME Inv, [Next]_vars, NEW w \in Workers
  PROVE  Turn(w)
<1>1. worker \in [Workers -> Worker]
  BY DEF Inv, TypeOK
<1>2. ASSUME NEW v \in Workers, Step(v), v # w
      PROVE  worker'[w] = worker[w]
  BY <1>1, <1>2 DEF Step, Load, Prepare, AssertLinked, Reset, Fetch, Commit, CommitRejected,
                    Finish
<1>3. ASSUME NEW v \in Workers,
             Claim(v) \/ FetchFails(v) \/ CommitPartly(v) \/ Crash(v)
      PROVE  worker'[w].pc \notin Planned \cup Windowed \/ worker'[w] = worker[w]
  <2>1. CASE v # w
    BY <1>1, <1>3, <2>1 DEF Claim, FetchFails, CommitPartly, Crash
  <2>2. CASE v = w
    <3>1. worker'[w] \in {IdleWorker, Result("error"), [IdleWorker EXCEPT !.pc = "load"]}
      BY <1>1, <1>3, <2>2 DEF Claim, FetchFails, CommitPartly, Crash
    <3>2. [IdleWorker EXCEPT !.pc = "load"].pc = "load" /\ IdleWorker.pc = "idle"
          /\ Result("error").pc = "error"
      BY ResultType DEF IdleWorker
    <3> QED BY <3>1, <3>2 DEF Planned, Windowed
  <2> QED BY <2>1, <2>2
<1>4. ASSUME NEW v \in Workers, Heartbeat(v)
      PROVE  worker' = worker
  BY <1>4 DEF Heartbeat
<1>5. ASSUME \/ Tick \/ \E g \in Games : Publish(g)
             \/ \E a \in Accounts \cup {NoAccount} : Relink(a)
             \/ \E p \in Policies : SetPolicy(p)
             \/ PlanNew \/ RecoverExpired \/ BackoffElapses
             \/ LeaseExpires \/ LeaseOverrun \/ UNCHANGED vars
      PROVE  worker' = worker
  BY <1>5 DEF Tick, Publish, Relink, SetPolicy, PlanNew, RecoverExpired, BackoffElapses,
              LeaseExpires, LeaseOverrun, vars
<1>6. (\E v \in Workers : Step(v)) => Turn(w)
  BY <1>2, StepTurn DEF Turn
<1> QED BY <1>3, <1>4, <1>5, <1>6 DEF Next, Turn

\* With its outcome a job runs no more.
LEMMA OutcomeStatus ==
  ASSUME job \in Job, NEW w \in Workers, Finish(w)
  PROVE  Outcome(w).status \in {"QUEUED", "SUCCEEDED", "FAILED"}
<1>1. \A due \in BOOLEAN : Retried(due).status \in {"QUEUED", "FAILED"}
  BY DEF Retried, Requeued, Ended, Job
<1>2. CASE worker[w].pc = "done"
  BY <1>2 DEF Outcome, Ended, Job
<1>3. CASE worker[w].pc = "more"
  BY <1>3 DEF Outcome, Requeued, Job
<1>4. CASE worker[w].pc = "error"
  BY <1>1, <1>4 DEF Outcome
<1>5. CASE worker[w].pc = "changed"
  BY <1>1, <1>5 DEF Outcome
<1> QED BY <1>2, <1>3, <1>4, <1>5 DEF Finish

\* A lease is gained by a claim alone.
LEMMA LeaseGained ==
  ASSUME Inv, [Next]_vars, NEW w \in Workers, Holds(w)'
  PROVE  Holds(w) \/ worker'[w].pc = "load"
<1>1. job \in Job /\ worker \in [Workers -> Worker] /\ w # "nobody"
  BY SyncAssumption DEF Inv, TypeOK
<1>2. ASSUME NEW status \in {"QUEUED", "SUCCEEDED", "FAILED"}, job'.status = status
      PROVE  FALSE
  BY <1>2 DEF Holds
<1>3. \A due \in BOOLEAN : Retried(due).status \in {"QUEUED", "FAILED"}
  BY <1>1 DEF Retried, Requeued, Ended, Job
<1>4. ~PlanNew /\ ~RecoverExpired
  <2>1. PlanNew => job'.status = "QUEUED"
    BY DEF PlanNew
  <2>2. RecoverExpired => job'.status \in {"QUEUED", "FAILED"}
    BY <1>3 DEF RecoverExpired
  <2> QED BY <1>2, <2>1, <2>2
<1>5. ASSUME NEW v \in Workers, Claim(v)
      PROVE  Holds(w) \/ worker'[w].pc = "load"
  <2>1. job'.holder = v
    BY <1>1, <1>5 DEF Claim, Job
  <2>2. v = w
    BY <2>1 DEF Holds
  <2>3. worker'[w] = [IdleWorker EXCEPT !.pc = "load"]
    BY <1>1, <1>5, <2>2 DEF Claim
  <2> QED BY <2>3 DEF IdleWorker
<1>6. ASSUME NEW v \in Workers, Finish(v)
      PROVE  job' = job
  BY <1>1, <1>2, <1>6, OutcomeStatus DEF Finish
<1>7. ASSUME NEW v \in Workers, Heartbeat(v)
      PROVE  job'.status = job.status /\ job'.holder = job.holder
  BY <1>1, <1>7 DEF Heartbeat, Job
<1>8. ASSUME BackoffElapses \/ LeaseExpires \/ LeaseOverrun
      PROVE  job'.status = job.status /\ job'.holder = job.holder
  BY <1>1, <1>8 DEF BackoffElapses, LeaseExpires, LeaseOverrun, EndLease, Job
<1>9. ASSUME NEW v \in Workers, Step(v) \/ FetchFails(v) \/ CommitPartly(v) \/ Crash(v)
      PROVE  job' = job
  BY <1>6, <1>9 DEF Step, Load, Prepare, AssertLinked, Reset, Fetch, Commit,
                    CommitRejected, FetchFails, CommitPartly, Crash
<1>10. ASSUME \/ Tick \/ \E g \in Games : Publish(g)
              \/ \E a \in Accounts \cup {NoAccount} : Relink(a)
              \/ \E p \in Policies : SetPolicy(p)
              \/ UNCHANGED vars
       PROVE  job' = job
  BY <1>10 DEF Tick, Publish, Relink, SetPolicy, vars
<1> QED BY <1>4, <1>5, <1>7, <1>8, <1>9, <1>10 DEF Next, Holds

\* Before and after its step, the holder's window ends at the watermark or later.
LEMMA FenceKept ==
  ASSUME Inv, [Next]_vars, WorkersStep, StateStep, NEW w \in Workers
  PROVE  FenceOK(w)'
<1> SUFFICES ASSUME Holds(w)', worker'[w].pc \in Planned \cup Windowed
             PROVE  /\ worker'[w].pc \in Planned => state'.last <= worker'[w].start
                    /\ worker'[w].pc \in Windowed => state'.last <= worker'[w].window.end
  BY DEF FenceOK
<1>1. Holds(w)
  BY LeaseGained DEF Planned, Windowed
<1>2. /\ worker[w] \in Worker /\ worker'[w] \in Worker /\ state \in State /\ state' \in State
      /\ now \in Nat /\ MaxNow \in Nat
  BY Numbers DEF Inv, TypeOK, WorkersStep, StateStep
<1>3. /\ state.last \in Nat /\ worker[w].start \in Nat /\ worker[w].window.end \in Nat
      /\ worker'[w].start \in Nat /\ worker'[w].window.end \in Nat
      /\ worker[w].start \in Times
  BY <1>2, Numbers DEF State, Worker, Window
<1>4. /\ worker[w].pc \in Planned => state.last <= worker[w].start
      /\ worker[w].pc \in Windowed => state.last <= worker[w].window.end
  BY <1>1 DEF Inv, FenceOK
<1>5. CASE state'.last = 0
  BY <1>3, <1>5
<1>6. CASE state' = state
  <2>1. CASE worker'[w] = worker[w]
    BY <1>4, <1>6, <2>1
  <2>2. CASE worker'[w].pc \in Planned /\ worker'[w].start = now
    BY <1>6, <2>2 DEF Inv, StateOK, Planned, Windowed
  <2>3. CASE /\ worker'[w].pc \in Planned /\ worker[w].pc \in Planned
             /\ worker'[w].start = worker[w].start
    BY <1>4, <1>6, <2>3 DEF Planned, Windowed
  <2>4. CASE /\ worker'[w].pc = "fetch" /\ worker[w].pc \in Planned
             /\ worker'[w].window = SyncWindow(state, worker[w].start)
    <3>1. state.last <= SyncWindow(state, worker[w].start).end
      <4>1. CASE state.cursor # NoWindow
        BY <4>1 DEF SyncWindow, Inv, StateOK
      <4>2. CASE state.cursor = NoWindow
        BY <1>4, <2>4, <4>2 DEF SyncWindow
      <4> QED BY <4>1, <4>2
    <3> QED BY <1>6, <2>4, <3>1 DEF Planned
  <2>5. CASE /\ worker'[w].pc = "commit" /\ worker[w].pc = "fetch"
             /\ worker'[w].window = worker[w].window
    BY <1>4, <1>6, <2>5 DEF Planned, Windowed
  <2>6. Turn(w)
    BY TurnOfNext
  <2> QED BY <1>5, <2>1, <2>2, <2>3, <2>4, <2>5, <2>6 DEF Turn
<1>7. ASSUME NEW v \in Workers, Advances(v)
      PROVE  FALSE
  BY <1>1, <1>7 DEF Advances, Holds
<1> QED BY <1>5, <1>6, <1>7 DEF StateStep

-----------------------------------------------------------------------------
(* The job, its attempts and the counters.                                 *)

FaultsStep == faults' \in 0..MaxFaults /\ faults <= faults'

LEMMA CountsStep ==
  ASSUME Inv, [Next]_vars
  PROVE  FaultsStep /\ changes' \in 0..MaxChanges
<1>1. faults \in Nat /\ changes \in Nat /\ faults <= MaxFaults /\ changes <= MaxChanges
      /\ MaxFaults \in Nat /\ MaxChanges \in Nat
  BY Numbers DEF Inv, TypeOK
<1>2. faults' = faults \/ Fault
  BY DEF Next, Tick, Publish, Relink, SetPolicy, PlanNew, RecoverExpired, BackoffElapses,
         LeaseExpires, LeaseOverrun, Claim, Step, Load, Prepare, AssertLinked, Reset,
         Fetch, Commit, CommitRejected, Finish, Heartbeat, FetchFails, CommitPartly, Crash,
         counts, vars
<1>3. changes' = changes \/ Change
  BY DEF Next, Tick, Publish, Relink, SetPolicy, PlanNew, RecoverExpired, BackoffElapses,
         LeaseExpires, LeaseOverrun, Claim, Step, Load, Prepare, AssertLinked, Reset,
         Fetch, Commit, CommitRejected, Finish, Heartbeat, FetchFails, CommitPartly, Crash,
         counts, vars
<1>4. FaultsStep
  BY <1>1, <1>2 DEF Fault, FaultsStep
<1>5. changes' \in 0..MaxChanges
  BY <1>1, <1>3 DEF Change
<1> QED BY <1>4, <1>5

\* The account and the rules are one of those there are.
LEMMA UserStep ==
  ASSUME Inv, [Next]_vars
  PROVE  conn' \in Accounts \cup {NoAccount} /\ policy' \in Policies
<1>1. conn \in Accounts \cup {NoAccount} /\ policy \in Policies
  BY DEF Inv, TypeOK
<1>2. \/ UNCHANGED <<conn, policy>>
      \/ \E a \in Accounts \cup {NoAccount} : conn' = a /\ policy' = policy
      \/ \E p \in Policies : policy' = p /\ conn' = conn
  BY DEF Next, Tick, Publish, Relink, SetPolicy, PlanNew, RecoverExpired, BackoffElapses,
         LeaseExpires, LeaseOverrun, Claim, Step, Load, Prepare, AssertLinked, Reset,
         Fetch, Commit, CommitRejected, Finish, Heartbeat, FetchFails, CommitPartly, Crash,
         user, vars
<1> QED BY <1>1, <1>2

JobStep ==
  /\ job' \in Job /\ ((job'.holder # "nobody") <=> (job'.status = "RUNNING"))
  /\ AttemptsOK'

\* A holder that goes idle with its job running has crashed.
LEMMA IdleHolder ==
  ASSUME Inv, [Next]_vars, NEW w \in Workers, Holds(w), job' = job,
         worker[w].pc # "idle", worker'[w].pc = "idle"
  PROVE  faults' = faults + 1
<1>1. worker \in [Workers -> Worker] /\ job \in Job
  BY DEF Inv, TypeOK
<1>2. \A pc \in {"done", "more", "error", "changed"} : Result(pc).pc = pc
  BY ResultType
<1>3. worker'[w] # worker[w]
  OBVIOUS
<1>4. ASSUME NEW v \in Workers, v # w,
             Claim(v) \/ Step(v) \/ FetchFails(v) \/ CommitPartly(v) \/ Crash(v)
      PROVE  FALSE
  BY <1>1, <1>3, <1>4 DEF Claim, Step, Load, Prepare, AssertLinked, Reset, Fetch, Commit,
                          CommitRejected, Finish, FetchFails, CommitPartly, Crash
<1>5. ASSUME Load(w) \/ Prepare(w) \/ AssertLinked(w) \/ Reset(w) \/ Fetch(w)
      PROVE  FALSE
  <2>1. \E wk : worker' = [worker EXCEPT ![w] = wk] /\ wk.pc # "idle"
    <3>1. CASE Load(w)
      <4>1. \/ worker' = [worker EXCEPT ![w] = Result("done")]
            \/ worker' = [worker EXCEPT ![w] = [worker[w] EXCEPT
                            !.account = conn, !.policy = policy, !.start = now,
                            !.pc = "prepare"]]
        BY <3>1 DEF Load
      <4>2. [worker[w] EXCEPT !.account = conn, !.policy = policy, !.start = now,
                              !.pc = "prepare"].pc = "prepare"
        BY <1>1 DEF Worker
      <4> QED BY <1>2, <4>1, <4>2
    <3>2. CASE Prepare(w)
      <4>1. \/ worker' = [worker EXCEPT ![w] = Prepared(worker[w], state)]
            \/ \E pc \in {"assert", "reset"} :
                 worker' = [worker EXCEPT ![w] = [worker[w] EXCEPT
                              !.seen = Identity(state), !.pc = pc]]
        BY <3>2 DEF Prepare
      <4>2. Prepared(worker[w], state).pc # "idle"
        BY <1>1, PreparedTurn
      <4>3. \A pc \in {"assert", "reset"} :
              [worker[w] EXCEPT !.seen = Identity(state), !.pc = pc].pc = pc
        BY <1>1 DEF Worker
      <4> QED BY <4>1, <4>2, <4>3
    <3>3. CASE AssertLinked(w)
      <4>1. \/ worker' = [worker EXCEPT ![w] = Result("changed")]
            \/ worker' = [worker EXCEPT ![w] = [worker[w] EXCEPT !.pc = "reset"]]
        BY <3>3 DEF AssertLinked
      <4>2. [worker[w] EXCEPT !.pc = "reset"].pc = "reset"
        BY <1>1 DEF Worker
      <4> QED BY <1>2, <4>1, <4>2
    <3>4. CASE Reset(w)
      <4>1. \/ worker' = [worker EXCEPT ![w] = Result("changed")]
            \/ \E s : worker' = [worker EXCEPT ![w] = Prepared(worker[w], s)]
        BY <3>4, Zenon DEF Reset
      <4>2. \A s : Prepared(worker[w], s).pc # "idle"
        BY <1>1, PreparedTurn
      <4> QED BY <1>2, <4>1, <4>2
    <3>5. CASE Fetch(w)
      <4>1. \/ worker' = [worker EXCEPT ![w] = Result("error")]
            \/ \E S \in SUBSET InWindow(worker[w]), c \in BOOLEAN, t \in Times :
                 worker' = [worker EXCEPT ![w] = [worker[w] EXCEPT
                              !.batch = S, !.complete = c, !.next = t, !.pc = "commit"]]
        BY <3>5, Numbers DEF Fetch
      <4>2. ASSUME NEW S, NEW c, NEW t
            PROVE  [worker[w] EXCEPT !.batch = S, !.complete = c, !.next = t,
                                     !.pc = "commit"].pc = "commit"
        BY <1>1 DEF Worker
      <4> QED BY <1>2, <4>1, <4>2
    <3> QED BY <1>5, <3>1, <3>2, <3>3, <3>4, <3>5
  <2> QED BY <1>1, <2>1
<1>6. ASSUME Claim(w) \/ Commit(w) \/ CommitPartly(w) \/ FetchFails(w) \/ CommitRejected(w)
             \/ Finish(w)
      PROVE  FALSE
  <2>1. CASE Claim(w)
    BY <2>1 DEF Claim
  <2>2. CASE Commit(w) \/ CommitPartly(w) \/ FetchFails(w) \/ CommitRejected(w)
    <3>1. \E pc \in {"done", "more", "error", "changed"} : worker'[w] = Result(pc)
      BY <1>1, <2>2 DEF Commit, CommitPartly, FetchFails, CommitRejected
    <3> QED BY <1>2, <3>1
  <2>3. CASE Finish(w)
    <3>1. job' = Outcome(w)
      BY <2>3 DEF Finish
    <3>2. Outcome(w).status \in {"QUEUED", "SUCCEEDED", "FAILED"}
      BY <1>1, <2>3, OutcomeStatus
    <3> QED BY <3>1, <3>2 DEF Holds
  <2> QED BY <1>6, <2>1, <2>2, <2>3
<1>7. ASSUME NEW v \in Workers, Heartbeat(v)
      PROVE  worker' = worker
  BY <1>7 DEF Heartbeat
<1>8. ASSUME \/ Tick \/ \E g \in Games : Publish(g)
             \/ \E a \in Accounts \cup {NoAccount} : Relink(a)
             \/ \E p \in Policies : SetPolicy(p)
             \/ PlanNew \/ RecoverExpired \/ BackoffElapses
             \/ LeaseExpires \/ LeaseOverrun \/ UNCHANGED vars
      PROVE  worker' = worker
  BY <1>8 DEF Tick, Publish, Relink, SetPolicy, PlanNew, RecoverExpired, BackoffElapses,
              LeaseExpires, LeaseOverrun, vars
<1>9. Crash(w)
  BY <1>3, <1>4, <1>5, <1>6, <1>7, <1>8 DEF Next, Step
<1> QED BY <1>9 DEF Crash, Fault

LEMMA SameJob ==
  ASSUME Inv, [Next]_vars, job' = job, FaultsStep
  PROVE  JobStep
<1>1. /\ job \in Job /\ ((job.holder # "nobody") <=> (job.status = "RUNNING"))
      /\ AttemptsOK /\ faults \in Nat /\ faults' \in Nat /\ faults <= faults'
  BY Numbers DEF Inv, TypeOK, FaultsStep
<1>2. job.attempts \in Nat /\ MaxAttempts \in Nat
  BY <1>1, Numbers DEF Job
<1>3. ASSUME job.status = "RUNNING"
      PROVE  /\ job.attempts <= MaxAttempts + faults'
             /\ ~job.live \/ worker'[job.holder].pc = "idle" =>
                  job.attempts < MaxAttempts + faults'
  <2> DEFINE w == job.holder
  <2>1. w \in Workers /\ Holds(w)
    BY <1>1, <1>3 DEF Job, Holds
  <2>2. /\ job.attempts <= MaxAttempts + faults
        /\ ~job.live \/ worker[w].pc = "idle" => job.attempts < MaxAttempts + faults
    BY <1>1, <1>3 DEF AttemptsOK
  <2>3. worker'[w].pc = "idle" /\ worker[w].pc # "idle" => faults' = faults + 1
    BY <2>1, IdleHolder
  <2> HIDE DEF w
  <2>4. /\ job.attempts <= MaxAttempts + faults'
        /\ ~job.live \/ worker'[w].pc = "idle" => job.attempts < MaxAttempts + faults'
    BY <1>1, <1>2, <2>2, <2>3
  <2> QED BY <2>4 DEF w
<1>4. job.status = "QUEUED" => job.attempts < MaxAttempts
  BY <1>1 DEF AttemptsOK
<1>5. AttemptsOK'
  BY <1>3, <1>4 DEF AttemptsOK
<1> QED BY <1>1, <1>5 DEF JobStep

\* A job that does not run: it has a retry left, or has ended.
LEMMA StoppedJob ==
  ASSUME Inv, job' \in Job, job'.holder = "nobody",
         job'.status \in {"QUEUED", "SUCCEEDED", "FAILED"},
         job'.status = "QUEUED" => job'.attempts < MaxAttempts
  PROVE  JobStep
BY DEF JobStep, AttemptsOK

\* The same job in another state, with the same holder, if any.
LEMMA RetypedJob ==
  ASSUME Inv
  PROVE  /\ \A status \in {"SUCCEEDED", "FAILED"} :
              /\ Ended(status) \in Job /\ Ended(status).holder = "nobody"
              /\ Ended(status).status = status
         /\ \A due \in BOOLEAN :
              /\ Requeued(due) \in Job /\ Requeued(due).holder = "nobody"
              /\ Requeued(due).status = "QUEUED"
              /\ Requeued(due).attempts = job.attempts
              /\ Retried(due) \in Job /\ Retried(due).holder = "nobody"
              /\ Retried(due).status \in {"QUEUED", "FAILED"}
              /\ Retried(due).status = "QUEUED" => Retried(due).attempts < MaxAttempts
<1>1. job \in Job
  BY DEF Inv, TypeOK
<1>2. ASSUME NEW status \in {"SUCCEEDED", "FAILED"}
      PROVE  /\ Ended(status) \in Job /\ Ended(status).holder = "nobody"
             /\ Ended(status).status = status
  BY <1>1 DEF Ended, Job
<1>3. ASSUME NEW due \in BOOLEAN
      PROVE  /\ Requeued(due) \in Job /\ Requeued(due).holder = "nobody"
             /\ Requeued(due).status = "QUEUED"
             /\ Requeued(due).attempts = job.attempts
  BY <1>1 DEF Requeued, Job
<1>4. ASSUME NEW due \in BOOLEAN
      PROVE  /\ Retried(due) \in Job /\ Retried(due).holder = "nobody"
             /\ Retried(due).status \in {"QUEUED", "FAILED"}
             /\ Retried(due).status = "QUEUED" => Retried(due).attempts < MaxAttempts
  BY <1>2, <1>3 DEF Retried
<1> QED BY <1>2, <1>3, <1>4

LEMMA ClaimedJob ==
  ASSUME Inv, NEW w \in Workers, Claim(w), FaultsStep
  PROVE  JobStep
<1>1. /\ job \in Job /\ AttemptsOK /\ faults' = faults /\ faults \in Nat
      /\ faults <= MaxFaults /\ worker \in [Workers -> Worker] /\ w # "nobody"
  BY Numbers, SyncAssumption DEF Inv, TypeOK, Claim, counts
<1>2. job.attempts \in Nat /\ MaxAttempts \in Nat /\ MaxFaults \in Nat
  BY <1>1, Numbers DEF Job
<1>3. job.attempts + 1 <= MaxAttempts + faults
  <2>1. CASE job.status = "QUEUED"
    BY <1>1, <1>2, <2>1 DEF AttemptsOK
  <2>2. CASE Expired
    BY <1>1, <1>2, <2>2 DEF AttemptsOK, Expired
  <2> QED BY <2>1, <2>2 DEF Claim
<1>4. job.attempts + 1 \in 0..(MaxAttempts + MaxFaults)
  BY <1>1, <1>2, <1>3
<1>5. job' = [job EXCEPT !.status = "RUNNING", !.attempts = @ + 1, !.live = TRUE, !.holder = w]
  BY DEF Claim
<1>6. job' \in Job
  BY <1>1, <1>4, <1>5 DEF Job
<1>7. job'.status = "RUNNING" /\ job'.attempts = job.attempts + 1 /\ job'.live = TRUE
      /\ job'.holder = w
  BY <1>1, <1>5 DEF Job
<1>8. worker'[w].pc = "load"
  <2>1. worker'[w] = [IdleWorker EXCEPT !.pc = "load"]
    BY <1>1 DEF Claim
  <2> QED BY <2>1 DEF IdleWorker
<1>9. AttemptsOK'
  BY <1>1, <1>3, <1>7, <1>8 DEF AttemptsOK
<1> QED BY <1>1, <1>6, <1>7, <1>9 DEF JobStep

\* Leases end after a fault; a heartbeat renews that of an invocation.
LEMMA LeasedJob ==
  ASSUME Inv, \/ LeaseExpires \/ LeaseOverrun \/ BackoffElapses
              \/ \E w \in Workers : Heartbeat(w)
  PROVE  JobStep
<1>1. /\ job \in Job /\ AttemptsOK /\ faults \in Nat
      /\ ((job.holder # "nobody") <=> (job.status = "RUNNING"))
  BY Numbers DEF Inv, TypeOK
<1>2. job.attempts \in Nat /\ MaxAttempts \in Nat
  BY <1>1, Numbers DEF Job
<1>3. worker' = worker
  BY DEF LeaseExpires, LeaseOverrun, BackoffElapses, Heartbeat
<1>4. CASE LeaseExpires \/ LeaseOverrun
  <2>1. job' = [job EXCEPT !.live = FALSE] /\ job.status = "RUNNING"
    BY <1>4 DEF LeaseExpires, LeaseOverrun, EndLease
  <2>2. /\ job' \in Job /\ job'.status = job.status /\ job'.holder = job.holder
        /\ job'.attempts = job.attempts
    BY <1>1, <2>1 DEF Job
  <2>3. /\ job.attempts < MaxAttempts + faults' /\ job.attempts <= MaxAttempts + faults'
    <3>1. job.attempts <= MaxAttempts + faults
      BY <1>1, <2>1 DEF AttemptsOK
    <3>2. CASE LeaseExpires
      <4>1. job.attempts < MaxAttempts + faults /\ faults' = faults
        BY <1>1, <2>1, <3>2 DEF AttemptsOK, LeaseExpires, counts
      <4> QED BY <3>1, <4>1
    <3>3. CASE LeaseOverrun
      <4>1. faults' = faults + 1
        BY <3>3 DEF LeaseOverrun, Fault
      <4> QED BY <1>1, <1>2, <3>1, <4>1
    <3> QED BY <1>4, <3>2, <3>3
  <2> QED BY <1>1, <2>1, <2>2, <2>3 DEF JobStep, AttemptsOK
<1>5. CASE BackoffElapses
  <2>1. job' = [job EXCEPT !.due = TRUE] /\ job.status = "QUEUED"
    BY <1>5 DEF BackoffElapses
  <2>2. /\ job' \in Job /\ job'.status = job.status /\ job'.holder = job.holder
        /\ job'.attempts = job.attempts
    BY <1>1, <2>1 DEF Job
  <2> QED BY <1>1, <2>1, <2>2 DEF JobStep, AttemptsOK
<1>6. ASSUME NEW w \in Workers, Heartbeat(w)
      PROVE  JobStep
  <2>1. job' = [job EXCEPT !.live = TRUE] /\ job.status = "RUNNING" /\ job.holder = w
        /\ worker[w].pc # "idle" /\ faults' = faults
    BY <1>6 DEF Heartbeat, Holds, counts
  <2>2. /\ job' \in Job /\ job'.status = job.status /\ job'.holder = w
        /\ job'.attempts = job.attempts /\ job'.live = TRUE
    BY <1>1, <2>1 DEF Job
  <2> QED BY <1>1, <1>3, <2>1, <2>2 DEF JobStep, AttemptsOK
<1> QED BY <1>4, <1>5, <1>6

\* Every step of the job: it goes on, it stops, or another invocation takes it.
LEMMA JobStepOfNext ==
  ASSUME Inv, [Next]_vars
  PROVE  JobStep
<1>1. FaultsStep
  BY CountsStep
<1>2. ASSUME job' = job
      PROVE  JobStep
  BY <1>1, <1>2, SameJob
<1>3. CASE PlanNew
  <2>1. /\ job'.holder = "nobody" /\ job'.status = "QUEUED" /\ job'.attempts = 0
        /\ job' = [status |-> "QUEUED", attempts |-> 0, due |-> TRUE, live |-> FALSE,
                   holder |-> "nobody"]
    BY <1>3 DEF PlanNew
  <2>2. 0 \in 0..(MaxAttempts + MaxFaults) /\ 0 < MaxAttempts
    BY Numbers
  <2>3. job' \in Job
    BY <2>1, <2>2 DEF Job
  <2> QED BY <2>1, <2>2, <2>3, StoppedJob
<1>4. CASE RecoverExpired
  <2>1. job' = Retried(FALSE)
    BY <1>4 DEF RecoverExpired
  <2> QED BY <2>1, RetypedJob, StoppedJob
<1>5. ASSUME NEW w \in Workers, Finish(w)
      PROVE  JobStep
  <2>1. CASE job' = job
    BY <1>2, <2>1
  <2>2. CASE worker[w].pc = "done" /\ job' = Ended("SUCCEEDED")
    BY <2>2, RetypedJob, StoppedJob
  <2>3. CASE worker[w].pc = "more" /\ job' = [Requeued(TRUE) EXCEPT !.attempts = 0]
    <3>1. Requeued(TRUE) \in Job /\ Requeued(TRUE).holder = "nobody"
          /\ Requeued(TRUE).status = "QUEUED"
      BY RetypedJob
    <3>2. 0 \in 0..(MaxAttempts + MaxFaults) /\ 0 < MaxAttempts
      BY Numbers
    <3>3. job' \in Job /\ job'.holder = "nobody" /\ job'.status = "QUEUED"
          /\ job'.attempts = 0
      BY <2>3, <3>1, <3>2 DEF Job
    <3> QED BY <3>2, <3>3, StoppedJob
  <2>4. CASE job' = Retried(FALSE) \/ job' = Retried(TRUE)
    BY <2>4, RetypedJob, StoppedJob
  <2>5. \/ job' = job
        \/ worker[w].pc = "done" /\ job' = Ended("SUCCEEDED")
        \/ worker[w].pc = "more" /\ job' = [Requeued(TRUE) EXCEPT !.attempts = 0]
        \/ job' = Retried(FALSE) \/ job' = Retried(TRUE)
    BY <1>5, Zenon DEF Finish, Outcome
  <2> QED BY <2>1, <2>2, <2>3, <2>4, <2>5
<1>6. ASSUME NEW w \in Workers, Step(w) \/ FetchFails(w) \/ CommitPartly(w) \/ Crash(w)
      PROVE  JobStep
  BY <1>2, <1>5, <1>6 DEF Step, Load, Prepare, AssertLinked, Reset, Fetch, Commit,
                          CommitRejected, FetchFails, CommitPartly, Crash
<1>7. ASSUME NEW w \in Workers, Claim(w) \/ Heartbeat(w)
      PROVE  JobStep
  BY <1>1, <1>7, ClaimedJob, LeasedJob
<1>8. CASE LeaseExpires \/ LeaseOverrun \/ BackoffElapses
  BY <1>8, LeasedJob
<1>9. ASSUME \/ Tick \/ \E g \in Games : Publish(g)
             \/ \E a \in Accounts \cup {NoAccount} : Relink(a)
             \/ \E p \in Policies : SetPolicy(p)
             \/ UNCHANGED vars
      PROVE  job' = job
  BY <1>9 DEF Tick, Publish, Relink, SetPolicy, vars
<1> QED BY <1>2, <1>3, <1>4, <1>6, <1>7, <1>8, <1>9 DEF Next

-----------------------------------------------------------------------------
(* The invariant.                                                          *)

LEMMA InvInit == Init => Inv
<1> SUFFICES ASSUME Init PROVE Inv
  OBVIOUS
<1>1. /\ now = 1 /\ visible = {} /\ saved = {} /\ conn \in Accounts /\ policy \in Policies
      /\ state = [NoState EXCEPT !.account = conn]
      /\ job = [status |-> "NONE", attempts |-> 0, due |-> TRUE, live |-> FALSE,
                holder |-> "nobody"]
      /\ worker = [w \in Workers |-> IdleWorker] /\ changes = 0 /\ faults = 0
  BY DEF Init
<1>2. NoWindow \in Window /\ 0 \in Times
  BY Numbers DEF NoWindow, Window
<1>3. state = [account |-> conn, policy |-> "none", last |-> 0, cursor |-> NoWindow]
  BY <1>1 DEF NoState
<1>4. state \in State /\ state.last = 0 /\ state.cursor = NoWindow
  <2>1. conn \in Accounts \cup {NoAccount} /\ "none" \in Policies \cup {"none"}
    BY <1>1
  <2>2. state \in State
    BY <1>2, <1>3, <2>1, Zenon DEF State
  <2> QED BY <1>3, <2>2
<1>5. 0 \in 0..(MaxAttempts + MaxFaults)
  BY Numbers
<1>6. job \in Job /\ job.holder = "nobody" /\ job.status = "NONE"
  BY <1>1, <1>5 DEF Job
<1>7. \A w \in Workers : worker[w] = IdleWorker /\ worker[w].pc = "idle"
  BY <1>1 DEF IdleWorker
<1>8. worker \in [Workers -> Worker]
  BY <1>1, IdleType
<1>9. TypeOK
  <2>1. now \in Times /\ changes \in 0..MaxChanges /\ faults \in 0..MaxFaults
    BY <1>1, SyncAssumption DEF Times
  <2> QED BY <1>1, <1>4, <1>6, <1>8, <2>1 DEF TypeOK
<1>10. ProviderOK
  BY <1>1, Numbers DEF ProviderOK
<1>11. StateOK
  <2>1. \A a, p : Due(a, p, 0) = {}
    BY Numbers DEF Due
  <2> QED BY <1>1, <1>4, <2>1 DEF StateOK
<1>12. AttemptsOK
  BY <1>6 DEF AttemptsOK
<1>13. ASSUME NEW w \in Workers
       PROVE  WindowOK(worker[w]) /\ FenceOK(w)
  BY <1>6, <1>7 DEF WindowOK, FenceOK, Holds, Planned, Windowed
<1> QED BY <1>9, <1>10, <1>11, <1>12, <1>13 DEF Inv

LEMMA InvNext == Inv /\ [Next]_vars => Inv'
<1> SUFFICES ASSUME Inv, [Next]_vars PROVE Inv'
  OBVIOUS
<1>1. WorldStep /\ WorkersStep /\ StateStep /\ JobStep /\ FaultsStep
      /\ changes' \in 0..MaxChanges
      /\ conn' \in Accounts \cup {NoAccount} /\ policy' \in Policies
  BY WorldStepOfNext, WorkersStepOfNext, StateStepOfNext, JobStepOfNext, CountsStep,
     UserStep
<1>2. TypeOK'
  BY <1>1 DEF TypeOK, WorldStep, Grows, WorkersStep, StateStep, JobStep, FaultsStep
<1>3. ProviderOK' /\ StateOK' /\ AttemptsOK'
  BY <1>1, StateKept DEF WorldStep, JobStep
<1>4. \A w \in Workers : WindowOK(worker[w])' /\ FenceOK(w)'
  BY <1>1, FenceKept DEF WorkersStep
<1> QED BY <1>2, <1>3, <1>4 DEF Inv

\* Inv is an invariant of every behaviour.
THEOREM Invariance == Spec => []Inv
BY InvInit, InvNext, PTL DEF Spec

-----------------------------------------------------------------------------
\* The variables keep their types: the attempts of a job stay within their
\* bound, and a lease belongs to a running job.
THEOREM TypeCorrect == Spec => []TypeOK
<1>1. Inv => TypeOK
  BY DEF Inv
<1> QED BY <1>1, Invariance, PTL

\* The watermark is true: no game that the next window leaves out is missing.
THEOREM WatermarkTrue == Spec => []WatermarkIsTrue
<1>1. Inv => WatermarkIsTrue
  <2> SUFFICES ASSUME Inv, state.policy # "none"
               PROVE  \A g \in Games :
                        /\ Owner[g] = state.account /\ g \in Wanted[state.policy]
                        /\ Played[g] < state.last - Overlap
                        => g \in saved
    BY DEF WatermarkIsTrue
  <2>1. state.policy \in Policies
    BY DEF Inv, TypeOK, State
  <2>2. Due(state.account, state.policy, state.last) \subseteq saved
    BY <2>1 DEF Inv, StateOK
  <2> QED BY <2>2 DEF Due
<1> QED BY <1>1, Invariance, PTL

\* An import is of the account that is linked when it is committed.
LEMMA LinkedStep ==
  ASSUME Inv, [Next]_vars
  PROVE  \A g \in saved' \ saved : Owner[g] = conn
<1>1. ASSUME NEW w \in Workers, Commit(w) \/ CommitPartly(w)
      PROVE  \A g \in saved' \ saved : Owner[g] = conn
  <2>1. conn = worker[w].account /\ worker[w].pc = "commit"
    BY <1>1 DEF Commit, CommitPartly, Current, Linked
  <2>2. saved' \subseteq saved \cup worker[w].batch
    BY <1>1 DEF Commit, CommitPartly
  <2>3. \A g \in worker[w].batch : Owner[g] = worker[w].account
    BY <2>1 DEF Inv, WindowOK
  <2> QED BY <2>1, <2>2, <2>3
<1>2. (\E w \in Workers : Commit(w) \/ CommitPartly(w)) \/ saved' = saved
  BY DEF Next, Tick, Publish, Relink, SetPolicy, PlanNew, RecoverExpired, BackoffElapses,
         LeaseExpires, LeaseOverrun, Claim, Step, Load, Prepare, AssertLinked, Reset,
         Fetch, CommitRejected, Finish, Heartbeat, FetchFails, Crash, vars
<1> QED BY <1>1, <1>2

\* Only games of the linked account are imported, whoever relinks when.
THEOREM ImportsLinked == Spec => ImportsAreLinked
<1> DEFINE Own == \A g \in saved' \ saved : Owner[g] = conn
<1>1. Inv /\ [Next]_vars => [Own]_vars
  BY LinkedStep
<1>2. ImportsAreLinked <=> [][Own]_vars
  BY DEF ImportsAreLinked
<1> HIDE DEF Own
<1> QED BY <1>1, <1>2, Invariance, PTL DEF Spec

\* A window ends at the watermark or later while its invocation holds the
\* lease: by a step from Inv.
LEMMA AdvancedStep ==
  ASSUME Inv, [Next]_vars
  PROVE  (state'.last # 0 /\ state'.account = state.account
                         /\ state'.policy = state.policy)
         => state'.last >= state.last
<1>1. state.last \in Nat
  BY Numbers DEF Inv, TypeOK, State
<1>2. ASSUME NEW w \in Workers, Advances(w)
      PROVE  state'.last >= state.last
  <2>1. state.last <= worker[w].window.end
    BY <1>2 DEF Inv, Advances, FenceOK, Windowed
  <2>2. worker[w].window.end \in Nat
    BY Numbers DEF Inv, TypeOK, Worker, Window
  <2> QED BY <1>1, <1>2, <2>1, <2>2 DEF Advances
<1>3. StateStep
  BY StateStepOfNext
<1> QED BY <1>1, <1>2, <1>3 DEF StateStep

\* Without a new account or new rules the watermark never goes back.
THEOREM WatermarkNeverBack == Spec => WatermarkAdvances
<1> DEFINE Forward == (state'.last # 0 /\ state'.account = state.account
                                      /\ state'.policy = state.policy)
                      => state'.last >= state.last
<1>1. Inv /\ [Next]_vars => [Forward]_vars
  BY AdvancedStep
<1>2. WatermarkAdvances <=> [][Forward]_vars
  BY DEF WatermarkAdvances
<1> HIDE DEF Forward
<1> QED BY <1>1, <1>2, Invariance, PTL DEF Spec

\* The synchronisation is safe, whatever its bounds: TypeOK, the watermark, the
\* imports and the order of watermarks.
THEOREM SyncKept == Spec => SyncHolds
<1> DEFINE True == TypeOK /\ WatermarkIsTrue
<1>1. SyncHolds <=> []True /\ ImportsAreLinked /\ WatermarkAdvances
  BY DEF SyncHolds
<1>2. TypeOK /\ WatermarkIsTrue => True
  OBVIOUS
<1> HIDE DEF True
<1>3. Spec => []True
  BY <1>2, TypeCorrect, WatermarkTrue, PTL
<1> QED BY <1>1, <1>3, ImportsLinked, WatermarkNeverBack
=============================================================================
