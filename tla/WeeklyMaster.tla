------------------------------ MODULE WeeklyMaster ------------------------------
(***************************************************************************)
(* The weekly puzzle from a master's public game (lib/master): the runs of  *)
(* its pipeline with their leases, the candidates that an analysis leaves,  *)
(* their publication in the slot of the landing page, and the editors.      *)
(*                                                                          *)
(* A snapshot of a source game has one candidate, which its analysis may    *)
(* reject.  A worker may stop between any two steps, its lease may expire   *)
(* while it still runs, and its message comes again until it is             *)
(* acknowledged.  What a worker writes besides its run is not fenced.       *)
(***************************************************************************)
EXTENDS Integers, Sequences, FiniteSets, SequencesExt

CONSTANTS LastCandidate,      \* candidates are numbered by their scores
          Hard,               \* those that pass the gate of an automatic choice
          Masters,            \* workers of the pipeline
          MaxMasterRuns, MaxClaimsOfRun, MaxAttemptsOfRun, LastWeek, MaxEdits,
          MaxStale            \* in weeks: no publication is shown any longer

\* Candidates are finitely many.
ASSUME MasterAssumption == LastCandidate \in Nat

VARIABLES
  runs,          \* of the pipeline
  wakeups,       \* runs that a message in the queue asks for
  master,        \* what each worker does
  candidate,     \* status and receipt of each candidate
  publication,   \* week and health of each candidate's publication; week 0: none
  slot,          \* the current and the fallback publication; 0: none
  shownSoFar,    \* the publications that were current, without repetitions in a row
  week,
  paused,
  overrides,     \* of the editors: publications withdrawn, those pinned, the fallback forced
  edits

masterVars == <<runs, wakeups, master, candidate, publication, slot, shownSoFar, week,
                paused, overrides, edits>>

MasterCandidates == 1..LastCandidate
NoShift == [stage |-> "none", run |-> 0, todo |-> {}, tried |-> FALSE, done |-> FALSE, pick |-> 0]

-----------------------------------------------------------------------------
\* Planning.

Unended == {r \in DOMAIN runs : runs[r].status \in {"QUEUED", "RUNNING"}}

NewRunOf(key, scope) ==
  [key |-> key, scope |-> scope, status |-> "QUEUED", attempts |-> 0, holder |-> 0,
   claims |-> 0, live |-> FALSE]

\* A message of a run is sent when it is queued; the queue may refuse it, or drop
\* it as one that it has had.
Wakes(r, queued) ==
  \/ queued /\ wakeups' = wakeups \cup {r}
  \/ UNCHANGED wakeups

\* The day's run: repeated when it has failed, and nothing new beside a run that
\* has not ended.
PlansWeek ==
  /\ LET same == {r \in DOMAIN runs : runs[r].key = week}
         again == {r \in same : runs[r].status = "FAILED" /\ runs[r].attempts < MaxAttemptsOfRun}
     IN \/ \E r \in again : /\ runs' = [runs EXCEPT ![r].status = "QUEUED", ![r].holder = 0,
                                                    ![r].live = FALSE]
                            /\ Wakes(r, TRUE)
        \/ \E r \in (same \ again) \cup (IF same = {} THEN Unended ELSE {}) :
             /\ UNCHANGED runs
             /\ Wakes(r, runs[r].status = "QUEUED")
        \/ /\ same = {} /\ Unended = {} /\ Len(runs) < MaxMasterRuns
           /\ runs' = Append(runs, NewRunOf(week, "FULL"))
           /\ Wakes(Len(runs) + 1, TRUE)
  /\ UNCHANGED <<master, candidate, publication, slot, shownSoFar, week, paused, overrides, edits>>

\* An editor's run, refused beside one that has not ended.
ForcesRun(scope) ==
  /\ Unended = {} /\ Len(runs) < MaxMasterRuns
  /\ runs' = Append(runs, NewRunOf(0, scope))
  /\ Wakes(Len(runs) + 1, TRUE)
  /\ UNCHANGED <<master, candidate, publication, slot, shownSoFar, week, paused, overrides, edits>>

-----------------------------------------------------------------------------
\* A worker.

GoesTo(m, stage) == master' = [master EXCEPT ![m].stage = stage]

ClaimableRun(r) ==
  \/ runs[r].status = "QUEUED"
  \/ runs[r].status = "FAILED" /\ runs[r].attempts < MaxAttemptsOfRun
  \/ runs[r].status = "RUNNING" /\ ~runs[r].live

\* A token is drawn for each claim.
ClaimsRun(m, r) ==
  /\ master[m] = NoShift /\ r \in wakeups
  /\ IF ClaimableRun(r)
     THEN /\ runs[r].claims < MaxClaimsOfRun
          /\ runs' = [runs EXCEPT ![r].status = "RUNNING", ![r].holder = m, ![r].live = TRUE,
                                  ![r].attempts = @ + 1, ![r].claims = @ + 1]
          /\ master' = [master EXCEPT ![m] = [NoShift EXCEPT !.stage = "fetch", !.run = r]]
          /\ UNCHANGED wakeups
     ELSE /\ runs[r].status = "SUCCEEDED"
          /\ wakeups' = wakeups \ {r}
          /\ UNCHANGED <<runs, master>>
  /\ UNCHANGED <<candidate, publication, slot, shownSoFar, week, paused, overrides, edits>>

HoldsRun(m) ==
  runs[master[m].run].status = "RUNNING" /\ runs[master[m].run].holder = m

\* A failure is recorded by the holder alone; the message comes again.
RunFails(m) ==
  /\ runs' = IF HoldsRun(m) THEN [runs EXCEPT ![master[m].run] =
                 [@ EXCEPT !.status = "FAILED", !.holder = 0, !.live = FALSE]] ELSE runs
  /\ master' = [master EXCEPT ![m] = NoShift]

\* A source game is stored once and is available again when it is found again.
Discovered(c) == [candidate[c] EXCEPT !.seen = TRUE, !.available = TRUE]

\* Accounts that cannot be reached are passed over.  The games of the others, or
\* for an analysis alone those of earlier runs, are to be analysed.
FetchesGames(m) ==
  /\ master[m].stage = "fetch"
  /\ LET scope == runs[master[m].run].scope IN
     \E found \in SUBSET MasterCandidates :
       /\ scope = "ANALYSIS" => \A c \in found : candidate[c].seen /\ candidate[c].available
       /\ candidate' = IF scope = "ANALYSIS" THEN candidate ELSE
            [c \in MasterCandidates |-> IF c \in found THEN Discovered(c) ELSE candidate[c]]
       /\ IF scope = "ANALYSIS" \/ HoldsRun(m)
          THEN /\ master' = [master EXCEPT ![m].stage = "analyse",
                               ![m].todo = IF scope = "INGEST" THEN {} ELSE found]
               /\ UNCHANGED runs
          ELSE RunFails(m)
  /\ UNCHANGED <<wakeups, publication, slot, shownSoFar, week, paused, overrides, edits>>

\* An analysis that has its receipt is not repeated.
AnalysesNext(m, c) ==
  /\ master[m].stage = "analyse" /\ c \in master[m].todo
  /\ \/ /\ candidate[c].receipt
        /\ master' = [master EXCEPT ![m].todo = @ \ {c}]
     \/ /\ ~candidate[c].receipt
        /\ \E stage \in {"analyse", "store"} :
             master' = [master EXCEPT ![m].todo = @ \ {c}, ![m].tried = TRUE,
                                      ![m].stage = stage, ![m].pick = c]
  /\ UNCHANGED <<runs, wakeups, candidate, publication, slot, shownSoFar, week, paused,
                 overrides, edits>>

Judged(c) == IF c \in Hard THEN "ELIGIBLE" ELSE "REJECTED"

\* Mutant: the receipt is written before the candidates.
StoredLast(c) == [candidate[c] EXCEPT !.receipt = TRUE]

Stored(c) == [candidate[c] EXCEPT !.status = Judged(c)]

\* The candidates of a snapshot are stored before its receipt is, whatever an
\* editor has decided about them by then.
StoresCandidate(m) ==
  /\ master[m].stage = "store"
  /\ candidate' = [candidate EXCEPT ![master[m].pick] = Stored(master[m].pick)]
  /\ GoesTo(m, "receipt")
  /\ UNCHANGED <<runs, wakeups, publication, slot, shownSoFar, week, paused, overrides, edits>>

StoresReceipt(m) ==
  /\ master[m].stage = "receipt"
  /\ candidate' = [candidate EXCEPT ![master[m].pick].receipt = TRUE]
  /\ master' = [master EXCEPT ![m].stage = "analyse", ![m].done = TRUE]
  /\ UNCHANGED <<runs, wakeups, publication, slot, shownSoFar, week, paused, overrides, edits>>

EndsAnalysis(m) ==
  /\ master[m].stage = "analyse" /\ master[m].todo = {}
  /\ IF HoldsRun(m) /\ (master[m].tried => master[m].done)
     THEN /\ GoesTo(m, IF runs[master[m].run].scope = "INGEST" THEN "finish" ELSE "slot")
          /\ UNCHANGED runs
     ELSE RunFails(m)
  /\ UNCHANGED <<wakeups, candidate, publication, slot, shownSoFar, week, paused, overrides, edits>>

FinishesRun(m) ==
  /\ master[m].stage = "finish"
  /\ IF HoldsRun(m)
     THEN /\ runs' = [runs EXCEPT ![master[m].run] =
               [@ EXCEPT !.status = "SUCCEEDED", !.holder = 0, !.live = FALSE]]
          /\ wakeups' = wakeups \ {master[m].run}
          /\ master' = [master EXCEPT ![m] = NoShift]
     ELSE RunFails(m) /\ UNCHANGED wakeups
  /\ UNCHANGED <<candidate, publication, slot, shownSoFar, week, paused, overrides, edits>>

RunLeaseEnds(r) ==
  /\ runs[r].live
  /\ runs' = [runs EXCEPT ![r].live = FALSE]
  /\ UNCHANGED <<wakeups, master, candidate, publication, slot, shownSoFar, week, paused,
                 overrides, edits>>

BeatsRun(m) ==
  /\ master[m] # NoShift /\ HoldsRun(m)
  /\ runs' = [runs EXCEPT ![master[m].run].live = TRUE]
  /\ UNCHANGED <<wakeups, master, candidate, publication, slot, shownSoFar, week, paused,
                 overrides, edits>>

StopsWorking(m) ==
  /\ master[m] # NoShift
  /\ master' = [master EXCEPT ![m] = NoShift]
  /\ UNCHANGED <<runs, wakeups, candidate, publication, slot, shownSoFar, week, paused,
                 overrides, edits>>

\* A call of the database or of the engine throws.
Throws(m) ==
  /\ master[m] # NoShift
  /\ RunFails(m)
  /\ UNCHANGED <<wakeups, candidate, publication, slot, shownSoFar, week, paused, overrides, edits>>

-----------------------------------------------------------------------------
\* Publication.  The slot is read and written under the lock of its row.

ThisWeek(p) == p # 0 /\ publication[p].week = week

ReadsSlot(m) ==
  /\ master[m].stage = "slot"
  /\ GoesTo(m, IF ThisWeek(slot.current) \/ paused THEN "finish" ELSE "choose")
  /\ UNCHANGED <<runs, wakeups, candidate, publication, slot, shownSoFar, week, paused,
                 overrides, edits>>

Choosable == {c \in MasterCandidates : candidate[c].status = "ELIGIBLE" /\ candidate[c].available}

Chooses(m) ==
  /\ master[m].stage = "choose"
  /\ IF Choosable = {} THEN GoesTo(m, "finish")
     ELSE master' = [master EXCEPT ![m].stage = "publish", ![m].pick = Max(Choosable)]
  /\ UNCHANGED <<runs, wakeups, candidate, publication, slot, shownSoFar, week, paused,
                 overrides, edits>>

\* The publication that was current before steps back into the fallback.
StepsBack(c) ==
  IF slot.current \notin {0, c} THEN slot.current
  ELSE IF slot.fallback # 0 THEN slot.fallback ELSE c

\* A candidate is published once and may be chosen for the slot again.
PublishesCandidate(c, by) ==
  /\ publication' = IF publication[c].week # 0 THEN publication
                    ELSE [publication EXCEPT ![c] = [week |-> week, missing |-> FALSE, by |-> by]]
  /\ candidate' = [candidate EXCEPT ![c].status = "PUBLISHED"]
  /\ slot' = [current |-> c, fallback |-> StepsBack(c)]
  /\ shownSoFar' = IF slot.current = c THEN shownSoFar ELSE Append(shownSoFar, c)

\* What the run has chosen is published whatever has changed since.
Publishes(m) ==
  /\ master[m].stage = "publish"
  /\ PublishesCandidate(master[m].pick, "run")
  /\ GoesTo(m, "finish")
  /\ UNCHANGED <<runs, wakeups, week, paused, overrides, edits>>

\* The sources of what the slot names are looked up every day.
Revalidates(p, found) ==
  /\ p \in {slot.current, slot.fallback} \ {0}
  /\ publication' = [publication EXCEPT ![p].missing = ~found]
  /\ candidate' = [candidate EXCEPT ![p].available = found]
  /\ UNCHANGED <<runs, wakeups, master, slot, shownSoFar, week, paused, overrides, edits>>

Fit(p) == p # 0 /\ ~publication[p].missing /\ p \notin overrides.withdrawn

TooOld(p) == week - publication[p].week > MaxStale

\* The last pin counts before a forced fallback.
Preferred ==
  IF overrides.pins # <<>> THEN Last(overrides.pins)
  ELSE IF overrides.forced THEN slot.fallback ELSE slot.current

Selected ==
  IF Fit(Preferred) THEN Preferred ELSE IF Fit(slot.fallback) THEN slot.fallback ELSE 0

\* What the landing page shows; what was selected and is too old is not replaced.
ShownPuzzle == IF Selected # 0 /\ TooOld(Selected) THEN 0 ELSE Selected

-----------------------------------------------------------------------------
\* The editors.

Edits == edits < MaxEdits /\ edits' = edits + 1

Decides(c, status) ==
  /\ Edits
  /\ candidate[c].status \in {"ELIGIBLE", "REJECTED"}
  /\ status = "ELIGIBLE" => c \in Hard
  /\ candidate' = [candidate EXCEPT ![c].status = status]
  /\ UNCHANGED <<runs, wakeups, master, publication, slot, shownSoFar, week, paused, overrides>>

\* What an editor selects is published and pinned.
SelectsForSlot(c) ==
  /\ Edits
  /\ candidate[c].status # "none" /\ c \in Hard
  /\ PublishesCandidate(c, "editor")
  /\ overrides' = [overrides EXCEPT !.pins = Append(@, c)]
  /\ UNCHANGED <<runs, wakeups, master, week, paused>>

Pauses ==
  /\ Edits
  /\ paused' = ~paused
  /\ UNCHANGED <<runs, wakeups, master, candidate, publication, slot, shownSoFar, week, overrides>>

Overrides(value) ==
  /\ overrides' = value
  /\ UNCHANGED <<runs, wakeups, master, candidate, publication, slot, shownSoFar, week, paused>>

Withdraws(c) ==
  /\ Edits
  /\ publication[c].week # 0
  /\ Overrides([overrides EXCEPT !.withdrawn = IF c \in @ THEN @ \ {c} ELSE @ \cup {c}])

Pins(c) ==
  /\ Edits
  /\ publication[c].week # 0
  /\ Overrides([overrides EXCEPT !.pins = Append(@, c)])

\* A pin is revoked or expires.
PinEnds(i) ==
  /\ UNCHANGED edits
  /\ Overrides([overrides EXCEPT !.pins = RemoveAt(@, i)])

ForcesFallback ==
  /\ Edits
  /\ Overrides([overrides EXCEPT !.forced = ~@])

NextWeek ==
  /\ week < LastWeek
  /\ week' = week + 1
  /\ UNCHANGED <<runs, wakeups, master, candidate, publication, slot, shownSoFar, paused,
                 overrides, edits>>

MasterInit ==
  /\ runs = <<>> /\ wakeups = {}
  /\ master = [m \in Masters |-> NoShift]
  /\ candidate = [c \in MasterCandidates |->
       [status |-> "none", receipt |-> FALSE, seen |-> FALSE, available |-> FALSE]]
  /\ publication = [c \in MasterCandidates |-> [week |-> 0, missing |-> FALSE, by |-> "none"]]
  /\ slot = [current |-> 0, fallback |-> 0] /\ shownSoFar = <<>>
  /\ week = 1 /\ paused = FALSE /\ edits = 0
  /\ overrides = [withdrawn |-> {}, pins |-> <<>>, forced |-> FALSE]

MasterNext ==
  \/ PlansWeek \/ NextWeek \/ Pauses \/ ForcesFallback
  \/ \E i \in DOMAIN overrides.pins : PinEnds(i)
  \/ \E scope \in {"FULL", "INGEST", "ANALYSIS"} : ForcesRun(scope)
  \/ \E r \in DOMAIN runs : RunLeaseEnds(r)
  \/ \E c \in MasterCandidates : \/ \E status \in {"ELIGIBLE", "REJECTED"} : Decides(c, status)
                           \/ SelectsForSlot(c) \/ Withdraws(c) \/ Pins(c)
                           \/ \E found \in BOOLEAN : Revalidates(c, found)
  \/ \E m \in Masters : \/ \E r \in DOMAIN runs : ClaimsRun(m, r)
                        \/ FetchesGames(m) \/ StoresCandidate(m) \/ StoresReceipt(m)
                        \/ \E c \in MasterCandidates : AnalysesNext(m, c)
                        \/ EndsAnalysis(m) \/ ReadsSlot(m) \/ Chooses(m) \/ Publishes(m)
                        \/ FinishesRun(m) \/ BeatsRun(m) \/ StopsWorking(m)
                        \/ Throws(m)

MasterSpec == MasterInit /\ [][MasterNext]_masterVars
-----------------------------------------------------------------------------
\* A receipt proves that the snapshot's candidates were stored: a worker that
\* stops leaves nothing that no later run would analyse again.
AnalysedIsKept == \A c \in DOMAIN candidate : candidate[c].receipt => candidate[c].status # "none"

\* The slot names what is current and what was current before, whoever published
\* and in whatever order.
SlotIsTrue ==
  shownSoFar # <<>> =>
    /\ slot.current = Last(shownSoFar)
    /\ slot.fallback = IF Len(shownSoFar) = 1 THEN slot.current ELSE Last(Front(shownSoFar))

\* The publication that was current before the current one.
ShownBefore == IF Len(shownSoFar) = 1 THEN Last(shownSoFar) ELSE Last(Front(shownSoFar))
Good(p) == Fit(p) /\ ~TooOld(p)

\* The landing page has what was published last, if that is good and no editor has
\* overridden it; and it has a puzzle as long as the one before is good, unless
\* what is preferred is fit and only too old, which the code does not replace.
LandingHolds ==
  shownSoFar # <<>> =>
    /\ Good(Last(shownSoFar)) /\ overrides.pins = <<>> /\ ~overrides.forced
         => ShownPuzzle = Last(shownSoFar)
    /\ Good(ShownBefore) => ShownPuzzle # 0 \/ (Fit(Preferred) /\ TooOld(Preferred))

\* What the three say of the weekly puzzle, whoever publishes it.
PuzzleHolds == AnalysedIsKept /\ SlotIsTrue /\ LandingHolds

\* Not kept: the runs of one week publish one puzzle.
WeeklyPuzzle ==
  \A c, d \in DOMAIN publication :
    publication[c].by = "run" /\ publication[d] = publication[c] => c = d

\* Not kept: a candidate that an editor has excluded is not published by a run.
ExcludedStaysOut ==
  [][\A c \in MasterCandidates : candidate[c].status = "REJECTED" /\ c \in Hard
       => candidate'[c].status # "ELIGIBLE" \/ edits' # edits]_masterVars
=============================================================================
