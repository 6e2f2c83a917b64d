--------------------------- MODULE TrainingExtraction ---------------------------
(***************************************************************************)
(* The extraction of training moments from one game                         *)
(* (lib/analysis/extractTrainingMoments.ts): a pass over the plies that     *)
(* scans each of them with the engine, confirms meaningful mistakes with    *)
(* growing budgets, verifies the solution and leaves a receipt for every    *)
(* decision of the user.  A server invocation may yield between two plies   *)
(* with a checkpoint, or die; the next one resumes from what was saved.     *)
(*                                                                          *)
(* The engine answers anything: positions, scores and moves are abstracted  *)
(* to whether a line is usable, how large a loss is and whether the move    *)
(* that was played is among the accepted ones.                              *)
(***************************************************************************)
EXTENDS Integers, Sequences, FiniteSets, FiniteSetsExt

CONSTANTS LastPly,        \* the plies of the game are 0..LastPly
          UserParity,  \* the user moves at the plies of this parity
          Passes,      \* budgets of an adaptive confirmation
          Losses,      \* sizes of a loss
          NoLoss,      \* a loss that cannot be computed
          MinLoss, Tolerance, Margin,
          NoEvidence, NoCheckpoint, NoManifest

ASSUME ExtractionAssumption ==
  /\ LastPly \in Nat /\ UserParity \in {0, 1}
  /\ Passes \in Nat \ {0}
  /\ Losses \subseteq Int /\ NoLoss \notin Losses
  /\ {MinLoss, Tolerance, Margin} \subseteq Int

VARIABLES
  forced,      \* plies with one legal move
  breaksAt,    \* the ply at which the replay of the source stops, or LastPly + 1
  landing,     \* the onboarding wants the first verified moment only
  progress,    \* "idle", "running", "done" or "found"
  slice,       \* what the running extraction holds
  checkpoint,  \* what the last one that yielded saved
  manifest     \* the completion manifest of the game

gameVars == <<forced, breaksAt, landing, progress, slice, checkpoint, manifest>>

Plies == 0..LastPly
IsUser(p) == p % 2 = UserParity
Decisions == {p \in Plies : IsUser(p)}

Reason == {"SAVED", "FORCED_MOVE", "BELOW_COVERAGE_THRESHOLD",
           "BELOW_THRESHOLD_AFTER_CONFIRMATION", "ANALYSIS_INCOMPLETE",
           "VERIFICATION_UNSTABLE", "NONE"}

-----------------------------------------------------------------------------
\* Confirmation.  A pass yields a loss, unless its evidence is incomplete, and
\* a best move.

Pass == [complete : BOOLEAN, loss : Losses \cup {NoLoss}, best : {"m1", "m2"}]

Qualifies(loss) == loss # NoLoss /\ loss >= MinLoss

Far(a, b, d) == a - b > d \/ b - a > d

LossesDisagree(a, b) == a = NoLoss \/ b = NoLoss \/ Far(a, b, Tolerance)

NearThreshold(loss) == loss = NoLoss \/ ~Far(loss, MinLoss, Margin)

PassQualifies(pass) == pass.complete /\ Qualifies(pass.loss)

\* What the next pass is compared with.
Remembered(mem, pass) ==
  [loss |-> IF pass.complete THEN pass.loss ELSE mem.loss,
   qualifies |-> PassQualifies(pass),
   best |-> IF pass.complete THEN pass.best ELSE mem.best]

Disagrees(mem, pass) ==
  \/ ~pass.complete
  \/ mem.qualifies # PassQualifies(pass)
  \/ LossesDisagree(mem.loss, pass.loss)

NeedsMore(mem, pass) ==
  \/ Disagrees(mem, pass)
  \/ pass.complete /\ (mem.best # pass.best \/ NearThreshold(pass.loss))

\* The passes stop at the first that agrees with the one before it, or at the
\* largest budget.
ConfirmAdaptively(scan, passes) ==
  LET mem[i \in 0..Len(passes)] ==
        IF i = 0 THEN scan ELSE Remembered(mem[i - 1], passes[i])
      stop == Min({i \in DOMAIN passes :
                     i = Len(passes) \/ ~NeedsMore(mem[i - 1], passes[i])})
      latest == passes[stop]
      stable == ~Disagrees(mem[stop - 1], latest)
  IN [stable |-> stable,
      complete |-> latest.complete,
      qualifies |-> PassQualifies(latest),
      termination |-> CASE ~latest.complete -> "INCOMPLETE"
                        [] latest.complete /\ ~stable -> "MAX_BUDGET_UNSTABLE"
                        [] stable /\ PassQualifies(latest) -> "STABLE"
                        [] OTHER -> "BELOW_THRESHOLD"]

Scan == [loss : {l \in Losses : Qualifies(l)}, qualifies : {TRUE}, best : {"m1", "m2"}]

\* Every evidence that the passes can end with.
Evidence ==
  {ConfirmAdaptively(scan, passes) : scan \in Scan, passes \in [1..Passes -> Pass]}

ASSUME EvidenceAssumption == NoEvidence \notin Evidence

Confirmed(e) == e.stable /\ e.qualifies

-----------------------------------------------------------------------------
\* Verification.  The only legal move of a forced position is its best move.

Verdict(p) ==
  {v \in [status : {"VERIFIED", "AMBIGUOUS", "UNSTABLE", "INVALID"},
          frontier : {"STABLE", "OPEN", "UNSTABLE"},
          accepted : {{"played"}, {"other"}, {"played", "other"}}] :
     p \in forced => v.accepted = {"played"}}

Trainable(v) ==
  v.status = "VERIFIED" /\ v.frontier = "STABLE" /\ "played" \notin v.accepted

Rank(status) ==
  CASE status = "VERIFIED" -> 3 [] status = "AMBIGUOUS" -> 2
    [] status = "UNSTABLE" -> 1 [] OTHER -> 0

Moment(p, v, sources) ==
  [ply |-> p, status |-> v.status, trainable |-> Trainable(v), sources |-> sources]

\* One moment for each decision: the better verified one, with the sources of
\* both.
Store(moments, m) ==
  LET same == {old \in moments : old.ply = m.ply}
      Better(old) == \/ Rank(m.status) > Rank(old.status)
                     \/ /\ Rank(m.status) = Rank(old.status)
                        /\ "MY_MISTAKE" \in m.sources
                        /\ "MY_MISTAKE" \notin old.sources
      Merged(old) == [(IF Better(old) THEN m ELSE old)
                        EXCEPT !.sources = old.sources \cup m.sources]
  IN IF same = {} THEN moments \cup {m}
     ELSE (moments \ same) \cup {Merged(old) : old \in same}

IsLandingReady(v) == v.status = "VERIFIED" /\ Trainable(v)

Receipt(reason, evidence) == [reason |-> reason, evidence |-> evidence]

\* The receipt of a decision whose confirmation failed.
Unconfirmed(e) ==
  Receipt(IF e.termination \in {"MAX_BUDGET_UNSTABLE", "INCOMPLETE"}
          THEN "VERIFICATION_UNSTABLE" ELSE "BELOW_THRESHOLD_AFTER_CONFIRMATION", e)

\* The receipt of a decision whose moment was built.
Built(v, e) ==
  Receipt(IF Trainable(v) THEN "SAVED" ELSE "VERIFICATION_UNSTABLE", e)

-----------------------------------------------------------------------------
\* The pass over the game.

FirstSlice ==
  [next |-> 0, from |-> 0, moments |-> {}, owned |-> {}, errors |-> {},
   receipts |-> [p \in Decisions |-> Receipt("NONE", NoEvidence)],
   confirmations |-> [p \in Decisions |-> 0]]

GameInit ==
  /\ forced \in SUBSET Plies
  /\ breaksAt \in 0..(LastPly + 1)
  /\ landing \in BOOLEAN
  /\ progress = "idle"
  /\ slice = FirstSlice
  /\ checkpoint = NoCheckpoint
  /\ manifest = NoManifest

\* An invocation starts from the saved checkpoint; the onboarding has none.
Start ==
  /\ progress = "idle"
  /\ progress' = "running"
  /\ slice' = IF checkpoint = NoCheckpoint THEN FirstSlice
              ELSE [checkpoint EXCEPT !.from = checkpoint.next]
  /\ UNCHANGED <<forced, breaksAt, landing, checkpoint, manifest>>

\* Mutant: the checkpoint forgets which decisions a lookahead has taken.
YieldForgetting ==
  /\ progress = "running" /\ ~landing
  /\ slice.next \in Plies /\ slice.next > slice.from
  /\ checkpoint' = [slice EXCEPT !.owned = {}]
  /\ progress' = "idle"
  /\ UNCHANGED <<forced, breaksAt, landing, slice, manifest>>

\* Checked between two plies, never before the first of an invocation.
Yield ==
  /\ progress = "running" /\ ~landing
  /\ slice.next \in Plies /\ slice.next > slice.from
  /\ checkpoint' = slice
  /\ progress' = "idle"
  /\ UNCHANGED <<forced, breaksAt, landing, slice, manifest>>

\* An invocation dies, is aborted, or the engine fails.
Crash ==
  /\ progress = "running"
  /\ progress' = "idle"
  /\ UNCHANGED <<forced, breaksAt, landing, slice, checkpoint, manifest>>

At(p) == progress = "running" /\ p = slice.next

\* A decision of the user that no lookahead has taken is receipted as soon as
\* its ply is reached.
OpenedPly(s, p) ==
  IF IsUser(p) /\ p \notin s.owned
  THEN [s EXCEPT !.receipts[p] =
          Receipt(IF p \in forced THEN "FORCED_MOVE" ELSE "ANALYSIS_INCOMPLETE", NoEvidence)]
  ELSE s

Scanned(s, p, mistake) ==
  IF IsUser(p) /\ p \notin forced /\ p \notin s.owned
  THEN [s EXCEPT !.receipts[p] =
          Receipt(IF mistake THEN "ANALYSIS_INCOMPLETE" ELSE "BELOW_COVERAGE_THRESHOLD",
                  NoEvidence)]
  ELSE s

NextPly(s) ==
  /\ slice' = [s EXCEPT !.next = @ + 1]
  /\ UNCHANGED <<forced, breaksAt, landing, progress, checkpoint, manifest>>

\* The receipts are rebuilt from the moments when the game has been read.
Rebuilt(s) ==
  [p \in Decisions |->
     LET mine == {m \in s.moments : m.ply = p} IN
     IF mine = {} THEN s.receipts[p]
     ELSE Receipt(IF \E m \in mine : m.trainable THEN "SAVED" ELSE "VERIFICATION_UNSTABLE",
                  s.receipts[p].evidence)]

\* The move of the source cannot be replayed: the pass ends.
ReplayStops(p) ==
  /\ At(p) /\ p = breaksAt
  /\ LET s == OpenedPly(slice, p) IN slice' = [s EXCEPT !.receipts = Rebuilt(s)]
  /\ progress' = "done"
  /\ manifest' = [complete |-> FALSE, termination |-> "SOURCE_REPLAY_STOPPED"]
  /\ UNCHANGED <<forced, breaksAt, landing, checkpoint>>

\* The engine returns no usable line, or no score that can be compared.
NotComparable(p) ==
  /\ At(p) /\ p \in Plies \ {breaksAt}
  /\ NextPly([OpenedPly(slice, p) EXCEPT
                !.errors = @ \cup (IF p \in forced THEN {} ELSE {p})])

NoMistake(p) ==
  /\ At(p) /\ p \in Plies \ {breaksAt}
  /\ NextPly(Scanned(OpenedPly(slice, p), p, FALSE))

\* The confirmation of the decision at ply q, and its moment when it holds.
Decide(s, q, e, v, sources) ==
  LET counted == [s EXCEPT !.confirmations[q] = @ + 1,
                           !.errors = @ \cup (IF e.complete THEN {} ELSE {q})]
  IN IF Confirmed(e)
     THEN [counted EXCEPT !.moments = Store(@, Moment(q, v, sources)),
                          !.receipts[q] = Built(v, e)]
     ELSE [counted EXCEPT !.receipts[q] = Unconfirmed(e)]

\* The onboarding stops at the first moment that is fully verified.
FoundOne(s, e, v) ==
  /\ landing /\ Confirmed(e) /\ IsLandingReady(v)
  /\ slice' = s
  /\ progress' = "found"
  /\ UNCHANGED <<forced, breaksAt, landing, checkpoint, manifest>>

Continue(s, e, v) ==
  /\ ~(landing /\ Confirmed(e) /\ IsLandingReady(v))
  /\ NextPly(s)

\* A mistake of the user, unless a lookahead has decided it.
UserMistake(p) ==
  /\ At(p) /\ p \in Decisions \ {breaksAt}
  /\ LET s == Scanned(OpenedPly(slice, p), p, TRUE) IN
     \/ /\ p \in forced \cup s.owned
        /\ NextPly(s)
     \/ /\ p \notin forced \cup s.owned
        /\ \E e \in Evidence, v \in Verdict(p) :
             LET t == Decide(s, p, e, v, {"MY_MISTAKE"})
             IN FoundOne(t, e, v) \/ Continue(t, e, v)

\* A mistake of the opponent to which the user found a practical answer, or
\* after which the game ended.
Punished(p) ==
  /\ At(p) /\ p \in Plies \ (Decisions \cup {breaksAt})
  /\ NextPly(slice)

\* The lookahead takes the decision q from the pass and confirms it at once.
LookedAhead(s, q, e, v) ==
  Decide([s EXCEPT !.owned = @ \cup {q}], q, e, v, {"MY_MISTAKE", "MISSED_OPPORTUNITY"})

\* A mistake of the opponent that the reply missed: the lookahead owns the
\* decision of the next ply from here on.
Missed(p) ==
  /\ At(p) /\ p \in Plies \ (Decisions \cup forced \cup {breaksAt})
  /\ p + 1 \in Plies
  /\ \E e \in Evidence, v \in Verdict(p + 1) :
       LET t == LookedAhead(slice, p + 1, e, v)
       IN FoundOne(t, e, v) \/ Continue(t, e, v)

\* The manifest of a game whose last ply has been scanned.
Finish ==
  /\ progress = "running" /\ slice.next = LastPly + 1
  /\ progress' = "done"
  /\ slice' = [slice EXCEPT !.receipts = Rebuilt(slice)]
  /\ manifest' = [complete |-> slice.errors = {},
                  termination |-> IF slice.errors = {} THEN "COMPLETED"
                                  ELSE "ANALYSIS_INCOMPLETE"]
  /\ UNCHANGED <<forced, breaksAt, landing, checkpoint>>

GameNext ==
  \/ Start \/ Yield \/ Crash \/ Finish
  \/ \E p \in Plies : \/ ReplayStops(p) \/ NotComparable(p) \/ NoMistake(p)
                      \/ UserMistake(p) \/ Punished(p) \/ Missed(p)

GameSpec == GameInit /\ [][GameNext]_gameVars

-----------------------------------------------------------------------------
\* The schema that the receipts are validated with before they are persisted.
ValidEvidence(e) ==
  CASE e.termination = "STABLE" -> e.stable /\ e.qualifies
    [] e.termination = "BELOW_THRESHOLD" -> e.stable /\ ~e.qualifies
    [] OTHER -> ~e.stable

ValidReceipt(r) ==
  /\ r.evidence # NoEvidence => ValidEvidence(r.evidence)
  /\ r.reason = "SAVED" /\ r.evidence # NoEvidence
     => r.evidence.stable /\ r.evidence.termination = "STABLE"
  /\ r.reason = "BELOW_THRESHOLD_AFTER_CONFIRMATION"
     => /\ r.evidence # NoEvidence
        /\ r.evidence.stable /\ r.evidence.termination = "BELOW_THRESHOLD"

\* What the server requires of the moments of an analysis that a browser uploads,
\* their solutions apart: where each comes from, and no two of one decision.
ValidCandidate(m) ==
  m.sources # {} /\ m.sources \subseteq {"MY_MISTAKE", "MISSED_OPPORTUNITY"}

ValidUpload(moments) ==
  /\ \A m \in moments : ValidCandidate(m)
  /\ \A m1, m2 \in moments : m1.ply = m2.ply => m1 = m2

MatchesSource(m) == m.ply \in Decisions

\* A decision is confirmed once, whichever ply finds it: the lookahead of the
\* opponent's ply or the user's own, in one invocation or across checkpoints.
DecidedOnce == \A p \in Decisions : slice.confirmations[p] <= 1

\* A manifest that calls the extraction complete leaves no decision undecided:
\* every gap of the scan or of a confirmation has been noted as an error.
CompleteIsDecided ==
  (progress = "done" /\ manifest.complete)
    => \A p \in Decisions : slice.receipts[p].reason \notin {"NONE", "ANALYSIS_INCOMPLETE"}

\* The receipt of a finished game passes its own schema, and says SAVED of the
\* decisions that have a trainable moment, never of a forced one.
ReceiptsAreTrue ==
  progress = "done"
    => /\ \A p \in Decisions : ValidReceipt(slice.receipts[p])
       /\ {p \in Decisions : slice.receipts[p].reason = "SAVED"}
            = {m.ply : m \in {x \in slice.moments : x.trainable}}
       /\ \A p \in forced \cap Decisions : slice.receipts[p].reason # "SAVED"

\* The upload of a game is not refused: one decision found twice, by a lookahead and
\* by the pass, or before and after a checkpoint, would lose the whole analysis.
UploadIsValid ==
  progress \in {"done", "found"}
    => ValidUpload(slice.moments) /\ \A m \in slice.moments : MatchesSource(m)

\* What extractTrainingMoments.ts keeps of a game, across slices: one confirmation of a
\* decision, none left open, a receipt of each that is true, and moments that
\* candidateValidation.ts accepts.
GameIsDecided == DecidedOnce /\ CompleteIsDecided /\ ReceiptsAreTrue /\ UploadIsValid
==============================================================================
