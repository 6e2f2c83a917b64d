------------------------ MODULE TrainingExtractionProofs ------------------------
(***************************************************************************)
(* Proofs about what training is made of, how it is solved and announced:   *)
(* TrainingExtraction, for games of any length, any losses and thresholds,  *)
(* and any answers of the engine; PracticeSession, for lines of any length; *)
(* and PracticeDueSweep, for any users, handlers and days, and slices and   *)
(* pages of any size.                                                       *)
(*                                                                         *)
(* The invariant of an extraction is of one ply at a time (PlyOK): what the *)
(* slice of an invocation, or its checkpoint, says of it before it is       *)
(* reached, when a lookahead has taken it, and behind the pass.             *)
(*                                                                         *)
(* A complete sweep has told of all that stayed due because its totals are  *)
(* what lies behind its cursor (TotalsKept), and a message that continues   *)
(* behind a user says that those before have been told (MessageKept).       *)
(*                                                                         *)
(* A position is completed once because it has one task while a move is     *)
(* submitted and none otherwise (TasksKept), and its line is recorded as it *)
(* was graded because it is answered, or over, at every await (LineKept).   *)
(***************************************************************************)
EXTENDS TrainingExtraction, PracticeDueSweep, PracticeSession,
  FiniteSetTheorems, SequenceTheorems, WellFoundedInduction, TLAPS

Sources == {"MY_MISTAKE", "MISSED_OPPORTUNITY"}
Status == {"VERIFIED", "AMBIGUOUS", "UNSTABLE", "INVALID"}
Moments == [ply : Decisions, status : Status, trainable : BOOLEAN, sources : SUBSET Sources]
Receipts == [reason : Reason, evidence : Evidence \cup {NoEvidence}]
Slices == [next : 0..(LastPly + 1), from : 0..(LastPly + 1), moments : SUBSET Moments,
           owned : SUBSET Decisions, errors : SUBSET Plies,
           receipts : [Decisions -> Receipts], confirmations : [Decisions -> Nat]]

TypeOK ==
  /\ forced \subseteq Plies
  /\ progress \in {"idle", "running", "done", "found"}
  /\ slice \in Slices
  /\ checkpoint # NoCheckpoint => checkpoint \in Slices

Settled(receipt) == receipt.reason \notin {"NONE", "ANALYSIS_INCOMPLETE"}

\* What a slice says of the decision at ply p.
PlyOK(s, p) ==
  /\ s.confirmations[p] \in {0, 1}
  /\ p \notin s.owned /\ s.next <= p => s.confirmations[p] = 0
  /\ p \in s.owned => p <= s.next /\ Settled(s.receipts[p])
  /\ p < s.next => Settled(s.receipts[p])
                   \/ (s.receipts[p].reason = "ANALYSIS_INCOMPLETE" /\ p \in s.errors)
  /\ ValidReceipt(s.receipts[p])
  /\ s.receipts[p].reason = "SAVED" => \E m \in s.moments : m.ply = p
  /\ \A m \in s.moments : m.ply = p => /\ s.confirmations[p] = 1
                                       /\ Confirmed(s.receipts[p].evidence)
                                       /\ m.trainable => p \notin forced

SliceOK(s) == \A p \in Decisions : PlyOK(s, p)

SliceOnce(s) == \A p \in Decisions : s.confirmations[p] <= 1

Inv == /\ TypeOK /\ DecidedOnce /\ CompleteIsDecided /\ ReceiptsAreTrue
       /\ progress = "running" => SliceOK(slice)
       /\ checkpoint # NoCheckpoint => SliceOK(checkpoint)

-----------------------------------------------------------------------------
(* The operators.                                                          *)

LEMMA PlyNumbers ==
  /\ LastPly \in Nat
  /\ \A p \in Plies : p \in Nat /\ p <= LastPly
  /\ \A p \in Decisions : p \in Plies /\ p \in Nat /\ p <= LastPly
  /\ \A p \in Plies \ Decisions : p + 1 \in Plies => p + 1 \in Decisions
<1>1. LastPly \in Nat /\ UserParity \in {0, 1}
  BY ExtractionAssumption
<1>2. \A p \in Plies : p \in Nat /\ p <= LastPly
  BY <1>1 DEF Plies
<1>3. ASSUME NEW p \in Plies \ Decisions, p + 1 \in Plies
      PROVE  p + 1 \in Decisions
  <2>1. p % 2 # UserParity /\ p \in Nat
    BY <1>2, <1>3 DEF Decisions, IsUser
  <2>2. (p + 1) % 2 = UserParity
    BY <1>1, <2>1
  <2> QED BY <1>3, <2>2 DEF Decisions, IsUser
<1> QED BY <1>1, <1>2, <1>3 DEF Decisions

\* The passes of a confirmation end with a termination that says what they found.
LEMMA EvidenceTrue ==
  ASSUME NEW e \in Evidence
  PROVE  /\ ValidEvidence(e)
         /\ Confirmed(e) => e.termination = "STABLE"
         /\ ~Confirmed(e) /\ e.termination \notin {"MAX_BUDGET_UNSTABLE", "INCOMPLETE"}
              => e.stable /\ e.termination = "BELOW_THRESHOLD"
<1>1. PICK scan \in Scan, passes \in [1..Passes -> Pass] : e = ConfirmAdaptively(scan, passes)
  BY DEF Evidence
<1>2. \E mem, latest :
        e = [stable |-> ~Disagrees(mem, latest), complete |-> latest.complete,
             qualifies |-> PassQualifies(latest),
             termination |-> CASE ~latest.complete -> "INCOMPLETE"
                               [] latest.complete /\ ~(~Disagrees(mem, latest))
                                    -> "MAX_BUDGET_UNSTABLE"
                               [] ~Disagrees(mem, latest) /\ PassQualifies(latest) -> "STABLE"
                               [] OTHER -> "BELOW_THRESHOLD"]
  BY <1>1, Zenon DEF ConfirmAdaptively
<1>3. PICK mem, latest :
        e = [stable |-> ~Disagrees(mem, latest), complete |-> latest.complete,
             qualifies |-> PassQualifies(latest),
             termination |-> CASE ~latest.complete -> "INCOMPLETE"
                               [] latest.complete /\ ~(~Disagrees(mem, latest))
                                    -> "MAX_BUDGET_UNSTABLE"
                               [] ~Disagrees(mem, latest) /\ PassQualifies(latest) -> "STABLE"
                               [] OTHER -> "BELOW_THRESHOLD"]
  BY <1>2
<1> DEFINE stable == ~Disagrees(mem, latest)
           qualifies == PassQualifies(latest)
<1>4. stable \in BOOLEAN /\ qualifies \in BOOLEAN
  BY DEF PassQualifies, Disagrees
<1>5. stable => latest.complete
  BY DEF Disagrees
<1>6. e.stable = stable /\ e.qualifies = qualifies
  BY <1>3
<1>7. e.termination = IF ~latest.complete THEN "INCOMPLETE"
                      ELSE IF ~stable THEN "MAX_BUDGET_UNSTABLE"
                      ELSE IF qualifies THEN "STABLE" ELSE "BELOW_THRESHOLD"
  BY <1>3, <1>5
<1> HIDE DEF stable, qualifies
<1> QED BY <1>4, <1>5, <1>6, <1>7 DEF ValidEvidence, Confirmed

\* The receipt of a confirmation.
LEMMA DecidedReceipt ==
  ASSUME NEW e \in Evidence, NEW v
  PROVE  /\ Confirmed(e) => /\ Built(v, e) \in Receipts /\ ValidReceipt(Built(v, e))
                            /\ Settled(Built(v, e)) /\ Built(v, e).evidence = e
         /\ ~Confirmed(e) => /\ Unconfirmed(e) \in Receipts /\ ValidReceipt(Unconfirmed(e))
                             /\ Settled(Unconfirmed(e)) /\ Unconfirmed(e).reason # "SAVED"
<1>1. /\ ValidEvidence(e)
      /\ Confirmed(e) => e.termination = "STABLE" /\ e.stable
      /\ ~Confirmed(e) /\ e.termination \notin {"MAX_BUDGET_UNSTABLE", "INCOMPLETE"}
           => e.stable /\ e.termination = "BELOW_THRESHOLD"
  BY EvidenceTrue DEF Confirmed
<1>2. ASSUME Confirmed(e)
      PROVE  /\ Built(v, e) \in Receipts /\ ValidReceipt(Built(v, e))
             /\ Settled(Built(v, e)) /\ Built(v, e).evidence = e
  BY <1>1, <1>2 DEF Built, Receipt, Receipts, Reason, ValidReceipt, Settled
<1>3. ASSUME ~Confirmed(e)
      PROVE  /\ Unconfirmed(e) \in Receipts /\ ValidReceipt(Unconfirmed(e))
             /\ Settled(Unconfirmed(e)) /\ Unconfirmed(e).reason # "SAVED"
  BY <1>1, <1>3, EvidenceAssumption DEF Unconfirmed, Receipt, Receipts, Reason, ValidReceipt, Settled
<1> QED BY <1>2, <1>3

\* The receipt of a ply that was not confirmed.
LEMMA PlainReceipt ==
  ASSUME NEW reason \in {"NONE", "FORCED_MOVE", "ANALYSIS_INCOMPLETE", "BELOW_COVERAGE_THRESHOLD"}
  PROVE  /\ Receipt(reason, NoEvidence) \in Receipts
         /\ ValidReceipt(Receipt(reason, NoEvidence))
         /\ Receipt(reason, NoEvidence).reason = reason
BY DEF Receipt, Receipts, Reason, ValidReceipt
-----------------------------------------------------------------------------
(* What the handlers make of a slice.                                      *)

Stamped(s, p, r) == [s EXCEPT !.receipts = [@ EXCEPT ![p] = r]]

\* A ply that is reached or scanned is receipted when it is a decision that no
\* lookahead has taken, and nothing else of the slice changes.
LEMMA Opened ==
  ASSUME NEW s \in Slices, NEW p \in Plies
  PROVE  \E reason \in {"FORCED_MOVE", "ANALYSIS_INCOMPLETE"} :
           /\ OpenedPly(s, p) = IF p \in Decisions \ s.owned
                THEN Stamped(s, p, Receipt(reason, NoEvidence))
                ELSE s
           /\ reason = "FORCED_MOVE" <=> p \in forced
<1>1. IsUser(p) <=> p \in Decisions
  BY DEF Decisions
<1>2. CASE p \in forced
  <2>1. OpenedPly(s, p) = IF p \in Decisions \ s.owned
          THEN Stamped(s, p, Receipt("FORCED_MOVE", NoEvidence))
          ELSE s
    BY <1>1, <1>2, Zenon DEF OpenedPly, Stamped
  <2> QED BY <1>2, <2>1
<1>3. CASE p \notin forced
  <2>1. OpenedPly(s, p) = IF p \in Decisions \ s.owned
          THEN Stamped(s, p, Receipt("ANALYSIS_INCOMPLETE", NoEvidence))
          ELSE s
    BY <1>1, <1>3, Zenon DEF OpenedPly, Stamped
  <2> QED BY <1>3, <2>1
<1> QED BY <1>2, <1>3

\* t is s with the receipt r at p.
Replaced(s, t, p, r) ==
  /\ t.next = s.next /\ t.from = s.from /\ t.moments = s.moments
  /\ t.owned = s.owned /\ t.errors = s.errors
  /\ t.confirmations = s.confirmations
  /\ t.receipts = [s.receipts EXCEPT ![p] = r]

\* The fields of a slice whose receipt of one decision is replaced.
LEMMA Receipted ==
  ASSUME NEW s \in Slices, NEW p \in Decisions, NEW r \in Receipts
  PROVE  /\ Stamped(s, p, r) \in Slices
         /\ Replaced(s, Stamped(s, p, r), p, r)
<1> DEFINE t == Stamped(s, p, r)
<1>1. s.receipts \in [Decisions -> Receipts]
  BY DEF Slices
<1>2. [s.receipts EXCEPT ![p] = r] \in [Decisions -> Receipts]
  BY <1>1
<1>3. t = [s EXCEPT !.receipts = [s.receipts EXCEPT ![p] = r]]
  BY Zenon DEF Stamped
<1> HIDE DEF t
<1>4. t \in Slices
  BY <1>2, <1>3, Zenon DEF Slices
<1>5. Replaced(s, t, p, r)
  BY <1>3, <1>4 DEF Slices, Replaced
<1> QED BY <1>4, <1>5 DEF t

\* s and t are the slices before and after the ply that s has reached was opened.
Reached(s, t) ==
  /\ t \in Slices
  /\ t.next = s.next /\ t.from = s.from /\ t.moments = s.moments
  /\ t.owned = s.owned /\ t.errors = s.errors /\ t.confirmations = s.confirmations
  /\ \A q \in Decisions : q # s.next \/ q \in s.owned => t.receipts[q] = s.receipts[q]
  /\ \A q \in Decisions \ s.owned : q = s.next =>
       \E reason \in {"FORCED_MOVE", "BELOW_COVERAGE_THRESHOLD", "ANALYSIS_INCOMPLETE"} :
         t.receipts[q] = Receipt(reason, NoEvidence)

LEMMA OpenedReached ==
  ASSUME NEW s \in Slices, s.next \in Plies
  PROVE  /\ Reached(s, OpenedPly(s, s.next))
         /\ \A q \in Decisions \ s.owned : q = s.next =>
              OpenedPly(s, s.next).receipts[q]
                = Receipt(IF q \in forced THEN "FORCED_MOVE" ELSE "ANALYSIS_INCOMPLETE",
                          NoEvidence)
<1>1. PICK reason \in {"FORCED_MOVE", "ANALYSIS_INCOMPLETE"} :
           /\ OpenedPly(s, s.next) = IF s.next \in Decisions \ s.owned
                THEN Stamped(s, s.next, Receipt(reason, NoEvidence))
                ELSE s
           /\ reason = "FORCED_MOVE" <=> s.next \in forced
  BY Opened, Zenon
<1>2. CASE s.next \in Decisions \ s.owned
  <2>1. Receipt(reason, NoEvidence) \in Receipts
    BY PlainReceipt
  <2>2. OpenedPly(s, s.next)
          = Stamped(s, s.next, Receipt(reason, NoEvidence))
    BY <1>1, <1>2, Zenon
  <2> DEFINE t == OpenedPly(s, s.next)
  <2>3. t \in Slices /\ Replaced(s, t, s.next, Receipt(reason, NoEvidence))
    BY <1>2, <2>1, <2>2, Receipted
  <2> HIDE DEF t
  <2>4. s.receipts \in [Decisions -> Receipts]
    BY DEF Slices
  <2>5. /\ \A q \in Decisions : q # s.next => t.receipts[q] = s.receipts[q]
        /\ t.receipts[s.next] = Receipt(reason, NoEvidence)
    BY <1>2, <2>3, <2>4 DEF Replaced
  <2>6. Reached(s, t)
    BY <1>2, <2>3, <2>5 DEF Reached, Replaced
  <2>7. \A q \in Decisions \ s.owned : q = s.next =>
          t.receipts[q] = Receipt(IF q \in forced THEN "FORCED_MOVE" ELSE "ANALYSIS_INCOMPLETE",
                                  NoEvidence)
    BY <1>1, <2>5
  <2> QED BY <2>6, <2>7 DEF t
<1>3. CASE s.next \notin Decisions \ s.owned
  <2>1. OpenedPly(s, s.next) = s
    BY <1>1, <1>3, Zenon
  <2>2. Reached(s, s)
    BY <1>3 DEF Reached
  <2> QED BY <1>3, <2>1, <2>2
<1> QED BY <1>2, <1>3

LEMMA ScannedReached ==
  ASSUME NEW s \in Slices, s.next \in Plies, NEW mistake \in BOOLEAN
  PROVE  /\ Reached(s, Scanned(OpenedPly(s, s.next), s.next, mistake))
         /\ \A q \in Decisions \ s.owned : q = s.next /\ (q \in forced \/ ~mistake) =>
              Settled(Scanned(OpenedPly(s, s.next), s.next, mistake).receipts[q])
<1> DEFINE o == OpenedPly(s, s.next)
           t == Scanned(o, s.next, mistake)
           r == Receipt(IF mistake THEN "ANALYSIS_INCOMPLETE" ELSE "BELOW_COVERAGE_THRESHOLD",
                        NoEvidence)
<1>1. /\ Reached(s, o)
      /\ \A q \in Decisions \ s.owned : q = s.next =>
           o.receipts[q] = Receipt(IF q \in forced THEN "FORCED_MOVE" ELSE "ANALYSIS_INCOMPLETE",
                                   NoEvidence)
  BY OpenedReached, Zenon
<1>2. /\ r \in Receipts
      /\ r.reason = IF mistake THEN "ANALYSIS_INCOMPLETE" ELSE "BELOW_COVERAGE_THRESHOLD"
  BY PlainReceipt
<1>3. t = IF s.next \in Decisions /\ s.next \notin forced /\ s.next \notin s.owned
          THEN Stamped(o, s.next, r) ELSE o
  <2>1. o.owned = s.owned
    BY <1>1 DEF Reached
  <2> HIDE DEF o
  <2> QED BY <2>1, Zenon DEF Scanned, Decisions, Stamped
<1>4. \E reason \in {"BELOW_COVERAGE_THRESHOLD", "ANALYSIS_INCOMPLETE"} :
        r = Receipt(reason, NoEvidence)
  OBVIOUS
<1>5. CASE s.next \in Decisions /\ s.next \notin forced /\ s.next \notin s.owned
  <2>1. t = Stamped(o, s.next, r)
    BY <1>3, <1>5, Zenon
  <2>2. o \in Slices
    BY <1>1 DEF Reached
  <2> HIDE DEF t, o, r
  <2>3. t \in Slices /\ Replaced(o, t, s.next, r)
    BY <1>2, <1>5, <2>1, <2>2, Receipted
  <2>4. o.receipts \in [Decisions -> Receipts]
    BY <2>2 DEF Slices
  <2>5. /\ \A q \in Decisions : q # s.next => t.receipts[q] = o.receipts[q]
        /\ t.receipts[s.next] = r
    BY <1>5, <2>3, <2>4 DEF Replaced
  <2>6. Reached(s, t)
    BY <1>1, <1>4, <1>5, <2>3, <2>5 DEF Reached, Replaced
  <2>7. ~mistake => Settled(r)
    BY <1>2 DEF Settled
  <2> QED BY <1>5, <2>5, <2>6, <2>7 DEF t, o
<1>6. CASE ~(s.next \in Decisions /\ s.next \notin forced /\ s.next \notin s.owned)
  <2>1. t = o
    BY <1>3, <1>6, Zenon
  <2>2. \A q \in Decisions \ s.owned : q = s.next => Settled(o.receipts[q])
    <3>1. Receipt("FORCED_MOVE", NoEvidence).reason = "FORCED_MOVE"
      BY PlainReceipt
    <3> HIDE DEF o
    <3> QED BY <1>1, <1>6, <3>1 DEF Settled
  <2> QED BY <1>1, <2>1, <2>2, Zenon
<1> QED BY <1>5, <1>6, Zenon

\* A ply passed without a confirmation: SliceOK is kept.
LEMMA Passed ==
  ASSUME NEW s \in Slices, s.next \in Plies, SliceOK(s), NEW o, Reached(s, o),
         NEW t \in Slices, t.next = s.next + 1, t.moments = o.moments, t.owned = o.owned,
         t.confirmations = o.confirmations, t.receipts = o.receipts, o.errors \subseteq t.errors,
         \A q \in Decisions \ s.owned :
           q = s.next => Settled(t.receipts[q]) \/ q \in t.errors
  PROVE  SliceOK(t)
<1> SUFFICES ASSUME NEW q \in Decisions PROVE PlyOK(t, q)
  BY DEF SliceOK
<1>1. PlyOK(s, q)
  BY DEF SliceOK
<1>2. q \in Nat /\ s.next \in Nat
  BY PlyNumbers
<1>3. /\ t.moments = s.moments /\ t.owned = s.owned /\ t.confirmations = s.confirmations
      /\ s.errors \subseteq t.errors
  BY DEF Reached
<1>4. CASE q # s.next \/ q \in s.owned
  <2>1. t.receipts[q] = s.receipts[q]
    BY <1>4 DEF Reached
  <2>2. /\ t.next <= q => s.next <= q
        /\ q <= s.next => q <= t.next
        /\ q < t.next => q < s.next \/ q \in s.owned
    BY <1>2, <1>4
  <2>3. s.errors \subseteq t.errors /\ (q \in s.errors => q \in t.errors)
    BY <1>3
  <2>4. /\ t.confirmations[q] \in {0, 1}
        /\ q \notin t.owned /\ t.next <= q => t.confirmations[q] = 0
        /\ q \in t.owned => q <= t.next /\ Settled(t.receipts[q])
    BY <1>1, <1>3, <2>1, <2>2, Zenon DEF PlyOK
  <2>5. q < t.next => Settled(t.receipts[q])
                      \/ (t.receipts[q].reason = "ANALYSIS_INCOMPLETE" /\ q \in t.errors)
    BY <1>1, <2>1, <2>2, <2>3, Zenon DEF PlyOK
  <2>6. /\ ValidReceipt(t.receipts[q])
        /\ t.receipts[q].reason = "SAVED" => \E m \in t.moments : m.ply = q
        /\ \A m \in t.moments : m.ply = q => /\ t.confirmations[q] = 1
                                             /\ Confirmed(t.receipts[q].evidence)
                                             /\ m.trainable => q \notin forced
    BY <1>1, <1>3, <2>1, Zenon DEF PlyOK
  <2> QED BY <2>4, <2>5, <2>6, Zenon DEF PlyOK
<1>5. CASE q = s.next /\ q \notin s.owned
  <2>1. PICK reason \in {"FORCED_MOVE", "BELOW_COVERAGE_THRESHOLD", "ANALYSIS_INCOMPLETE"} :
          t.receipts[q] = Receipt(reason, NoEvidence)
    BY <1>5 DEF Reached
  <2>2. ValidReceipt(t.receipts[q]) /\ t.receipts[q].reason = reason
    BY <2>1, PlainReceipt
  <2>3. Settled(t.receipts[q]) \/ (t.receipts[q].reason = "ANALYSIS_INCOMPLETE" /\ q \in t.errors)
    <3>1. Settled(t.receipts[q]) \/ q \in t.errors
      BY <1>5, Zenon
    <3>2. Settled(t.receipts[q]) \/ reason = "ANALYSIS_INCOMPLETE"
      BY <2>2 DEF Settled
    <3> QED BY <2>2, <3>1, <3>2, Zenon
  <2>4. s.confirmations[q] = 0 /\ \A m \in s.moments : m.ply # q
    BY <1>1, <1>2, <1>5 DEF PlyOK
  <2> QED BY <1>2, <1>3, <1>5, <2>2, <2>3, <2>4 DEF PlyOK
<1> QED BY <1>4, <1>5

\* What the pass makes of a slice at its end of a ply.
LEMMA NextSlice ==
  ASSUME NEW s \in Slices, s.next \in Plies
  PROVE  LET t == [s EXCEPT !.next = @ + 1] IN
         /\ t \in Slices
         /\ t.next = s.next + 1 /\ t.from = s.from /\ t.moments = s.moments
         /\ t.owned = s.owned /\ t.errors = s.errors
         /\ t.confirmations = s.confirmations /\ t.receipts = s.receipts
<1>1. s.next + 1 \in 0..(LastPly + 1)
  BY PlyNumbers DEF Plies
<1> QED BY <1>1 DEF Slices

-----------------------------------------------------------------------------
(* A confirmation.                                                         *)

\* t is s with the confirmation of the decision at ply q.
Decided(s, t, q, e, v, sources) ==
  /\ t \in Slices
  /\ t.next = s.next /\ t.from = s.from /\ t.owned = s.owned /\ s.errors \subseteq t.errors
  /\ t.confirmations = [s.confirmations EXCEPT ![q] = s.confirmations[q] + 1]
  /\ Confirmed(e) => /\ t.moments = s.moments \cup {Moment(q, v, sources)}
                     /\ t.receipts = [s.receipts EXCEPT ![q] = Built(v, e)]
  /\ ~Confirmed(e) => /\ t.moments = s.moments
                      /\ t.receipts = [s.receipts EXCEPT ![q] = Unconfirmed(e)]

LEMMA MomentType ==
  ASSUME NEW q \in Decisions, NEW v \in Verdict(q), NEW sources \in SUBSET Sources
  PROVE  /\ Moment(q, v, sources) \in Moments
         /\ Moment(q, v, sources).ply = q
         /\ Moment(q, v, sources).trainable = Trainable(v)
         /\ Trainable(v) => q \notin forced
<1>1. v.status \in Status /\ (q \in forced => v.accepted = {"played"})
  BY DEF Verdict, Status
<1>2. Trainable(v) \in BOOLEAN /\ (Trainable(v) => q \notin forced)
  BY <1>1 DEF Trainable
<1> QED BY <1>1, <1>2 DEF Moment, Moments

LEMMA DecideFields ==
  ASSUME NEW s \in Slices, NEW q \in Decisions, NEW e \in Evidence, NEW v \in Verdict(q),
         NEW sources \in SUBSET Sources, \A m \in s.moments : m.ply # q
  PROVE  Decided(s, Decide(s, q, e, v, sources), q, e, v, sources)
<1> DEFINE m == Moment(q, v, sources)
           errors == s.errors \cup (IF e.complete THEN {} ELSE {q})
           confirmations == [s.confirmations EXCEPT ![q] = s.confirmations[q] + 1]
           counted == [s EXCEPT !.confirmations = confirmations, !.errors = errors]
           t == Decide(s, q, e, v, sources)
<1>1. m \in Moments /\ m.ply = q
  BY MomentType
<1>2. Store(s.moments, m) = s.moments \cup {m}
  <2>1. {old \in s.moments : old.ply = m.ply} = {}
    BY <1>1
  <2> HIDE DEF m
  <2> QED BY <2>1, Zenon DEF Store
<1>3. /\ s.confirmations \in [Decisions -> Nat] /\ s.receipts \in [Decisions -> Receipts]
      /\ s.errors \subseteq Plies /\ s.moments \subseteq Moments
  BY DEF Slices
<1>4. confirmations \in [Decisions -> Nat]
  <2>1. s.confirmations[q] + 1 \in Nat
    BY <1>3
  <2> QED BY <1>3, <2>1
<1>5. errors \in SUBSET Plies /\ s.errors \subseteq errors
  BY <1>3, PlyNumbers
<1>6. [s EXCEPT !.confirmations[q] = @ + 1,
                !.errors = @ \cup (IF e.complete THEN {} ELSE {q})] = counted
  OBVIOUS
<1>7. Confirmed(e) =>
        t = [counted EXCEPT !.moments = Store(counted.moments, m),
                            !.receipts = [counted.receipts EXCEPT ![q] = Built(v, e)]]
  BY <1>6, Zenon DEF Decide
<1>8. ~Confirmed(e) =>
        t = [counted EXCEPT !.receipts = [counted.receipts EXCEPT ![q] = Unconfirmed(e)]]
  BY <1>6, Zenon DEF Decide
<1> HIDE DEF m, errors, confirmations, t
<1>9. counted \in Slices
  BY <1>4, <1>5, Zenon DEF Slices
<1>10. /\ counted.next = s.next /\ counted.from = s.from /\ counted.owned = s.owned
       /\ counted.errors = errors /\ counted.confirmations = confirmations
       /\ counted.moments = s.moments /\ counted.receipts = s.receipts
  BY DEF Slices
<1> HIDE DEF counted
<1>11. CASE Confirmed(e)
  <2> DEFINE receipts == [s.receipts EXCEPT ![q] = Built(v, e)]
             moments == s.moments \cup {m}
  <2>1. Built(v, e) \in Receipts
    BY <1>11, DecidedReceipt
  <2>2. receipts \in [Decisions -> Receipts]
    BY <1>3, <2>1
  <2>3. moments \in SUBSET Moments
    BY <1>1, <1>3
  <2>4. t = [counted EXCEPT !.moments = moments, !.receipts = receipts]
    BY <1>2, <1>7, <1>10, <1>11, Zenon
  <2>5. /\ t.next = s.next /\ t.from = s.from /\ t.owned = s.owned /\ t.errors = errors
        /\ t.confirmations = confirmations /\ t.moments = moments /\ t.receipts = receipts
    <3> HIDE DEF moments, receipts
    <3> QED BY <1>9, <1>10, <2>4 DEF Slices
  <2>6. t \in Slices
    <3> HIDE DEF moments, receipts
    <3> QED BY <1>9, <2>2, <2>3, <2>4, Zenon DEF Slices
  <2> QED BY <1>5, <1>11, <2>5, <2>6, Zenon DEF Decided, m, confirmations, t
<1>12. CASE ~Confirmed(e)
  <2> DEFINE receipts == [s.receipts EXCEPT ![q] = Unconfirmed(e)]
  <2>1. Unconfirmed(e) \in Receipts
    BY <1>12, DecidedReceipt
  <2>2. receipts \in [Decisions -> Receipts]
    BY <1>3, <2>1
  <2>4. t = [counted EXCEPT !.receipts = receipts]
    BY <1>8, <1>10, <1>12, Zenon
  <2>5. /\ t.next = s.next /\ t.from = s.from /\ t.owned = s.owned /\ t.errors = errors
        /\ t.confirmations = confirmations /\ t.moments = s.moments /\ t.receipts = receipts
    <3> HIDE DEF receipts
    <3> QED BY <1>9, <1>10, <2>4 DEF Slices
  <2>6. t \in Slices
    <3> HIDE DEF receipts
    <3> QED BY <1>9, <2>2, <2>4, Zenon DEF Slices
  <2> QED BY <1>5, <1>12, <2>5, <2>6, Zenon DEF Decided, confirmations, t
<1> QED BY <1>11, <1>12

\* A ply passed with a confirmation of its own decision, or by the lookahead of
\* the opponent's ply before it, which takes that decision: SliceOK is kept.
\* s is the slice before the ply, o the one that the confirmation is of.
LEMMA PassedDecided ==
  ASSUME NEW s \in Slices, s.next \in Plies, SliceOK(s), NEW o \in Slices,
         NEW q \in Decisions, NEW e \in Evidence, NEW v \in Verdict(q),
         NEW sources \in SUBSET Sources, NEW d, Decided(o, d, q, e, v, sources),
         o.next = s.next, o.moments = s.moments, s.errors \subseteq o.errors,
         o.confirmations = s.confirmations,
         \A p \in Decisions : p # q => o.receipts[p] = s.receipts[p],
         \/ q = s.next /\ o.owned = s.owned
         \/ q = s.next + 1 /\ o.owned = s.owned \cup {q} /\ s.next \notin Decisions,
         s.confirmations[q] = 0,
         NEW t \in Slices, t.next = s.next + 1, t.moments = d.moments, t.owned = d.owned,
         t.confirmations = d.confirmations, t.receipts = d.receipts, t.errors = d.errors
  PROVE  SliceOK(t)
<1> SUFFICES ASSUME NEW p \in Decisions PROVE PlyOK(t, p)
  BY DEF SliceOK
<1>1. PlyOK(s, p)
  BY DEF SliceOK
<1>2. p \in Nat /\ q \in Nat /\ s.next \in Nat
  BY PlyNumbers
<1>3. /\ t.owned = o.owned /\ s.errors \subseteq t.errors
      /\ t.confirmations = [s.confirmations EXCEPT ![q] = s.confirmations[q] + 1]
  BY DEF Decided
<1>4. s.confirmations \in [Decisions -> Nat] /\ o.receipts \in [Decisions -> Receipts]
  BY DEF Slices
<1>5. CASE p # q
  <2>1. t.confirmations[p] = s.confirmations[p]
    BY <1>3, <1>4, <1>5
  <2>2. t.receipts[p] = s.receipts[p]
    BY <1>4, <1>5 DEF Decided
  <2>3. \A m \in t.moments : m.ply = p => m \in s.moments
    BY <1>5, MomentType DEF Decided
  <2>4. s.moments \subseteq t.moments
    BY DEF Decided
  <2>5. p \in t.owned <=> p \in s.owned
    BY <1>3, <1>5
  <2>6. p < t.next => p < s.next
    BY <1>2, <1>5
  <2> QED BY <1>1, <1>2, <1>3, <2>1, <2>2, <2>3, <2>4, <2>5, <2>6 DEF PlyOK
<1>6. CASE p = q
  <2>1. t.confirmations[q] = 1 /\ t.confirmations[q] \in {0, 1}
    BY <1>3, <1>4
  <2>2. q <= t.next /\ (t.next <= q => q \in t.owned)
    BY <1>2, <1>3
  <2>4. \A m \in s.moments : m.ply # q
    BY <1>1, <1>6 DEF PlyOK
  <2>5. CASE Confirmed(e)
    <3>1. t.receipts[q] = Built(v, e) /\ t.moments = s.moments \cup {Moment(q, v, sources)}
      BY <1>4, <2>5 DEF Decided
    <3>2. /\ ValidReceipt(t.receipts[q]) /\ Settled(t.receipts[q])
          /\ t.receipts[q].evidence = e
      BY <2>5, <3>1, DecidedReceipt
    <3>3. \A m \in t.moments : m.ply = q /\ m.trainable => q \notin forced
      BY <2>4, <3>1, MomentType
    <3>4. \E m \in t.moments : m.ply = q
      BY <3>1, MomentType
    <3>5. /\ t.receipts[q].reason = "SAVED" => \E m \in t.moments : m.ply = q
          /\ \A m \in t.moments : m.ply = q => /\ t.confirmations[q] = 1
                                               /\ Confirmed(t.receipts[q].evidence)
                                               /\ m.trainable => q \notin forced
      BY <2>1, <2>5, <3>2, <3>3, <3>4
    <3>6. PlyOK(t, q)
      BY <2>1, <2>2, <3>2, <3>5, Zenon DEF PlyOK
    <3> QED BY <1>6, <3>6
  <2>6. CASE ~Confirmed(e)
    <3>1. t.receipts[q] = Unconfirmed(e) /\ t.moments = s.moments
      BY <1>4, <2>6 DEF Decided
    <3>2. /\ ValidReceipt(t.receipts[q]) /\ Settled(t.receipts[q])
          /\ t.receipts[q].reason # "SAVED"
      BY <2>6, <3>1, DecidedReceipt
    <3>5. /\ t.receipts[q].reason = "SAVED" => \E m \in t.moments : m.ply = q
          /\ \A m \in t.moments : m.ply = q => /\ t.confirmations[q] = 1
                                               /\ Confirmed(t.receipts[q].evidence)
                                               /\ m.trainable => q \notin forced
      BY <2>1, <2>4, <3>1, <3>2
    <3>6. PlyOK(t, q)
      BY <2>1, <2>2, <3>2, <3>5, Zenon DEF PlyOK
    <3> QED BY <1>6, <3>6
  <2> QED BY <2>5, <2>6
<1> QED BY <1>5, <1>6

-----------------------------------------------------------------------------
(* The receipts of a finished game.                                        *)

\* What the rebuilding of the receipts relies on.
TrueOf(s, p) ==
  /\ ValidReceipt(s.receipts[p])
  /\ s.receipts[p].reason = "SAVED" => \E m \in s.moments : m.ply = p
  /\ \A m \in s.moments : m.ply = p => /\ Confirmed(s.receipts[p].evidence)
                                       /\ m.trainable => p \notin forced

LEMMA ReachedTrue ==
  ASSUME NEW s \in Slices, s.next \in Plies, SliceOK(s), NEW o, Reached(s, o)
  PROVE  \A p \in Decisions : TrueOf(o, p)
<1> SUFFICES ASSUME NEW p \in Decisions PROVE TrueOf(o, p)
  OBVIOUS
<1>1. PlyOK(s, p) /\ p \in Nat /\ s.next \in Nat
  BY PlyNumbers DEF SliceOK
<1>2. o.moments = s.moments
  BY DEF Reached
<1>3. CASE p # s.next \/ p \in s.owned
  <2>1. o.receipts[p] = s.receipts[p]
    BY <1>3 DEF Reached
  <2> QED BY <1>1, <1>2, <2>1, Zenon DEF PlyOK, TrueOf
<1>4. CASE p = s.next /\ p \notin s.owned
  <2>1. PICK reason \in {"FORCED_MOVE", "BELOW_COVERAGE_THRESHOLD", "ANALYSIS_INCOMPLETE"} :
          o.receipts[p] = Receipt(reason, NoEvidence)
    BY <1>4 DEF Reached
  <2>2. ValidReceipt(o.receipts[p]) /\ o.receipts[p].reason # "SAVED"
    BY <2>1, PlainReceipt
  <2>3. s.next <= p
    BY <1>1, <1>4
  <2>4. \A m \in s.moments : m.ply # p
    <3>1. s.confirmations[p] = 0
      BY <1>1, <1>4, <2>3 DEF PlyOK
    <3> QED BY <1>1, <3>1 DEF PlyOK
  <2> QED BY <1>2, <2>2, <2>4, Zenon DEF TrueOf
<1> QED BY <1>3, <1>4

LEMMA RebuiltOf ==
  ASSUME NEW s \in Slices, NEW p \in Decisions, TrueOf(s, p)
  PROVE  /\ Rebuilt(s)[p] \in Receipts /\ ValidReceipt(Rebuilt(s)[p])
         /\ Rebuilt(s)[p].reason = "SAVED" <=> \E m \in s.moments : m.ply = p /\ m.trainable
         /\ p \in forced => Rebuilt(s)[p].reason # "SAVED"
         /\ Settled(s.receipts[p]) => Settled(Rebuilt(s)[p])
<1> DEFINE mine == {m \in s.moments : m.ply = p}
           old == s.receipts[p]
           r == Rebuilt(s)[p]
           reason == IF \E m \in mine : m.trainable THEN "SAVED" ELSE "VERIFICATION_UNSTABLE"
<1>1. r = IF mine = {} THEN old ELSE Receipt(reason, old.evidence)
  BY Zenon DEF Rebuilt
<1>2. old \in Receipts
  BY DEF Slices
<1> HIDE DEF r, old
<1>3. CASE mine = {}
  <2>1. r = old /\ \A m \in s.moments : m.ply # p
    BY <1>1, <1>3
  <2>2. ValidReceipt(old) /\ old.reason # "SAVED"
    BY <2>1 DEF TrueOf, old
  <2> QED BY <1>2, <2>1, <2>2 DEF r, old
<1>4. CASE mine # {}
  <2>1. r = Receipt(reason, old.evidence)
    BY <1>1, <1>4, Zenon
  <2>2. /\ Confirmed(old.evidence) /\ ValidReceipt(old)
        /\ \A m \in mine : m.trainable => p \notin forced
    BY <1>4 DEF TrueOf, old
  <2>3. reason \in {"SAVED", "VERIFICATION_UNSTABLE"}
    OBVIOUS
  <2>4. reason = "SAVED" <=> \E m \in s.moments : m.ply = p /\ m.trainable
    OBVIOUS
  <2>5. p \in forced => reason # "SAVED"
    BY <2>2
  <2> HIDE DEF reason
  <2>6. r.reason = reason /\ r.evidence = old.evidence
    BY <2>1 DEF Receipt
  <2>7. old.evidence \in Evidence \cup {NoEvidence}
    BY <1>2 DEF Receipts
  <2>8. r \in Receipts
    BY <2>1, <2>3, <2>7 DEF Receipt, Receipts, Reason
  <2>9. old.evidence # NoEvidence => /\ ValidEvidence(old.evidence)
                                     /\ old.evidence.termination = "STABLE"
                                     /\ old.evidence.stable
    BY <2>2, <2>7, EvidenceTrue DEF Confirmed
  <2>10. ValidReceipt(r)
    BY <2>3, <2>6, <2>9 DEF ValidReceipt
  <2>11. Settled(r)
    BY <2>3, <2>6 DEF Settled
  <2> QED BY <2>4, <2>5, <2>6, <2>8, <2>10, <2>11, Zenon DEF r
<1> QED BY <1>3, <1>4

\* The slice of a game that has been read.
LEMMA RebuiltSlice ==
  ASSUME NEW s \in Slices, \A p \in Decisions : TrueOf(s, p),
         NEW t, t = [s EXCEPT !.receipts = Rebuilt(s)]
  PROVE  /\ t \in Slices
         /\ t.moments = s.moments /\ t.confirmations = s.confirmations
         /\ t.receipts = Rebuilt(s)
<1> DEFINE receipts == Rebuilt(s)
<1>1. receipts \in [Decisions -> Receipts]
  <2>1. \A p \in Decisions : receipts[p] \in Receipts
    BY RebuiltOf
  <2> QED BY <2>1, Zenon DEF Rebuilt
<1> HIDE DEF receipts
<1>2. t = [s EXCEPT !.receipts = receipts]
  BY DEF receipts
<1>3. t \in Slices
  BY <1>1, <1>2, Zenon DEF Slices
<1> QED BY <1>2, <1>3 DEF Slices, receipts

LEMMA RebuiltTrue ==
  ASSUME NEW s \in Slices, \A p \in Decisions : TrueOf(s, p), SliceOnce(s),
         slice' = [s EXCEPT !.receipts = Rebuilt(s)], forced' = forced
  PROVE  /\ slice' \in Slices /\ SliceOnce(slice') /\ ReceiptsAreTrue'
         /\ \A p \in Decisions : Settled(s.receipts[p]) => Settled(slice'.receipts[p])
<1>1. /\ slice' \in Slices
      /\ slice'.moments = s.moments /\ slice'.confirmations = s.confirmations
      /\ slice'.receipts = Rebuilt(s)
  BY RebuiltSlice
<1>2. \A p \in Decisions :
         /\ ValidReceipt(slice'.receipts[p])
         /\ slice'.receipts[p].reason = "SAVED"
              <=> \E m \in slice'.moments : m.ply = p /\ m.trainable
         /\ p \in forced' => slice'.receipts[p].reason # "SAVED"
         /\ Settled(s.receipts[p]) => Settled(slice'.receipts[p])
  BY <1>1, RebuiltOf
<1>3. \A m \in slice'.moments : m.ply \in Decisions
  BY <1>1 DEF Slices, Moments
<1>4. {p \in Decisions : slice'.receipts[p].reason = "SAVED"}
        = {m.ply : m \in {x \in slice'.moments : x.trainable}}
  BY <1>2, <1>3
<1>5. ReceiptsAreTrue'
  BY <1>2, <1>4, Zenon DEF ReceiptsAreTrue, Decisions, Plies
<1> QED BY <1>1, <1>2, <1>5 DEF SliceOnce

-----------------------------------------------------------------------------
(* The inductive invariant.                                                *)

LEMMA OnceOfSlice ==
  ASSUME NEW s \in Slices, SliceOK(s)
  PROVE  SliceOnce(s)
<1> SUFFICES ASSUME NEW p \in Decisions PROVE s.confirmations[p] <= 1
  BY DEF SliceOnce
<1> QED BY DEF SliceOK, PlyOK

LEMMA FirstTrue == FirstSlice \in Slices /\ SliceOK(FirstSlice)
<1>1. Receipt("NONE", NoEvidence) \in Receipts /\ ValidReceipt(Receipt("NONE", NoEvidence))
      /\ Receipt("NONE", NoEvidence).reason = "NONE"
  BY PlainReceipt
<1>2. FirstSlice \in Slices
  <2>1. 0 \in 0..(LastPly + 1)
    BY PlyNumbers
  <2>2. [p \in Decisions |-> Receipt("NONE", NoEvidence)] \in [Decisions -> Receipts]
    BY <1>1
  <2>3. [p \in Decisions |-> 0] \in [Decisions -> Nat]
    OBVIOUS
  <2> QED BY <2>1, <2>2, <2>3 DEF FirstSlice, Slices
<1>3. ASSUME NEW p \in Decisions PROVE PlyOK(FirstSlice, p)
  <2>1. /\ FirstSlice.next = 0 /\ FirstSlice.moments = {} /\ FirstSlice.owned = {}
        /\ FirstSlice.receipts[p] = Receipt("NONE", NoEvidence)
        /\ FirstSlice.confirmations[p] = 0
    BY DEF FirstSlice
  <2>2. p \in Nat
    BY PlyNumbers
  <2> QED BY <1>1, <2>1, <2>2 DEF PlyOK
<1> QED BY <1>2, <1>3 DEF SliceOK

LEMMA InvInit == ASSUME GameInit PROVE Inv
<1> USE DEF GameInit
<1>1. FirstSlice \in Slices /\ SliceOK(FirstSlice)
  BY FirstTrue
<1>2. TypeOK
  BY <1>1 DEF TypeOK
<1>3. DecidedOnce
  BY <1>1, OnceOfSlice DEF DecidedOnce, SliceOnce
<1> QED BY <1>2, <1>3 DEF Inv, CompleteIsDecided, ReceiptsAreTrue

\* A step that leaves the invocation running, with slice t.
LEMMA KeptRunning ==
  ASSUME Inv, NEW t \in Slices, SliceOK(t), slice' = t,
         progress' = "running", forced' = forced, checkpoint' = checkpoint
  PROVE  Inv'
<1>1. SliceOnce(t)
  BY OnceOfSlice
<1>2. TypeOK'
  BY DEF Inv, TypeOK, Slices, Moments, Receipts, Decisions, Plies
<1>3. DecidedOnce'
  BY <1>1 DEF DecidedOnce, SliceOnce, Decisions, Plies
<1>4. SliceOK(slice)' /\ (checkpoint' # NoCheckpoint => SliceOK(checkpoint)')
  BY DEF Inv, SliceOK, PlyOK, Decisions, Plies
<1> QED BY <1>2, <1>3, <1>4 DEF Inv, CompleteIsDecided, ReceiptsAreTrue

\* The next ply, after one that was passed without a confirmation.
LEMMA KeptPassed ==
  ASSUME Inv, progress = "running", slice.next \in Plies, NEW o, Reached(slice, o),
         NEW errors \in SUBSET Plies, o.errors \subseteq errors,
         \A q \in Decisions \ slice.owned :
           q = slice.next => Settled(o.receipts[q]) \/ q \in errors,
         NextPly([o EXCEPT !.errors = errors])
  PROVE  Inv'
<1> DEFINE r == [o EXCEPT !.errors = errors]
           t == [r EXCEPT !.next = r.next + 1]
<1>1. slice \in Slices /\ SliceOK(slice)
  BY DEF Inv, TypeOK
<1>2. o \in Slices /\ o.next = slice.next
  BY DEF Reached
<1>3. /\ r \in Slices
      /\ r.next = o.next /\ r.moments = o.moments /\ r.owned = o.owned /\ r.errors = errors
      /\ r.confirmations = o.confirmations /\ r.receipts = o.receipts
  <2>1. r \in Slices
    BY <1>2, Zenon DEF Slices
  <2> QED BY <1>2, <2>1 DEF Slices
<1>4. slice' = t /\ progress' = "running" /\ forced' = forced /\ checkpoint' = checkpoint
  BY Zenon DEF NextPly
<1> HIDE DEF r
<1>5. /\ t \in Slices
      /\ t.next = slice.next + 1 /\ t.moments = o.moments /\ t.owned = o.owned
      /\ t.errors = errors
      /\ t.confirmations = o.confirmations /\ t.receipts = o.receipts
  BY <1>2, <1>3, NextSlice
<1> HIDE DEF t
<1>6. SliceOK(t)
  BY <1>1, <1>5, Passed
<1> QED BY <1>4, <1>5, <1>6, KeptRunning

\* A ply that was passed as it was opened or scanned.
LEMMA KeptScanned ==
  ASSUME Inv, progress = "running", slice.next \in Plies, NEW o, Reached(slice, o),
         \A q \in Decisions \ slice.owned : q = slice.next => Settled(o.receipts[q]),
         NextPly(o)
  PROVE  Inv'
<1> DEFINE t == [o EXCEPT !.next = o.next + 1]
<1>1. slice \in Slices /\ SliceOK(slice)
  BY DEF Inv, TypeOK
<1>2. o \in Slices /\ o.next = slice.next
  BY DEF Reached
<1>3. slice' = t /\ progress' = "running" /\ forced' = forced /\ checkpoint' = checkpoint
  BY Zenon DEF NextPly
<1>4. /\ t \in Slices
      /\ t.next = slice.next + 1 /\ t.moments = o.moments /\ t.owned = o.owned
      /\ t.errors = o.errors
      /\ t.confirmations = o.confirmations /\ t.receipts = o.receipts
  BY <1>2, NextSlice
<1> HIDE DEF t
<1>5. SliceOK(t)
  BY <1>1, <1>4, Passed
<1> QED BY <1>3, <1>4, <1>5, KeptRunning

LEMMA NotComparableStep ==
  ASSUME Inv, NEW p \in Plies, NotComparable(p)
  PROVE  Inv'
<1> DEFINE o == OpenedPly(slice, p)
           errors == o.errors \cup (IF p \in forced THEN {} ELSE {p})
<1>1. p = slice.next /\ progress = "running" /\ slice \in Slices
  BY DEF NotComparable, At, Inv, TypeOK
<1>2. /\ Reached(slice, o)
      /\ \A q \in Decisions \ slice.owned : q = p =>
           o.receipts[q] = Receipt(IF q \in forced THEN "FORCED_MOVE" ELSE "ANALYSIS_INCOMPLETE",
                                   NoEvidence)
  BY <1>1, OpenedReached, Zenon
<1>3. NextPly([o EXCEPT !.errors = errors])
  BY DEF NotComparable
<1> HIDE DEF o
<1>4. errors \in SUBSET Plies /\ o.errors \subseteq errors
  BY <1>2 DEF Reached, Slices
<1>5. \A q \in Decisions \ slice.owned : q = p => Settled(o.receipts[q]) \/ q \in errors
  <2>1. Receipt("FORCED_MOVE", NoEvidence).reason = "FORCED_MOVE"
    BY PlainReceipt
  <2>2. Settled(Receipt("FORCED_MOVE", NoEvidence))
    BY <2>1 DEF Settled
  <2> QED BY <1>2, <2>2
<1> HIDE DEF errors
<1> QED BY <1>1, <1>2, <1>3, <1>4, <1>5, KeptPassed

LEMMA NoMistakeStep ==
  ASSUME Inv, NEW p \in Plies, NoMistake(p)
  PROVE  Inv'
<1> DEFINE o == Scanned(OpenedPly(slice, p), p, FALSE)
<1>1. p = slice.next /\ progress = "running" /\ slice \in Slices
  BY DEF NoMistake, At, Inv, TypeOK
<1>2. /\ Reached(slice, o)
      /\ \A q \in Decisions \ slice.owned : q = p => Settled(o.receipts[q])
  BY <1>1, ScannedReached
<1>3. NextPly(o)
  BY DEF NoMistake
<1> HIDE DEF o
<1> QED BY <1>1, <1>2, <1>3, KeptScanned

LEMMA PunishedStep ==
  ASSUME Inv, NEW p \in Plies, Punished(p)
  PROVE  Inv'
<1>1. p = slice.next /\ progress = "running" /\ slice \in Slices /\ p \notin Decisions
  BY DEF Punished, At, Inv, TypeOK
<1>2. Reached(slice, slice)
  BY <1>1 DEF Reached
<1> QED BY <1>1, <1>2, KeptScanned DEF Punished

\* A confirmation of the decision at ply q, which s is about to make after the
\* ply of the slice was reached.
LEMMA ConfirmedStep ==
  ASSUME Inv, progress = "running", slice.next \in Plies, NEW s \in Slices,
         NEW q \in Decisions, NEW e \in Evidence, NEW v \in Verdict(q),
         NEW sources \in SUBSET Sources,
         s.next = slice.next, s.moments = slice.moments, s.errors = slice.errors,
         s.confirmations = slice.confirmations,
         \A p \in Decisions : p # q => s.receipts[p] = slice.receipts[p],
         \/ q = slice.next /\ s.owned = slice.owned
         \/ q = slice.next + 1 /\ s.owned = slice.owned \cup {q} /\ slice.next \notin Decisions,
         q \notin slice.owned,
         \/ FoundOne(Decide(s, q, e, v, sources), e, v)
         \/ Continue(Decide(s, q, e, v, sources), e, v)
  PROVE  Inv'
<1> DEFINE d == Decide(s, q, e, v, sources)
<1>1. slice \in Slices /\ SliceOK(slice)
  BY DEF Inv, TypeOK
<1>2. slice.confirmations[q] = 0 /\ \A m \in slice.moments : m.ply # q
  <2>1. PlyOK(slice, q) /\ slice.next <= q
    BY <1>1, PlyNumbers DEF SliceOK
  <2> QED BY <2>1 DEF PlyOK
<1>3. Decided(s, d, q, e, v, sources)
  BY <1>2, DecideFields
<1>4. CASE FoundOne(d, e, v)
  <2>1. /\ slice' = d /\ progress' = "found" /\ forced' = forced /\ checkpoint' = checkpoint
    BY <1>4, Zenon DEF FoundOne
  <2> HIDE DEF d
  <2>2. d \in Slices /\ d.confirmations = [slice.confirmations EXCEPT ![q] = 1]
    BY <1>2, <1>3 DEF Decided
  <2>3. SliceOnce(d)
    <3>1. SliceOnce(slice) /\ slice.confirmations \in [Decisions -> Nat]
      BY <1>1, OnceOfSlice DEF Slices
    <3> QED BY <2>2, <3>1 DEF SliceOnce
  <2>4. TypeOK'
    BY <2>1, <2>2 DEF Inv, TypeOK, Slices, Moments, Receipts, Decisions, Plies
  <2>5. DecidedOnce'
    BY <2>1, <2>3 DEF DecidedOnce, SliceOnce, Decisions, Plies
  <2>6. checkpoint' # NoCheckpoint => SliceOK(checkpoint)'
    BY <2>1 DEF Inv, SliceOK, PlyOK, Decisions, Plies
  <2> QED BY <2>1, <2>4, <2>5, <2>6 DEF Inv, CompleteIsDecided, ReceiptsAreTrue
<1>5. CASE Continue(d, e, v)
  <2> DEFINE t == [d EXCEPT !.next = d.next + 1]
  <2>1. slice' = t /\ progress' = "running" /\ forced' = forced /\ checkpoint' = checkpoint
    BY <1>5, Zenon DEF Continue, NextPly
  <2> HIDE DEF d
  <2>2. d \in Slices /\ d.next = slice.next
    BY <1>3 DEF Decided
  <2>3. /\ t \in Slices
        /\ t.next = slice.next + 1 /\ t.moments = d.moments /\ t.owned = d.owned
        /\ t.errors = d.errors
        /\ t.confirmations = d.confirmations /\ t.receipts = d.receipts
    BY <2>2, NextSlice
  <2> HIDE DEF t
  <2>4. SliceOK(t)
    <3>1. CASE q = slice.next /\ s.owned = slice.owned
      BY <1>1, <1>2, <1>3, <2>3, <3>1, PassedDecided
    <3>2. CASE q = slice.next + 1 /\ s.owned = slice.owned \cup {q} /\ slice.next \notin Decisions
      BY <1>1, <1>2, <1>3, <2>3, <3>2, PassedDecided
    <3> QED BY <3>1, <3>2
  <2> QED BY <2>1, <2>3, <2>4, KeptRunning
<1> QED BY <1>4, <1>5

LEMMA UserMistakeStep ==
  ASSUME Inv, NEW p \in Plies, UserMistake(p)
  PROVE  Inv'
<1> DEFINE s == Scanned(OpenedPly(slice, p), p, TRUE)
<1>1. /\ p = slice.next /\ progress = "running" /\ slice \in Slices /\ SliceOK(slice)
      /\ p \in Decisions
  BY DEF UserMistake, At, Inv, TypeOK
<1>2. /\ Reached(slice, s)
      /\ \A q \in Decisions \ slice.owned : q = p /\ q \in forced => Settled(s.receipts[q])
  BY <1>1, ScannedReached
<1>3. s.owned = slice.owned
  BY <1>2 DEF Reached
<1>4. \/ p \in forced \cup s.owned /\ NextPly(s)
      \/ /\ p \notin forced \cup s.owned
         /\ \E e \in Evidence, v \in Verdict(p) :
              \/ FoundOne(Decide(s, p, e, v, {"MY_MISTAKE"}), e, v)
              \/ Continue(Decide(s, p, e, v, {"MY_MISTAKE"}), e, v)
  BY Zenon DEF UserMistake
<1> HIDE DEF s
<1>5. CASE p \in forced \cup s.owned /\ NextPly(s)
  <2>1. \A q \in Decisions \ slice.owned : q = p => Settled(s.receipts[q])
    BY <1>2, <1>3, <1>5
  <2> QED BY <1>1, <1>2, <1>5, <2>1, KeptScanned
<1>6. CASE /\ p \notin forced \cup s.owned
           /\ \E e \in Evidence, v \in Verdict(p) :
                \/ FoundOne(Decide(s, p, e, v, {"MY_MISTAKE"}), e, v)
                \/ Continue(Decide(s, p, e, v, {"MY_MISTAKE"}), e, v)
  <2>1. PICK e \in Evidence, v \in Verdict(p) :
                \/ FoundOne(Decide(s, p, e, v, {"MY_MISTAKE"}), e, v)
                \/ Continue(Decide(s, p, e, v, {"MY_MISTAKE"}), e, v)
    BY <1>6, Zenon
  <2>2. /\ s \in Slices
        /\ s.next = slice.next /\ s.moments = slice.moments /\ s.errors = slice.errors
        /\ s.confirmations = slice.confirmations
        /\ \A q \in Decisions : q # p => s.receipts[q] = slice.receipts[q]
    BY <1>1, <1>2 DEF Reached
  <2>3. {"MY_MISTAKE"} \in SUBSET Sources /\ p \notin slice.owned
    BY <1>3, <1>6 DEF Sources
  <2> QED BY <1>1, <1>3, <2>1, <2>2, <2>3, ConfirmedStep
<1> QED BY <1>4, <1>5, <1>6

LEMMA MissedStep ==
  ASSUME Inv, NEW p \in Plies, Missed(p)
  PROVE  Inv'
<1> DEFINE sources == {"MY_MISTAKE", "MISSED_OPPORTUNITY"}
           s == [slice EXCEPT !.owned = slice.owned \cup {p + 1}]
<1>1. /\ p = slice.next /\ progress = "running" /\ slice \in Slices /\ SliceOK(slice)
      /\ p \notin Decisions /\ p + 1 \in Plies
  BY DEF Missed, At, Inv, TypeOK
<1>2. p + 1 \in Decisions /\ p \in Nat
  BY <1>1, PlyNumbers
<1>3. PICK e \in Evidence, v \in Verdict(p + 1) :
        \/ FoundOne(Decide(s, p + 1, e, v, sources), e, v)
        \/ Continue(Decide(s, p + 1, e, v, sources), e, v)
  BY Zenon DEF Missed, LookedAhead
<1>4. sources \in SUBSET Sources
  BY DEF Sources
<1>5. /\ s \in Slices
      /\ s.next = slice.next /\ s.moments = slice.moments /\ s.errors = slice.errors
      /\ s.confirmations = slice.confirmations /\ s.receipts = slice.receipts
      /\ s.owned = slice.owned \cup {p + 1}
  <2> DEFINE owned == slice.owned \cup {p + 1}
  <2>1. owned \in SUBSET Decisions
    BY <1>1, <1>2 DEF Slices
  <2> HIDE DEF owned
  <2>2. s \in Slices
    BY <1>1, <2>1, Zenon DEF Slices, owned
  <2>3. s = [slice EXCEPT !.owned = owned]
    BY DEF owned
  <2>4. /\ s.next = slice.next /\ s.moments = slice.moments /\ s.errors = slice.errors
        /\ s.confirmations = slice.confirmations /\ s.receipts = slice.receipts
        /\ s.owned = owned
    BY <1>1, <2>3 DEF Slices
  <2> QED BY <2>2, <2>4 DEF owned
<1>6. p + 1 \notin slice.owned
  BY <1>1, <1>2 DEF SliceOK, PlyOK
<1> HIDE DEF s, sources
<1> QED BY <1>1, <1>2, <1>3, <1>4, <1>5, <1>6, ConfirmedStep

LEMMA StartStep == ASSUME Inv, Start PROVE Inv'
<1> DEFINE t == IF checkpoint = NoCheckpoint THEN FirstSlice
                ELSE [checkpoint EXCEPT !.from = checkpoint.next]
<1>1. slice' = t /\ progress' = "running" /\ forced' = forced /\ checkpoint' = checkpoint
  BY DEF Start
<1>2. t \in Slices /\ SliceOK(t)
  <2>1. CASE checkpoint = NoCheckpoint
    BY <2>1, FirstTrue
  <2>2. CASE checkpoint # NoCheckpoint
    <3>1. checkpoint \in Slices /\ SliceOK(checkpoint)
      BY <2>2 DEF Inv, TypeOK
    <3>2. t = [checkpoint EXCEPT !.from = checkpoint.next]
      BY <2>2
    <3> HIDE DEF t
    <3>3. checkpoint.next \in 0..(LastPly + 1)
      BY <3>1 DEF Slices
    <3>4. t \in Slices
      BY <3>1, <3>2, <3>3, Zenon DEF Slices
    <3>5. /\ t.next = checkpoint.next /\ t.moments = checkpoint.moments
          /\ t.owned = checkpoint.owned /\ t.errors = checkpoint.errors
          /\ t.receipts = checkpoint.receipts /\ t.confirmations = checkpoint.confirmations
      BY <3>1, <3>2 DEF Slices
    <3>6. SliceOK(t)
      BY <3>1, <3>5 DEF SliceOK, PlyOK
    <3> QED BY <3>4, <3>6
  <2> QED BY <2>1, <2>2
<1> HIDE DEF t
<1> QED BY <1>1, <1>2, KeptRunning

LEMMA YieldStep == ASSUME Inv, Yield PROVE Inv'
<1>1. /\ checkpoint' = slice /\ progress' = "idle" /\ progress = "running"
      /\ slice' = slice /\ forced' = forced
  BY DEF Yield
<1>2. TypeOK'
  BY <1>1 DEF Inv, TypeOK, Slices, Moments, Receipts, Decisions, Plies
<1>3. SliceOK(checkpoint)'
  BY <1>1 DEF Inv, SliceOK, PlyOK, Decisions, Plies
<1>4. DecidedOnce'
  BY <1>1 DEF Inv, DecidedOnce, Decisions, Plies
<1> QED BY <1>1, <1>2, <1>3, <1>4 DEF Inv, CompleteIsDecided, ReceiptsAreTrue

LEMMA CrashStep == ASSUME Inv, Crash PROVE Inv'
<1>1. /\ progress' = "idle" /\ slice' = slice /\ forced' = forced /\ checkpoint' = checkpoint
  BY DEF Crash
<1>2. TypeOK'
  BY <1>1 DEF Inv, TypeOK, Slices, Moments, Receipts, Decisions, Plies
<1>3. checkpoint' # NoCheckpoint => SliceOK(checkpoint)'
  BY <1>1 DEF Inv, SliceOK, PlyOK, Decisions, Plies
<1>4. DecidedOnce'
  BY <1>1 DEF Inv, DecidedOnce, Decisions, Plies
<1> QED BY <1>1, <1>2, <1>3, <1>4 DEF Inv, CompleteIsDecided, ReceiptsAreTrue

\* The end of the game: its slice has been rebuilt from s, and its manifest is
\* complete only if every decision of s is settled.
LEMMA ReadStep ==
  ASSUME Inv, NEW s \in Slices, \A p \in Decisions : TrueOf(s, p), SliceOnce(s),
         slice' = [s EXCEPT !.receipts = Rebuilt(s)], progress' = "done",
         forced' = forced, checkpoint' = checkpoint,
         manifest'.complete => \A p \in Decisions : Settled(s.receipts[p])
  PROVE  Inv'
<1>1. /\ slice' \in Slices /\ SliceOnce(slice') /\ ReceiptsAreTrue'
      /\ \A p \in Decisions : Settled(s.receipts[p]) => Settled(slice'.receipts[p])
  BY RebuiltTrue
<1>2. CompleteIsDecided'
  BY <1>1 DEF CompleteIsDecided, Settled, Decisions, Plies
<1>3. TypeOK'
  BY <1>1 DEF Inv, TypeOK, Slices, Moments, Receipts, Decisions, Plies
<1>4. DecidedOnce'
  BY <1>1 DEF DecidedOnce, SliceOnce, Decisions, Plies
<1>5. checkpoint' # NoCheckpoint => SliceOK(checkpoint)'
  BY DEF Inv, SliceOK, PlyOK, Decisions, Plies
<1> QED BY <1>1, <1>2, <1>3, <1>4, <1>5 DEF Inv

LEMMA FinishStep == ASSUME Inv, Finish PROVE Inv'
<1>1. /\ progress = "running" /\ slice.next = LastPly + 1 /\ slice \in Slices /\ SliceOK(slice)
      /\ slice' = [slice EXCEPT !.receipts = Rebuilt(slice)] /\ progress' = "done"
      /\ forced' = forced /\ checkpoint' = checkpoint
      /\ manifest'.complete = (slice.errors = {})
  BY DEF Finish, Inv, TypeOK
<1>2. \A p \in Decisions : TrueOf(slice, p)
  BY <1>1 DEF SliceOK, PlyOK, TrueOf
<1>3. SliceOnce(slice)
  BY <1>1, OnceOfSlice
<1>4. ASSUME slice.errors = {}, NEW p \in Decisions
      PROVE  Settled(slice.receipts[p])
  <2>1. p < slice.next
    BY <1>1, PlyNumbers
  <2> QED BY <1>1, <1>4, <2>1 DEF SliceOK, PlyOK
<1> QED BY <1>1, <1>2, <1>3, <1>4, ReadStep

LEMMA ReplayStopsStep ==
  ASSUME Inv, NEW p \in Plies, ReplayStops(p)
  PROVE  Inv'
<1> DEFINE s == OpenedPly(slice, p)
<1>1. /\ progress = "running" /\ slice.next = p /\ slice \in Slices /\ SliceOK(slice)
      /\ slice' = [s EXCEPT !.receipts = Rebuilt(s)] /\ progress' = "done"
      /\ forced' = forced /\ checkpoint' = checkpoint
      /\ manifest'.complete = FALSE
  BY DEF ReplayStops, At, Inv, TypeOK
<1>2. Reached(slice, s)
  BY <1>1, OpenedReached
<1> HIDE DEF s
<1>3. \A q \in Decisions : TrueOf(s, q)
  BY <1>1, <1>2, ReachedTrue
<1>4. s \in Slices /\ s.confirmations = slice.confirmations
  BY <1>2 DEF Reached
<1>5. SliceOnce(s)
  BY <1>1, <1>4, OnceOfSlice DEF SliceOnce
<1> QED BY <1>1, <1>3, <1>4, <1>5, ReadStep

LEMMA InvStutter == ASSUME Inv, UNCHANGED gameVars PROVE Inv'
<1> USE DEF gameVars
<1>1. TypeOK'
  BY DEF Inv, TypeOK, Slices, Moments, Receipts, Decisions, Plies
<1>2. (progress = "running" => SliceOK(slice))' /\ (checkpoint' # NoCheckpoint => SliceOK(checkpoint)')
  BY DEF Inv, SliceOK, PlyOK, Decisions, Plies
<1>3. DecidedOnce' /\ CompleteIsDecided' /\ ReceiptsAreTrue'
  BY DEF Inv, DecidedOnce, CompleteIsDecided, ReceiptsAreTrue, Decisions, Plies
<1> QED BY <1>1, <1>2, <1>3 DEF Inv

LEMMA InvNext == ASSUME Inv, GameNext PROVE Inv'
<1>1. CASE Start
  BY <1>1, StartStep
<1>2. CASE Yield
  BY <1>2, YieldStep
<1>3. CASE Crash
  BY <1>3, CrashStep
<1>4. CASE Finish
  BY <1>4, FinishStep
<1>5. ASSUME NEW p \in Plies, ReplayStops(p) PROVE Inv'
  BY <1>5, ReplayStopsStep
<1>6. ASSUME NEW p \in Plies, NotComparable(p) PROVE Inv'
  BY <1>6, NotComparableStep
<1>7. ASSUME NEW p \in Plies, NoMistake(p) PROVE Inv'
  BY <1>7, NoMistakeStep
<1>8. ASSUME NEW p \in Plies, UserMistake(p) PROVE Inv'
  BY <1>8, UserMistakeStep
<1>9. ASSUME NEW p \in Plies, Punished(p) PROVE Inv'
  BY <1>9, PunishedStep
<1>10. ASSUME NEW p \in Plies, Missed(p) PROVE Inv'
  BY <1>10, MissedStep
<1> QED BY <1>1, <1>2, <1>3, <1>4, <1>5, <1>6, <1>7, <1>8, <1>9, <1>10, Zenon DEF GameNext

-----------------------------------------------------------------------------
(* The moments of an upload.                                               *)

Uploads ==
  /\ ValidUpload(slice.moments)
  /\ checkpoint # NoCheckpoint => ValidUpload(checkpoint.moments)

\* A moment that joins an upload, or merges with the one of its decision, leaves
\* one moment for each decision, with the sources of both.
LEMMA StoreValid ==
  ASSUME NEW S, ValidUpload(S), NEW m \in Moments, ValidCandidate(m),
         S \subseteq Moments
  PROVE  ValidUpload(Store(S, m))
<1> DEFINE same == {old \in S : old.ply = m.ply}
           T == Store(S, m)
<1>1. CASE same = {}
  <2>1. T = S \cup {m}
    BY <1>1, Zenon DEF Store
  <2>2. \A old \in S : old.ply # m.ply
    BY <1>1
  <2> HIDE DEF T, same
  <2> QED BY <2>1, <2>2 DEF ValidUpload, T
<1>2. CASE same # {}
  <2>1. PICK old \in same : TRUE
    BY <1>2
  <2>2. same = {old}
    BY <2>1 DEF ValidUpload
  <2>3. PICK kept \in {m, old} :
          T = (S \ same) \cup {[kept EXCEPT !.sources = old.sources \cup m.sources]}
    <3>1. T = (S \ same) \cup
              {[(IF \/ Rank(m.status) > Rank(x.status)
                    \/ /\ Rank(m.status) = Rank(x.status)
                       /\ "MY_MISTAKE" \in m.sources
                       /\ "MY_MISTAKE" \notin x.sources
                 THEN m ELSE x) EXCEPT !.sources = x.sources \cup m.sources] : x \in same}
      BY <1>2, Zenon DEF Store
    <3> HIDE DEF T, same
    <3> QED BY <2>2, <3>1
  <2> DEFINE row == [kept EXCEPT !.sources = old.sources \cup m.sources]
  <2>4. old \in S /\ old.ply = m.ply /\ old \in Moments /\ ValidCandidate(old)
    BY <2>1 DEF ValidUpload
  <2>5. row.ply = m.ply /\ row.sources = old.sources \cup m.sources
    BY <2>3, <2>4 DEF Moments
  <2>6. ValidCandidate(row)
    BY <2>4, <2>5 DEF ValidCandidate
  <2>7. \A x \in S \ same : x.ply # m.ply
    OBVIOUS
  <2>8. T = (S \ same) \cup {row}
    BY <2>3
  <2> HIDE DEF T, row, same
  <2> QED BY <2>5, <2>6, <2>7, <2>8 DEF ValidUpload, T
<1> QED BY <1>1, <1>2

LEMMA DecideValid ==
  ASSUME NEW s \in Slices, ValidUpload(s.moments), NEW q \in Decisions, NEW e, NEW v \in Verdict(q),
         NEW sources \in SUBSET Sources, sources # {}
  PROVE  /\ "moments" \in DOMAIN Decide(s, q, e, v, sources)
         /\ ValidUpload(Decide(s, q, e, v, sources).moments)
<1> DEFINE m == Moment(q, v, sources)
           counted == [s EXCEPT !.confirmations[q] = @ + 1,
                                !.errors = @ \cup (IF e.complete THEN {} ELSE {q})]
           t == Decide(s, q, e, v, sources)
<1>1. m \in Moments /\ ValidCandidate(m)
  BY MomentType DEF Moment, ValidCandidate, Sources
<1>2. counted.moments = s.moments /\ counted.receipts = s.receipts
      /\ DOMAIN counted = DOMAIN s
  OBVIOUS
<1>3. /\ t.moments = s.moments \/ t.moments = Store(s.moments, m)
      /\ "moments" \in DOMAIN t
  <2>1. /\ Confirmed(e) => t = [counted EXCEPT !.moments = Store(counted.moments, m),
                              !.receipts = [counted.receipts EXCEPT ![q] = Built(v, e)]]
        /\ ~Confirmed(e) => t = [counted EXCEPT !.receipts =
                                   [counted.receipts EXCEPT ![q] = Unconfirmed(e)]]
    BY Zenon DEF Decide
  <2>2. "moments" \in DOMAIN counted
    BY <1>2 DEF Slices
  <2> HIDE DEF counted, t, m
  <2> QED BY <1>2, <2>1, <2>2
<1>4. s.moments \subseteq Moments
  BY DEF Slices
<1> HIDE DEF m, t
<1> QED BY <1>1, <1>3, <1>4, StoreValid DEF t

LEMMA OpenedMoments ==
  ASSUME NEW s \in Slices, NEW p, NEW mistake
  PROVE  /\ OpenedPly(s, p).moments = s.moments
         /\ Scanned(OpenedPly(s, p), p, mistake).moments = s.moments
BY DEF OpenedPly, Scanned, Slices

LEMMA UploadsInit == ASSUME GameInit PROVE Uploads
BY DEF GameInit, FirstSlice, Uploads, ValidUpload

LEMMA UploadsNext == ASSUME TypeOK, Uploads, GameNext PROVE Uploads'
<1> USE DEF Uploads
<1>1. CASE Start
  <2>1. ValidUpload(FirstSlice.moments)
    BY DEF FirstSlice, ValidUpload
  <2>2. checkpoint # NoCheckpoint =>
          [checkpoint EXCEPT !.from = checkpoint.next].moments = checkpoint.moments
    BY DEF TypeOK, Slices
  <2> QED BY <1>1, <2>1, <2>2 DEF Start
<1>2. CASE Yield \/ Crash
  BY <1>2 DEF Yield, Crash
<1>3. CASE Finish
  <2>1. slice'.moments = slice.moments /\ checkpoint' = checkpoint
    BY <1>3 DEF Finish, TypeOK, Slices
  <2> QED BY <2>1
<1>4. ASSUME NEW s, s.moments = slice.moments, "moments" \in DOMAIN s, NextPly(s) PROVE Uploads'
  BY <1>4 DEF NextPly
<1>5. ASSUME NEW p \in Plies, ReplayStops(p) PROVE Uploads'
  <2>1. OpenedPly(slice, p).moments = slice.moments /\ "moments" \in DOMAIN OpenedPly(slice, p)
    BY OpenedMoments DEF TypeOK, OpenedPly, Slices
  <2>2. slice'.moments = slice.moments /\ checkpoint' = checkpoint
    BY <1>5, <2>1 DEF ReplayStops
  <2> QED BY <2>2
<1>6. ASSUME NEW p \in Plies, NotComparable(p) \/ NoMistake(p) \/ Punished(p) PROVE Uploads'
  <2>1. slice'.moments = slice.moments /\ checkpoint' = checkpoint
    BY <1>6 DEF NotComparable, NoMistake, Punished, NextPly, OpenedPly, Scanned, TypeOK, Slices
  <2> QED BY <2>1
<1>7. ASSUME NEW s, "moments" \in DOMAIN s, ValidUpload(s.moments), NEW e, NEW v,
             FoundOne(s, e, v) \/ Continue(s, e, v)
      PROVE  Uploads'
  <2>1. slice'.moments = s.moments /\ checkpoint' = checkpoint
    BY <1>7 DEF FoundOne, Continue, NextPly
  <2> QED BY <1>7, <2>1
<1>8. ASSUME NEW p \in Plies, UserMistake(p) PROVE Uploads'
  <2> DEFINE s == Scanned(OpenedPly(slice, p), p, TRUE)
  <2>1. p \in Decisions /\ slice \in Slices /\ p = slice.next /\ progress = "running"
    BY <1>8 DEF UserMistake, TypeOK, At
  <2>2. s \in Slices /\ s.moments = slice.moments
    BY <2>1, OpenedReached, ScannedReached, OpenedMoments DEF Reached
  <2>3. CASE NextPly(s)
    BY <1>4, <2>2, <2>3 DEF Slices
  <2>4. ASSUME NEW e \in Evidence, NEW v \in Verdict(p),
               \/ FoundOne(Decide(s, p, e, v, {"MY_MISTAKE"}), e, v)
               \/ Continue(Decide(s, p, e, v, {"MY_MISTAKE"}), e, v)
        PROVE  Uploads'
    <3>1. {"MY_MISTAKE"} \in SUBSET Sources
      BY DEF Sources
    <3> HIDE DEF s
    <3>2. /\ "moments" \in DOMAIN Decide(s, p, e, v, {"MY_MISTAKE"})
          /\ ValidUpload(Decide(s, p, e, v, {"MY_MISTAKE"}).moments)
      BY <2>1, <2>2, <3>1, DecideValid
    <3> QED BY <1>7, <2>4, <3>2
  <2>5. \/ NextPly(s)
        \/ \E e \in Evidence, v \in Verdict(p) :
             \/ FoundOne(Decide(s, p, e, v, {"MY_MISTAKE"}), e, v)
             \/ Continue(Decide(s, p, e, v, {"MY_MISTAKE"}), e, v)
    BY <1>8, Zenon DEF UserMistake
  <2> QED BY <2>3, <2>4, <2>5, Zenon
<1>9. ASSUME NEW p \in Plies, Missed(p) PROVE Uploads'
  <2> DEFINE s == [slice EXCEPT !.owned = slice.owned \cup {p + 1}]
             sources == {"MY_MISTAKE", "MISSED_OPPORTUNITY"}
  <2>1. slice \in Slices /\ p + 1 \in Decisions
    BY <1>9, PlyNumbers DEF Missed, TypeOK
  <2>2. s \in Slices /\ s.moments = slice.moments
    <3>1. slice.owned \cup {p + 1} \in SUBSET Decisions
      BY <2>1 DEF Slices
    <3> QED BY <2>1, <3>1 DEF Slices
  <2>3. PICK e \in Evidence, v \in Verdict(p + 1) :
          \/ FoundOne(Decide(s, p + 1, e, v, sources), e, v)
          \/ Continue(Decide(s, p + 1, e, v, sources), e, v)
    BY <1>9, Zenon DEF Missed, LookedAhead
  <2>4. sources \in SUBSET Sources /\ sources # {}
    BY DEF Sources
  <2> HIDE DEF s, sources
  <2>5. /\ "moments" \in DOMAIN Decide(s, p + 1, e, v, sources)
        /\ ValidUpload(Decide(s, p + 1, e, v, sources).moments)
    BY <2>1, <2>2, <2>4, DecideValid
  <2> QED BY <1>7, <2>3, <2>5
<1> QED BY <1>1, <1>2, <1>3, <1>5, <1>6, <1>8, <1>9 DEF GameNext

-----------------------------------------------------------------------------
(* The theorems.                                                           *)

\* The inductive invariant holds in every state of an extraction: the running
\* slice and the checkpoint say of each decision what the pass has made of it.
THEOREM Invariance == GameSpec => []Inv
<1>1. GameInit => Inv
  BY InvInit
<1>2. Inv /\ [GameNext]_gameVars => Inv'
  BY InvNext, InvStutter
<1> QED BY <1>1, <1>2, PTL DEF GameSpec

\* Type correctness of an extraction: slices, receipts, moments and checkpoints
\* are of their types, whatever the engine answers.
THEOREM TypeCorrect == GameSpec => []TypeOK
<1>1. Inv => TypeOK
  BY DEF Inv
<1> QED BY <1>1, Invariance, PTL

\* Whatever the engine answers, and wherever an invocation yields or dies: no
\* decision is confirmed twice, a manifest that is complete leaves none
\* undecided, every receipt of a finished game passes its schema and agrees with
\* the moments that were saved, and the server accepts the moments of the upload
\* (extractTrainingMoments.ts, candidateValidation.ts).
THEOREM GameDecided == GameSpec => []GameIsDecided
<1>1. Inv /\ Uploads => GameIsDecided
  BY DEF Inv, TypeOK, Slices, Moments, Uploads, GameIsDecided, UploadIsValid, MatchesSource
<1>2. GameInit => Uploads
  BY UploadsInit
<1>3. TypeOK /\ Uploads /\ [GameNext]_gameVars => Uploads'
  BY UploadsNext DEF Uploads, gameVars
<1>4. GameSpec => []Uploads
  BY <1>2, <1>3, TypeCorrect, PTL DEF GameSpec
<1> QED BY <1>1, <1>4, Invariance, PTL

-----------------------------------------------------------------------------
(* The daily sweep.                                                         *)

LEMMA LeastOf ==
  ASSUME NEW S \in SUBSET Nat, S # {}
  PROVE  \E i \in S : \A j \in S : i <= j
<1>1. \E i \in S : \A j \in S : ~(<<j, i>> \in OpToRel(<, Nat))
  BY NatLessThanWellFounded, WFMin
<1>2. PICK i \in S : \A j \in S : ~(<<j, i>> \in OpToRel(<, Nat))
  BY <1>1
<1>3. \A j \in S : ~(j < i)
  BY <1>2, Zenon DEF OpToRel
<1> QED BY <1>3

LEMMA GreatestOf ==
  ASSUME NEW S \in SUBSET Nat, S # {}, NEW n \in Nat, \A x \in S : x <= n
  PROVE  \E i \in S : \A j \in S : j <= i
<1> DEFINE T == {n - x : x \in S}
<1>1. \A x \in S : n - x \in Nat /\ n - x \in T
  OBVIOUS
<1>a. \A t \in T : \E x \in S : t = n - x
  OBVIOUS
<1> HIDE DEF T
<1>b. T \in SUBSET Nat /\ T # {}
  BY <1>1, <1>a
<1>2. PICK t \in T : \A u \in T : t <= u
  BY <1>b, LeastOf
<1>3. PICK i \in S : t = n - i
  BY <1>2, <1>a
<1>4. ASSUME NEW j \in S PROVE j <= i
  <2>1. n - j \in T
    BY <1>1
  <2>2. t <= n - j
    BY <1>2, <2>1
  <2> QED BY <1>3, <2>2
<1> QED BY <1>4

\* The least of a set of numbers: as many as asked for, and none is smaller that is left out.
Leading(n, set) == {x \in set : Cardinality({y \in set : y < x}) < n}

LEMMA LeadingOf ==
  ASSUME NEW N \in Nat, NEW S \in SUBSET (1..N), NEW n \in Nat
  PROVE  /\ IsFiniteSet(S) /\ Cardinality(S) \in Nat
         /\ Leading(n, S) \subseteq S /\ IsFiniteSet(Leading(n, S))
         /\ Cardinality(Leading(n, S)) \in Nat /\ Cardinality(Leading(n, S)) <= n
         /\ \A g \in Leading(n, S) : \A h \in S : h < g => h \in Leading(n, S)
         /\ Cardinality(Leading(n, S)) < n => Leading(n, S) = S
<1> DEFINE F == Leading(n, S)
           Before(g) == {h \in S : h < g}
<1>1. IsFiniteSet(S) /\ F \subseteq S /\ IsFiniteSet(F) /\ Cardinality(F) \in Nat /\ Cardinality(S) \in Nat
  <2>1. IsFiniteSet(S)
    <3>1. IsFiniteSet(1..N)
      BY FS_Interval
    <3> QED BY <3>1, FS_Subset
  <2>2. F \subseteq S
    BY DEF Leading
  <2>3. IsFiniteSet(F)
    BY <2>1, <2>2, FS_Subset
  <2> QED BY <2>1, <2>2, <2>3, FS_CardinalityType
<1>2. S \subseteq Nat /\ \A g \in S : g <= N
  OBVIOUS
<1>3. \A g \in S : IsFiniteSet(Before(g)) /\ Cardinality(Before(g)) \in Nat
  <2> TAKE g \in S
  <2>1. Before(g) \in SUBSET S
    OBVIOUS
  <2> QED BY <1>1, <2>1, FS_Subset, FS_CardinalityType
<1>4. \A g \in S : g \in F <=> Cardinality(Before(g)) < n
  BY Zenon DEF Leading
<1>5. \A g \in F : \A h \in S : h < g => h \in F
  <2> SUFFICES ASSUME NEW g \in F, NEW h \in S, h < g PROVE h \in F
    OBVIOUS
  <2>0. g \in Nat /\ h \in Nat /\ \A y \in S : y \in Nat
    BY <1>1, <1>2
  <2>1. Before(h) \in SUBSET Before(g)
    <3>1. \A y \in S : y < h => y < g
      <4> HIDE DEF Before, F
      <4> QED BY <2>0
    <3> QED BY <3>1, Zenon
  <2>2. Cardinality(Before(h)) <= Cardinality(Before(g))
    BY <1>1, <1>3, <2>1, FS_Subset
  <2>3. Cardinality(Before(g)) < n
    BY <1>1, <1>4
  <2> HIDE DEF F, Before
  <2> QED BY <1>1, <1>3, <1>4, <2>2, <2>3
<1>6. Cardinality(F) <= n
  <2>1. CASE F = {}
    BY <2>1, FS_EmptySet
  <2>2. CASE F # {}
    <3>1. PICK g \in F : \A h \in F : h <= g
      <4> HIDE DEF F
      <4> QED BY <1>1, <1>2, <2>2, GreatestOf
    <3>2. F \in SUBSET (Before(g) \cup {g})
      <4>1. \A h \in F : h \in S /\ (h < g \/ h = g)
        <5> HIDE DEF F
        <5> QED BY <1>1, <1>2, <3>1
      <4> HIDE DEF F
      <4> QED BY <4>1
    <3>a. g \in S /\ g \in Nat
      BY <1>1, <1>2
    <3>b. g \notin Before(g)
      BY <3>a
    <3>3. g \in S /\ Cardinality(Before(g)) < n /\ g \notin Before(g)
      <4> HIDE DEF Before, F
      <4> QED BY <1>4, <3>a, <3>b
    <3> HIDE DEF F, Before
    <3>4. /\ IsFiniteSet(Before(g) \cup {g})
          /\ Cardinality(Before(g) \cup {g}) = Cardinality(Before(g)) + 1
      BY <1>3, <3>3, FS_AddElement
    <3>5. Cardinality(F) <= Cardinality(Before(g) \cup {g})
      BY <3>2, <3>4, FS_Subset
    <3> QED BY <1>1, <1>3, <3>3, <3>4, <3>5
  <2> QED BY <2>1, <2>2
<1>7. ASSUME Cardinality(F) < n PROVE F = S
  <2> SUFFICES ASSUME S \ F # {} PROVE FALSE
    BY <1>1
  <2>1. PICK g \in S \ F : \A h \in S \ F : g <= h
    <3> HIDE DEF F
    <3> QED BY <1>2, LeastOf
  <2>2. Before(g) \in SUBSET F
    <3>1. \A h \in S : h < g => h \in F
      <4> HIDE DEF F
      <4> QED BY <1>2, <2>1
    <3> HIDE DEF F
    <3> QED BY <3>1
  <2>3. Cardinality(Before(g)) <= Cardinality(F)
    <3> HIDE DEF F, Before
    <3> QED BY <1>1, <2>2, FS_Subset
  <2>4. Cardinality(Before(g)) < n
    <3> HIDE DEF F, Before
    <3> QED BY <1>1, <1>3, <1>7, <2>1, <2>3
  <2> QED BY <1>4, <2>1, <2>4
<1> QED BY <1>1, <1>5, <1>6, <1>7

SweepMessages == [of : Sweeps, step : {"scan", "notify"}, after : Nat, cron : Nat]
SweepStages == {"idle", "scan", "notify", "tell", "continue", "ack"}
SweepHandlers == [message : SweepMessages \cup {NoMessage}, stage : SweepStages,
                  page : SUBSET Learners, next : SweepMessages \cup {NoMessage}]

SweepTypes ==
  /\ dueOn \in [States -> Nat] /\ reviewed \in SUBSET States /\ day \in 0..LastDay
  /\ sweeps \in [Sweeps -> [status : {"NONE", "SCANNING", "NOTIFYING", "COMPLETE"}, cursor : Nat]]
  /\ totals \in [Sweeps -> [Learners -> Nat]] /\ told \in [Sweeps -> [Learners -> Nat]]
  /\ published \in SUBSET SweepMessages /\ queued \in SUBSET SweepMessages
  /\ handler \in [Handlers -> SweepHandlers]
  /\ owed \in [Sweeps -> SUBSET States]

Dues(d) == {s \in States : dueOn[s] <= d}
SeenOf(d, u) == {s \in owed[d] \cap StatesOf[u] : s <= sweeps[d].cursor}
HasScanned(d) == sweeps[d].status \in {"NOTIFYING", "COMPLETE"}

\* What stays due is owed, and is behind the cursor when the sweep has scanned.
OwedKept(d) ==
  /\ sweeps[d].status = "NONE" => sweeps[d].cursor = 0
  /\ sweeps[d].status # "NONE" =>
       d <= day /\ Dues(d) \subseteq owed[d] /\ owed[d] \ reviewed \subseteq Dues(d)
  /\ HasScanned(d) => \A s \in Dues(d) : s <= sweeps[d].cursor

\* The totals are the owed positions behind the cursor, those reviewed meanwhile or not.
TotalsKept(d) ==
  \A u \in Learners :
    /\ Cardinality(SeenOf(d, u) \ reviewed) <= totals[d][u]
    /\ totals[d][u] <= Cardinality(SeenOf(d, u))

Told(d, u) == told[d][u] = totals[d][u]

ToldKept(d) ==
  /\ \A u \in Learners : told[d][u] = 0 \/ (Told(d, u) /\ HasScanned(d))
  /\ sweeps[d].status = "COMPLETE" => \A u \in Learners : Told(d, u)

\* A message that continues behind a user says that those before have been told.
MessageKept(m) ==
  /\ sweeps[m.of].status # "NONE"
  /\ m.step = "notify" /\ m.after > 0 =>
       HasScanned(m.of) /\ \A u \in Learners : u <= m.after => Told(m.of, u)

SweeperKept(h) ==
  LET k == handler[h] IN
  /\ k.stage # "idle" => k.message \in SweepMessages /\ MessageKept(k.message)
  /\ k.stage \in {"scan", "notify"} => k.next = NoMessage /\ k.message.step = k.stage
  /\ k.stage = "continue" => k.next = NoMessage \/ MessageKept(k.next)
  /\ k.stage = "tell" =>
       /\ HasScanned(k.message.of)
       /\ k.next # NoMessage => k.next.of = k.message.of /\ k.next.step = "notify"
       /\ \A u \in Learners :
            k.next = NoMessage \/ u <= k.next.after => Told(k.message.of, u) \/ u \in k.page

SweepInv ==
  /\ SweepTypes
  /\ \A d \in Sweeps : OwedKept(d) /\ TotalsKept(d) /\ ToldKept(d)
  /\ \A m \in published \cup queued : MessageKept(m)
  /\ \A h \in Handlers : SweeperKept(h)

-----------------------------------------------------------------------------
\* The bounds of the numbers of users and review states.
LEMMA SweepNumbers ==
  \E n \in Nat : Learners \in SUBSET (1..n) /\ States \in SUBSET (1..n)
                 /\ \A u \in Learners : StatesOf[u] \in SUBSET (1..n)
<1> DEFINE a == Cardinality(Learners)
           b == Cardinality(States)
           n == IF a <= b THEN b ELSE a
<1>1. a \in Nat /\ b \in Nat /\ Learners = 1..a /\ States = 1..b
  BY SweepAssumption, FS_CardinalityType
<1> HIDE DEF a, b
<1>2. n \in Nat /\ a <= n /\ b <= n
  BY <1>1
<1> HIDE DEF n
<1>3. Learners \in SUBSET (1..n) /\ States \in SUBSET (1..n)
  BY <1>1, <1>2
<1>4. \A u \in Learners : StatesOf[u] \subseteq States
  BY DEF States
<1> QED BY <1>2, <1>3, <1>4

LEMMA SweepFinite ==
  ASSUME NEW T \in SUBSET States
  PROVE  IsFiniteSet(T) /\ Cardinality(T) \in Nat
<1>1. PICK n \in Nat : States \in SUBSET (1..n)
  BY SweepNumbers
<1>2. IsFiniteSet(1..n) /\ T \in SUBSET (1..n)
  BY <1>1, FS_Interval
<1> QED BY <1>2, FS_Subset, FS_CardinalityType

\* A set that is larger has at least as many elements.
LEMMA MoreStates ==
  ASSUME NEW T \in SUBSET States, NEW U \in SUBSET T
  PROVE  Cardinality(U) <= Cardinality(T)
  BY SweepFinite, FS_Subset

LEMMA BothStates ==
  ASSUME NEW T \in SUBSET States, NEW U \in SUBSET States
  PROVE  /\ Cardinality(T \cup U) <= Cardinality(T) + Cardinality(U)
         /\ T \cap U = {} => Cardinality(T \cup U) = Cardinality(T) + Cardinality(U)
<1>1. /\ IsFiniteSet(T) /\ IsFiniteSet(U) /\ Cardinality(T) \in Nat /\ Cardinality(U) \in Nat
      /\ Cardinality(T \cap U) \in Nat
  BY SweepFinite
<1>2. Cardinality(T \cup U) = Cardinality(T) + Cardinality(U) - Cardinality(T \cap U)
  BY <1>1, FS_Union
<1>3. T \cap U = {} => Cardinality(T \cap U) = 0
  BY FS_EmptySet
<1> QED BY <1>1, <1>2, <1>3

LEMMA MaxOf ==
  ASSUME NEW n \in Nat, NEW S \in SUBSET (1..n), S # {}
  PROVE  Max(S) \in S /\ \A x \in S : x <= Max(S)
<1>1. S \in SUBSET Nat /\ \A x \in S : x \in Nat /\ x <= n
  OBVIOUS
<1>2. \E x \in S : \A y \in S : y <= x
  BY <1>1, GreatestOf
<1>3. \E x \in S : \A y \in S : x >= y
  BY <1>1, <1>2
<1> QED BY <1>1, <1>3 DEF Max

LEMMA MinOf ==
  ASSUME NEW n \in Nat, NEW S \in SUBSET (1..n), S # {}
  PROVE  Min(S) \in S
<1>1. \E x \in S : \A y \in S : x <= y
  BY LeastOf
<1> QED BY <1>1 DEF Min

LEMMA FirstOf ==
  ASSUME NEW n \in Nat, NEW S \in SUBSET (1..n), NEW k \in Nat
  PROVE  /\ First(k, S) \in SUBSET S
         /\ \A x \in First(k, S), y \in S : y < x => y \in First(k, S)
         /\ Cardinality(First(k, S)) # k => First(k, S) = S
<1>1. First(k, S) = Leading(k, S)
  BY DEF First, Leading
<1>2. /\ First(k, S) \subseteq S /\ Cardinality(First(k, S)) \in Nat /\ Cardinality(First(k, S)) <= k
      /\ \A x \in First(k, S) : \A y \in S : y < x => y \in First(k, S)
      /\ Cardinality(First(k, S)) < k => First(k, S) = S
  <2>1. /\ Leading(k, S) \subseteq S /\ Cardinality(Leading(k, S)) \in Nat /\ Cardinality(Leading(k, S)) <= k
        /\ \A x \in Leading(k, S) : \A y \in S : y < x => y \in Leading(k, S)
        /\ Cardinality(Leading(k, S)) < k => Leading(k, S) = S
    BY LeadingOf
  <2> QED BY <1>1, <2>1
<1>3. Cardinality(First(k, S)) # k => Cardinality(First(k, S)) < k
  BY <1>2
<1> QED BY <1>2, <1>3

LEMMA SweepAtFirst == SweepInit => SweepInv
<1> SUFFICES ASSUME SweepInit PROVE SweepInv
  OBVIOUS
<1>1. Asleep \in SweepHandlers /\ Asleep.stage = "idle"
  BY DEF Asleep, SweepHandlers, SweepStages
<1>2. SweepTypes
  <2>1. LastDay \in Nat
    BY SweepAssumption
  <2>2. dueOn \in [States -> Nat] /\ day \in 0..LastDay
    BY <2>1 DEF SweepInit
  <2>3. handler \in [Handlers -> SweepHandlers]
    BY <1>1 DEF SweepInit
  <2> QED BY <2>2, <2>3 DEF SweepInit, SweepTypes
<1>3. \A d \in Sweeps : sweeps[d] = [status |-> "NONE", cursor |-> 0] /\ owed[d] = {}
                        /\ \A u \in Learners : totals[d][u] = 0 /\ told[d][u] = 0
  BY DEF SweepInit
<1>4. \A d \in Sweeps, u \in Learners : SeenOf(d, u) = {}
  BY <1>3 DEF SeenOf
<1>5. \A d \in Sweeps : OwedKept(d) /\ TotalsKept(d) /\ ToldKept(d)
  <2>1. \A d \in Sweeps, u \in Learners : Cardinality(SeenOf(d, u)) = 0 /\ SeenOf(d, u) \ reviewed = {}
    BY <1>4, FS_EmptySet
  <2>4. \A d \in Sweeps, u \in Learners :
          Cardinality(SeenOf(d, u) \ reviewed) = 0 /\ Cardinality(SeenOf(d, u)) = 0 /\ totals[d][u] = 0
    BY <1>3, <2>1, FS_EmptySet
  <2>2. \A d \in Sweeps : TotalsKept(d)
    BY <2>4 DEF TotalsKept
  <2>3. \A d \in Sweeps : sweeps[d].status = "NONE" /\ sweeps[d].cursor = 0
    BY <1>3
  <2> QED BY <1>3, <2>2, <2>3 DEF OwedKept, ToldKept, HasScanned
<1>6. (\A m \in published \cup queued : MessageKept(m)) /\ \A h \in Handlers : SweeperKept(h)
  BY <1>1 DEF SweepInit, SweeperKept
<1> QED BY <1>2, <1>5, <1>6 DEF SweepInv

LEMMA SweepImplies == SweepInv => DueIsTold
<1> SUFFICES ASSUME SweepInv, NEW d \in Sweeps, sweeps[d].status = "COMPLETE", NEW u \in Learners
             PROVE  /\ told[d][u] >= Cardinality((owed[d] \cap StatesOf[u]) \ reviewed)
                    /\ told[d][u] <= Cardinality(owed[d] \cap StatesOf[u])
  BY DEF DueIsTold
<1>1. told[d][u] = totals[d][u] /\ totals[d][u] \in Nat
  BY DEF SweepInv, ToldKept, Told, SweepTypes
<1>2. owed[d] \in SUBSET States
  BY DEF SweepInv, SweepTypes
<1>3. \A s \in owed[d] \ reviewed : s <= sweeps[d].cursor
  BY DEF SweepInv, OwedKept, HasScanned
<1>4. (owed[d] \cap StatesOf[u]) \ reviewed \in SUBSET (SeenOf(d, u) \ reviewed)
  BY <1>3 DEF SeenOf
<1>5. SeenOf(d, u) \in SUBSET (owed[d] \cap StatesOf[u])
  BY DEF SeenOf
<1>6. /\ Cardinality((owed[d] \cap StatesOf[u]) \ reviewed) <= Cardinality(SeenOf(d, u) \ reviewed)
      /\ Cardinality(SeenOf(d, u)) <= Cardinality(owed[d] \cap StatesOf[u])
  <2>1. SeenOf(d, u) \ reviewed \in SUBSET States /\ owed[d] \cap StatesOf[u] \in SUBSET States
    BY <1>2, <1>5
  <2> QED BY <1>4, <1>5, <2>1, MoreStates
<1>7. /\ Cardinality(SeenOf(d, u) \ reviewed) <= totals[d][u]
      /\ totals[d][u] <= Cardinality(SeenOf(d, u))
  BY DEF SweepInv, TotalsKept
<1>8. /\ Cardinality((owed[d] \cap StatesOf[u]) \ reviewed) \in Nat
      /\ Cardinality(SeenOf(d, u) \ reviewed) \in Nat
      /\ Cardinality(owed[d] \cap StatesOf[u]) \in Nat /\ Cardinality(SeenOf(d, u)) \in Nat
  BY <1>2, <1>5, SweepFinite
<1> QED BY <1>1, <1>6, <1>7, <1>8

-----------------------------------------------------------------------------
\* What no step takes back: a sweep that exists, one that has scanned, a user who has been told.
Steady ==
  \A d \in Sweeps :
    /\ sweeps[d].status # "NONE" => sweeps[d].status' # "NONE"
    /\ HasScanned(d) => HasScanned(d)' /\ \A u \in Learners : Told(d, u) => Told(d, u)'

LEMMA StillScanned == ASSUME UNCHANGED <<sweeps, totals, told>> PROVE Steady
  BY DEF Steady, HasScanned, Told

LEMMA MessageStays ==
  ASSUME Steady, NEW m \in SweepMessages, MessageKept(m)
  PROVE  MessageKept(m)'
<1>1. m.of \in Sweeps
  BY DEF SweepMessages
<1>2. sweeps[m.of].status' # "NONE"
  BY <1>1 DEF Steady, MessageKept
<1>3. ASSUME m.step = "notify", m.after > 0, NEW u \in Learners, u <= m.after
      PROVE  Told(m.of, u)'
  BY <1>1, <1>3 DEF Steady, MessageKept
<1>4. m.step = "notify" /\ m.after > 0 => HasScanned(m.of)'
  BY <1>1 DEF Steady, MessageKept
<1> QED BY <1>2, <1>3, <1>4 DEF MessageKept

LEMMA SweeperStays ==
  ASSUME SweepTypes, Steady, NEW h \in Handlers, SweeperKept(h), handler'[h] = handler[h]
  PROVE  SweeperKept(h)'
<1>1. PICK k \in SweepHandlers : k = handler[h]
  BY DEF SweepTypes
<1>2. k.next \in SweepMessages \cup {NoMessage}
  BY <1>1 DEF SweepHandlers
<1>3. k.stage # "idle" => k.message \in SweepMessages /\ MessageKept(k.message)'
  BY <1>1, MessageStays DEF SweeperKept
<1>4. k.stage = "continue" => k.next = NoMessage \/ MessageKept(k.next)'
  BY <1>1, <1>2, MessageStays DEF SweeperKept
<1>5. ASSUME k.stage = "tell"
      PROVE  /\ HasScanned(k.message.of)'
             /\ k.next # NoMessage => k.next.of = k.message.of /\ k.next.step = "notify"
             /\ \A u \in Learners : k.next = NoMessage \/ u <= k.next.after =>
                                      Told(k.message.of, u)' \/ u \in k.page
  <2>1. k.message.of \in Sweeps
    BY <1>3, <1>5 DEF SweepMessages
  <2> QED BY <1>1, <1>5, <2>1 DEF SweeperKept, Steady
<1>6. k.stage \in {"scan", "notify"} => k.next = NoMessage /\ k.message.step = k.stage
  BY <1>1 DEF SweeperKept
<1>7. handler'[h] = k
  BY <1>1
<1> QED BY <1>3, <1>4, <1>5, <1>6, <1>7 DEF SweeperKept, MessageKept, HasScanned, Told

\* A step of one handler that leaves the sweeps steady.
LEMMA OneSweeper ==
  ASSUME SweepInv, Steady, NEW h \in Handlers, NEW row \in SweepHandlers,
         handler' = [handler EXCEPT ![h] = row], SweeperKept(h)'
  PROVE  /\ handler' \in [Handlers -> SweepHandlers]
         /\ \A g \in Handlers : SweeperKept(g)'
<1>1. SweepTypes /\ handler \in [Handlers -> SweepHandlers]
  BY DEF SweepInv, SweepTypes
<1>2. \A g \in Handlers : g # h => handler'[g] = handler[g]
  BY <1>1
<1>3. \A g \in Handlers : g # h => SweeperKept(g)'
  BY <1>1, <1>2, SweeperStays DEF SweepInv
<1> QED BY <1>1, <1>3

\* The messages the queue has and has seen.
LEMMA MessagesStay ==
  ASSUME SweepInv, Steady
  PROVE  \A m \in published \cup queued : MessageKept(m)'
<1>1. \A m \in published \cup queued : m \in SweepMessages /\ MessageKept(m)
  BY DEF SweepInv, SweepTypes
<1> QED BY <1>1, MessageStays

\* The sweeps when only a handler moves.
LEMMA SweepsAlike ==
  ASSUME SweepInv, UNCHANGED <<dueOn, reviewed, day, sweeps, totals, told, owed>>
  PROVE  /\ Steady
         /\ \A d \in Sweeps : OwedKept(d)' /\ TotalsKept(d)' /\ ToldKept(d)'
<1>1. Steady
  BY StillScanned
<1>2. ASSUME NEW d \in Sweeps PROVE OwedKept(d)' /\ TotalsKept(d)' /\ ToldKept(d)'
  <2>1. OwedKept(d) /\ TotalsKept(d) /\ ToldKept(d)
    BY DEF SweepInv
  <2>2. Dues(d)' = Dues(d) /\ \A u \in Learners : SeenOf(d, u)' = SeenOf(d, u)
    BY DEF Dues, SeenOf
  <2>3. OwedKept(d)'
    BY <2>1, <2>2 DEF OwedKept, HasScanned
  <2>4. TotalsKept(d)'
    BY <2>1, <2>2 DEF TotalsKept
  <2>5. ToldKept(d)'
    BY <2>1 DEF ToldKept, Told, HasScanned
  <2> QED BY <2>3, <2>4, <2>5
<1> QED BY <1>1, <1>2

LEMMA AsleepKept ==
  /\ Asleep \in SweepHandlers /\ Asleep.stage = "idle"
  /\ \A h \in Handlers : handler'[h] = Asleep => SweeperKept(h)'
<1>1. Asleep \in SweepHandlers /\ Asleep.stage = "idle"
  BY DEF Asleep, SweepHandlers, SweepStages
<1> QED BY <1>1 DEF SweeperKept

LEMMA SleepsStep ==
  ASSUME SweepInv, NEW h \in Handlers, Acknowledges(h) \/ StopsHandling(h)
  PROVE  SweepInv'
<1>1. /\ UNCHANGED <<dueOn, reviewed, day, sweeps, totals, told, owed, published>>
      /\ handler' = [handler EXCEPT ![h] = Asleep] /\ queued' \subseteq queued
  BY DEF Acknowledges, StopsHandling
<1>2. Steady /\ \A d \in Sweeps : OwedKept(d)' /\ TotalsKept(d)' /\ ToldKept(d)'
  BY <1>1, SweepsAlike
<1>3. handler'[h] = Asleep
  BY <1>1 DEF SweepInv, SweepTypes
<1>4. handler' \in [Handlers -> SweepHandlers] /\ \A g \in Handlers : SweeperKept(g)'
  BY <1>1, <1>2, <1>3, AsleepKept, OneSweeper
<1>5. \A m \in published' \cup queued' : MessageKept(m)'
  BY <1>1, <1>2, MessagesStay
<1>6. SweepTypes'
  BY <1>1, <1>4 DEF SweepInv, SweepTypes
<1> QED BY <1>2, <1>4, <1>5, <1>6 DEF SweepInv

LEMMA ReceiveStep ==
  ASSUME SweepInv, NEW h \in Handlers, NEW m \in queued, Receive(h, m)
  PROVE  SweepInv'
<1> DEFINE row == [Asleep EXCEPT !.message = m, !.stage = m.step]
<1>1. /\ UNCHANGED <<dueOn, reviewed, day, sweeps, totals, told, owed, published, queued>>
      /\ handler' = [handler EXCEPT ![h] = row]
  BY DEF Receive
<1>2. Steady /\ \A d \in Sweeps : OwedKept(d)' /\ TotalsKept(d)' /\ ToldKept(d)'
  BY <1>1, SweepsAlike
<1>3. m \in SweepMessages /\ MessageKept(m)'
  BY <1>2, MessagesStay DEF SweepInv, SweepTypes
<1>4. m.step \in {"scan", "notify"}
  BY <1>3 DEF SweepMessages
<1>5. row \in SweepHandlers /\ row.message = m /\ row.stage = m.step /\ row.next = NoMessage
  <2>1. Asleep.next = NoMessage
    BY DEF Asleep
  <2> QED BY <1>3, <1>4, <2>1, AsleepKept DEF SweepHandlers, SweepStages
<1>6. handler'[h] = row
  BY <1>1 DEF SweepInv, SweepTypes
<1> HIDE DEF row
<1>7. SweeperKept(h)'
  BY <1>3, <1>4, <1>5, <1>6 DEF SweeperKept
<1>8. handler' \in [Handlers -> SweepHandlers] /\ \A g \in Handlers : SweeperKept(g)'
  BY <1>1, <1>2, <1>5, <1>7, OneSweeper
<1>9. \A n \in published' \cup queued' : MessageKept(n)'
  BY <1>1, <1>2, MessagesStay
<1>10. SweepTypes'
  BY <1>1, <1>8 DEF SweepInv, SweepTypes
<1> QED BY <1>2, <1>8, <1>9, <1>10 DEF SweepInv

LEMMA ContinuesStep ==
  ASSUME SweepInv, NEW h \in Handlers, Continues(h), NEW k \in SweepHandlers, k = handler[h]
  PROVE  SweepInv'
<1> DEFINE row == [k EXCEPT !.stage = "ack"]
<1>1. /\ UNCHANGED <<dueOn, reviewed, day, sweeps, totals, told, owed>>
      /\ handler' = [handler EXCEPT ![h] = row] /\ k.stage = "continue"
  BY DEF Continues
<1>2. Steady /\ \A d \in Sweeps : OwedKept(d)' /\ TotalsKept(d)' /\ ToldKept(d)'
  BY <1>1, SweepsAlike
<1>3. k \in SweepHandlers /\ SweeperKept(h)
  BY DEF SweepInv, SweepTypes
<1>4. k.message \in SweepMessages /\ MessageKept(k.message)'
  BY <1>1, <1>2, <1>3, MessageStays DEF SweeperKept
<1>5. row \in SweepHandlers /\ row.stage = "ack" /\ row.message = k.message
  BY <1>3 DEF SweepHandlers, SweepStages
<1>6. handler'[h] = row
  BY <1>1 DEF SweepInv, SweepTypes
<1>7. k.next = NoMessage \/ (k.next \in SweepMessages /\ MessageKept(k.next)')
  BY <1>1, <1>2, <1>3, MessageStays DEF SweeperKept, SweepHandlers
<1> HIDE DEF row
<1>8. SweeperKept(h)'
  BY <1>4, <1>5, <1>6 DEF SweeperKept
<1>9. handler' \in [Handlers -> SweepHandlers] /\ \A g \in Handlers : SweeperKept(g)'
  BY <1>1, <1>2, <1>5, <1>8, OneSweeper
<1>10. /\ published' \in SUBSET SweepMessages /\ queued' \in SUBSET SweepMessages
       /\ \A m \in published' \cup queued' : m \in published \cup queued \/ (k.next # NoMessage /\ m = k.next)
  BY <1>7 DEF Continues, Publish, SweepInv, SweepTypes
<1>11. \A m \in published' \cup queued' : MessageKept(m)'
  BY <1>2, <1>7, <1>10, MessagesStay
<1>12. SweepTypes'
  BY <1>1, <1>9, <1>10 DEF SweepInv, SweepTypes
<1> QED BY <1>2, <1>9, <1>11, <1>12 DEF SweepInv

LEMMA EndsPageStep ==
  ASSUME SweepInv, NEW h \in Handlers, EndsPage(h), NEW k \in SweepHandlers, k = handler[h]
  PROVE  SweepInv'
<1> DEFINE d == k.message.of
           row == [k EXCEPT !.stage = "continue"]
<1>1. /\ UNCHANGED <<dueOn, reviewed, day, totals, told, owed, published, queued>>
      /\ handler' = [handler EXCEPT ![h] = row] /\ k.stage = "tell" /\ k.page = {}
      /\ sweeps' = IF k.next = NoMessage THEN [sweeps EXCEPT ![d].status = "COMPLETE"] ELSE sweeps
  BY DEF EndsPage
<1>2. k \in SweepHandlers /\ SweeperKept(h)
  BY DEF SweepInv, SweepTypes
<1>3. /\ k.message \in SweepMessages /\ MessageKept(k.message) /\ HasScanned(d)
      /\ k.next # NoMessage => k.next.of = d /\ k.next.step = "notify"
      /\ \A u \in Learners : k.next = NoMessage \/ u <= k.next.after => Told(d, u)
  BY <1>1, <1>2 DEF SweeperKept
<1>4. d \in Sweeps
  BY <1>3 DEF SweepMessages
<1>5. /\ row \in SweepHandlers /\ row.stage = "continue" /\ row.message = k.message /\ row.next = k.next
      /\ k.next \in SweepMessages \cup {NoMessage}
  BY <1>2 DEF SweepHandlers, SweepStages
<1>6. handler'[h] = row
  BY <1>1 DEF SweepInv, SweepTypes
<1> HIDE DEF row, d
<1>7. sweeps \in [Sweeps -> [status : {"NONE", "SCANNING", "NOTIFYING", "COMPLETE"}, cursor : Nat]]
  BY DEF SweepInv, SweepTypes
<1>8. /\ sweeps' \in [Sweeps -> [status : {"NONE", "SCANNING", "NOTIFYING", "COMPLETE"}, cursor : Nat]]
      /\ \A e \in Sweeps :
           /\ sweeps'[e].cursor = sweeps[e].cursor
           /\ sweeps'[e].status = IF e = d /\ k.next = NoMessage THEN "COMPLETE" ELSE sweeps[e].status
  BY <1>1, <1>4, <1>7
<1>9. Steady /\ \A e \in Sweeps : HasScanned(e)' = HasScanned(e)
  BY <1>1, <1>3, <1>8 DEF Steady, HasScanned, Told
<1>10. \A e \in Sweeps : OwedKept(e)' /\ TotalsKept(e)' /\ ToldKept(e)'
  <2> SUFFICES ASSUME NEW e \in Sweeps PROVE OwedKept(e)' /\ TotalsKept(e)' /\ ToldKept(e)'
    OBVIOUS
  <2>1. OwedKept(e) /\ TotalsKept(e) /\ ToldKept(e)
    BY DEF SweepInv
  <2>2. sweeps'[e].status = "NONE" <=> sweeps[e].status = "NONE"
    BY <1>3, <1>8 DEF HasScanned
  <2>3. OwedKept(e)'
    BY <1>1, <1>8, <1>9, <2>1, <2>2 DEF OwedKept, Dues
  <2>4. TotalsKept(e)'
    BY <1>1, <1>8, <2>1 DEF TotalsKept, SeenOf
  <2>5. ToldKept(e)'
    BY <1>1, <1>3, <1>8, <1>9, <2>1 DEF ToldKept, Told
  <2> QED BY <2>3, <2>4, <2>5
<1>11. MessageKept(k.message)'
  BY <1>3, <1>9, MessageStays
<1>12. k.next # NoMessage => MessageKept(k.next)'
  <2> SUFFICES ASSUME k.next # NoMessage PROVE MessageKept(k.next)'
    OBVIOUS
  <2>1. k.next.of = d /\ \A u \in Learners : u <= k.next.after => Told(d, u)
    BY <1>3
  <2>2. sweeps'[d].status # "NONE" /\ HasScanned(d)'
    BY <1>3, <1>4, <1>9 DEF HasScanned
  <2>3. \A u \in Learners : u <= k.next.after => Told(d, u)'
    BY <1>1, <2>1 DEF Told
  <2> QED BY <2>1, <2>2, <2>3 DEF MessageKept
<1>13. SweeperKept(h)'
  BY <1>3, <1>5, <1>6, <1>11, <1>12 DEF SweeperKept
<1>14. handler' \in [Handlers -> SweepHandlers] /\ \A g \in Handlers : SweeperKept(g)'
  BY <1>1, <1>5, <1>9, <1>13, OneSweeper
<1>15. \A m \in published' \cup queued' : MessageKept(m)'
  BY <1>1, <1>9, MessagesStay
<1>16. SweepTypes'
  BY <1>1, <1>8, <1>14 DEF SweepInv, SweepTypes
<1> QED BY <1>10, <1>14, <1>15, <1>16 DEF SweepInv

LEMMA TellsStep ==
  ASSUME SweepInv, NEW h \in Handlers, NEW u \in Learners, Tells(h, u),
         NEW k \in SweepHandlers, k = handler[h]
  PROVE  SweepInv'
<1> DEFINE d == k.message.of
           row == [k EXCEPT !.page = @ \ {u}]
<1>1. /\ UNCHANGED <<dueOn, reviewed, day, sweeps, totals, owed, published, queued>>
      /\ handler' = [handler EXCEPT ![h] = row] /\ k.stage = "tell" /\ u \in k.page
      /\ told' = [told EXCEPT ![d][u] = totals[d][u]]
  BY DEF Tells
<1>2. SweeperKept(h)
  BY DEF SweepInv
<1>3. /\ k.message \in SweepMessages /\ MessageKept(k.message) /\ HasScanned(d)
      /\ k.next # NoMessage => k.next.of = d /\ k.next.step = "notify"
      /\ \A v \in Learners : k.next = NoMessage \/ v <= k.next.after => Told(d, v) \/ v \in k.page
  BY <1>1, <1>2 DEF SweeperKept
<1>4. d \in Sweeps
  BY <1>3 DEF SweepMessages
<1>5. /\ row \in SweepHandlers /\ row.stage = "tell" /\ row.message = k.message /\ row.next = k.next
      /\ row.page = k.page \ {u}
  BY <1>1 DEF SweepHandlers, SweepStages
<1>6. handler'[h] = row
  BY <1>1 DEF SweepInv, SweepTypes
<1> HIDE DEF row, d
<1>7. told \in [Sweeps -> [Learners -> Nat]] /\ totals \in [Sweeps -> [Learners -> Nat]]
  BY DEF SweepInv, SweepTypes
<1>8. /\ told' \in [Sweeps -> [Learners -> Nat]]
      /\ \A e \in Sweeps, v \in Learners :
           told'[e][v] = IF e = d /\ v = u THEN totals[d][u] ELSE told[e][v]
  BY <1>1, <1>4, <1>7
<1>9. \A e \in Sweeps, v \in Learners : Told(e, v)' <=> Told(e, v) \/ (e = d /\ v = u)
  BY <1>1, <1>8 DEF Told
<1>10. Steady /\ \A e \in Sweeps : HasScanned(e)' = HasScanned(e)
  BY <1>1, <1>9 DEF Steady, HasScanned
<1>11. \A e \in Sweeps : OwedKept(e)' /\ TotalsKept(e)' /\ ToldKept(e)'
  <2> SUFFICES ASSUME NEW e \in Sweeps PROVE OwedKept(e)' /\ TotalsKept(e)' /\ ToldKept(e)'
    OBVIOUS
  <2>1. OwedKept(e) /\ TotalsKept(e) /\ ToldKept(e)
    BY DEF SweepInv
  <2>2. OwedKept(e)' /\ TotalsKept(e)'
    BY <1>1, <1>10, <2>1 DEF OwedKept, TotalsKept, Dues, SeenOf
  <2>3. \A v \in Learners : (told[e][v])' = 0 \/ (Told(e, v)' /\ HasScanned(e)')
    BY <1>3, <1>8, <1>9, <1>10, <2>1 DEF ToldKept
  <2>4. ToldKept(e)'
    BY <1>1, <1>9, <2>1, <2>3 DEF ToldKept
  <2> QED BY <2>2, <2>4
<1>12. MessageKept(k.message)'
  BY <1>3, <1>10, MessageStays
<1>13. \A v \in Learners : k.next = NoMessage \/ v <= k.next.after => Told(d, v)' \/ v \in k.page \ {u}
  BY <1>3, <1>4, <1>9
<1>14. SweeperKept(h)'
  BY <1>3, <1>4, <1>5, <1>6, <1>10, <1>12, <1>13 DEF SweeperKept, d
<1>15. handler' \in [Handlers -> SweepHandlers] /\ \A g \in Handlers : SweeperKept(g)'
  BY <1>1, <1>5, <1>10, <1>14, OneSweeper
<1>16. \A m \in published' \cup queued' : MessageKept(m)'
  BY <1>1, <1>10, MessagesStay
<1>17. SweepTypes'
  BY <1>1, <1>8, <1>15 DEF SweepInv, SweepTypes
<1> QED BY <1>11, <1>15, <1>16, <1>17 DEF SweepInv

\* A page and the ones before it are all whom the sweep has counted something for.
LEMMA PageTold ==
  ASSUME SweepInv, NEW m \in SweepMessages, MessageKept(m), m.step = "notify", HasScanned(m.of), NEW page,
         page = First(NotifyPage, {u \in Learners : totals[m.of][u] > 0 /\ u > m.after})
  PROVE  /\ page \in SUBSET Learners
         /\ Full(page, NotifyPage) => Max(page) \in Nat
         /\ \A u \in Learners : ~Full(page, NotifyPage) \/ u <= Max(page) => Told(m.of, u) \/ u \in page
<1> DEFINE counted == {u \in Learners : totals[m.of][u] > 0 /\ u > m.after}
<1>1. PICK n \in Nat : Learners \in SUBSET (1..n)
  BY SweepNumbers
<1>2. m.of \in Sweeps /\ m.after \in Nat /\ NotifyPage \in Nat /\ NotifyPage # 0
  BY SweepAssumption DEF SweepMessages
<1>3. counted \in SUBSET (1..n) /\ counted \in SUBSET Learners
  BY <1>1
<1>4. \A u \in Learners : u \in 1..n /\ u \in Nat /\ u >= 1
  BY <1>1
<1>5. \A u \in Learners : totals[m.of][u] \in Nat /\ told[m.of][u] \in Nat
  BY <1>2 DEF SweepInv, SweepTypes
<1>6. \A u \in Learners : u \in counted <=> totals[m.of][u] > 0 /\ u > m.after
  OBVIOUS
<1>7. \A u \in Learners : u \notin counted => Told(m.of, u)
  <2> SUFFICES ASSUME NEW u \in Learners, u \notin counted PROVE Told(m.of, u)
    OBVIOUS
  <2>1. CASE u <= m.after
    BY <1>2, <1>4, <2>1 DEF MessageKept
  <2>2. CASE totals[m.of][u] = 0
    BY <1>2, <2>2 DEF SweepInv, ToldKept, Told
  <2>3. u <= m.after \/ totals[m.of][u] = 0
    BY <1>2, <1>4, <1>5, <1>6
  <2> QED BY <2>1, <2>2, <2>3
<1> HIDE DEF counted
<1>8. page = First(NotifyPage, counted)
  BY DEF counted
<1>9. /\ page \in SUBSET counted
      /\ \A x \in page, y \in counted : y < x => y \in page
      /\ Cardinality(page) # NotifyPage => page = counted
  BY <1>2, <1>3, <1>8, FirstOf
<1>10. ASSUME Full(page, NotifyPage)
       PROVE  Max(page) \in page /\ Max(page) \in Nat
  <2>1. page # {}
    BY <1>2, <1>10, FS_EmptySet DEF Full
  <2>2. page \in SUBSET (1..n)
    BY <1>3, <1>9
  <2>3. Max(page) \in page
    BY <2>1, <2>2, MaxOf
  <2> QED BY <2>2, <2>3
<1>11. ASSUME NEW u \in Learners, ~Full(page, NotifyPage) \/ u <= Max(page)
       PROVE  Told(m.of, u) \/ u \in page
  <2>1. CASE u \notin counted
    BY <1>7, <2>1
  <2>2. CASE u \in counted /\ ~Full(page, NotifyPage)
    BY <1>9, <2>2 DEF Full
  <2>3. CASE u \in counted /\ Full(page, NotifyPage)
    <3>1. u < Max(page) \/ u = Max(page)
      BY <1>4, <1>10, <1>11, <2>3
    <3> QED BY <1>9, <1>10, <2>3, <3>1
  <2> QED BY <2>1, <2>2, <2>3
<1> QED BY <1>3, <1>9, <1>10, <1>11

LEMMA ReadsPageStep ==
  ASSUME SweepInv, NEW h \in Handlers, ReadsPage(h), NEW k \in SweepHandlers, k = handler[h]
  PROVE  SweepInv'
<1> DEFINE m == k.message
           page == First(NotifyPage, {u \in Learners : totals[m.of][u] > 0 /\ u > m.after})
           next == IF Full(page, NotifyPage) THEN NotifyMessage(m.of, Max(page), 0) ELSE NoMessage
           ends == [k EXCEPT !.stage = "continue"]
           tells == [k EXCEPT !.stage = "tell", !.page = page, !.next = next]
<1>1. /\ UNCHANGED <<dueOn, reviewed, day, sweeps, totals, told, owed, published, queued>>
      /\ k.stage = "notify" /\ handler \in [Handlers -> SweepHandlers]
  BY DEF ReadsPage, SweepInv, SweepTypes
<1>2. m \in SweepMessages /\ MessageKept(m) /\ m.step = "notify" /\ k.next = NoMessage
  BY <1>1 DEF SweeperKept, SweepInv
<1>3. Steady /\ \A d \in Sweeps : OwedKept(d)' /\ TotalsKept(d)' /\ ToldKept(d)'
  BY <1>1, SweepsAlike
<1>4. MessageKept(m)'
  BY <1>2, <1>3, MessageStays
<1>5. m.of \in Sweeps /\ sweeps[m.of].status \in {"SCANNING", "NOTIFYING", "COMPLETE"}
  BY <1>2 DEF SweepMessages, MessageKept, SweepInv, SweepTypes
<1>6. PICK row \in SweepHandlers : handler' = [handler EXCEPT ![h] = row] /\ SweeperKept(h)'
  <2>1. CASE sweeps[m.of].status = "COMPLETE"
    <3>1. handler' = [handler EXCEPT ![h] = ends]
      BY <2>1 DEF ReadsPage
    <3>2. ends \in SweepHandlers /\ ends.stage = "continue" /\ ends.message = m /\ ends.next = NoMessage
      BY <1>2 DEF SweepHandlers, SweepStages
    <3>3. handler'[h] = ends
      BY <1>1, <3>1
    <3> HIDE DEF ends
    <3>4. SweeperKept(h)'
      BY <1>2, <1>4, <3>2, <3>3 DEF SweeperKept
    <3> QED BY <3>1, <3>2, <3>4
  <2>2. CASE sweeps[m.of].status = "SCANNING"
    <3>1. handler' = [handler EXCEPT ![h] = Asleep]
      BY <2>2 DEF ReadsPage
    <3>2. handler'[h] = Asleep
      BY <1>1, <3>1
    <3> QED BY <3>1, <3>2, AsleepKept
  <2>3. CASE sweeps[m.of].status = "NOTIFYING"
    <3>1. handler' = [handler EXCEPT ![h] = tells]
      BY <2>3 DEF ReadsPage
    <3>2. HasScanned(m.of)
      BY <2>3 DEF HasScanned
    <3> HIDE DEF page
    <3>3. /\ page \in SUBSET Learners
          /\ Full(page, NotifyPage) => Max(page) \in Nat
          /\ \A u \in Learners : ~Full(page, NotifyPage) \/ u <= Max(page) => Told(m.of, u) \/ u \in page
      BY <1>2, <3>2, PageTold DEF page
    <3>4. /\ next \in SweepMessages \cup {NoMessage}
          /\ next # NoMessage => /\ Full(page, NotifyPage) /\ next.of = m.of /\ next.step = "notify"
                                 /\ next.after = Max(page)
          /\ next = NoMessage => ~Full(page, NotifyPage)
      <4>1. NoMessage \notin SweepMessages
        <5>1. SweepMessages \subseteq [of : Nat, step : {"scan", "notify"}, after : Nat, cron : Nat]
          BY DEF SweepMessages, Sweeps
        <5> QED BY <5>1, SweepAssumption
      <4>2. Full(page, NotifyPage) => NotifyMessage(m.of, Max(page), 0) \in SweepMessages
        BY <1>5, <3>3 DEF NotifyMessage, SweepMessages
      <4> QED BY <4>1, <4>2 DEF NotifyMessage
    <3> HIDE DEF next
    <3>5. /\ tells \in SweepHandlers /\ tells.stage = "tell" /\ tells.message = m /\ tells.page = page
          /\ tells.next = next
      BY <3>3, <3>4 DEF SweepHandlers, SweepStages
    <3>6. handler'[h] = tells
      BY <1>1, <3>1
    <3>7. \A u \in Learners : next = NoMessage \/ u <= next.after => Told(m.of, u) \/ u \in page
      BY <3>3, <3>4
    <3> HIDE DEF tells
    <3>8. HasScanned(m.of)' /\ \A u \in Learners : Told(m.of, u)' <=> Told(m.of, u)
      BY <1>1, <3>2 DEF HasScanned, Told
    <3>9. SweeperKept(h)'
      BY <1>2, <1>4, <3>4, <3>5, <3>6, <3>7, <3>8 DEF SweeperKept
    <3> QED BY <3>1, <3>5, <3>9
  <2> QED BY <1>5, <2>1, <2>2, <2>3
<1>7. handler' \in [Handlers -> SweepHandlers] /\ \A g \in Handlers : SweeperKept(g)'
  BY <1>3, <1>6, OneSweeper
<1>8. \A n \in published' \cup queued' : MessageKept(n)'
  BY <1>1, <1>3, MessagesStay
<1>9. SweepTypes'
  BY <1>1, <1>7 DEF SweepInv, SweepTypes
<1> QED BY <1>3, <1>7, <1>8, <1>9 DEF SweepInv

\* A taken lies behind the cursor, skips nothing that is due, and is all of it unless it is full.
LEMMA SliceOf ==
  ASSUME SweepInv, NEW d \in Sweeps, NEW taken, taken = Slice(d)
  PROVE  /\ taken \in SUBSET Dues(d)
         /\ \A s \in taken : s \in Nat /\ s > sweeps[d].cursor
         /\ taken # {} => Max(taken) \in taken /\ \A s \in taken : s <= Max(taken)
         /\ \A s \in Dues(d) : s > sweeps[d].cursor /\ (taken # {} /\ s <= Max(taken)) => s \in taken
         /\ ~Full(taken, SweepSlice) => \A s \in Dues(d) : s > sweeps[d].cursor => s \in taken
<1> DEFINE behind == {s \in States : dueOn[s] <= d /\ s > sweeps[d].cursor}
<1>1. PICK n \in Nat : States \in SUBSET (1..n)
  BY SweepNumbers
<1>2. SweepSlice \in Nat
  BY SweepAssumption
<1>3. behind \in SUBSET (1..n) /\ taken = First(SweepSlice, behind)
  BY <1>1 DEF Slice
<1>4. \A s \in States : s \in Nat
  BY <1>1
<1>5. \A s : s \in behind <=> s \in Dues(d) /\ s > sweeps[d].cursor
  BY DEF Dues
<1> HIDE DEF behind
<1>6. /\ taken \in SUBSET behind
      /\ \A x \in taken, y \in behind : y < x => y \in taken
      /\ Cardinality(taken) # SweepSlice => taken = behind
  BY <1>2, <1>3, FirstOf
<1>7. taken # {} => Max(taken) \in taken /\ \A s \in taken : s <= Max(taken)
  <2>1. taken \in SUBSET (1..n)
    BY <1>3, <1>6
  <2> QED BY <2>1, MaxOf
<1>8. taken \in SUBSET Dues(d) /\ \A s \in taken : s \in States /\ s \in Nat /\ s > sweeps[d].cursor
  BY <1>4, <1>5, <1>6 DEF Dues
<1>9. ASSUME NEW s \in Dues(d), s > sweeps[d].cursor, taken # {}, s <= Max(taken)
      PROVE  s \in taken
  <2>1. s \in Nat /\ Max(taken) \in Nat
    BY <1>4, <1>7, <1>8, <1>9 DEF Dues
  <2>2. s < Max(taken) \/ s = Max(taken)
    BY <1>9, <2>1
  <2> QED BY <1>5, <1>6, <1>7, <1>9, <2>2
<1>10. ~Full(taken, SweepSlice) => \A s \in Dues(d) : s > sweeps[d].cursor => s \in taken
  BY <1>5, <1>6 DEF Full
<1> QED BY <1>7, <1>8, <1>9, <1>10

\* What a taken adds to a user's total is what comes behind the cursor.
LEMMA SliceCounts ==
  ASSUME SweepInv, NEW d \in Sweeps, sweeps[d].status = "SCANNING", NEW taken, taken = Slice(d),
         NEW c \in Nat, c = IF taken = {} THEN sweeps[d].cursor ELSE Max(taken), NEW u \in Learners
  PROVE  LET seen == {s \in owed[d] \cap StatesOf[u] : s <= c}
         IN  /\ Cardinality(taken \cap StatesOf[u]) \in Nat
             /\ Cardinality(seen \ reviewed) <= totals[d][u] + Cardinality(taken \cap StatesOf[u])
             /\ totals[d][u] + Cardinality(taken \cap StatesOf[u]) <= Cardinality(seen)
<1> DEFINE seen == {s \in owed[d] \cap StatesOf[u] : s <= c}
           new == taken \cap StatesOf[u]
           old == SeenOf(d, u)
<1>1. /\ owed[d] \in SUBSET States /\ sweeps[d].cursor \in Nat /\ totals[d][u] \in Nat
      /\ Dues(d) \subseteq owed[d] /\ owed[d] \ reviewed \subseteq Dues(d)
      /\ Cardinality(old \ reviewed) <= totals[d][u] /\ totals[d][u] <= Cardinality(old)
  BY DEF SweepInv, SweepTypes, OwedKept, TotalsKept
<1>2. \A s \in States : s \in Nat
  BY SweepNumbers
<1>3. /\ taken \in SUBSET Dues(d)
      /\ \A s \in taken : s \in Nat /\ s > sweeps[d].cursor
      /\ taken # {} => Max(taken) \in taken /\ \A s \in taken : s <= Max(taken)
      /\ \A s \in Dues(d) : s > sweeps[d].cursor /\ (taken # {} /\ s <= Max(taken)) => s \in taken
  BY SliceOf
<1>4. c >= sweeps[d].cursor /\ \A s \in taken : s <= c
  BY <1>1, <1>3
<1>5. \A s : s \in old <=> s \in owed[d] /\ s \in StatesOf[u] /\ s <= sweeps[d].cursor
  BY DEF SeenOf
<1>6. \A s : s \in seen <=> s \in owed[d] /\ s \in StatesOf[u] /\ s <= c
  OBVIOUS
<1>7. \A s : s \in new <=> s \in taken /\ s \in StatesOf[u]
  OBVIOUS
<1> HIDE DEF seen, new, old
<1>8. seen \in SUBSET States /\ old \in SUBSET States /\ new \in SUBSET States
  BY <1>1, <1>3, <1>5, <1>6, <1>7
<1>9. old \cup new \in SUBSET seen
  <2> SUFFICES ASSUME NEW s \in old \cup new PROVE s \in seen
    OBVIOUS
  <2>1. s \in Nat
    BY <1>2, <1>8
  <2>2. CASE s \in old
    BY <1>1, <1>4, <1>5, <1>6, <2>1, <2>2
  <2>3. CASE s \in new
    BY <1>1, <1>3, <1>4, <1>6, <1>7, <2>3
  <2> QED BY <2>2, <2>3
<1>10. old \cap new = {}
  <2> SUFFICES ASSUME NEW s \in old, s \in new PROVE FALSE
    OBVIOUS
  <2>1. s <= sweeps[d].cursor /\ s > sweeps[d].cursor /\ s \in Nat
    BY <1>3, <1>5, <1>7
  <2> QED BY <1>1, <2>1
<1>11. seen \ reviewed \in SUBSET ((old \ reviewed) \cup new)
  <2> SUFFICES ASSUME NEW s \in seen, s \notin reviewed, s \notin old PROVE s \in new
    OBVIOUS
  <2>1. s \in Nat /\ s \in Dues(d) /\ s \in StatesOf[u] /\ s <= c
    BY <1>1, <1>2, <1>6, <1>8
  <2>2. s > sweeps[d].cursor
    BY <1>1, <1>5, <1>6, <2>1
  <2>3. taken # {} /\ s <= Max(taken)
    BY <1>1, <2>1, <2>2
  <2> QED BY <1>3, <1>7, <2>1, <2>2, <2>3
<1>12. /\ Cardinality(old \cup new) = Cardinality(old) + Cardinality(new)
       /\ Cardinality(old \cup new) <= Cardinality(seen)
  <2>1. Cardinality(old \cup new) = Cardinality(old) + Cardinality(new)
    BY <1>8, <1>10, BothStates
  <2>2. Cardinality(old \cup new) <= Cardinality(seen)
    BY <1>8, <1>9, MoreStates
  <2> QED BY <2>1, <2>2
<1>13. Cardinality(seen \ reviewed) <= Cardinality(old \ reviewed) + Cardinality(new)
  <2>1. old \ reviewed \in SUBSET States /\ (old \ reviewed) \cup new \in SUBSET States
    BY <1>8
  <2>2. Cardinality(seen \ reviewed) <= Cardinality((old \ reviewed) \cup new)
    BY <1>11, <2>1, MoreStates
  <2>3. Cardinality((old \ reviewed) \cup new) <= Cardinality(old \ reviewed) + Cardinality(new)
    BY <1>8, <2>1, BothStates
  <2>4. /\ Cardinality(seen \ reviewed) \in Nat /\ Cardinality((old \ reviewed) \cup new) \in Nat
        /\ Cardinality(old \ reviewed) \in Nat /\ Cardinality(new) \in Nat
    <3>1. seen \ reviewed \in SUBSET States
      BY <1>8
    <3> QED BY <1>8, <2>1, <3>1, SweepFinite
  <2> QED BY <2>2, <2>3, <2>4
<1>14. /\ Cardinality(old) \in Nat /\ Cardinality(new) \in Nat /\ Cardinality(seen) \in Nat
       /\ Cardinality(old \ reviewed) \in Nat /\ Cardinality(seen \ reviewed) \in Nat
  <2>1. old \ reviewed \in SUBSET States /\ seen \ reviewed \in SUBSET States
    BY <1>8
  <2> QED BY <1>8, <2>1, SweepFinite
<1>15. /\ Cardinality(new) \in Nat
       /\ Cardinality(seen \ reviewed) <= totals[d][u] + Cardinality(new)
       /\ totals[d][u] + Cardinality(new) <= Cardinality(seen)
  BY <1>1, <1>12, <1>13, <1>14
<1> QED BY <1>15 DEF seen, new

\* The taken of a sweep that scans: cursor, totals, and what remains due.
LEMMA ScansSweep ==
  ASSUME SweepInv, NEW d \in Sweeps, sweeps[d].status = "SCANNING", NEW taken, taken = Slice(d),
         NEW c, c = IF taken = {} THEN sweeps[d].cursor ELSE Max(taken),
         UNCHANGED <<dueOn, reviewed, day, told, owed>>,
         totals' = [totals EXCEPT ![d] = [u \in Learners |-> @[u] + Cardinality(taken \cap StatesOf[u])]],
         sweeps' = [sweeps EXCEPT ![d] =
                     [status |-> IF Full(taken, SweepSlice) THEN "SCANNING" ELSE "NOTIFYING", cursor |-> c]]
  PROVE  /\ Steady /\ c \in Nat
         /\ \A e \in Sweeps : OwedKept(e)' /\ TotalsKept(e)' /\ ToldKept(e)'
         /\ totals' \in [Sweeps -> [Learners -> Nat]]
         /\ sweeps' \in [Sweeps -> [status : {"NONE", "SCANNING", "NOTIFYING", "COMPLETE"}, cursor : Nat]]
<1> DEFINE status == IF Full(taken, SweepSlice) THEN "SCANNING" ELSE "NOTIFYING"
<1>1. /\ sweeps \in [Sweeps -> [status : {"NONE", "SCANNING", "NOTIFYING", "COMPLETE"}, cursor : Nat]]
      /\ totals \in [Sweeps -> [Learners -> Nat]] /\ told \in [Sweeps -> [Learners -> Nat]]
      /\ OwedKept(d) /\ TotalsKept(d) /\ ToldKept(d)
  BY DEF SweepInv, SweepTypes
<1>2. /\ taken \in SUBSET Dues(d)
      /\ \A s \in taken : s \in Nat /\ s > sweeps[d].cursor
      /\ taken # {} => Max(taken) \in taken /\ \A s \in taken : s <= Max(taken)
      /\ ~Full(taken, SweepSlice) => \A s \in Dues(d) : s > sweeps[d].cursor => s \in taken
  BY SliceOf
<1>3. c \in Nat /\ c >= sweeps[d].cursor /\ \A s \in taken : s <= c
  BY <1>1, <1>2
<1>4. status \in {"SCANNING", "NOTIFYING"}
  OBVIOUS
<1>5. sweeps' = [sweeps EXCEPT ![d] = [status |-> status, cursor |-> c]]
  BY Zenon
<1>6. status = "NOTIFYING" <=> ~Full(taken, SweepSlice)
  OBVIOUS
<1>7. \A u \in Learners : Cardinality(taken \cap StatesOf[u]) \in Nat
  <2> TAKE u \in Learners
  <2>1. taken \cap StatesOf[u] \in SUBSET States
    BY <1>2 DEF Dues
  <2> QED BY <2>1, SweepFinite
<1>8. /\ totals' \in [Sweeps -> [Learners -> Nat]]
      /\ \A e \in Sweeps, u \in Learners :
           totals'[e][u] = IF e = d THEN totals[d][u] + Cardinality(taken \cap StatesOf[u]) ELSE totals[e][u]
  BY <1>1, <1>7
<1> HIDE DEF status
<1>9. /\ sweeps' \in [Sweeps -> [status : {"NONE", "SCANNING", "NOTIFYING", "COMPLETE"}, cursor : Nat]]
      /\ sweeps'[d].status = status /\ sweeps'[d].cursor = c
      /\ \A e \in Sweeps : e # d => sweeps'[e] = sweeps[e]
  BY <1>1, <1>3, <1>4, <1>5
<1>10. \A e \in Sweeps : e # d => totals'[e] = totals[e]
  OBVIOUS
<1>11. ~HasScanned(d)
  BY DEF HasScanned
<1>12. Steady
  BY <1>4, <1>9, <1>10, <1>11 DEF Steady, HasScanned, Told
<1>13. ASSUME NEW e \in Sweeps, e # d PROVE OwedKept(e)' /\ TotalsKept(e)' /\ ToldKept(e)'
  <2>1. OwedKept(e) /\ TotalsKept(e) /\ ToldKept(e) /\ sweeps'[e] = sweeps[e] /\ totals'[e] = totals[e]
    BY <1>9, <1>10, <1>13 DEF SweepInv
  <2>2. Dues(e)' = Dues(e) /\ \A u \in Learners : SeenOf(e, u)' = SeenOf(e, u)
    BY <2>1 DEF Dues, SeenOf
  <2>3. OwedKept(e)'
    BY <2>1, <2>2 DEF OwedKept, HasScanned
  <2>4. TotalsKept(e)'
    BY <2>1, <2>2 DEF TotalsKept
  <2>5. ToldKept(e)'
    BY <2>1 DEF ToldKept, Told, HasScanned
  <2> QED BY <2>3, <2>4, <2>5
<1>14. OwedKept(d)'
  <2>1. /\ d <= day' /\ Dues(d)' = Dues(d) /\ Dues(d)' \subseteq owed'[d]
        /\ owed'[d] \ reviewed' \subseteq Dues(d)'
    BY <1>1 DEF OwedKept, Dues
  <2>2. HasScanned(d)' => ~Full(taken, SweepSlice)
    BY <1>4, <1>6, <1>9 DEF HasScanned
  <2>3. ASSUME HasScanned(d)', NEW s \in Dues(d) PROVE s <= c
    <3>1. s \in Nat
      BY SweepNumbers DEF Dues
    <3>2. CASE s > sweeps[d].cursor
      BY <1>2, <1>3, <2>2, <2>3, <3>2
    <3>3. CASE ~(s > sweeps[d].cursor)
      BY <1>1, <1>3, <3>1, <3>3
    <3> QED BY <3>2, <3>3
  <2>4. sweeps'[d].status # "NONE"
    BY <1>4, <1>9
  <2> QED BY <1>9, <2>1, <2>3, <2>4 DEF OwedKept
<1>15. TotalsKept(d)'
  <2> SUFFICES ASSUME NEW u \in Learners
               PROVE  /\ Cardinality(SeenOf(d, u)' \ reviewed') <= totals'[d][u]
                      /\ totals'[d][u] <= Cardinality(SeenOf(d, u)')
    BY DEF TotalsKept
  <2>1. SeenOf(d, u)' = {s \in owed[d] \cap StatesOf[u] : s <= c}
    BY <1>9 DEF SeenOf
  <2>2. totals'[d][u] = totals[d][u] + Cardinality(taken \cap StatesOf[u])
    BY <1>8
  <2>3. /\ Cardinality({s \in owed[d] \cap StatesOf[u] : s <= c} \ reviewed)
               <= totals[d][u] + Cardinality(taken \cap StatesOf[u])
        /\ totals[d][u] + Cardinality(taken \cap StatesOf[u])
               <= Cardinality({s \in owed[d] \cap StatesOf[u] : s <= c})
    BY <1>3, SliceCounts
  <2> QED BY <2>1, <2>2, <2>3
<1>16. ToldKept(d)'
  <2>1. \A u \in Learners : told'[d][u] = 0
    BY <1>1, <1>11 DEF ToldKept
  <2>2. sweeps'[d].status # "COMPLETE"
    BY <1>4, <1>9
  <2> QED BY <2>1, <2>2 DEF ToldKept
<1> QED BY <1>3, <1>8, <1>9, <1>12, <1>13, <1>14, <1>15, <1>16

LEMMA AdvancesStep ==
  ASSUME SweepInv, NEW h \in Handlers, Advances(h), NEW k \in SweepHandlers, k = handler[h]
  PROVE  SweepInv'
<1> DEFINE d == k.message.of
<1>1. /\ UNCHANGED <<dueOn, reviewed, day, told, published, queued, owed>>
      /\ k.stage = "scan" /\ handler \in [Handlers -> SweepHandlers]
  BY DEF Advances, SweepInv, SweepTypes
<1>2. k.message \in SweepMessages /\ MessageKept(k.message)
  BY <1>1 DEF SweeperKept, SweepInv
<1>3. d \in Sweeps /\ sweeps[d].status \in {"SCANNING", "NOTIFYING", "COMPLETE"} /\ sweeps[d].cursor \in Nat
  BY <1>2 DEF SweepMessages, MessageKept, SweepInv, SweepTypes
<1>4. PICK taken, c : taken = Slice(d) /\ c = IF taken = {} THEN sweeps[d].cursor ELSE Max(taken)
  OBVIOUS
<1>5. /\ c \in Nat /\ Steady /\ \A e \in Sweeps : OwedKept(e)' /\ TotalsKept(e)' /\ ToldKept(e)'
      /\ totals' \in [Sweeps -> [Learners -> Nat]]
      /\ sweeps' \in [Sweeps -> [status : {"NONE", "SCANNING", "NOTIFYING", "COMPLETE"}, cursor : Nat]]
  <2>1. CASE sweeps[d].status = "SCANNING"
    <3>1. /\ totals' = [totals EXCEPT ![d] = [u \in Learners |-> @[u] + Cardinality(taken \cap StatesOf[u])]]
          /\ sweeps' = [sweeps EXCEPT ![d] =
               [status |-> IF Full(taken, SweepSlice) THEN "SCANNING" ELSE "NOTIFYING", cursor |-> c]]
      BY <1>4, <2>1 DEF Advances
    <3> HIDE DEF d
    <3> QED BY <1>1, <1>3, <1>4, <2>1, <3>1, ScansSweep
  <2>2. CASE sweeps[d].status # "SCANNING"
    <3>1. UNCHANGED <<totals, sweeps>>
      BY <2>2 DEF Advances
    <3>2. c \in Nat
      <4>1. /\ \A s \in taken : s \in Nat
            /\ taken # {} => Max(taken) \in taken
        BY <1>3, <1>4, SliceOf
      <4> QED BY <1>3, <1>4, <4>1
    <3> QED BY <1>1, <3>1, <3>2, SweepsAlike DEF SweepInv, SweepTypes
  <2> QED BY <2>1, <2>2
<1>6. PICK next : /\ handler' = [handler EXCEPT ![h].stage = "continue", ![h].next = next]
                  /\ next = ScanMessage(d, c, 0) \/ next = NoMessage \/ next = NotifyMessage(d, 0, 0)
  BY <1>4, Zenon DEF Advances
<1> DEFINE row == [k EXCEPT !.stage = "continue", !.next = next]
<1>7. handler' = [handler EXCEPT ![h] = row]
  BY <1>1, <1>6
<1>8. next \in SweepMessages \cup {NoMessage}
  BY <1>3, <1>5, <1>6 DEF ScanMessage, NotifyMessage, SweepMessages
<1>9. next = NoMessage \/ MessageKept(next)'
  <2>1. sweeps'[d].status # "NONE"
    BY <1>3, <1>5 DEF Steady
  <2>2. next # NoMessage => next.of = d /\ (next.step = "scan" \/ next.after = 0)
    BY <1>6 DEF ScanMessage, NotifyMessage
  <2> HIDE DEF d
  <2> QED BY <2>1, <2>2 DEF MessageKept
<1>10. MessageKept(k.message)'
  BY <1>2, <1>5, MessageStays
<1>11. row \in SweepHandlers /\ row.stage = "continue" /\ row.message = k.message /\ row.next = next
  BY <1>8 DEF SweepHandlers, SweepStages
<1>12. handler'[h] = row
  BY <1>1, <1>7
<1> HIDE DEF row
<1>13. SweeperKept(h)'
  BY <1>2, <1>9, <1>10, <1>11, <1>12 DEF SweeperKept
<1>14. handler' \in [Handlers -> SweepHandlers] /\ \A g \in Handlers : SweeperKept(g)'
  BY <1>5, <1>7, <1>11, <1>13, OneSweeper
<1>15. \A m \in published' \cup queued' : MessageKept(m)'
  BY <1>1, <1>5, MessagesStay
<1>16. SweepTypes'
  BY <1>1, <1>5, <1>14 DEF SweepInv, SweepTypes
<1> QED BY <1>5, <1>14, <1>15, <1>16 DEF SweepInv

LEMMA ReviewStep ==
  ASSUME SweepInv, NEW s \in States, ReviewDue(s)
  PROVE  SweepInv'
<1>1. /\ UNCHANGED <<day, sweeps, totals, told, published, queued, handler, owed>>
      /\ reviewed' = reviewed \cup {s} /\ dueOn' = [dueOn EXCEPT ![s] = LastDay + 1]
  BY DEF ReviewDue
<1>2. dueOn \in [States -> Nat] /\ LastDay \in Nat
  BY SweepAssumption DEF SweepInv, SweepTypes
<1>3. dueOn' \in [States -> Nat] /\ \A t \in States : dueOn'[t] = IF t = s THEN LastDay + 1 ELSE dueOn[t]
  BY <1>1, <1>2
<1>4. Steady
  BY <1>1, StillScanned
<1>5. \A d \in Sweeps : OwedKept(d)' /\ TotalsKept(d)' /\ ToldKept(d)'
  <2> SUFFICES ASSUME NEW d \in Sweeps PROVE OwedKept(d)' /\ TotalsKept(d)' /\ ToldKept(d)'
    OBVIOUS
  <2>1. OwedKept(d) /\ TotalsKept(d) /\ ToldKept(d) /\ owed[d] \in SUBSET States
    BY DEF SweepInv, SweepTypes
  <2>2. ~(LastDay + 1 <= d)
    BY <1>2 DEF Sweeps
  <2>3. Dues(d)' = Dues(d) \ {s}
    BY <1>3, <2>2 DEF Dues
  <2>4. OwedKept(d)'
    BY <1>1, <2>1, <2>3 DEF OwedKept, HasScanned
  <2>5. TotalsKept(d)'
    <3> SUFFICES ASSUME NEW u \in Learners
                 PROVE  /\ Cardinality(SeenOf(d, u)' \ reviewed') <= totals'[d][u]
                        /\ totals'[d][u] <= Cardinality(SeenOf(d, u)')
      BY DEF TotalsKept
    <3>1. SeenOf(d, u)' = SeenOf(d, u) /\ SeenOf(d, u) \in SUBSET States
      BY <1>1, <2>1 DEF SeenOf
    <3>2. SeenOf(d, u) \ reviewed' \in SUBSET (SeenOf(d, u) \ reviewed)
      BY <1>1
    <3>3. /\ SeenOf(d, u) \ reviewed \in SUBSET States /\ SeenOf(d, u) \ reviewed' \in SUBSET States
      BY <3>1
    <3>4. Cardinality(SeenOf(d, u) \ reviewed') <= Cardinality(SeenOf(d, u) \ reviewed)
      BY <3>2, <3>3, MoreStates
    <3>5. /\ Cardinality(SeenOf(d, u) \ reviewed') \in Nat /\ Cardinality(SeenOf(d, u) \ reviewed) \in Nat
      BY <3>3, SweepFinite
    <3>6. totals[d][u] \in Nat
      BY DEF SweepInv, SweepTypes
    <3>7. /\ Cardinality(SeenOf(d, u) \ reviewed) <= totals[d][u]
          /\ totals[d][u] <= Cardinality(SeenOf(d, u))
      BY <2>1 DEF TotalsKept
    <3>8. Cardinality(SeenOf(d, u) \ reviewed') <= totals[d][u]
      BY <3>4, <3>5, <3>6, <3>7
    <3> QED BY <1>1, <3>1, <3>7, <3>8
  <2>6. ToldKept(d)'
    BY <1>1, <2>1 DEF ToldKept, Told, HasScanned
  <2> QED BY <2>4, <2>5, <2>6
<1>6. \A h \in Handlers : SweeperKept(h)'
  BY <1>1, <1>4, SweeperStays DEF SweepInv
<1>7. \A m \in published' \cup queued' : MessageKept(m)'
  BY <1>1, <1>4, MessagesStay
<1>8. SweepTypes'
  BY <1>1, <1>3 DEF SweepInv, SweepTypes
<1> QED BY <1>5, <1>6, <1>7, <1>8 DEF SweepInv

\* A sweep of a day that no cron has reached has counted nothing.
LEMMA NotYet ==
  ASSUME SweepInv, NEW d \in Sweeps, sweeps[d].status = "NONE", NEW u \in Learners
  PROVE  /\ {s \in States \cap StatesOf[u] : s <= sweeps[d].cursor} = {}
         /\ totals[d][u] = 0 /\ told[d][u] = 0
<1>1. sweeps[d].cursor = 0 /\ totals[d][u] \in Nat /\ owed[d] \in SUBSET States
  BY DEF SweepInv, SweepTypes, OwedKept
<1>2. \A s \in States : s \in Nat /\ s >= 1
  BY SweepNumbers
<1>3. {s \in States \cap StatesOf[u] : s <= sweeps[d].cursor} = {}
  BY <1>1, <1>2
<1>4. SeenOf(d, u) = {}
  BY <1>1, <1>3 DEF SeenOf
<1>5. Cardinality(SeenOf(d, u)) = 0
  BY <1>4, FS_EmptySet
<1>6. totals[d][u] <= Cardinality(SeenOf(d, u))
  BY DEF SweepInv, TotalsKept
<1>7. told[d][u] = 0
  BY DEF SweepInv, ToldKept, HasScanned
<1> QED BY <1>1, <1>3, <1>5, <1>6, <1>7

LEMMA CronStep ==
  ASSUME SweepInv, Cron
  PROVE  SweepInv'
<1>1. /\ UNCHANGED <<dueOn, reviewed, totals, told, handler>> /\ day' = day + 1 /\ day < LastDay
      /\ day \in Nat /\ LastDay \in Nat
  BY SweepAssumption DEF Cron, SweepInv, SweepTypes
<1>2. PICK active : active = {d \in Sweeps : sweeps[d].status \in {"SCANNING", "NOTIFYING"}}
  OBVIOUS
<1>3. PICK d : d = IF active = {} THEN day + 1 ELSE Min(active)
  OBVIOUS
<1>4. d \in Sweeps /\ (active # {} => d \in active)
  <2>1. CASE active = {}
    BY <1>1, <1>3, <2>1 DEF Sweeps
  <2>2. CASE active # {}
    <3>1. active \in SUBSET (1..LastDay)
      BY <1>2 DEF Sweeps
    <3> QED BY <1>1, <1>2, <1>3, <2>2, <3>1, MinOf
  <2> QED BY <2>1, <2>2
<1>5. PICK m \in {NotifyMessage(d, 0, day + 1), ScanMessage(d, 0, day + 1)} : Publish(m)
  BY <1>2, <1>3, Zenon DEF Cron
<1>6. m \in SweepMessages /\ m.of = d /\ (m.step = "scan" \/ m.after = 0)
  BY <1>1, <1>4, <1>5 DEF NotifyMessage, ScanMessage, SweepMessages
<1>7. /\ Steady /\ sweeps'[d].status # "NONE"
      /\ \A e \in Sweeps : OwedKept(e)' /\ TotalsKept(e)' /\ ToldKept(e)'
      /\ sweeps' \in [Sweeps -> [status : {"NONE", "SCANNING", "NOTIFYING", "COMPLETE"}, cursor : Nat]]
      /\ owed' \in [Sweeps -> SUBSET States]
  <2>1. CASE active # {}
    <3>1. UNCHANGED <<sweeps, owed>>
      BY <1>2, <2>1 DEF Cron
    <3>2. Steady
      BY <1>1, <3>1, StillScanned
    <3>3. \A e \in Sweeps : OwedKept(e)'
      BY <1>1, <3>1 DEF SweepInv, OwedKept, HasScanned, Dues, Sweeps
    <3>4. \A e \in Sweeps : TotalsKept(e)' /\ ToldKept(e)'
      BY <1>1, <3>1 DEF SweepInv, TotalsKept, ToldKept, HasScanned, Told, SeenOf
    <3>5. sweeps'[d].status # "NONE"
      BY <1>2, <1>4, <2>1, <3>1
    <3> QED BY <3>1, <3>2, <3>3, <3>4, <3>5 DEF SweepInv, SweepTypes
  <2>2. CASE active = {}
    <3>1. /\ sweeps' = [sweeps EXCEPT ![d].status = "SCANNING"]
          /\ owed' = [owed EXCEPT ![d] = {s \in States : dueOn[s] <= day + 1}] /\ d = day + 1
      BY <1>2, <1>3, <2>2 DEF Cron
    <3>2. owed' = [owed EXCEPT ![d] = Dues(d)] /\ Dues(d) \in SUBSET States
      BY <3>1 DEF Dues
    <3>3. /\ sweeps \in [Sweeps -> [status : {"NONE", "SCANNING", "NOTIFYING", "COMPLETE"}, cursor : Nat]]
          /\ owed \in [Sweeps -> SUBSET States]
      BY DEF SweepInv, SweepTypes
    <3>4. /\ sweeps' \in [Sweeps -> [status : {"NONE", "SCANNING", "NOTIFYING", "COMPLETE"}, cursor : Nat]]
          /\ owed' \in [Sweeps -> SUBSET States] /\ owed'[d] = Dues(d)
          /\ sweeps'[d].status = "SCANNING" /\ sweeps'[d].cursor = sweeps[d].cursor
          /\ \A e \in Sweeps : e # d => sweeps'[e] = sweeps[e] /\ owed'[e] = owed[e]
      BY <1>4, <3>1, <3>2, <3>3
    <3>5. sweeps[d].status = "NONE"
      <4>1. OwedKept(d)
        BY <1>4 DEF SweepInv
      <4>2. ~(d <= day)
        BY <1>1, <3>1
      <4> QED BY <4>1, <4>2 DEF OwedKept
    <3>6. Steady
      BY <1>1, <3>4, <3>5 DEF Steady, HasScanned, Told
    <3>7. ASSUME NEW e \in Sweeps, e # d PROVE OwedKept(e)' /\ TotalsKept(e)' /\ ToldKept(e)'
      <4>1. OwedKept(e) /\ TotalsKept(e) /\ ToldKept(e) /\ e \in Nat
        BY DEF SweepInv, Sweeps
      <4>2. e <= day => e <= day'
        BY <1>1, <4>1
      <4>3. OwedKept(e)'
        BY <1>1, <3>4, <3>7, <4>1, <4>2 DEF OwedKept, HasScanned, Dues
      <4>4. TotalsKept(e)' /\ ToldKept(e)'
        BY <1>1, <3>4, <3>7, <4>1 DEF TotalsKept, ToldKept, HasScanned, Told, SeenOf
      <4> QED BY <4>3, <4>4
    <3>8. OwedKept(d)'
      <4>1. d <= day'
        BY <1>1, <3>1
      <4>2. Dues(d)' = Dues(d)
        BY <1>1 DEF Dues
      <4> QED BY <3>4, <4>1, <4>2 DEF OwedKept, HasScanned
    <3>9. TotalsKept(d)'
      <4> SUFFICES ASSUME NEW u \in Learners
                   PROVE  /\ Cardinality(SeenOf(d, u)' \ reviewed') <= totals'[d][u]
                          /\ totals'[d][u] <= Cardinality(SeenOf(d, u)')
        BY DEF TotalsKept
      <4>1. {s \in States \cap StatesOf[u] : s <= sweeps[d].cursor} = {} /\ totals[d][u] = 0
        BY <1>4, <3>5, NotYet
      <4>2. SeenOf(d, u)' = {}
        BY <3>2, <3>4, <4>1 DEF SeenOf
      <4>3. Cardinality(SeenOf(d, u)' \ reviewed') = 0 /\ Cardinality(SeenOf(d, u)') = 0
        BY <4>2, FS_EmptySet
      <4> QED BY <1>1, <4>1, <4>3
    <3>10. ToldKept(d)'
      <4>1. \A u \in Learners : told[d][u] = 0
        BY <1>4, <3>5, NotYet
      <4> QED BY <1>1, <3>4, <4>1 DEF ToldKept
    <3>11. \A e \in Sweeps : OwedKept(e)' /\ TotalsKept(e)' /\ ToldKept(e)'
      BY <3>7, <3>8, <3>9, <3>10
    <3> QED BY <3>4, <3>6, <3>11
  <2> QED BY <2>1, <2>2
<1>8. MessageKept(m)'
  BY <1>6, <1>7 DEF MessageKept
<1>9. /\ published' \in SUBSET SweepMessages /\ queued' \in SUBSET SweepMessages
      /\ \A n \in published' \cup queued' : n \in published \cup queued \/ n = m
  BY <1>5, <1>6 DEF Publish, SweepInv, SweepTypes
<1>10. \A n \in published' \cup queued' : MessageKept(n)'
  BY <1>7, <1>8, <1>9, MessagesStay
<1>11. \A h \in Handlers : SweeperKept(h)'
  BY <1>1, <1>7, SweeperStays DEF SweepInv
<1>12. day' \in 0..LastDay
  BY <1>1
<1>13. SweepTypes'
  BY <1>1, <1>7, <1>9, <1>12 DEF SweepInv, SweepTypes
<1> QED BY <1>7, <1>10, <1>11, <1>13 DEF SweepInv

LEMMA SweepStep == SweepInv /\ [SweepNext]_sweepVars => SweepInv'
<1> SUFFICES ASSUME SweepInv, [SweepNext]_sweepVars PROVE SweepInv'
  OBVIOUS
<1>1. \A h \in Handlers : \E k \in SweepHandlers : k = handler[h]
  BY DEF SweepInv, SweepTypes
<1>2. CASE Cron
  BY <1>2, CronStep
<1>3. CASE \E s \in States : ReviewDue(s)
  BY <1>3, ReviewStep
<1>4. ASSUME NEW h \in Handlers,
             \/ Advances(h) \/ ReadsPage(h) \/ EndsPage(h) \/ Continues(h)
             \/ \E u \in Learners : Tells(h, u)
      PROVE  SweepInv'
  BY <1>1, <1>4, AdvancesStep, ReadsPageStep, EndsPageStep, ContinuesStep, TellsStep
<1>5. ASSUME NEW h \in Handlers, Acknowledges(h) \/ StopsHandling(h) \/ \E m \in queued : Receive(h, m)
      PROVE  SweepInv'
  BY <1>5, SleepsStep, ReceiveStep
<1>6. CASE UNCHANGED sweepVars
  <2>1. UNCHANGED <<dueOn, reviewed, day, sweeps, totals, told, published, queued, handler, owed>>
    BY <1>6 DEF sweepVars
  <2>2. Steady /\ \A d \in Sweeps : OwedKept(d)' /\ TotalsKept(d)' /\ ToldKept(d)'
    BY <2>1, SweepsAlike
  <2>3. \A h \in Handlers : SweeperKept(h)'
    BY <2>1, <2>2, SweeperStays DEF SweepInv
  <2>4. \A m \in published' \cup queued' : MessageKept(m)'
    BY <2>1, <2>2, MessagesStay
  <2>5. SweepTypes'
    BY <2>1 DEF SweepInv, SweepTypes
  <2> QED BY <2>2, <2>3, <2>4, <2>5 DEF SweepInv
<1> QED BY <1>2, <1>3, <1>4, <1>5, <1>6 DEF SweepNext

\* A complete sweep has told every user of each position that stayed due, and of none twice,
\* with any number of users, handlers and days, slices and pages of any size, and messages that
\* are repeated, handled twice at the same time or given up.
THEOREM DueTold == SweepSpec => []DueIsTold
<1>1. SweepSpec => []SweepInv
  BY SweepAtFirst, SweepStep, PTL DEF SweepSpec
<1> QED BY <1>1, SweepImplies, PTL

-----------------------------------------------------------------------------
(* The session.                                                            *)

LineGrades == Grades \cup {"unknown", "none"}
LineFollows == {"none", "ends", "replyEnds", "reply"}
StepRows == [actor : {"USER", "ENGINE"}, ply : Nat, dynamic : BOOLEAN, grade : LineGrades,
             follow : LineFollows]
TaskStages == {"presented", "searching", "continues", "awaits", "ends"}
TaskRows == [of : Nat, stage : TaskStages, move : StepRows]
CompletionRows == [of : Nat, id : Nat, open : BOOLEAN, status : {"GRADED", "REVEALED"},
                   grade : LineGrades, steps : Seq(StepRows)]

SessionTypes ==
  /\ generation \in Nat /\ prompted \in BOOLEAN /\ open \in BOOLEAN /\ ply \in Nat
  /\ phase \in {"READY", "SUBMITTING", "AWAITING_MOVE", "UNRESOLVED", "GRADED", "REVEALED"}
  /\ steps \in Seq(StepRows)
  /\ phase \in {"SUBMITTING", "UNRESOLVED"} => submission \in StepRows
  /\ attemptId \in Nat /\ drawn \in Nat /\ moving \in BOOLEAN
  /\ tasks \in SUBSET TaskRows
  /\ completions \in Seq(CompletionRows)

\* The position that is open has one task while a move is submitted, and none otherwise.
TasksKept ==
  /\ \A t \in tasks : t.of <= generation /\ (t.of = generation => phase = "SUBMITTING")
  /\ \A t, u \in tasks : t.of = generation /\ u.of = generation => t = u
  /\ moving <=> phase \notin {"READY", "AWAITING_MOVE"}
  /\ attemptId <= drawn /\ (phase \notin {"READY", "AWAITING_MOVE"} => attemptId # 0)

\* What was completed is of earlier positions, or the position is over.
CompletedKept ==
  /\ CompletesOnce
  /\ \A i \in DOMAIN completions :
       /\ completions[i].of <= generation
       /\ completions[i].of = generation => phase \in {"GRADED", "REVEALED"}
       /\ completions[i].id # 0 /\ completions[i].id <= drawn
       /\ completions[i].id = attemptId => completions[i].of = generation

\* A line of moves that were answered; and one that has ended.
Answered(line, n) ==
  /\ Len(line) = n /\ n % 2 = 0 /\ Consistent(line)
  /\ n # 0 => line[n - 1].follow = "reply"
Over(line) ==
  /\ line # <<>> /\ Consistent(line)
  /\ LineEnds(line) \/ Last(line).follow = "replyEnds"
Verified(move) ==
  /\ move.actor = "USER" /\ move.ply = ply /\ ~move.dynamic
  /\ move.grade \in Accepting \/ move.follow = "none"

\* The line of a closed tree.
LineKept ==
  ~open =>
    /\ phase # "UNRESOLVED"
    /\ phase \in {"READY", "AWAITING_MOVE"} => Answered(steps, ply)
    /\ \A t \in tasks : t.of = generation =>
         /\ t.stage # "searching"
         /\ IF t.stage = "ends" THEN Over(steps) ELSE Answered(steps, ply)
         /\ t.stage \in {"presented", "continues"} => Verified(t.move)
         /\ t.stage = "presented" => t.move.grade # "unknown"
         /\ t.stage = "continues" => t.move.follow = "reply"

SessionInv == SessionTypes /\ TasksKept /\ CompletedKept /\ LineKept /\ ShownIsRecorded

-----------------------------------------------------------------------------
\* Lines.

LEMMA LineAppended ==
  ASSUME NEW line \in Seq(StepRows), NEW n \in Nat, Answered(line, n),
         NEW move \in StepRows, move.actor = "USER", move.ply = n, ~move.dynamic
  PROVE  /\ Append(line, move) \in Seq(StepRows) /\ Append(line, move) # <<>>
         /\ Consistent(Append(line, move)) /\ Last(Append(line, move)) = move
<1> DEFINE t == Append(line, move)
<1>1. /\ t \in Seq(StepRows) /\ Len(t) = n + 1 /\ t[n + 1] = move
      /\ \A i \in 1..n : t[i] = line[i]
  BY AppendProperties DEF Answered
<1>2. DOMAIN t = 1..(n + 1) /\ DOMAIN line = 1..n /\ Len(line) = n
  BY <1>1, LenProperties DEF Answered
<1> HIDE DEF t
<1>3. ASSUME NEW i \in DOMAIN t
      PROVE  /\ t[i].ply = i - 1
             /\ t[i].actor = IF i % 2 = 1 THEN "USER" ELSE "ENGINE"
             /\ ~t[i].dynamic
             /\ i < Len(t) /\ t[i].actor = "USER" => t[i].follow \in {"reply", "replyEnds"}
             /\ i < Len(t) /\ t[i].actor = "ENGINE" => t[i - 1].follow = "reply"
  <2>1. CASE i = n + 1
    <3>1. i % 2 = 1
      BY <2>1 DEF Answered
    <3> QED BY <1>1, <2>1, <3>1
  <2>2. CASE i # n + 1
    <3>1. i \in 1..n /\ i <= n /\ i - 1 \in Int
      BY <1>2, <2>2
    <3>2. /\ line[i].ply = i - 1
          /\ line[i].actor = IF i % 2 = 1 THEN "USER" ELSE "ENGINE"
          /\ ~line[i].dynamic
          /\ i < n /\ line[i].actor = "USER" => line[i].follow \in {"reply", "replyEnds"}
          /\ i < n /\ line[i].actor = "ENGINE" => line[i - 1].follow = "reply"
      BY <1>2, <3>1 DEF Answered, Consistent
    <3>3. t[i] = line[i]
      BY <1>1, <3>1
    <3>4. t[i].actor = "ENGINE" => t[i - 1].follow = "reply"
      <4>1. SUFFICES ASSUME t[i].actor = "ENGINE" PROVE t[i - 1].follow = "reply"
        OBVIOUS
      <4>2. i % 2 # 1
        BY <3>2, <3>3, <4>1
      <4>3. i - 1 \in 1..n
        BY <3>1, <4>2
      <4>4. line[i - 1].follow = "reply"
        <5>1. CASE i < n
          BY <3>2, <3>3, <4>1, <5>1
        <5>2. CASE i = n
          BY <3>1, <5>2 DEF Answered
        <5> QED BY <3>1, <5>1, <5>2
      <4> QED BY <1>1, <4>3, <4>4
    <3>5. t[i].actor = "USER" => i < n
      <4>1. CASE i = n
        BY <3>2, <3>3, <4>1 DEF Answered
      <4> QED BY <3>1, <4>1
    <3> QED BY <3>2, <3>3, <3>4, <3>5
  <2> QED BY <2>1, <2>2
<1>4. Consistent(t)
  BY <1>3 DEF Consistent
<1>5. t # <<>> /\ Last(t) = move
  BY <1>1, EmptySeq DEF Last
<1> QED BY <1>1, <1>4, <1>5 DEF t

LEMMA LineAnswered ==
  ASSUME NEW line \in Seq(StepRows), NEW n \in Nat,
         NEW move \in StepRows, move.ply = n
  PROVE  /\ StepsAnswered(line, move) \in Seq(StepRows)
         /\ /\ Answered(line, n) /\ move.actor = "USER" /\ ~move.dynamic /\ move.follow = "reply"
            => Answered(StepsAnswered(line, move), n + 2)
<1> DEFINE reply == [actor |-> "ENGINE", ply |-> move.ply + 1, grade |-> "none", follow |-> "none",
                     dynamic |-> FALSE]
           pair == <<move, reply>>
           t == line \o pair
<1>1. reply \in StepRows /\ reply.ply = n + 1 /\ reply.actor = "ENGINE" /\ ~reply.dynamic
  BY DEF StepRows, LineGrades, LineFollows
<1> HIDE DEF reply
<1>2. pair \in Seq(StepRows) /\ Len(pair) = 2 /\ pair[1] = move /\ pair[2] = reply
  BY <1>1
<1> HIDE DEF pair
<1>3. /\ t \in Seq(StepRows) /\ Len(t) = Len(line) + 2
      /\ \A i \in 1..(Len(line) + 2) : t[i] = IF i <= Len(line) THEN line[i] ELSE pair[i - Len(line)]
  <2>1. t \in Seq(StepRows) /\ Len(t) = Len(line) + Len(pair)
    BY <1>2, ConcatProperties
  <2>2. \A i \in 1..(Len(line) + Len(pair)) :
          t[i] = IF i <= Len(line) THEN line[i] ELSE pair[i - Len(line)]
    BY <1>2, ConcatProperties
  <2> HIDE DEF t
  <2> QED BY <1>2, <2>1, <2>2
<1>4. StepsAnswered(line, move) = t
  BY DEF StepsAnswered, t, pair, reply
<1>5. ASSUME Answered(line, n), move.actor = "USER", ~move.dynamic, move.follow = "reply"
      PROVE  Answered(t, n + 2)
  <2>1. Len(line) = n /\ n % 2 = 0 /\ Consistent(line) /\ (n # 0 => line[n - 1].follow = "reply")
    BY <1>5 DEF Answered
  <2> HIDE DEF t
  <2>2. /\ Len(t) = n + 2 /\ \A i \in 1..n : t[i] = line[i]
        /\ t[n + 1] = move /\ t[n + 2] = reply
    <3>1. \A i \in 1..n : t[i] = line[i]
      BY <1>3, <2>1
    <3>2. n + 1 \in 1..(n + 2) /\ n + 2 \in 1..(n + 2) /\ (n + 1) - n = 1 /\ (n + 2) - n = 2
      OBVIOUS
    <3>3. t[n + 1] = pair[1] /\ t[n + 2] = pair[2]
      BY <1>3, <2>1, <3>2
    <3> QED BY <1>2, <1>3, <2>1, <3>1, <3>3
  <2>3. DOMAIN t = 1..(n + 2) /\ DOMAIN line = 1..n
    BY <1>3, <2>1, <2>2, LenProperties
  <2>4. ASSUME NEW i \in DOMAIN t
        PROVE  /\ t[i].ply = i - 1
               /\ t[i].actor = IF i % 2 = 1 THEN "USER" ELSE "ENGINE"
               /\ ~t[i].dynamic
               /\ i < Len(t) /\ t[i].actor = "USER" => t[i].follow \in {"reply", "replyEnds"}
               /\ i < Len(t) /\ t[i].actor = "ENGINE" => t[i - 1].follow = "reply"
    <3>1. CASE i = n + 1
      <4>1. i % 2 = 1
        BY <2>1, <3>1
      <4> QED BY <1>5, <2>2, <3>1, <4>1
    <3>2. CASE i = n + 2
      <4>1. i % 2 # 1 /\ i - 1 = n + 1 /\ ~(i < Len(t))
        BY <2>1, <2>2, <3>2
      <4> QED BY <1>1, <2>2, <3>2, <4>1
    <3>3. CASE i # n + 1 /\ i # n + 2
      <4>1. i \in 1..n /\ i <= n /\ i - 1 \in Int
        BY <2>3, <3>3
      <4>2. /\ line[i].ply = i - 1
            /\ line[i].actor = IF i % 2 = 1 THEN "USER" ELSE "ENGINE"
            /\ ~line[i].dynamic
            /\ i < n /\ line[i].actor = "USER" => line[i].follow \in {"reply", "replyEnds"}
            /\ i < n /\ line[i].actor = "ENGINE" => line[i - 1].follow = "reply"
        BY <2>1, <2>3, <4>1 DEF Consistent
      <4>3. t[i] = line[i]
        BY <2>2, <4>1
      <4>4. t[i].actor = "ENGINE" => t[i - 1].follow = "reply"
        <5>1. SUFFICES ASSUME t[i].actor = "ENGINE" PROVE t[i - 1].follow = "reply"
          OBVIOUS
        <5>2. i % 2 # 1
          BY <4>2, <4>3, <5>1
        <5>3. i - 1 \in 1..n
          BY <4>1, <5>2
        <5>4. line[i - 1].follow = "reply"
          <6>1. CASE i < n
            BY <4>2, <4>3, <5>1, <6>1
          <6>2. CASE i = n
            BY <2>1, <4>1, <6>2
          <6> QED BY <4>1, <6>1, <6>2
        <5> QED BY <2>2, <5>3, <5>4
      <4>5. t[i].actor = "USER" => i < n
        <5>1. CASE i = n
          BY <2>1, <4>2, <4>3, <5>1
        <5> QED BY <4>1, <5>1
      <4> QED BY <4>2, <4>3, <4>4, <4>5
    <3> QED BY <3>1, <3>2, <3>3
  <2>5. Consistent(t)
    BY <2>4 DEF Consistent
  <2>6. (n + 2) % 2 = 0 /\ n + 2 # 0 /\ (n + 2) - 1 = n + 1
    BY <2>1
  <2>7. t[(n + 2) - 1].follow = "reply"
    BY <1>5, <2>2, <2>6
  <2> QED BY <2>2, <2>5, <2>6, <2>7 DEF Answered
<1> QED BY <1>3, <1>4, <1>5

LEMMA NewLine == Answered(<<>>, 0)
<1>1. Len(<<>>) = 0 /\ 0 % 2 = 0 /\ DOMAIN <<>> = {}
  OBVIOUS
<1> QED BY <1>1 DEF Answered, Consistent

-----------------------------------------------------------------------------
\* Tasks.

\* Nothing is completed of a position that is not over.
LEMMA NotCompleted ==
  ASSUME SessionInv, phase \notin {"GRADED", "REVEALED"}
  PROVE  \A i \in DOMAIN completions :
           /\ completions[i].of # generation /\ completions[i].id # attemptId
           /\ completions[i].id <= drawn /\ completions[i].of <= generation
           /\ completions[i].id # 0
  BY DEF SessionInv, CompletedKept

LEMMA CompletionOf ==
  ASSUME SessionInv, NEW i \in DOMAIN completions
  PROVE  completions[i] \in CompletionRows
<1>1. completions \in Seq(CompletionRows)
  BY DEF SessionInv, SessionTypes
<1> QED BY <1>1, LenProperties, ElementOfSeq

\* A step without a completion, of a position that is not over.
LEMMA QuietSession ==
  ASSUME SessionInv, UNCHANGED <<generation, completions>>,
         phase \notin {"GRADED", "REVEALED"}, drawn' \in Nat, drawn <= drawn',
         attemptId' = attemptId \/ attemptId' = drawn + 1
  PROVE  CompletedKept' /\ ShownIsRecorded'
<1>1. \A i \in DOMAIN completions : completions[i].id \in Nat /\ drawn \in Nat
  BY CompletionOf DEF CompletionRows, SessionInv, SessionTypes
<1>2. \A i \in DOMAIN completions :
        /\ completions[i].of # generation /\ completions[i].id # attemptId'
        /\ completions[i].id <= drawn' /\ completions[i].of <= generation
        /\ completions[i].id # 0
  BY <1>1, NotCompleted
<1>3. CompletedKept'
  BY <1>2 DEF SessionInv, CompletedKept, CompletesOnce
<1>4. ShownIsRecorded'
  BY DEF SessionInv, ShownIsRecorded
<1> QED BY <1>3, <1>4

\* A task is followed by another of the same position.
LEMMA TaskStep ==
  ASSUME SessionInv, NEW task \in tasks, task.of = generation,
         NEW next \in TaskRows, next.of = generation, tasks' = (tasks \ {task}) \cup {next},
         UNCHANGED <<generation, prompted, open, phase, submission, attemptId, moving, drawn,
                     completions>>,
         steps' \in Seq(StepRows), ply' \in Nat,
         ~open => /\ next.stage # "searching"
                  /\ IF next.stage = "ends" THEN Over(steps') ELSE Answered(steps', ply')
                  /\ next.stage \in {"presented", "continues"} => Verified(next.move)'
                  /\ next.stage = "presented" => next.move.grade # "unknown"
                  /\ next.stage = "continues" => next.move.follow = "reply"
  PROVE  SessionInv'
<1>1. phase = "SUBMITTING" /\ \A t \in tasks' : t.of = generation => t = next
  BY DEF SessionInv, TasksKept
<1>2. SessionTypes'
  BY DEF SessionInv, SessionTypes
<1>3. TasksKept'
  BY <1>1 DEF SessionInv, SessionTypes, TasksKept
<1>4. CompletedKept' /\ ShownIsRecorded'
  BY <1>1, QuietSession DEF SessionInv, SessionTypes
<1>5. LineKept'
  BY <1>1 DEF LineKept
<1> QED BY <1>2, <1>3, <1>4, <1>5 DEF SessionInv

\* The last task of a position ends.
LEMMA TaskEnds ==
  ASSUME SessionInv, NEW task \in tasks, task.of = generation, tasks' = tasks \ {task}
  PROVE  /\ phase = "SUBMITTING" /\ tasks' \in SUBSET TaskRows
         /\ \A t \in tasks' : t.of <= generation /\ t.of # generation
         /\ attemptId # 0 /\ moving
  BY DEF SessionInv, SessionTypes, TasksKept

LEMMA ApplyStep ==
  ASSUME SessionInv, NEW task \in tasks, task.of = generation, NEW move \in StepRows,
         Apply(task, move), ~open => Answered(steps, ply) /\ Verified(move),
         UNCHANGED <<generation, prompted, open, phase, ply, submission, attemptId, moving, drawn,
                     completions>>
  PROVE  SessionInv'
<1>1. generation \in Nat /\ ply \in Nat /\ steps \in Seq(StepRows)
  BY DEF SessionInv, SessionTypes
<1>2. CASE move.grade \in Accepting /\ move.follow = "reply"
  <2>1. /\ steps' = steps /\ tasks' = (tasks \ {task}) \cup {Task("continues", move)}
    BY <1>2 DEF Apply
  <2>2. /\ Task("continues", move) \in TaskRows /\ Task("continues", move).of = generation
        /\ Task("continues", move).stage = "continues" /\ Task("continues", move).move = move
    BY <1>1 DEF Task, TaskRows, TaskStages
  <2>3. ~open => Verified(move)'
    BY DEF Verified
  <2> QED BY <1>1, <1>2, <2>1, <2>2, <2>3, TaskStep
<1>3. CASE ~(move.grade \in Accepting /\ move.follow = "reply")
  <2>1. /\ steps' = Append(steps, move) /\ tasks' = (tasks \ {task}) \cup {Task("ends", move)}
    BY <1>3 DEF Apply
  <2>2. /\ Task("ends", move) \in TaskRows /\ Task("ends", move).of = generation
        /\ Task("ends", move).stage = "ends"
    BY <1>1 DEF Task, TaskRows, TaskStages
  <2>3. steps' \in Seq(StepRows)
    BY <1>1, <2>1, AppendProperties
  <2>4. ~open => Over(steps')
    <3> SUFFICES ASSUME ~open PROVE Over(steps')
      OBVIOUS
    <3>1. Answered(steps, ply) /\ move.actor = "USER" /\ move.ply = ply /\ ~move.dynamic
      BY DEF Verified
    <3>2. steps' # <<>> /\ Consistent(steps') /\ Last(steps') = move
      BY <1>1, <2>1, <3>1, LineAppended
    <3>3. move.follow \in {"none", "ends", "replyEnds"}
      BY <1>3 DEF Verified, StepRows, LineFollows
    <3> QED BY <3>1, <3>2, <3>3 DEF Over, LineEnds
  <2> QED BY <1>1, <2>1, <2>2, <2>3, <2>4, TaskStep
<1> QED BY <1>2, <1>3

-----------------------------------------------------------------------------
\* The steps of the hook.

LEMMA OpensStep ==
  ASSUME SessionInv, Clear \/ (\E isOpen \in BOOLEAN : Activate(isOpen)) PROVE SessionInv'
<1>1. /\ generation' = generation + 1 /\ prompted' \in BOOLEAN /\ open' \in BOOLEAN
      /\ phase' = "READY" /\ ply' = 0 /\ steps' = <<>> /\ attemptId' = 0 /\ moving' = FALSE
      /\ UNCHANGED <<tasks, drawn, completions>>
  BY DEF Clear, Activate, Fresh
<1>2. generation \in Nat /\ drawn \in Nat /\ \A t \in tasks : t \in TaskRows /\ t.of \in Nat
  BY DEF SessionInv, SessionTypes, TaskRows
<1>a. steps' \in Seq(StepRows)
  BY <1>1
<1>3. SessionTypes'
  <2>1. generation' \in Nat /\ ply' \in Nat /\ attemptId' \in Nat
    BY <1>1, <1>2, SMT
  <2>3. phase' = "READY"
    BY <1>1, Zenon
  <2>4. moving' \in BOOLEAN /\ prompted' \in BOOLEAN /\ open' \in BOOLEAN
    BY <1>1, Zenon
  <2>2. tasks' \in SUBSET TaskRows /\ drawn' \in Nat /\ completions' \in Seq(CompletionRows)
    BY <1>1 DEF SessionInv, SessionTypes
  <2> QED BY <1>a, <2>1, <2>2, <2>3, <2>4 DEF SessionTypes
<1>4. \A t \in tasks : t.of <= generation + 1 /\ t.of # generation + 1
  BY <1>2 DEF SessionInv, TasksKept
<1>5. TasksKept'
  BY <1>1, <1>2, <1>4 DEF TasksKept
<1>6. \A i \in DOMAIN completions :
        /\ completions[i].of <= generation + 1 /\ completions[i].of # generation + 1
        /\ completions[i].id # 0 /\ completions[i].id <= drawn
  <2>1. \A i \in DOMAIN completions : completions[i].of \in Nat
    BY CompletionOf DEF CompletionRows
  <2> QED BY <1>2, <2>1 DEF SessionInv, CompletedKept
<1>7. CompletedKept' /\ ShownIsRecorded'
  BY <1>1, <1>6 DEF SessionInv, CompletedKept, CompletesOnce, ShownIsRecorded
<1>8. LineKept'
  BY <1>1, <1>4, NewLine DEF LineKept
<1> QED BY <1>3, <1>5, <1>7, <1>8 DEF SessionInv

LEMMA SubmitStep ==
  ASSUME SessionInv, NEW move \in Moves(ply), Submit(move) PROVE SessionInv'
<1> DEFINE task == Task("presented", move)
<1>1. /\ phase \in {"READY", "AWAITING_MOVE"} /\ DrawId
      /\ moving' = TRUE /\ submission' = move /\ phase' = "SUBMITTING"
      /\ tasks' = tasks \cup {task}
      /\ UNCHANGED <<generation, prompted, open, ply, steps, completions>>
  BY DEF Submit, CanMove
<1>2. generation \in Nat /\ ply \in Nat /\ drawn \in Nat /\ attemptId \in Nat /\ open \in BOOLEAN
  BY DEF SessionInv, SessionTypes
<1>3. /\ move \in StepRows /\ move.actor = "USER" /\ move.ply = ply /\ ~move.dynamic
      /\ move.grade \in Accepting \/ move.follow = "none"
      /\ ~open => move.grade # "unknown"
  <2>1. /\ move \in [actor : {"USER"}, ply : {ply}, dynamic : {FALSE},
                     grade : Accepting \cup {"DIFFERENT_MISTAKE", "REPEATED_MISTAKE", "unknown"},
                     follow : {"none", "ends", "replyEnds", "reply"}]
        /\ move.follow \in Follows(ply, move.grade) /\ (move.grade = "unknown" => open)
    BY DEF Moves
  <2>2. move.grade \notin Accepting => move.follow = "none"
    BY <2>1 DEF Follows
  <2> QED BY <1>2, <2>1, <2>2 DEF StepRows, LineGrades, LineFollows, Grades, Accepting
<1>4. /\ task \in TaskRows /\ task.of = generation /\ task.stage = "presented" /\ task.move = move
  BY <1>2, <1>3 DEF Task, TaskRows, TaskStages
<1> HIDE DEF task
<1>5. \A t \in tasks : t.of <= generation /\ t.of # generation
  BY <1>1 DEF SessionInv, TasksKept
<1>6. /\ drawn' \in Nat /\ attemptId' \in Nat /\ attemptId' # 0 /\ attemptId' <= drawn'
      /\ drawn <= drawn' /\ (attemptId' = attemptId \/ attemptId' = drawn + 1)
  BY <1>1, <1>2 DEF DrawId, SessionInv, TasksKept
<1>7. SessionTypes'
  BY <1>1, <1>2, <1>3, <1>4, <1>6 DEF SessionInv, SessionTypes
<1>8. TasksKept'
  BY <1>1, <1>2, <1>4, <1>5, <1>6 DEF TasksKept
<1>9. CompletedKept' /\ ShownIsRecorded'
  BY <1>1, <1>6, QuietSession
<1>10. LineKept'
  <2> SUFFICES ASSUME ~open PROVE LineKept'
    BY <1>1 DEF LineKept
  <2>1. Answered(steps, ply)
    BY <1>1 DEF SessionInv, LineKept
  <2>2. Verified(move)'
    BY <1>1, <1>3 DEF Verified
  <2>3. \A t \in tasks' : t.of = generation => t = task
    BY <1>1, <1>5
  <2> QED BY <1>1, <1>3, <1>4, <2>1, <2>2, <2>3 DEF LineKept
<1> QED BY <1>7, <1>8, <1>9, <1>10 DEF SessionInv

LEMMA DropStep ==
  ASSUME SessionInv, NEW task \in tasks, Drop(task) PROVE SessionInv'
<1>1. /\ tasks' \in SUBSET tasks
      /\ UNCHANGED <<generation, prompted, open, phase, ply, steps, submission, attemptId, moving,
                     drawn, completions>>
  BY DEF Drop, hookVars
<1>2. SessionTypes'
  BY <1>1 DEF SessionInv, SessionTypes
<1>3. TasksKept' /\ CompletedKept' /\ ShownIsRecorded'
  BY <1>1 DEF SessionInv, TasksKept, CompletedKept, CompletesOnce, ShownIsRecorded
<1>4. LineKept'
  BY <1>1 DEF SessionInv, LineKept, Verified
<1> QED BY <1>2, <1>3, <1>4 DEF SessionInv

LEMMA TaskIs ==
  ASSUME SessionInv, NEW task \in tasks
  PROVE  task \in TaskRows /\ task.move \in StepRows /\ task.of \in Nat
  BY DEF SessionInv, SessionTypes, TaskRows

LEMMA PresentedStep ==
  ASSUME SessionInv, NEW task \in tasks, Presented(task) PROVE SessionInv'
<1>1. /\ task.stage = "presented" /\ task.of = generation /\ task.move \in StepRows
      /\ UNCHANGED <<generation, prompted, open, phase, ply, submission, attemptId, moving,
                     drawn, completions>>
  BY TaskIs DEF Presented, GoesOn
<1>2. ~open => Answered(steps, ply) /\ Verified(task.move) /\ task.move.grade # "unknown"
  BY <1>1 DEF SessionInv, LineKept
<1>3. CASE task.move.grade = "unknown"
  <2> DEFINE next == Task("searching", task.move)
  <2>1. tasks' = (tasks \ {task}) \cup {next} /\ steps' = steps /\ open
    BY <1>2, <1>3 DEF Presented
  <2>2. next \in TaskRows /\ next.of = generation /\ next.stage = "searching"
    BY <1>1 DEF Task, TaskRows, TaskStages, SessionInv, SessionTypes
  <2> HIDE DEF next
  <2>3. steps' \in Seq(StepRows) /\ ply' \in Nat
    BY <1>1, <2>1 DEF SessionInv, SessionTypes
  <2> QED BY <1>1, <2>1, <2>2, <2>3, TaskStep
<1>4. CASE task.move.grade # "unknown"
  <2>1. Apply(task, task.move)
    BY <1>4 DEF Presented
  <2> QED BY <1>1, <1>2, <2>1, ApplyStep
<1> QED BY <1>3, <1>4

LEMMA FoundStep ==
  ASSUME SessionInv, NEW task \in tasks, NEW grade \in Grades, Found(task, grade) PROVE SessionInv'
<1> DEFINE move == [task.move EXCEPT !.grade = grade, !.dynamic = TRUE]
<1>1. /\ task.stage = "searching" /\ task.of = generation /\ task.move \in StepRows
      /\ Apply(task, move)
      /\ UNCHANGED <<generation, prompted, open, phase, ply, submission, attemptId, moving,
                     drawn, completions>>
  BY TaskIs DEF Found, GoesOn
<1>2. open
  BY <1>1 DEF SessionInv, LineKept
<1>3. move \in StepRows
  BY <1>1 DEF StepRows, LineGrades
<1> HIDE DEF move
<1> QED BY <1>1, <1>2, <1>3, ApplyStep

LEMMA UnresolvedStep ==
  ASSUME SessionInv, NEW task \in tasks, Unresolved(task) PROVE SessionInv'
<1>1. /\ task.stage = "searching" /\ task.of = generation /\ tasks' = tasks \ {task}
      /\ phase' \in {"REVEALED", "UNRESOLVED"}
      /\ UNCHANGED <<generation, prompted, open, ply, steps, submission, attemptId, moving,
                     drawn, completions>>
  BY DEF Unresolved, GoesOn
<1>2. open
  BY <1>1 DEF SessionInv, LineKept
<1>3. /\ phase = "SUBMITTING" /\ tasks' \in SUBSET TaskRows
      /\ \A t \in tasks' : t.of <= generation /\ t.of # generation
      /\ attemptId # 0 /\ moving
  BY <1>1, TaskEnds
<1>4. SessionTypes'
  BY <1>1, <1>3 DEF SessionInv, SessionTypes
<1>5. TasksKept'
  BY <1>1, <1>3 DEF SessionInv, TasksKept
<1>6. CompletedKept' /\ ShownIsRecorded'
  BY <1>1, <1>3, QuietSession DEF SessionInv, SessionTypes
<1>7. LineKept'
  BY <1>1, <1>2 DEF LineKept
<1> QED BY <1>4, <1>5, <1>6, <1>7 DEF SessionInv

LEMMA RetryStep == ASSUME SessionInv, Retry PROVE SessionInv'
<1> DEFINE task == Task("searching", submission)
<1>1. /\ phase = "UNRESOLVED" /\ phase' = "SUBMITTING" /\ tasks' = tasks \cup {task}
      /\ UNCHANGED <<generation, prompted, open, ply, steps, submission, attemptId, moving,
                     drawn, completions>>
  BY DEF Retry
<1>2. open /\ submission \in StepRows /\ generation \in Nat
  BY <1>1 DEF SessionInv, LineKept, SessionTypes
<1>3. task \in TaskRows /\ task.of = generation
  BY <1>2 DEF Task, TaskRows, TaskStages
<1> HIDE DEF task
<1>4. \A t \in tasks : t.of <= generation /\ t.of # generation
  BY <1>1 DEF SessionInv, TasksKept
<1>5. SessionTypes'
  BY <1>1, <1>2, <1>3 DEF SessionInv, SessionTypes
<1>6. TasksKept'
  BY <1>1, <1>2, <1>3, <1>4 DEF SessionInv, TasksKept
<1>7. CompletedKept' /\ ShownIsRecorded'
  BY <1>1, QuietSession DEF SessionInv, SessionTypes
<1>8. LineKept'
  BY <1>1, <1>2 DEF LineKept
<1> QED BY <1>5, <1>6, <1>7, <1>8 DEF SessionInv

LEMMA RepliesStep ==
  ASSUME SessionInv, NEW task \in tasks, Replies(task) PROVE SessionInv'
<1> DEFINE next == Task("awaits", task.move)
<1>1. /\ task.stage = "continues" /\ task.of = generation /\ task.move \in StepRows
      /\ steps' = StepsAnswered(steps, task.move) /\ ply' = ply + 2
      /\ tasks' = (tasks \ {task}) \cup {next}
      /\ UNCHANGED <<generation, prompted, open, phase, submission, attemptId, moving,
                     drawn, completions>>
  BY TaskIs DEF Replies, GoesOn
<1>2. generation \in Nat /\ ply \in Nat /\ steps \in Seq(StepRows)
  BY DEF SessionInv, SessionTypes
<1>3. next \in TaskRows /\ next.of = generation /\ next.stage = "awaits"
  BY <1>1, <1>2 DEF Task, TaskRows, TaskStages
<1> HIDE DEF next
<1>4. steps' \in Seq(StepRows)
  <2>1. task.move.ply \in Nat
    BY <1>1 DEF StepRows
  <2> QED BY <1>1, <1>2, <2>1, LineAnswered
<1>5. ~open => Answered(steps', ply')
  <2> SUFFICES ASSUME ~open PROVE Answered(steps', ply')
    OBVIOUS
  <2>1. Answered(steps, ply) /\ Verified(task.move) /\ task.move.follow = "reply"
    BY <1>1 DEF SessionInv, LineKept
  <2> QED BY <1>1, <1>2, <2>1, LineAnswered DEF Verified
<1> QED BY <1>1, <1>2, <1>3, <1>4, <1>5, TaskStep

LEMMA AwaitsStep ==
  ASSUME SessionInv, NEW task \in tasks, Awaits(task) PROVE SessionInv'
<1>1. /\ task.stage = "awaits" /\ task.of = generation /\ tasks' = tasks \ {task}
      /\ moving' = FALSE /\ phase' = "AWAITING_MOVE"
      /\ UNCHANGED <<generation, prompted, open, ply, steps, submission, attemptId, drawn,
                     completions>>
  BY DEF Awaits, GoesOn
<1>2. /\ phase = "SUBMITTING" /\ tasks' \in SUBSET TaskRows
      /\ \A t \in tasks' : t.of <= generation /\ t.of # generation
  BY <1>1, TaskEnds
<1>3. SessionTypes'
  BY <1>1, <1>2 DEF SessionInv, SessionTypes
<1>4. TasksKept'
  BY <1>1, <1>2 DEF SessionInv, TasksKept
<1>5. CompletedKept' /\ ShownIsRecorded'
  BY <1>1, <1>2, QuietSession DEF SessionInv, SessionTypes
<1>6. ~open => Answered(steps, ply)
  BY <1>1 DEF SessionInv, LineKept
<1>7. LineKept'
  BY <1>1, <1>2, <1>6 DEF LineKept
<1> QED BY <1>3, <1>4, <1>5, <1>7 DEF SessionInv

-----------------------------------------------------------------------------
\* Completions.

RecordedOK(c) == ~c.open => \/ Canonical(c)
                            \/ c.steps # <<>> /\ Last(c.steps).follow = "replyEnds"

LEMMA Completed ==
  ASSUME SessionInv, phase \notin {"GRADED", "REVEALED"}, NEW c \in CompletionRows,
         c.of = generation, c.id = attemptId', c.id # 0, c.id <= drawn', drawn' \in Nat, drawn <= drawn',
         attemptId' = attemptId \/ attemptId' = drawn + 1,
         completions' = Append(completions, c), phase' \in {"GRADED", "REVEALED"},
         UNCHANGED generation, RecordedOK(c)
  PROVE  completions' \in Seq(CompletionRows) /\ CompletedKept' /\ ShownIsRecorded'
<1> DEFINE n == Len(completions)
<1>1. completions \in Seq(CompletionRows) /\ generation \in Nat /\ drawn \in Nat
  BY DEF SessionInv, SessionTypes
<1>2. /\ completions' \in Seq(CompletionRows) /\ n \in Nat
      /\ DOMAIN completions = 1..n /\ DOMAIN completions' = 1..(n + 1)
      /\ completions'[n + 1] = c /\ \A i \in 1..n : completions'[i] = completions[i]
  <2>1. /\ completions' \in Seq(CompletionRows) /\ Len(completions') = n + 1
        /\ completions'[n + 1] = c /\ \A i \in 1..n : completions'[i] = completions[i]
    BY <1>1, AppendProperties
  <2> QED BY <1>1, <2>1, LenProperties
<1>3. \A i \in DOMAIN completions : completions[i].id \in Nat
  BY CompletionOf DEF CompletionRows
<1>4. \A i \in DOMAIN completions :
        /\ completions[i].of # c.of /\ completions[i].id # c.id
        /\ completions[i].id <= drawn' /\ completions[i].of <= generation /\ completions[i].id # 0
  BY <1>1, <1>3, NotCompleted
<1>5. \A i \in DOMAIN completions' : i = n + 1 \/ i \in DOMAIN completions
  BY <1>2
<1> HIDE DEF n
<1>6. \A i \in DOMAIN completions : completions'[i] = completions[i]
  BY <1>2
<1>7. CompletesOnce'
  <2> SUFFICES ASSUME NEW i \in DOMAIN completions', NEW j \in DOMAIN completions', i # j
               PROVE  completions'[i].of # completions'[j].of /\ completions'[i].id # completions'[j].id
    BY DEF CompletesOnce
  <2>1. CASE i = n + 1
    BY <1>2, <1>4, <1>5, <1>6, <2>1
  <2>2. CASE j = n + 1
    BY <1>2, <1>4, <1>5, <1>6, <2>2
  <2>3. CASE i # n + 1 /\ j # n + 1
    BY <1>5, <1>6, <2>3 DEF SessionInv, CompletedKept, CompletesOnce
  <2> QED BY <2>1, <2>2, <2>3
<1>8. ASSUME NEW i \in DOMAIN completions'
      PROVE  /\ completions'[i].of <= generation'
             /\ completions'[i].id # 0 /\ completions'[i].id <= drawn'
             /\ completions'[i].id = attemptId' => completions'[i].of = generation'
             /\ RecordedOK(completions'[i])
  <2>1. CASE i = n + 1
    BY <1>1, <1>2, <2>1
  <2>2. CASE i # n + 1
    BY <1>4, <1>5, <1>6, <2>2 DEF SessionInv, ShownIsRecorded, RecordedOK
  <2> QED BY <2>1, <2>2
<1>9. CompletedKept'
  BY <1>7, <1>8 DEF CompletedKept
<1>10. ShownIsRecorded'
  BY <1>8 DEF ShownIsRecorded, RecordedOK
<1> QED BY <1>2, <1>9, <1>10

LEMMA AggregateIs == \A grades : Aggregate(grades) \in LineGrades
  BY DEF Aggregate, LineGrades, Grades

LEMMA SessionEnds ==
  ASSUME SessionInv, NEW task \in tasks, Ends(task) PROVE SessionInv'
<1> DEFINE c == [of |-> generation, id |-> attemptId', open |-> open, status |-> "GRADED",
                 grade |-> LineGrade(steps), steps |-> steps]
<1>1. /\ task.stage = "ends" /\ task.of = generation /\ tasks' = tasks \ {task}
      /\ phase' = "GRADED" /\ completions' = Append(completions, c)
      /\ UNCHANGED <<generation, prompted, open, ply, steps, submission, attemptId, moving, drawn>>
  BY DEF Ends, GoesOn, Completion
<1>2. /\ phase = "SUBMITTING" /\ tasks' \in SUBSET TaskRows
      /\ \A t \in tasks' : t.of <= generation /\ t.of # generation
      /\ attemptId # 0 /\ moving
  BY <1>1, TaskEnds
<1>3. /\ generation \in Nat /\ attemptId \in Nat /\ drawn \in Nat /\ open \in BOOLEAN
      /\ steps \in Seq(StepRows) /\ attemptId <= drawn
  BY DEF SessionInv, SessionTypes, TasksKept
<1>4. LineGrade(steps) \in LineGrades
  BY AggregateIs DEF LineGrade
<1>5. c \in CompletionRows
  BY <1>1, <1>3, <1>4 DEF CompletionRows
<1>6. /\ c.of = generation /\ c.id = attemptId /\ c.status = "GRADED" /\ c.steps = steps
      /\ c.open = open /\ c.grade = LineGrade(steps)
  BY <1>1
<1> HIDE DEF c
<1>7. RecordedOK(c)
  <2> SUFFICES ASSUME ~open PROVE Canonical(c) \/ (steps # <<>> /\ Last(steps).follow = "replyEnds")
    BY <1>6 DEF RecordedOK
  <2>1. Over(steps)
    BY <1>1 DEF SessionInv, LineKept
  <2> QED BY <1>6, <2>1 DEF Over, Canonical, LineGrade
<1>8. completions' \in Seq(CompletionRows) /\ CompletedKept' /\ ShownIsRecorded'
  BY <1>1, <1>2, <1>3, <1>5, <1>6, <1>7, Completed
<1>9. SessionTypes'
  BY <1>1, <1>2, <1>8 DEF SessionInv, SessionTypes
<1>10. TasksKept'
  BY <1>1, <1>2 DEF SessionInv, TasksKept
<1>11. LineKept'
  BY <1>1, <1>2 DEF LineKept
<1> QED BY <1>8, <1>9, <1>10, <1>11 DEF SessionInv

LEMMA RevealStep == ASSUME SessionInv, Reveal PROVE SessionInv'
<1> DEFINE c == [of |-> generation, id |-> attemptId', open |-> open, status |-> "REVEALED",
                 grade |-> "none", steps |-> steps]
<1>1. /\ phase \in {"READY", "AWAITING_MOVE", "UNRESOLVED"} /\ DrawId
      /\ moving' = TRUE /\ phase' = "REVEALED" /\ completions' = Append(completions, c)
      /\ UNCHANGED <<generation, prompted, open, ply, steps, submission, tasks>>
  BY DEF Reveal, Completion
<1>2. /\ generation \in Nat /\ attemptId \in Nat /\ drawn \in Nat /\ open \in BOOLEAN
      /\ steps \in Seq(StepRows)
  BY DEF SessionInv, SessionTypes
<1>3. /\ drawn' \in Nat /\ attemptId' \in Nat /\ attemptId' # 0 /\ attemptId' <= drawn'
      /\ drawn <= drawn' /\ (attemptId' = attemptId \/ attemptId' = drawn + 1)
  BY <1>1, <1>2 DEF DrawId, SessionInv, TasksKept
<1>4. c \in CompletionRows
  BY <1>2, <1>3 DEF CompletionRows, LineGrades
<1>5. c.of = generation /\ c.id = attemptId' /\ c.status = "REVEALED" /\ c.steps = steps /\ c.open = open
  OBVIOUS
<1> HIDE DEF c
<1>6. RecordedOK(c)
  <2> SUFFICES ASSUME ~open PROVE Canonical(c)
    BY <1>5 DEF RecordedOK
  <2>1. Answered(steps, ply)
    BY <1>1 DEF SessionInv, LineKept
  <2> QED BY <1>5, <2>1 DEF Answered, Canonical
<1>7. completions' \in Seq(CompletionRows) /\ CompletedKept' /\ ShownIsRecorded'
  BY <1>1, <1>3, <1>4, <1>5, <1>6, Completed
<1>8. \A t \in tasks : t.of <= generation /\ t.of # generation
  BY <1>1 DEF SessionInv, TasksKept
<1>9. SessionTypes'
  BY <1>1, <1>3, <1>7 DEF SessionInv, SessionTypes
<1>10. TasksKept'
  BY <1>1, <1>3, <1>8 DEF TasksKept
<1>11. LineKept'
  BY <1>1, <1>8 DEF LineKept
<1> QED BY <1>7, <1>9, <1>10, <1>11 DEF SessionInv

-----------------------------------------------------------------------------
LEMMA SessionAtFirst == SessionInit => SessionInv
<1> SUFFICES ASSUME SessionInit PROVE SessionInv
  OBVIOUS
<1>1. SessionTypes
  <2>1. <<>> \in Seq(StepRows) /\ <<>> \in Seq(CompletionRows)
    OBVIOUS
  <2> QED BY <2>1 DEF SessionInit, SessionTypes
<1>2. TasksKept /\ CompletedKept /\ ShownIsRecorded
  BY DEF SessionInit, TasksKept, CompletedKept, CompletesOnce, ShownIsRecorded
<1>3. LineKept
  BY NewLine DEF SessionInit, LineKept
<1> QED BY <1>1, <1>2, <1>3 DEF SessionInv

LEMMA SessionStep == SessionInv /\ [SessionNext]_sessionVars => SessionInv'
<1> SUFFICES ASSUME SessionInv, [SessionNext]_sessionVars PROVE SessionInv'
  OBVIOUS
<1>1. CASE UNCHANGED sessionVars
  <2>1. UNCHANGED <<generation, prompted, open, phase, ply, steps, submission, attemptId, moving,
                    tasks, drawn, completions>>
    BY <1>1 DEF sessionVars
  <2>2. SessionTypes' /\ TasksKept' /\ CompletedKept' /\ ShownIsRecorded'
    BY <2>1 DEF SessionInv, SessionTypes, TasksKept, CompletedKept, CompletesOnce, ShownIsRecorded
  <2>3. LineKept'
    BY <2>1 DEF SessionInv, LineKept, Verified
  <2> QED BY <2>2, <2>3 DEF SessionInv
<1>2. CASE Clear \/ \E isOpen \in BOOLEAN : Activate(isOpen)
  BY <1>2, OpensStep
<1>3. CASE Retry \/ Reveal
  BY <1>3, RetryStep, RevealStep
<1>4. CASE \E move \in Moves(ply) : Submit(move)
  BY <1>4, SubmitStep
<1>5. ASSUME NEW task \in tasks,
             \/ Drop(task) \/ Presented(task) \/ Unresolved(task) \/ Replies(task)
             \/ Awaits(task) \/ Ends(task)
             \/ \E grade \in Grades : Found(task, grade)
      PROVE  SessionInv'
  BY <1>5, DropStep, PresentedStep, UnresolvedStep, RepliesStep, AwaitsStep, SessionEnds, FoundStep
<1> QED BY <1>1, <1>2, <1>3, <1>4, <1>5 DEF SessionNext

\* A position is completed once, and the service records its line as it was graded, for lines of
\* any length and any number of positions, however searches and presentations overlap.
THEOREM SessionKept == SessionSpec => []SessionHolds
<1>1. SessionSpec => []SessionInv
  BY SessionAtFirst, SessionStep, PTL DEF SessionSpec
<1>2. SessionInv => SessionHolds
  BY DEF SessionInv, SessionHolds, CompletedKept
<1> QED BY <1>1, <1>2, PTL
====
