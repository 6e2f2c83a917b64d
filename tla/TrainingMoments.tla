----------------------------- MODULE TrainingMoments -----------------------------
(***************************************************************************)
(* What a verified position becomes: the extractor builds a moment from the *)
(* root of the verified tree and the shallow analysis of the scan           *)
(* (buildTrainingMoment in lib/analysis/extractTrainingMoments.ts), the     *)
(* upload of a browser validates it (lib/training/candidateValidation.ts)   *)
(* and the transaction that stores it asserts its evidence                  *)
(* (lib/training/persistence.ts).  The three were written apart.            *)
(***************************************************************************)
EXTENDS Integers, Sequences, FiniteSets, SequencesExt

CONSTANTS NoFrontier,  \* a node, or a scan, without a frontier
          MaxAccepted  \* cap of the accepted moves

MovesOf(frontier) == [i \in DOMAIN frontier.moves |-> frontier.moves[i].move]

\* The moves without repetition, the best one first.
Uniq(best, moves) ==
  LET fresh == SelectSeq(moves, LAMBDA m : m # best)
      all == <<best>> \o fresh
  IN SubSeq(all, 1, IF Len(all) < MaxAccepted THEN Len(all) ELSE MaxAccepted)

\* The frontier of a moment: the verifier's own, the exact moves of a complete
\* tablebase or rule node, or the one of the scan.
FrontierFor(root, shallow) ==
  CASE root.frontier # NoFrontier -> root.frontier
    [] root.frontier = NoFrontier /\ root.complete /\ root.source \in {"TABLEBASE", "RULE"}
      -> [status |-> "STABLE",
          moves |-> [i \in DOMAIN root.moves |->
                       [move |-> root.moves[i], tier |-> IF i = 1 THEN "BEST" ELSE "GOOD"]]]
    [] OTHER -> IF shallow.frontier # NoFrontier THEN shallow.frontier
                ELSE [status |-> "UNSTABLE", moves |-> <<>>]

TierIn(frontier, move) == {t \in {"BEST", "STRONG", "GOOD"} :
                             [move |-> move, tier |-> t] \in Range(frontier.moves)}

\* The tier that a frontier gives a move, or another grade when it has none.
GradeOr(frontier, m, other) ==
  IF frontier # NoFrontier /\ TierIn(frontier, m) # {}
  THEN CHOOSE t \in TierIn(frontier, m) : TRUE ELSE other

\* A verified tree grades its branches by its own frontier.  Without one the first
\* is the best, and the answers of a tablebase or of the rules are level with it.
TreeAssessments(root) ==
  LET Other(m) == CASE m = root.moves[1] -> "BEST"
                    [] m # root.moves[1] /\ root.source # "ENGINE" -> "STRONG"
                    [] OTHER -> "GOOD"
  IN {[move |-> m, grade |-> GradeOr(root.frontier, m, Other(m))] : m \in Range(root.moves)}

\* The shallow analysis grades by the frontier that was chosen.
ShallowAssessments(frontier, best, accepted) ==
  {[move |-> m, grade |-> GradeOr(frontier, m, IF m = best THEN "BEST" ELSE "GOOD")] :
     m \in Range(accepted)}

Graded(frontier, assessments) ==
  [frontier EXCEPT !.moves =
     [i \in DOMAIN frontier.moves |->
        LET mine == {a \in assessments : a.move = frontier.moves[i].move}
        IN IF mine = {} THEN frontier.moves[i]
           ELSE [frontier.moves[i] EXCEPT !.tier = (CHOOSE a \in mine : TRUE).grade]]]

Shape(frontier, accepted) ==
  CASE frontier.status # "STABLE" -> "OPEN"
    [] frontier.status = "STABLE" /\ Len(accepted) > 1 -> "MULTIPLE"
    [] OTHER -> "UNIQUE"

CanTrain(status, frontier, accepted, played) ==
  status = "VERIFIED" /\ frontier.status = "STABLE" /\ played \notin Range(accepted)

\* The moment of a decision at which another move was played.
BuildTrainingMoment(root, status, shallow, played) ==
  LET found == FrontierFor(root, shallow)
      best == IF root.moves # <<>> THEN root.moves[1] ELSE shallow.best
      others == CASE found.moves # <<>> -> MovesOf(found)
                  [] found.moves = <<>> /\ root.moves # <<>> -> root.moves
                  [] OTHER -> shallow.accepted
      accepted == Uniq(best, others)
      assessments == IF root.moves # <<>> THEN TreeAssessments(root)
                     ELSE ShallowAssessments(found, best, accepted)
  IN [status |-> status, tree |-> root, best |-> best, accepted |-> accepted,
      assessments |-> assessments, frontier |-> Graded(found, assessments),
      shape |-> Shape(found, accepted),
      trainable |-> CanTrain(status, found, accepted, played)]

-----------------------------------------------------------------------------
\* What the transaction asserts of a solution before it stores it.
Persistable(m) ==
  /\ MovesOf(m.frontier) = Uniq(m.best, m.accepted)
  /\ m.trainable => m.frontier.status = "STABLE"
  /\ \A move \in Range(m.accepted) : \E a \in m.assessments : a.move = move
  /\ [move |-> m.best, grade |-> "BEST"] \in m.assessments

\* The tree of an upload: its root is a decision of the user whose branches are
\* the accepted moves.
ValidNode(node) == node.moves # <<>>

ValidTree(root) == ValidNode(root) /\ root.role = "USER"

\* An assessment is of a move of the tree.
ValidAssessment(root, a) ==
  a.move \in Range(root.moves) /\ a.grade \in {"BEST", "STRONG", "GOOD"}

ValidFrontier(m) ==
  /\ MovesOf(m.frontier) = m.accepted
  /\ m.frontier.moves[1] = [move |-> m.best, tier |-> "BEST"]

\* The best line starts with the best move, along the best branch.
ValidBestLine(m) == m.best = m.tree.moves[1]

\* What the upload of an analysis requires of a moment.
ValidSolution(m) ==
  /\ ValidTree(m.tree)
  /\ m.best \in Range(m.accepted)
  /\ ValidFrontier(m)
  /\ ValidBestLine(m)
  /\ Range(m.tree.moves) = Range(m.accepted)
  /\ m.trainable => m.status = "VERIFIED" /\ m.frontier.status = "STABLE"
  /\ (m.frontier.status = "STABLE") = m.tree.complete
  /\ m.shape = Shape(m.frontier, m.accepted)
  /\ \A a \in m.assessments : ValidAssessment(m.tree, a)
  /\ \A i \in DOMAIN m.frontier.moves :
       [move |-> m.frontier.moves[i].move, grade |-> m.frontier.moves[i].tier] \in m.assessments
  /\ \A a \in m.assessments : (a.move = m.tree.moves[1]) => a.grade = "BEST"
=============================================================================
