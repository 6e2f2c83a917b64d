-------------------------- MODULE ContinuationVerifier --------------------------
(***************************************************************************)
(* The verification of a solution (lib/analysis/continuationVerifier.ts):   *)
(* a bounded tree is built depth first from a position.  A node of the user *)
(* holds every practical alternative, one of the opponent the best defence, *)
(* and whatever is missing or doubtful worsens the status of the result.    *)
(*                                                                          *)
(* The engine and the tablebase answer anything: lines are abstracted to    *)
(* their losses, positions to their depth.                                  *)
(***************************************************************************)
EXTENDS AcceptanceFrontier, TrainingMoments

CONSTANTS MaxTreePlies, MaxPositions, MultiPv, MaxMultiPv, MaxBranches,
          Policy,      \* the grading policy
          LineLosses,  \* losses that the engine reports, cut to a few values
          MaxLegal     \* legal moves of a position

VARIABLES pending,   \* the depths of the positions still to build, next first
          at,        \* the position under analysis, or none
          visited, largest, status,
          nodes      \* what the tree holds of its nodes

treeVars == <<pending, at, visited, largest, status, nodes>>

Severity == [VERIFIED |-> 0, AMBIGUOUS |-> 1, UNSTABLE |-> 2, INVALID |-> 3]

Worse(s, t) == IF Severity[t] > Severity[s] THEN t ELSE s

Role(ply) == IF ply % 2 = 0 THEN "USER" ELSE "OPPONENT"

\* What the search of a position is about to do.  The rule draws of a position
\* are the legal moves that repeat it for the third time.
Search(ply, rule, legal) ==
  [ply |-> ply, rule |-> rule, legal |-> legal,
   request |-> IF Role(ply) = "USER" THEN MultiPv ELSE 1, first |-> <<>>]

NoSearch == [ply |-> -1]

TreeInit ==
  /\ pending = <<0>> /\ at = NoSearch
  /\ visited = 0 /\ largest = 1 /\ status = "VERIFIED" /\ nodes = {}

\* A node with its branches, the best first.
Node(ply, source, complete, moves, frontier) ==
  [ply |-> ply, role |-> Role(ply), source |-> source, stop |-> "none",
   complete |-> complete, moves |-> moves, frontier |-> frontier]

StopNode(ply, source, stop) ==
  [ply |-> ply, role |-> "TERMINAL", source |-> source, stop |-> stop,
   complete |-> TRUE, moves |-> <<>>, frontier |-> NoFrontier]

\* A node ends the search of its position; its branches are built next.
Emit(node, worst) ==
  /\ nodes' = nodes \cup {node}
  /\ pending' = [i \in DOMAIN node.moves |-> node.ply + 1] \o Tail(pending)
  /\ at' = NoSearch
  /\ status' = Worse(status, worst)

Arrive == at = NoSearch /\ pending # <<>>

\* The rules of the game end the line; the position is not counted.
RuleEnds ==
  /\ Arrive
  /\ Emit(StopNode(Head(pending), "RULE", "TERMINAL"), "VERIFIED")
  /\ UNCHANGED <<visited, largest>>

DepthEnds ==
  /\ Arrive /\ Head(pending) >= MaxTreePlies
  /\ Emit(StopNode(Head(pending), "NONE", "MAX_PLIES"), "VERIFIED")
  /\ UNCHANGED <<visited, largest>>

BudgetEnds ==
  /\ Arrive /\ Head(pending) < MaxTreePlies /\ visited >= MaxPositions
  /\ Emit(StopNode(Head(pending), "NONE", "MAX_POSITIONS"), "AMBIGUOUS")
  /\ UNCHANGED <<visited, largest>>

Enter(rule, legal) ==
  /\ Arrive /\ Head(pending) < MaxTreePlies /\ visited < MaxPositions
  /\ rule <= legal
  /\ visited' = visited + 1
  /\ at' = Search(Head(pending), rule, legal)
  /\ UNCHANGED <<pending, largest, status, nodes>>

Searching == at # NoSearch

\* The tablebase knows the position: it is over, or its moves of the best
\* outcome are the candidates, with the rule draws that match or beat them.
TablebaseEnds ==
  /\ Searching /\ at.first = <<>>
  /\ Emit(StopNode(at.ply, "TABLEBASE", "TERMINAL"), "VERIFIED")
  /\ UNCHANGED <<visited, largest>>

TablebaseKnows(candidates, illegal) ==
  /\ Searching /\ at.first = <<>>
  /\ candidates \in 1..at.legal /\ illegal \in BOOLEAN
  /\ LET wanted == IF Role(at.ply) = "USER" THEN candidates ELSE 1
         chosen == Min({wanted, MaxBranches})
         complete == Role(at.ply) = "OPPONENT" \/ wanted <= MaxBranches
         legal == [i \in 1..(chosen - (IF illegal THEN 1 ELSE 0)) |-> i]
         worst == IF illegal THEN "INVALID" ELSE IF complete THEN "VERIFIED" ELSE "AMBIGUOUS"
     IN IF legal = <<>>
        THEN Emit(StopNode(at.ply, "TABLEBASE", "NO_STABLE_LINE"), "INVALID")
        ELSE Emit(Node(at.ply, "TABLEBASE", complete, legal, NoFrontier), worst)
  /\ UNCHANGED <<visited, largest>>

-----------------------------------------------------------------------------
\* Analyses of the engine: ranked losses, whether the bundle of lines is whole,
\* and what is wrong with the last line: malformed, out of its slot, or a
\* repeated root move.

Analysis ==
  {a \in [losses : UNION {[1..n -> LineLosses] : n \in 0..MaxMultiPv},
          defect : {"none", "malformed", "slots", "repeated"},
          whole : BOOLEAN] :
     /\ \A i \in 1..(Len(a.losses) - 1) : a.losses[i] <= a.losses[i + 1]
     /\ a.losses # <<>> => a.losses[1] = 0
     /\ a.defect = "repeated" => Len(a.losses) > 1}

\* The lines as the frontier reads them.
Lines(a) ==
  [i \in DOMAIN a.losses |->
     LET d == IF i = Len(a.losses) THEN a.defect ELSE "none" IN
     [slot |-> IF d = "slots" THEN i + 1 ELSE i,
      move |-> CASE d = "malformed" -> NoFirstMove [] d = "repeated" -> i - 1 [] OTHER -> i,
      loss |-> a.losses[i]]]

FrontierOf(a, request) == FromMultiPv(Lines(a), request, a.whole, Policy)

\* What the engine may answer to a request in the position at hand.
EngineAnswers(request) ==
  {a \in Analysis : /\ Len(a.losses) <= Min({request, at.legal})
                    /\ a.whole <=> Len(a.losses) = Min({request, at.legal})}

\* A full frontier that is not stable is searched again with more lines.
Expand(a) ==
  /\ Role(at.ply) = "USER" /\ at.request < MaxMultiPv
  /\ a.defect = "none"
  /\ Len(a.losses) = at.request /\ Len(a.losses) > 0
  /\ at.rule = 0 => FrontierOf(a, at.request).status # "STABLE"
  /\ at.rule > 0 => a.losses[Len(a.losses)] <= Policy.success

Larger(request) == Min({MaxMultiPv, Max({request + 1, request * 2})})

Analyse(a) ==
  /\ Expand(a)
  /\ at' = [at EXCEPT !.request = Larger(at.request), !.first = <<a, at.request>>]
  /\ largest' = Max({largest, at.request})
  /\ UNCHANGED <<pending, visited, status, nodes>>

\* The first search of a position fails.
EngineFails ==
  /\ Searching /\ at.first = <<>>
  /\ Emit(StopNode(at.ply, "ENGINE", "NO_STABLE_LINE"), "UNSTABLE")
  /\ UNCHANGED <<visited, largest>>

\* The status that the lines of the last analysis deserve.
Defects(a) ==
  CASE a.losses = <<>> \/ a.defect = "none" -> "VERIFIED"
    [] a.defect = "repeated" -> "AMBIGUOUS"
    [] OTHER -> "INVALID"

NoLine(a) == Len(a.losses) = 0 \/ (a.defect = "malformed" /\ Len(a.losses) = 1)

\* The node of a position without a line that can be used.
Unusable(a) ==
  /\ NoLine(a)
  /\ Emit(StopNode(at.ply, "ENGINE", "NO_STABLE_LINE"), Worse("UNSTABLE", Defects(a)))

\* A node whose lines were all usable and whose alternatives are closed.
Sound(a, closed) == Defects(a) = "VERIFIED" /\ a.whole /\ closed

\* Mutant: open alternatives do not worsen the status.
DoubtDefects(a, complete) == Defects(a)

Doubt(a, complete) == Worse(Defects(a), IF complete THEN "VERIFIED" ELSE "AMBIGUOUS")

\* The node of a user's position without rule draws: the branches are the moves
\* of the frontier.
UserNode(a, frontier, worst) ==
  LET moves == MovesOf(frontier)
      kept == SubSeq(moves, 1, Min({Len(moves), MaxBranches}))
      complete == Sound(a, frontier.status = "STABLE" /\ kept = moves)
  IN IF moves = <<>>
     THEN Emit(StopNode(at.ply, "ENGINE", "NO_STABLE_LINE"), Worse("UNSTABLE", Defects(a)))
     ELSE Emit(Node(at.ply, "ENGINE", complete, kept, frontier), Worse(worst, Doubt(a, complete)))

\* The last search of a position: the one that is not expanded, or the last
\* good one when an expansion fails.
LastSearches ==
  {<<a, at.request>> : a \in {x \in EngineAnswers(at.request) : ~Expand(x)}}
  \cup (IF at.first = <<>> THEN {} ELSE {at.first})

\* A stable frontier is confirmed by a search with twice the budget.
ConfirmedNode(a, request) ==
  /\ at.rule = 0
  /\ LET first == FrontierOf(a, request) IN
     /\ first.status = "STABLE"
     /\ \E b \in EngineAnswers(request) :
          LET both == Confirm(first, FrontierOf(b, request))
              worst == IF both.status = "STABLE" THEN "VERIFIED" ELSE "AMBIGUOUS"
          IN IF NoLine(b) THEN Unusable(b) ELSE UserNode(b, both, worst)
  /\ largest' = Max({largest, request})
  /\ UNCHANGED visited

\* The confirming search fails: the frontier of the first one is not stable.
ConfirmationFails(a, request) ==
  /\ at.rule = 0
  /\ LET first == FrontierOf(a, request) IN
     /\ first.status = "STABLE"
     /\ UserNode(a, [first EXCEPT !.status = "UNSTABLE"], "UNSTABLE")
  /\ largest' = Max({largest, request})
  /\ UNCHANGED visited

OpenNode(a, request) ==
  /\ at.rule = 0
  /\ FrontierOf(a, request).status # "STABLE"
  /\ IF NoLine(a)
     THEN Unusable(a) ELSE UserNode(a, FrontierOf(a, request), "VERIFIED")
  /\ largest' = Max({largest, request})
  /\ UNCHANGED visited

\* With rule draws, moves of their own above the engine's: they are the best
\* moves, accepted after the engine's, or out of tolerance, and the frontier is
\* exhausted when its last line is out of tolerance.
RuleNode(a, request, place) ==
  /\ at.rule > 0
  /\ LET Within(i) == a.losses[i] <= Policy.success
         engine == SelectSeq([i \in DOMAIN a.losses |-> i], Within)
         rules == [i \in 1..at.rule |-> MaxMultiPv + i]
         moves == CASE place = "best" -> rules \o engine
                    [] place = "accepted" -> engine \o rules
                    [] OTHER -> engine
         kept == SubSeq(moves, 1, Min({Len(moves), MaxBranches}))
         closed == IF Len(a.losses) < request THEN a.whole ELSE ~Within(Len(a.losses))
         complete == Sound(a, closed /\ kept = moves)
     IN IF NoLine(a)
        THEN Unusable(a)
        ELSE Emit(Node(at.ply, IF place = "best" THEN "RULE" ELSE "ENGINE", complete, kept, NoFrontier),
                  Doubt(a, complete))
  /\ largest' = Max({largest, request})
  /\ UNCHANGED visited

\* The best defence of the opponent.
OpponentNode(a) ==
  /\ IF NoLine(a) THEN Unusable(a)
     ELSE Emit(Node(at.ply, "ENGINE", Sound(a, TRUE), <<1>>, NoFrontier), Doubt(a, Sound(a, TRUE)))
  /\ UNCHANGED <<visited, largest>>

TreeNext ==
  \/ RuleEnds \/ DepthEnds \/ BudgetEnds \/ TablebaseEnds \/ EngineFails
  \/ \E rule \in 0..1, legal \in 1..MaxLegal : Enter(rule, legal)
  \/ \E n \in 1..MaxLegal, illegal \in BOOLEAN : TablebaseKnows(n, illegal)
  \/ /\ Searching /\ Role(at.ply) = "OPPONENT"
     /\ \E a \in EngineAnswers(1) : OpponentNode(a)
  \/ /\ Searching /\ Role(at.ply) = "USER"
     /\ \/ \E a \in EngineAnswers(at.request) : Analyse(a)
        \/ \E last \in LastSearches :
             \/ ConfirmedNode(last[1], last[2])
             \/ ConfirmationFails(last[1], last[2])
             \/ OpenNode(last[1], last[2])
             \/ \E place \in {"best", "accepted", "rejected"} :
                  RuleNode(last[1], last[2], place)

TreeSpec == TreeInit /\ [][TreeNext]_treeVars

-----------------------------------------------------------------------------
Done == pending = <<>> /\ at = NoSearch

RootNode == CHOOSE n \in nodes : n.ply = 0

\* A verified solution is closed: no node of the tree was cut by a budget, failed,
\* or left alternatives open, whichever of its searches was the last.
VerifiedIsClosed ==
  status = "VERIFIED"
    => \A n \in nodes :
         /\ n.stop \notin {"MAX_POSITIONS", "NO_STABLE_LINE"} /\ n.complete
         /\ n.frontier # NoFrontier => n.frontier.status = "STABLE"

\* What the scan knows of the root: the frontier of its own lines, or none when
\* its analysis failed, and a best move.
Shallow ==
  {[frontier |-> FrontierOf(a, MaxMultiPv), best |-> 1,
    accepted |-> Uniq(1, MovesOf(FrontierOf(a, MaxMultiPv)))] :
     a \in {x \in Analysis : x.losses # <<>> /\ x.defect # "malformed"}}
  \cup {[frontier |-> NoFrontier, best |-> 1, accepted |-> <<1>>]}

Moments ==
  {BuildTrainingMoment(RootNode, status, shallow, played) :
     shallow \in Shallow, played \in 1..(MaxLegal + 1)}

\* A root whose accepted moves the verifier settled by a frontier, or that the
\* engine could not search.
Settled(root) == root.frontier # NoFrontier \/ (root.stop # "none" /\ root.source = "ENGINE")

\* Every moment built from a settled root can be stored, whatever the shallow
\* scan saw there: one that cannot takes the analysis of its game with it.
MomentsPersist ==
  Done /\ Settled(RootNode) /\ RootNode.source = "ENGINE"
    => \A m \in Moments : m.frontier.moves # <<>> => Persistable(m)

\* A trainable moment of a settled root also passes the validation of an upload,
\* which reads the tree and not the extractor's conclusions.
TrainableUploads ==
  Done /\ Settled(RootNode) => \A m \in Moments : m.trainable => ValidSolution(m)

\* What the transaction asserts holds of every moment that the extractor builds.
EveryMomentPersists == Done => \A m \in Moments : Persistable(m)

\* What is known of a position that was verified: its solution is closed, and its moment can be
\* stored and uploaded (continuationVerifier.ts, persistence.ts).
MomentsAreSound == VerifiedIsClosed /\ MomentsPersist /\ TrainableUploads
==============================================================================
