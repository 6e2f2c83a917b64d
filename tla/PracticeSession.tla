---------------------------- MODULE PracticeSession ----------------------------
(***************************************************************************)
(* Solving a position in the browser (lib/hooks/usePuzzleSession.ts): a     *)
(* move is presented, graded from the downloaded tree or by the local       *)
(* engine (lib/training/localGrading.ts), answered by the opponent's reply  *)
(* of the tree, and the line that ends is sent to the service, which reads  *)
(* it again in its own copy of the tree (lib/training/attemptService.ts).   *)
(*                                                                          *)
(* Presentations and searches take time, and another position may be        *)
(* activated while they run: what they do when they end is decided by the   *)
(* generation they belong to.  A step of a line carries what the tree says  *)
(* of its move: its grade and what follows it.                              *)
(***************************************************************************)
EXTENDS Integers, Sequences, FiniteSets, SequencesExt

CONSTANTS MaxPlies,       \* depth of the verified trees
          MaxPrompts,     \* positions activated in a behaviour
          MaxUnresolved,  \* searches that end unresolved
          Reveals,        \* an unresolved move reveals the solution
          NoMove

VARIABLES
  generation, prompted, open,   \* the activation, and what was activated
  phase, ply, steps,            \* refs and state of the hook
  submission, attemptId,
  moving, grading,              \* the in-flight flags
  tasks,                        \* what was awaited and goes on later
  drawn, unresolved,            \* attempt ids drawn, searches without a result
  completions                   \* the lines handed to onCompleted

sessionVars == <<generation, prompted, open, phase, ply, steps, submission, attemptId,
                 moving, grading, tasks, drawn, unresolved, completions>>

hookVars == <<prompted, open, phase, ply, steps, submission, attemptId, moving, grading>>

Accepting == {"BEST", "GOOD"}

-----------------------------------------------------------------------------
\* The tree.  After an accepted move it ends, or the opponent replies and the
\* line goes on or ends with the reply.  A move that is not accepted has no
\* branch.  Only an open tree has moves without a grade.

Follows(p, grade) ==
  IF grade \notin Accepting THEN {"none"}
  ELSE {"ends"} \cup (IF p + 1 < MaxPlies THEN {"replyEnds"} ELSE {})
                \cup (IF p + 2 < MaxPlies THEN {"reply"} ELSE {})

Moves(p) ==
  {m \in [actor : {"USER"}, ply : {p}, dynamic : {FALSE},
          grade : Accepting \cup {"DIFFERENT_MISTAKE", "REPEATED_MISTAKE", "unknown"},
          follow : {"none", "ends", "replyEnds", "reply"}] :
     /\ m.follow \in Follows(p, m.grade)
     /\ m.grade = "REPEATED_MISTAKE" => p = 0
     /\ m.grade = "unknown" => open
     /\ m.grade = "DIFFERENT_MISTAKE" => ~open}

Grades == {"DIFFERENT_MISTAKE", "REPEATED_MISTAKE", "IMPROVED", "GOOD", "BEST"}

\* The worst grade of a line.
Aggregate(grades) ==
  CASE "DIFFERENT_MISTAKE" \in grades -> "DIFFERENT_MISTAKE"
    [] "DIFFERENT_MISTAKE" \notin grades /\ "REPEATED_MISTAKE" \in grades -> "REPEATED_MISTAKE"
    [] grades \subseteq {"IMPROVED", "GOOD", "BEST"} /\ "IMPROVED" \in grades -> "IMPROVED"
    [] grades \subseteq {"GOOD", "BEST"} /\ "GOOD" \in grades -> "GOOD"
    [] OTHER -> "BEST"

GradesOf(line) == {s.grade : s \in {x \in ToSet(line) : x.actor = "USER"}}

\* The steps of a line after a move that goes on: the opponent's reply is one.
StepsAnswered(line, move) ==
  line \o <<move, [actor |-> "ENGINE", ply |-> move.ply + 1, grade |-> "none",
                   follow |-> "none", dynamic |-> FALSE]>>

-----------------------------------------------------------------------------
\* The service reads the line again: every step has its place and its actor, the
\* moves have verified grades and those before the last have a branch.
Consistent(line) ==
  \A i \in DOMAIN line :
    /\ line[i].ply = i - 1
    /\ line[i].actor = IF i % 2 = 1 THEN "USER" ELSE "ENGINE"
    /\ ~line[i].dynamic
    /\ i < Len(line) /\ line[i].actor = "USER" => line[i].follow \in {"reply", "replyEnds"}
    /\ i < Len(line) /\ line[i].actor = "ENGINE" => line[i - 1].follow = "reply"

\* A graded line stops with a move of the user that no reply follows.
LineEnds(line) == Last(line).actor = "USER" /\ Last(line).follow \in {"none", "ends"}

Canonical(c) ==
  IF c.status = "REVEALED" THEN Consistent(c.steps)
  ELSE /\ c.steps # <<>> /\ Consistent(c.steps) /\ LineEnds(c.steps)
       /\ c.grade = Aggregate(GradesOf(c.steps))

-----------------------------------------------------------------------------
\* The hook.

SessionInit ==
  /\ generation = 0 /\ prompted = FALSE /\ open = FALSE /\ phase = "READY" /\ ply = 0
  /\ steps = <<>> /\ submission = NoMove /\ attemptId = 0 /\ moving = FALSE
  /\ grading = FALSE /\ tasks = {} /\ drawn = 0 /\ unresolved = 0 /\ completions = <<>>

Fresh ==
  /\ phase' = "READY" /\ ply' = 0 /\ steps' = <<>> /\ submission' = NoMove
  /\ attemptId' = 0 /\ moving' = FALSE /\ grading' = FALSE

\* activatePrompt: another position; what is in flight goes on.
Activate(isOpen) ==
  /\ generation < MaxPrompts
  /\ generation' = generation + 1
  /\ prompted' = TRUE /\ open' = isOpen
  /\ Fresh
  /\ UNCHANGED <<tasks, drawn, unresolved, completions>>

\* clearPrompt, and the end of the page.
Clear ==
  /\ prompted /\ generation < MaxPrompts
  /\ generation' = generation + 1
  /\ prompted' = FALSE /\ open' = FALSE
  /\ Fresh
  /\ UNCHANGED <<tasks, drawn, unresolved, completions>>

Task(stage, move) == [of |-> generation, stage |-> stage, move |-> move]

\* The attempt id of the line, drawn with its first move or its reveal.
DrawId ==
  /\ attemptId' = IF attemptId = 0 THEN drawn + 1 ELSE attemptId
  /\ drawn' = IF attemptId = 0 THEN drawn + 1 ELSE drawn

CanMove == prompted /\ ~moving /\ phase \in {"READY", "AWAITING_MOVE"}

\* submitMove: the move is presented first, in whatever way it is graded.
Submit(move) ==
  /\ CanMove
  /\ DrawId
  /\ moving' = TRUE /\ submission' = move /\ phase' = "SUBMITTING"
  /\ grading' = (move.grade = "unknown")
  /\ tasks' = tasks \cup {Task("presented", move)}
  /\ UNCHANGED <<generation, prompted, open, ply, steps, unresolved, completions>>

\* Mutant: what was awaited goes on after the position has changed.
GoesOnAnyway(task) == prompted

\* A task goes on only in the generation it belongs to.
GoesOn(task) == task.of = generation

Drop(task) ==
  /\ ~GoesOn(task)
  /\ tasks' = tasks \ {task}
  /\ UNCHANGED <<generation, hookVars, drawn, unresolved, completions>>

\* applyEvaluation: an accepted move with a reply that does not end the line
\* goes on after the grade was presented, any other move ends the line.
Apply(task, move) ==
  LET goesOn == move.grade \in Accepting /\ move.follow = "reply" IN
  /\ steps' = IF goesOn THEN steps ELSE Append(steps, move)
  /\ tasks' = (tasks \ {task})
              \cup {Task(IF goesOn THEN "continues" ELSE "ends", move)}

\* gradeKnownLocalMove, or the engine is asked.
Presented(task) ==
  /\ task.stage = "presented" /\ GoesOn(task)
  /\ IF task.move.grade = "unknown"
     THEN /\ tasks' = (tasks \ {task}) \cup {Task("searching", task.move)}
          /\ UNCHANGED steps
     ELSE Apply(task, task.move)
  /\ UNCHANGED <<generation, prompted, open, phase, ply, submission, attemptId, moving,
                 grading, drawn, unresolved, completions>>

\* gradeUnknownLocalMove finds a grade.
Found(task, grade) ==
  /\ task.stage = "searching" /\ GoesOn(task)
  /\ Apply(task, [task.move EXCEPT !.grade = grade, !.dynamic = TRUE])
  /\ UNCHANGED <<generation, prompted, open, phase, ply, submission, attemptId, moving,
                 grading, drawn, unresolved, completions>>

\* The engine fails or its searches are not stable: the user may retry, or the
\* solution is shown without a completion.
Unresolved(task) ==
  /\ task.stage = "searching" /\ GoesOn(task) /\ unresolved < MaxUnresolved
  /\ unresolved' = unresolved + 1
  /\ tasks' = tasks \ {task}
  /\ phase' = IF Reveals THEN "REVEALED" ELSE "UNRESOLVED"
  /\ grading' = FALSE
  /\ UNCHANGED <<generation, prompted, open, ply, steps, submission, attemptId, moving,
                 drawn, completions>>

\* retryGrading.
Retry ==
  /\ prompted /\ phase = "UNRESOLVED" /\ ~grading
  /\ grading' = TRUE /\ phase' = "SUBMITTING"
  /\ tasks' = tasks \cup {Task("searching", submission)}
  /\ UNCHANGED <<generation, prompted, open, ply, steps, submission, attemptId, moving,
                 drawn, unresolved, completions>>

\* The reply is presented, and then the user moves again.
Replies(task) ==
  /\ task.stage = "continues" /\ GoesOn(task)
  /\ steps' = StepsAnswered(steps, task.move)
  /\ ply' = ply + 2
  /\ tasks' = (tasks \ {task}) \cup {Task("awaits", task.move)}
  /\ UNCHANGED <<generation, prompted, open, phase, submission, attemptId, moving,
                 grading, drawn, unresolved, completions>>

Awaits(task) ==
  /\ task.stage = "awaits" /\ GoesOn(task)
  /\ moving' = FALSE /\ phase' = "AWAITING_MOVE" /\ grading' = FALSE
  /\ tasks' = tasks \ {task}
  /\ UNCHANGED <<generation, prompted, open, ply, steps, submission, attemptId, drawn,
                 unresolved, completions>>

Completion(status, grade) ==
  [of |-> generation, id |-> attemptId', open |-> open, status |-> status,
   grade |-> grade, steps |-> steps]

LineGrade(line) == Aggregate(GradesOf(line))

Ends(task) ==
  /\ task.stage = "ends" /\ GoesOn(task)
  /\ phase' = "GRADED" /\ grading' = FALSE
  /\ tasks' = tasks \ {task}
  /\ UNCHANGED <<generation, prompted, open, ply, steps, submission, attemptId, moving,
                 drawn, unresolved>>
  /\ completions' = Append(completions, Completion("GRADED", LineGrade(steps)))

\* reveal: never while a move is presented or graded.
Reveal ==
  /\ prompted /\ phase \in {"READY", "AWAITING_MOVE", "UNRESOLVED"}
  /\ ~grading /\ (moving => phase = "UNRESOLVED")
  /\ DrawId
  /\ moving' = TRUE /\ phase' = "REVEALED"
  /\ completions' = Append(completions, Completion("REVEALED", "none"))
  /\ UNCHANGED <<generation, prompted, open, ply, steps, submission, grading, tasks,
                 unresolved>>

SessionNext ==
  \/ \E isOpen \in BOOLEAN : Activate(isOpen)
  \/ Clear \/ Retry \/ Reveal
  \/ \E move \in Moves(ply) : Submit(move)
  \/ \E task \in tasks :
       \/ Drop(task) \/ Presented(task) \/ Unresolved(task) \/ Replies(task)
       \/ Awaits(task) \/ Ends(task)
       \/ \E grade \in Grades : Found(task, grade)

SessionSpec == SessionInit /\ [][SessionNext]_sessionVars

-----------------------------------------------------------------------------
\* A position is completed at most once, and an attempt id names one line: the
\* service refuses a second line under the id of the first.
CompletesOnce ==
  \A i, j \in DOMAIN completions :
    i # j => completions[i].of # completions[j].of /\ completions[i].id # completions[j].id

\* The service records, with the grade that was shown, every line of a closed
\* tree that does not stop in front of a reply that ends the game.
ShownIsRecorded ==
  \A i \in DOMAIN completions :
    LET c == completions[i] IN
    ~c.open => \/ Canonical(c)
               \/ c.steps # <<>> /\ Last(c.steps).follow = "replyEnds"

\* What the documentation says: every graded line of a trainable position is
\* recorded.
EveryLineIsRecorded ==
  \A i \in DOMAIN completions : ~completions[i].open => Canonical(completions[i])

\* What is recorded of a solved position (usePracticeSession): once, and as it was graded.
SessionHolds == CompletesOnce /\ ShownIsRecorded
=============================================================================
