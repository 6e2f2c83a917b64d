------------------------------- MODULE CoachGame -------------------------------
(***************************************************************************)
(* A game against the coach in one tab (components/coach/CoachGame.tsx) and *)
(* its checkpoints on the device (lib/coach/sessionStore.ts).               *)
(*                                                                          *)
(* Every asynchronous step of a turn carries the generation in which it     *)
(* began.  The operations on the store of an owner are served in order.     *)
(* Colours are equal but for who moves first, the game is over after        *)
(* MaxPlies moves, and what the engines answer is not determined.           *)
(***************************************************************************)
EXTENDS Integers, Sequences, FiniteSets

CONSTANTS Moves, MaxPlies,
          MaxSessions,    \* games begun
          MaxFailures,    \* of an engine
          MaxWaiting,     \* operations that wait for the store when one is added
          MaxReloads,     \* pages closed, and opened again
          MaxLost         \* answers of the server lost

VARIABLES
  phase,
  game,         \* sessionKeyRef, userColorRef, movesRef
  mind,         \* baseline, pendingDecisionRef and mistake
  generation,   \* generationRef
  judge,        \* the status of the engine
  turns,        \* asynchronous steps under way
  lastSnapshot, resumable,
  debounced,    \* the snapshot that the timer is to save
  storeQueue,   \* operations on the store
  onDevice,     \* the stored snapshot
  saveStatus, saving, accepted,   \* completedGameStatus; games sent to, and kept by, the server
  owed,         \* history: the game that is to be found on the device
  gamesBegun, faults

coachVars == <<phase, game, mind, generation, judge, turns, lastSnapshot, resumable, debounced,
               storeQueue, onDevice, saveStatus, saving, accepted, owed, gamesBegun, faults>>

NoLine == <<"-">>
NoMind == [baseline |-> NoLine, pending |-> NoLine, mistake |-> NoLine]
NoGame == [session |-> 0, first |-> "player", line |-> <<>>]
Snapshot(p, g, m) == [phase |-> IF p = "analysis" THEN "mistake" ELSE p, game |-> g, mind |-> m]
NoSnapshot == Snapshot("none", NoGame, NoMind)
NotDebounced == [of |-> NoSnapshot, generation |-> 0]

Before(line) == SubSeq(line, 1, Len(line) - 1)
LineOver(line) == Len(line) = MaxPlies
UsersTurn(g) == (Len(g.line) % 2 = 0) = (g.first = "player")

Resumables == {"preparing", "player", "checking", "confirming", "bot", "mistake"}
Busy == {"starting", "preparing", "checking", "confirming", "bot", "recovering"}
Active == Resumables \cup {"starting", "analysis", "gameover", "recovering"}

Transitions ==
  [setup |-> {"starting", "recovering", "error"},
   starting |-> {"preparing", "bot", "gameover", "error", "setup"},
   preparing |-> {"player", "gameover", "error", "setup"},
   player |-> {"checking", "gameover", "error", "setup"},
   checking |-> {"confirming", "bot", "mistake", "gameover", "error", "setup"},
   confirming |-> {"bot", "mistake", "gameover", "error", "setup"},
   bot |-> {"preparing", "gameover", "error", "setup"},
   mistake |-> {"player", "analysis", "bot", "gameover", "error", "setup"},
   analysis |-> {"mistake", "error", "setup"},
   gameover |-> {"starting", "setup"},
   recovering |-> {"preparing", "checking", "bot", "mistake", "gameover", "error", "setup"},
   error |-> {"recovering", "setup"}]

CanTransition(from, to) ==
  from = to \/ (to = "error" /\ from \in Active) \/ to \in Transitions[from]

-----------------------------------------------------------------------------
\* Checkpoints

\* sanitizeCoachSessionSnapshot: what may be stored, and resumed.
Sane(s) ==
  /\ s.phase \in Resumables \cup {"gameover"}
  /\ (s.phase = "gameover") = LineOver(s.game.line)
  /\ s.mind.baseline \in {NoLine, s.game.line}
  /\ s.mind.mistake \in {NoLine, s.game.line}
  /\ s.phase \in {"player", "preparing"} => UsersTurn(s.game)
  /\ s.phase \in {"bot", "checking", "confirming", "mistake"} => ~UsersTurn(s.game)
  /\ s.phase \in {"checking", "confirming"} => s.mind.pending # NoLine
  /\ s.phase = "mistake" => s.mind.mistake # NoLine

Sanitized(s) ==
  IF s.mind.pending # NoLine /\ (s.game.line = <<>> \/ s.mind.pending # Before(s.game.line))
  THEN [s EXCEPT !.mind.pending = NoLine] ELSE s

\* enqueueOwnerOperation
Enqueued(ops) == storeQueue \o ops

\* Who awaits an operation: a turn that is to become the player's, a game that
\* is to start, a game that was saved, or nobody.
Saves(s, await, g) ==
  IF Sane(Sanitized(s))
  THEN <<[op |-> "save", of |-> Sanitized(s), await |-> await, generation |-> g]>> ELSE <<>>
Clears(await, g) == <<[op |-> "clear", of |-> NoSnapshot, await |-> await, generation |-> g]>>

\* The effect that keeps the last snapshot, and saves it 80 ms later.
Shown(p, g, m) == <<p, g.line, [m EXCEPT !.pending = NoLine]>>

KeepsSnapshot(last) ==
  IF Shown(phase, game, mind)' = Shown(phase, game, mind)
  THEN lastSnapshot' = last /\ UNCHANGED debounced
  ELSE IF phase' \in Resumables \cup {"analysis", "gameover"}
  THEN /\ lastSnapshot' = Snapshot(phase, game, mind)'
       /\ debounced' = [of |-> Snapshot(phase, game, mind), generation |-> generation]'
  ELSE lastSnapshot' = last /\ debounced' = NotDebounced

Debounce ==
  /\ debounced # NotDebounced /\ Len(storeQueue) <= MaxWaiting
  /\ debounced' = NotDebounced
  /\ storeQueue' = IF debounced.generation = generation /\ debounced.of.game.session = game.session
                   THEN Enqueued(Saves(debounced.of, "nobody", generation)) ELSE storeQueue
  /\ UNCHANGED <<phase, game, mind, generation, judge, turns, lastSnapshot, resumable, onDevice,
                 saveStatus, saving, accepted, owed, gamesBegun, faults>>

-----------------------------------------------------------------------------
\* A turn

\* A search of the coach's own engine ends when the game is left (cancelSearch).
NotCancelled == {t \in turns : t.kind \notin {"prepare", "check", "confirm"}}

Turn(kind, g, line) == [kind |-> kind, generation |-> g, line |-> line]

\* Mutant: a step goes on after the game it belongs to was left.
AnyTurn(t) == TRUE

IsCurrent(t) == t.generation = generation

\* preparePlayerTurn, up to the analysis that it waits for.
PreparesPlayer(rest, m, g, line) ==
  IF LineOver(line)
  THEN phase' = "gameover" /\ mind' = [m EXCEPT !.baseline = NoLine] /\ turns' = rest
  ELSE phase' = "preparing" /\ mind' = m /\ turns' = rest \cup {Turn("prepare", g, line)}

\* playOpponentTurn, up to the choice that it waits for.
PlaysOpponent(rest, m, g, line) ==
  phase' = "bot" /\ mind' = m /\ turns' = rest \cup {Turn("bot", g, line)}

FinishesOr(rest, m, g, line) ==
  IF LineOver(line) THEN PreparesPlayer(rest, m, g, line)
  ELSE PlaysOpponent(rest, [m EXCEPT !.baseline = NoLine], g, line)

TurnUnchanged == <<generation, resumable, onDevice, saveStatus, saving, accepted, owed, gamesBegun>>

Superseded ==
  \E t \in turns :
    /\ ~IsCurrent(t)
    /\ turns' = turns \ {t}
    /\ UNCHANGED <<phase, game, mind, judge, lastSnapshot, debounced, storeQueue, faults>>
    /\ UNCHANGED TurnUnchanged

\* The checkpoint is stored before the player may move.
Prepared ==
  \E t \in turns :
    /\ t.kind = "prepare" /\ IsCurrent(t)
    /\ turns' = turns \ {t}
    /\ LET s == Snapshot("player", game, [NoMind EXCEPT !.baseline = t.line]) IN
       /\ lastSnapshot' = s
       /\ storeQueue' = Enqueued(Saves(s, "player", t.generation))
    /\ UNCHANGED <<phase, game, mind, judge, debounced, faults>>
    /\ UNCHANGED TurnUnchanged

BotMoves ==
  \E t \in turns, m \in Moves :
    /\ t.kind = "bot" /\ IsCurrent(t)
    /\ ~LineOver(game.line)
    /\ game' = [game EXCEPT !.line = Append(@, m)]
    /\ PreparesPlayer(turns \ {t}, mind, t.generation, game'.line)
    /\ UNCHANGED <<judge, storeQueue, faults>>
    /\ UNCHANGED TurnUnchanged
    /\ KeepsSnapshot(lastSnapshot)

\* A first pass is confirmed, unless it is far from the threshold.
Confirm ==
  \E t \in turns :
    /\ t.kind = "check" /\ IsCurrent(t)
    /\ phase' = "confirming"
    /\ turns' = (turns \ {t}) \cup {[t EXCEPT !.kind = "confirm"]}
    /\ UNCHANGED <<game, mind, judge, storeQueue, faults>>
    /\ UNCHANGED TurnUnchanged
    /\ KeepsSnapshot(lastSnapshot)

Intervene ==
  \E t \in turns :
    /\ t.kind = "confirm" /\ IsCurrent(t)
    /\ turns' = turns \ {t}
    /\ phase' = "mistake"
    /\ mind' = [NoMind EXCEPT !.mistake = t.line]
    /\ UNCHANGED <<game, judge, storeQueue, faults>>
    /\ UNCHANGED TurnUnchanged
    /\ KeepsSnapshot(lastSnapshot)

Approve ==
  \E t \in turns :
    /\ t.kind \in {"check", "confirm"} /\ IsCurrent(t)
    /\ FinishesOr(turns \ {t}, [mind EXCEPT !.pending = NoLine], t.generation, t.line)
    /\ UNCHANGED <<game, judge, storeQueue, faults>>
    /\ UNCHANGED TurnUnchanged
    /\ KeepsSnapshot(lastSnapshot)

AfterFailure(t) == "error"

\* failEngine
OpponentOrJudgeFails ==
  \E t \in turns :
    /\ t.kind \notin {"resume", "reload"} /\ IsCurrent(t)
    /\ faults.engine < MaxFailures /\ faults' = [faults EXCEPT !.engine = @ + 1]
    /\ turns' = turns \ {t}
    /\ phase' = AfterFailure(t)
    /\ judge' \in {"error", judge}      \* the coach's own engine, or the opponent's
    /\ UNCHANGED <<game, mind, storeQueue>>
    /\ UNCHANGED TurnUnchanged
    /\ KeepsSnapshot(lastSnapshot)

-----------------------------------------------------------------------------
\* The player

StartGame(first) ==
  /\ phase \in {"setup", "gameover"} /\ judge = "ready"
  /\ gamesBegun < MaxSessions /\ gamesBegun' = gamesBegun + 1
  /\ generation' = generation + 1
  /\ game' = [session |-> gamesBegun', first |-> first, line |-> <<>>]
  /\ mind' = NoMind
  /\ phase' = "starting"
  /\ resumable' = NoSnapshot
  /\ storeQueue' = Enqueued(Clears("start", generation'))
  /\ saveStatus' = "idle" /\ owed' = 0
  /\ turns' = NotCancelled
  /\ UNCHANGED <<judge, onDevice, saving, accepted, faults>>
  /\ KeepsSnapshot(NoSnapshot)

CommitMove(m) ==
  /\ phase = "player" /\ UsersTurn(game) /\ mind.baseline # NoLine
  /\ Len(storeQueue) <= MaxWaiting
  /\ game' = [game EXCEPT !.line = Append(@, m)]
  /\ mind' = [mind EXCEPT !.baseline = NoLine, !.pending = game.line]
  /\ phase' = "checking"
  /\ turns' = turns \cup {Turn("check", generation, game'.line)}
  /\ UNCHANGED <<judge, faults>>
  /\ UNCHANGED TurnUnchanged
  /\ storeQueue' = Enqueued(Saves(Snapshot("checking", game', mind'), "nobody", generation))
  /\ KeepsSnapshot(lastSnapshot)

RetryMistake ==
  /\ phase = "mistake"
  /\ game' = [game EXCEPT !.line = Before(@)]
  /\ mind' = [NoMind EXCEPT !.baseline = game'.line]
  /\ phase' = "player"
  /\ UNCHANGED <<judge, turns, storeQueue, faults>>
  /\ UNCHANGED TurnUnchanged
  /\ KeepsSnapshot(lastSnapshot)

ContinueAfterMistake ==
  /\ phase = "mistake"
  /\ FinishesOr(turns, [mind EXCEPT !.mistake = NoLine], generation, game.line)
  /\ UNCHANGED <<game, judge, storeQueue, faults>>
  /\ UNCHANGED TurnUnchanged
  /\ KeepsSnapshot(lastSnapshot)

AnalysePosition ==
  /\ \/ phase = "mistake" /\ phase' = "analysis"
     \/ phase = "analysis" /\ phase' = "mistake"
  /\ UNCHANGED <<game, mind, judge, turns, storeQueue, faults>>
  /\ UNCHANGED TurnUnchanged
  /\ KeepsSnapshot(lastSnapshot)

\* returnToSetup: the game is given up.
ReturnToSetup ==
  /\ phase # "setup"
  /\ generation' = generation + 1
  /\ phase' = "setup"
  /\ judge' = IF phase = "error" THEN "idle" ELSE judge
  /\ mind' = NoMind
  /\ resumable' = NoSnapshot
  /\ storeQueue' = Enqueued(Clears("nobody", generation'))
  /\ saveStatus' = "idle" /\ owed' = 0
  /\ turns' = NotCancelled
  /\ UNCHANGED <<game, onDevice, saving, accepted, gamesBegun, faults>>
  /\ KeepsSnapshot(NoSnapshot)

\* returnToSetupKeepingSession
ReturnLater ==
  /\ phase = "error"
  /\ generation' = generation + 1
  /\ phase' = "setup" /\ judge' = "idle"
  /\ resumable' = lastSnapshot
  /\ turns' = NotCancelled
  /\ UNCHANGED <<game, mind, storeQueue, onDevice, saveStatus, saving, accepted, owed, gamesBegun, faults>>
  /\ KeepsSnapshot(lastSnapshot)

DiscardSession ==
  /\ phase = "setup" /\ resumable # NoSnapshot
  /\ resumable' = NoSnapshot
  /\ storeQueue' = Enqueued(Clears("nobody", generation))
  /\ owed' = 0
  /\ UNCHANGED <<phase, game, mind, generation, judge, turns, lastSnapshot, debounced, onDevice,
                 saveStatus, saving, accepted, gamesBegun, faults>>

-----------------------------------------------------------------------------
\* A game that goes on where it was left

\* resumeCoachSession, up to the engine that it waits for.
Resumes(s, rest) ==
  /\ generation' = generation + 1
  /\ game' = s.game /\ mind' = s.mind
  /\ resumable' = NoSnapshot
  /\ IF s.phase = "gameover"
     THEN /\ phase' = "gameover" /\ judge' = "idle" /\ turns' = rest
          /\ saveStatus' = "idle"
     ELSE /\ phase' = "recovering" /\ judge' = "loading"
          /\ turns' = rest \cup {Turn("resume", generation', s.game.line)}
          /\ UNCHANGED saveStatus
  /\ UNCHANGED <<storeQueue, onDevice, saving, accepted, owed, gamesBegun, faults>>
  /\ KeepsSnapshot(s)

ResumeSession ==
  /\ phase = "setup" /\ resumable # NoSnapshot
  /\ Resumes(resumable, NotCancelled)

\* recoverEngine; an opponent of its own is loaded first.
RecoverEngine ==
  LET s == IF lastSnapshot # NoSnapshot THEN lastSnapshot ELSE resumable IN
  /\ phase = "error" /\ s # NoSnapshot
  /\ \/ Resumes(s, NotCancelled)
     \/ /\ phase' = "recovering" /\ judge' = "idle"
        /\ turns' = turns \cup {Turn("reload", generation, s.game.line)}
        /\ UNCHANGED <<game, mind, generation, resumable, storeQueue, onDevice, saveStatus, saving,
                       accepted, owed, gamesBegun, faults>>
        /\ KeepsSnapshot(lastSnapshot)

OpponentLoaded ==
  LET s == IF lastSnapshot # NoSnapshot THEN lastSnapshot ELSE resumable IN
  \E t \in turns :
    /\ t.kind = "reload" /\ IsCurrent(t)
    /\ \/ Resumes(s, turns \ {t})
       \/ /\ faults.engine < MaxFailures /\ faults' = [faults EXCEPT !.engine = @ + 1]
          /\ phase' = "error" /\ turns' = turns \ {t}
          /\ UNCHANGED <<game, mind, judge, storeQueue>>
          /\ UNCHANGED TurnUnchanged
          /\ KeepsSnapshot(lastSnapshot)

WarmUp ==
  /\ \/ phase = "setup" /\ judge \in {"idle", "error"}
     \/ phase = "gameover" /\ judge # "ready"
  /\ judge' = "loading"
  /\ UNCHANGED <<phase, game, mind, turns, lastSnapshot, debounced, storeQueue, faults>>
  /\ UNCHANGED TurnUnchanged

Resuming == {t \in turns : t.kind = "resume"}

PlaysOn(t, rest) ==
  CASE lastSnapshot.phase = "mistake" ->
         phase' = "mistake" /\ turns' = rest /\ UNCHANGED mind
    [] lastSnapshot.phase \in {"checking", "confirming"} /\ mind.pending # NoLine ->
         /\ phase' = "checking" /\ UNCHANGED mind
         /\ turns' = rest \cup {Turn("check", t.generation, t.line)}
    [] OTHER -> IF lastSnapshot.phase = "bot" \/ ~UsersTurn(game)
                THEN PlaysOpponent(rest, mind, t.generation, t.line)
                ELSE PreparesPlayer(rest, mind, t.generation, t.line)

JudgeReady ==
  /\ judge = "loading" /\ judge' = "ready"
  /\ UNCHANGED <<game, storeQueue, faults>>
  /\ UNCHANGED TurnUnchanged
  /\ IF \E t \in Resuming : IsCurrent(t)
     THEN \E t \in Resuming : IsCurrent(t) /\ PlaysOn(t, turns \ Resuming)
     ELSE turns' = turns \ Resuming /\ UNCHANGED <<phase, mind>>
  /\ KeepsSnapshot(lastSnapshot)

\* Who waits for the engine fails with it, though the game was left meanwhile.
JudgeFails ==
  /\ judge = "loading" /\ judge' = "error"
  /\ faults.engine < MaxFailures /\ faults' = [faults EXCEPT !.engine = @ + 1]
  /\ turns' = turns \ Resuming
  /\ phase' = IF Resuming = {} THEN phase ELSE "error"
  /\ UNCHANGED <<game, mind, storeQueue>>
  /\ UNCHANGED TurnUnchanged
  /\ KeepsSnapshot(lastSnapshot)

-----------------------------------------------------------------------------
\* The store, the server, and the page

SendGame ==
  /\ phase = "gameover" /\ saveStatus \in {"idle", "error"}
  /\ saveStatus' = "saving"
  /\ saving' = saving \cup {game.session}
  /\ UNCHANGED <<phase, game, mind, generation, judge, turns, lastSnapshot, resumable, debounced,
                 storeQueue, onDevice, accepted, owed, gamesBegun, faults>>

\* The answer to a game that was sent: it was kept, for the first time or
\* again, or the answer is lost, whether or not the game was kept.
GameAnswered(s) ==
  /\ s \in saving /\ saving' = saving \ {s}
  /\ accepted' \in {accepted, accepted \cup {s}}
  /\ \/ /\ accepted' # accepted \/ s \in accepted
        /\ lastSnapshot' = NoSnapshot /\ resumable' = NoSnapshot
        /\ storeQueue' = Enqueued(Clears("saved", generation))
        /\ UNCHANGED <<saveStatus, faults>>
     \/ /\ faults.lost < MaxLost /\ faults' = [faults EXCEPT !.lost = @ + 1]
        /\ saveStatus' = "error"
        /\ UNCHANGED <<lastSnapshot, resumable, storeQueue>>
  /\ owed' = IF owed \in accepted' THEN 0 ELSE owed
  /\ UNCHANGED <<phase, game, mind, generation, judge, turns, debounced, onDevice, gamesBegun>>

\* Once a game was saved its checkpoint is cleared, whichever game has it by
\* then: nothing is owed any more until the next turn of the player is stored.
StoreStep ==
  LET o == Head(storeQueue) IN
  /\ storeQueue # <<>> /\ storeQueue' = Tail(storeQueue)
  /\ onDevice' = o.of
  /\ CASE o.await = "player" /\ o.generation = generation ->
            /\ phase' = "player"
            /\ mind' = [mind EXCEPT !.baseline = o.of.game.line]
            /\ owed' = game.session
            /\ UNCHANGED <<turns, saveStatus>>
       [] o.await = "start" /\ o.generation = generation ->
            /\ IF game.first = "player"
               THEN PreparesPlayer(turns, mind, generation, game.line)
               ELSE PlaysOpponent(turns, mind, generation, game.line)
            /\ UNCHANGED <<owed, saveStatus>>
       [] OTHER ->
            /\ IF o.await = "saved" THEN saveStatus' = "saved" /\ owed' = 0 ELSE UNCHANGED <<saveStatus, owed>>
            /\ UNCHANGED <<phase, mind, turns>>
  /\ UNCHANGED <<game, generation, judge, resumable, saving, accepted, gamesBegun, faults>>
  /\ KeepsSnapshot(lastSnapshot)

\* The page is closed: what it had not stored is lost, and a game that it had
\* sent may arrive or not.  It is opened again.
Reload ==
  /\ faults.reloads < MaxReloads /\ faults' = [faults EXCEPT !.reloads = @ + 1]
  /\ accepted' \in {accepted \cup s : s \in SUBSET saving}
  /\ owed' = IF owed \in accepted' THEN 0 ELSE owed
  /\ phase' = "setup" /\ game' = NoGame /\ mind' = NoMind /\ generation' = 0
  /\ judge' = "idle" /\ turns' = {} /\ storeQueue' = <<>>
  /\ lastSnapshot' = NoSnapshot /\ debounced' = NotDebounced
  /\ resumable' = onDevice
  /\ saveStatus' = "idle" /\ saving' = {}
  /\ UNCHANGED <<onDevice, gamesBegun>>

CoachInit ==
  /\ phase = "setup" /\ game = NoGame /\ mind = NoMind /\ generation = 0
  /\ judge = "idle" /\ turns = {} /\ storeQueue = <<>>
  /\ lastSnapshot = NoSnapshot /\ resumable = NoSnapshot /\ debounced = NotDebounced
  /\ onDevice = NoSnapshot
  /\ saveStatus = "idle" /\ saving = {} /\ accepted = {}
  /\ owed = 0 /\ gamesBegun = 0
  /\ faults = [engine |-> 0, lost |-> 0, reloads |-> 0]

CoachNext ==
  \/ Superseded \/ Prepared \/ BotMoves \/ Confirm \/ Intervene \/ Approve \/ OpponentOrJudgeFails
  \/ \E first \in {"player", "bot"} : StartGame(first)
  \/ \E m \in Moves : CommitMove(m)
  \/ RetryMistake \/ ContinueAfterMistake \/ AnalysePosition
  \/ ReturnToSetup \/ ReturnLater \/ DiscardSession
  \/ ResumeSession \/ RecoverEngine \/ OpponentLoaded \/ WarmUp \/ JudgeReady \/ JudgeFails
  \/ SendGame \/ \E s \in saving : GameAnswered(s)
  \/ Debounce \/ StoreStep \/ Reload

-----------------------------------------------------------------------------
\* "The completed game stays saved on this device until the server accepts it
\* or you explicitly discard it", and so does one that is under way, from the
\* first turn of the player on: whatever is queued, replaced or interrupted,
\* the device holds that game and no other.  The code breaks this in one case,
\* and owed leaves out that one: a game begun while the one before was still
\* being saved loses its checkpoint when that save has ended.
KeptOnDevice == owed # 0 => onDevice.game.session = owed

\* In particular a finished game, once its checkpoint was written, stays until
\* the server has accepted it or the player has left it.
FinishedIsKept ==
  phase = "gameover" /\ storeQueue = <<>> /\ debounced = NotDebounced
    => game.session \in accepted \/ onDevice.game = game

\* What the coach knows of a decision is of the position on the board, and a
\* step of the turn under way is about that position: no answer of a game, or
\* of a line, that was left is played or judged in another.
DecisionsAreOwn ==
  /\ phase = "player" => mind.baseline = game.line
  /\ phase = "mistake" => mind.mistake = game.line
  /\ phase \in {"checking", "confirming"} => mind.pending = Before(game.line)
  /\ \A t \in turns : t.generation = generation /\ t.kind # "reload" => t.line = game.line

\* The game never waits for nobody: in a phase that the player cannot leave by
\* moving, a step of the present game is under way.
SomeoneWorks ==
  phase \in Busy =>
    \/ \E t \in turns : t.generation = generation
    \/ \E i \in DOMAIN storeQueue : storeQueue[i].generation = generation /\ storeQueue[i].await \in {"player", "start"}

\* assertCoachPhaseTransition never throws.  A finished game is resumed by way
\* of "recovering".
LegalPhases ==
  [][CanTransition(phase, phase')
       \/ (phase' = "gameover" /\ CanTransition(phase, "recovering"))]_phase

\* What CoachGame.tsx keeps of a game: it stays on the device, it is judged as itself, it never
\* waits for nobody, and its phases change as the state machine allows.
CoachHolds == [](KeptOnDevice /\ DecisionsAreOwn /\ SomeoneWorks) /\ LegalPhases
=============================================================================
