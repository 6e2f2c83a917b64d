----------------------------- MODULE AnalysisWorkspace -----------------------------
(***************************************************************************)
(* The analysis of a position after it was practised or played: the tree of *)
(* moves (lib/training/analysisTree.ts), the draft of it that the device    *)
(* keeps (analysisDraftStore.ts), and the live engine beside it             *)
(* (useStockfishLiveMultiPvAnalysis.ts), in TrainingAnalysisWorkspace.tsx.  *)
(*                                                                          *)
(* A position is the path of moves to it, and every move of TreeMoves is    *)
(* legal for MaxLine plies.  Promotion dialogs, squares and the panels but  *)
(* the engine's are left out, and drafts do not grow old.  The browser's    *)
(* database carries transactions out in the order they were asked for.      *)
(***************************************************************************)
EXTENDS Integers, SequencesExt

CONSTANTS
  TreeMoves,
  SourceLine, GameMove, BestLine,    \* of every position that is analysed
  MaxNodes,                          \* TRAINING_ANALYSIS_TREE_MAX_NODES
  MaxLine,
  Prompts,                           \* positions whose drafts are kept
  MaxDrafts,
  MaxTreeEdits, MaxOpened, MaxDraftFaults, MaxEngineCalls

VARIABLES
  workspace,             \* the workspace that is open
  draftSaves, drafts,    \* saves on their way, and the store, the newest draft first
  left,                  \* history: the tree it was closed with after it said it was saved
  live,                  \* the live engine
  treeEdits, opened, draftFaults, engineCalls

workspaceVars == <<workspace, draftSaves, drafts, left, live, treeEdits, opened, draftFaults, engineCalls>>

RootId == 0
NoNode == -1
NoTree == [nodes |-> <<>>]
NoWorkspace == [prompt |-> "none"]
NoStream == [at |-> NoNode]

-----------------------------------------------------------------------------
(* The tree *)

Children(t, n) == ToSet(t.nodes[n].children)

\* parentId, up to the root
PathTo(t, id) ==
  LET path[n \in DOMAIN t.nodes] ==
        IF t.nodes[n].parent = NoNode THEN <<n>> ELSE Append(path[t.nodes[n].parent], n)
  IN path[id]

\* `id` is the number of the move, which is known or the next one.
MoveAt(t, p, id, m, tag, main) ==
  [t EXCEPT !.nodes =
              (id :> IF id = t.next THEN [parent |-> p, move |-> m, children |-> <<>>, tags |-> {tag}]
                     ELSE [@[id] EXCEPT !.tags = @ \cup {tag}])
              @@ (p :> [@[p] EXCEPT !.children = IF main THEN <<id>> \o Remove(@, id)
                                                 ELSE IF id = t.next THEN Append(@, id) ELSE @])
              @@ @,
            !.selected = (p :> id) @@ @,
            !.next = IF id = @ THEN @ + 1 ELSE @]

\* mutableAddMove: the move, found or made, or NoNode.
AddMove(t, p, m, tag, main) ==
  LET known == {c \in Children(t, p) : t.nodes[c].move = m}
      id == CHOOSE n \in DOMAIN t.nodes \cup {t.next, NoNode} :
              IF known # {} THEN n \in known
              ELSE n = IF Cardinality(DOMAIN t.nodes) >= MaxNodes \/ Len(PathTo(t, p)) > MaxLine
                       THEN NoNode ELSE t.next
      at(n) == [id |-> n, tree |-> IF n = NoNode THEN t ELSE MoveAt(t, p, n, m, tag, main)]
  IN at(id)

\* addTaggedLine: ends at the first move that cannot be added; only its first move becomes the main line.
AddLine(t, p, moves, tag, main) ==
  LET add(a, n) == IF a.ended \/ n.id = NoNode THEN [a EXCEPT !.ended = TRUE]
                   ELSE [tree |-> n.tree, id |-> n.id, ended |-> FALSE]
  IN FoldLeft(LAMBDA a, m : add(a, AddMove(a.tree, a.id, m, tag, main /\ a.id = p)),
              [tree |-> t, id |-> p, ended |-> FALSE], moves)

SeedLines(played) ==
  << [moves |-> SourceLine, tag |-> "SOURCE_GAME", main |-> TRUE, anchor |-> "decision"],
     [moves |-> <<GameMove>>, tag |-> "GAME_MOVE", main |-> TRUE, anchor |-> "game"],
     [moves |-> <<played>>, tag |-> "YOUR_MOVE", main |-> FALSE, anchor |-> "submitted"],
     [moves |-> BestLine, tag |-> "BEST_LINE", main |-> FALSE, anchor |-> "best"] >>

\* createTrainingAnalysisTree, when `played` was submitted: the lines begin at the decision, which
\* the first of them reaches.
SeedTree(played) ==
  LET root == [nodes |-> RootId :> [parent |-> NoNode, move |-> "", children |-> <<>>, tags |-> {}],
               cursor |-> RootId, decision |-> RootId, submitted |-> NoNode, game |-> NoNode,
               best |-> NoNode, selected |-> <<>>, next |-> 1]
      anchored(line, n) == [n.tree EXCEPT ![line.anchor] = n.id]
      seeded(t) ==
        [t EXCEPT !.cursor = t.decision, !.nodes[t.decision].tags = @ \cup {"DECISION"},
           !.selected = [n \in {m \in DOMAIN t.nodes : t.nodes[m].children # <<>>} |-> Head(t.nodes[n].children)]]
  IN seeded(FoldLeft(LAMBDA t, line : anchored(line, AddLine(t, t.decision, line.moves, line.tag, line.main)),
                     root, SeedLines(played)))

\* withCursor: every ancestor remembers the way.
WithCursor(t, id) ==
  IF t.cursor = id THEN t
  ELSE LET path == PathTo(t, id)
       IN [t EXCEPT !.cursor = id,
             !.selected = [n \in {path[i] : i \in 1..(Len(path) - 1)} |->
                             path[CHOOSE i \in 2..Len(path) : path[i - 1] = n]] @@ @]

\* playTrainingAnalysisMove
Played(t, m) ==
  LET n == AddMove(t, t.cursor, m, "ANALYSIS", FALSE)
  IN IF n.id = NoNode THEN t ELSE [n.tree EXCEPT !.cursor = n.id]

Continuation(t, n) ==
  IF n \in DOMAIN t.selected /\ t.selected[n] \in Children(t, n) THEN t.selected[n]
  ELSE Head(t.nodes[n].children)

EndOfLine(t, id) ==
  LET end[n \in DOMAIN t.nodes] == IF t.nodes[n].children = <<>> THEN n ELSE end[Continuation(t, n)]
  IN end[id]

\* siblingTrainingAnalysisNode
Sibling(t, direction) ==
  LET p == t.nodes[t.cursor].parent
  IN IF p = NoNode THEN t
     ELSE LET siblings == t.nodes[p].children
              i == CHOOSE j \in DOMAIN siblings : siblings[j] = t.cursor
          IN WithCursor(t, siblings[((i - 1 + direction + Len(siblings)) % Len(siblings)) + 1])

\* The keys and buttons that move, and the anchors and moves that are clicked.
Navigations(t) ==
  {WithCursor(t, id) : id \in DOMAIN t.nodes \cap
     ({RootId, t.decision, t.submitted, t.game, t.best, EndOfLine(t, t.cursor), t.nodes[t.cursor].parent}
        \cup (IF t.nodes[t.cursor].children = <<>> THEN {} ELSE {Continuation(t, t.cursor)}))}
  \cup {Sibling(t, 1), Sibling(t, -1)}

\* promoteTrainingAnalysisVariation, of the move at the cursor
Promoted(t) ==
  LET p == t.nodes[t.cursor].parent
  IN IF p = NoNode THEN t
     ELSE IF Head(t.nodes[p].children) = t.cursor THEN t
     ELSE [t EXCEPT !.nodes[p].children = <<t.cursor>> \o Remove(@, t.cursor),
                    !.selected = (p :> t.cursor) @@ @]

\* deletableTrainingAnalysisNodeIds
Deletable(t, id) ==
  LET deletable[n \in DOMAIN t.nodes] ==
        /\ n # RootId /\ t.nodes[n].tags = {"ANALYSIS"}
        /\ \A c \in Children(t, n) : deletable[c]
  IN deletable[id]

\* deleteTrainingAnalysisVariation, of the move at the cursor
Deleted(t) ==
  LET gone == {n \in DOMAIN t.nodes : t.cursor \in ToSet(PathTo(t, n))}
      p == t.nodes[t.cursor].parent
      children == Remove(t.nodes[p].children, t.cursor)
      again == IF t.selected[p] # t.cursor THEN p :> t.selected[p]
               ELSE IF children # <<>> THEN p :> Head(children) ELSE <<>>
  IN IF ~Deletable(t, t.cursor) THEN t
     ELSE [t EXCEPT
             !.nodes = [n \in DOMAIN @ \ gone |-> IF n = p THEN [@[p] EXCEPT !.children = children] ELSE @[n]],
             !.cursor = p,
             !.selected = again @@ [n \in DOMAIN @ \ (gone \cup {p}) |-> @[n]]]

\* sanitizeTrainingAnalysisTree
Accepted(t) ==
  LET ids == DOMAIN t.nodes
      reach[k \in 0..Cardinality(ids)] ==
        IF k = 0 THEN {RootId} ELSE reach[k - 1] \cup UNION {Children(t, n) \cap ids : n \in reach[k - 1]}
      largest == CHOOSE n \in ids : \A m \in ids : m <= n
      accepted ==
        /\ Cardinality(ids) <= MaxNodes
        /\ {RootId, t.cursor, t.decision} \subseteq ids
        /\ {t.submitted, t.game, t.best} \subseteq ids \cup {NoNode}
        /\ t.nodes[RootId].parent = NoNode
        /\ \A n \in ids \ {RootId} :
             t.nodes[n].parent \in ids /\ n \in Children(t, t.nodes[n].parent) /\ t.nodes[n].move \in TreeMoves
        /\ \A n \in ids :
             /\ \A c \in Children(t, n) : c \in ids /\ t.nodes[c].parent = n
             /\ Cardinality(Children(t, n)) = Len(t.nodes[n].children)
        /\ reach[Cardinality(ids)] = ids
  IN IF ~accepted THEN NoTree
     ELSE [t EXCEPT !.selected = [n \in {m \in DOMAIN @ \cap ids : @[m] \in Children(t, m)} |-> @[n]],
                    !.next = IF largest + 1 > Cardinality(ids) THEN largest + 1 ELSE Cardinality(ids)]

-----------------------------------------------------------------------------
(* The page and its draft *)

Open == workspace # NoWorkspace
Workspace(prompt, tree) ==
  [prompt |-> prompt, seed |-> tree, tree |-> tree,
   ready |-> prompt \notin Prompts, status |-> IF prompt \in Prompts THEN "loading" ELSE "session",
   timer |-> FALSE]
EngineOff ==
  [client |-> FALSE, enabled |-> FALSE, multi |-> FALSE, threat |-> NoNode, stream |-> NoStream,
   running |-> FALSE, shown |-> NoStream]

WorkspaceInit ==
  /\ workspace = NoWorkspace /\ draftSaves = <<>> /\ drafts = <<>> /\ left = [p \in Prompts |-> NoTree]
  /\ live = EngineOff
  /\ treeEdits = 0 /\ opened = 0 /\ draftFaults = 0 /\ engineCalls = 0

DraftFault == draftFaults < MaxDraftFaults /\ draftFaults' = draftFaults + 1

\* The position that the engine is given.
EngineAt(tree, l) == [at |-> tree.cursor, threat |-> l.threat = tree.cursor, multi |-> l.multi]

\* startExternal: the stream before it ends.
StartLive(tree, l) == [l EXCEPT !.stream = EngineAt(tree, l), !.shown = NoStream]

\* The effect of what the engine depends on, when that changes.
Enabled(ready, l) == ready /\ l.enabled
Needs(tree, ready, l) == <<l.client, Enabled(ready, l), EngineAt(tree, l)>>
Follow(tree, ready, l) ==
  IF Needs(tree, ready, l) = Needs(workspace.tree, workspace.ready, live) THEN l
  ELSE IF Enabled(ready, l) /\ l.client THEN StartLive(tree, l) ELSE [l EXCEPT !.stream = NoStream]

\* A position that is opened is another workspace: its engine starts anew, as the answers to saves do.
Deaf(ws) == [i \in DOMAIN ws |-> [ws[i] EXCEPT !.heard = FALSE]]

OpenWorkspace(prompt, played) ==
  /\ ~Open /\ opened < MaxOpened /\ opened' = opened + 1
  /\ workspace' = Workspace(prompt, SeedTree(played))
  /\ left' = IF prompt \in Prompts THEN [left EXCEPT ![prompt] = NoTree] ELSE left
  /\ UNCHANGED <<draftSaves, drafts, live, treeEdits, draftFaults, engineCalls>>

\* The timer is cleared, and a save that was begun goes on.
CloseWorkspace ==
  /\ Open /\ workspace' = NoWorkspace /\ draftSaves' = Deaf(draftSaves) /\ live' = EngineOff
  /\ left' = IF workspace.status = "saved" THEN [left EXCEPT ![workspace.prompt] = workspace.tree] ELSE left
  /\ UNCHANGED <<drafts, treeEdits, opened, draftFaults, engineCalls>>

DraftOf(prompt) == SelectSeq(drafts, LAMBDA d : d.prompt = prompt)

\* loadTrainingAnalysisDraft: no draft, or none that could be read, is the same.
DraftLoaded ==
  /\ Open /\ ~workspace.ready /\ draftSaves = <<>>
  /\ \E read \in BOOLEAN :
       /\ IF read THEN UNCHANGED draftFaults ELSE DraftFault
       /\ LET stored == IF read THEN DraftOf(workspace.prompt) ELSE <<>>
              tree == IF stored = <<>> THEN NoTree ELSE Accepted(Head(stored).tree)
              t == IF tree = NoTree THEN workspace.tree ELSE tree
          IN /\ workspace' = [workspace EXCEPT !.tree = t, !.ready = TRUE, !.status = "saving", !.timer = TRUE]
             /\ live' = Follow(t, TRUE, live)
  /\ UNCHANGED <<draftSaves, drafts, left, treeEdits, opened, engineCalls>>

\* setTree and its effects; `says` is whether the workspace then says that it saves.
ShowTree(t, says) ==
  /\ treeEdits < MaxTreeEdits /\ treeEdits' = treeEdits + 1
  /\ LET changed == t # workspace.tree
         kept == workspace.ready /\ workspace.prompt \in Prompts
     IN /\ workspace' = [workspace EXCEPT !.tree = t, !.status = IF says THEN "saving" ELSE @,
                                !.timer = @ \/ (changed /\ kept)]
        /\ draftSaves' = IF changed THEN Deaf(draftSaves) ELSE draftSaves
  /\ UNCHANGED <<drafts, left, opened, draftFaults, engineCalls>>

Navigate ==
  /\ Open
  /\ \E t \in Navigations(workspace.tree) :
       ShowTree(t, workspace.ready) /\ live' = Follow(t, workspace.ready, [live EXCEPT !.threat = NoNode])

PlayMove(m) ==
  /\ Open /\ workspace.ready
  /\ LET t == Played(workspace.tree, m)
     IN t # workspace.tree /\ ShowTree(t, TRUE) /\ live' = Follow(t, workspace.ready, [live EXCEPT !.threat = NoNode])

PromoteVariation ==
  /\ Open /\ Promoted(workspace.tree) # workspace.tree
  /\ ShowTree(Promoted(workspace.tree), TRUE) /\ UNCHANGED live

DeleteVariation ==
  /\ Open /\ Deletable(workspace.tree, workspace.tree.cursor)
  /\ LET t == Deleted(workspace.tree)
     IN ShowTree(t, workspace.ready) /\ live' = Follow(t, workspace.ready, [live EXCEPT !.threat = NoNode])

ResetWorkspace ==
  /\ Open /\ \E n \in DOMAIN workspace.tree.nodes : workspace.tree.nodes[n].tags = {"ANALYSIS"}
  /\ ShowTree(workspace.seed, TRUE)
  /\ live' = Follow(workspace.seed, workspace.ready, [live EXCEPT !.threat = NoNode])

BeginSaveDraft ==
  /\ Open /\ workspace.timer /\ workspace' = [workspace EXCEPT !.timer = FALSE]
  /\ draftSaves' = Append(draftSaves, [prompt |-> workspace.prompt, tree |-> workspace.tree, heard |-> TRUE])
  /\ UNCHANGED <<drafts, left, live, treeEdits, opened, draftFaults, engineCalls>>

\* Mutant: the answer to an earlier save counts for the tree that has changed since.
AnyAnswer(w) == Open /\ w.prompt = workspace.prompt
HeardAnswer(w) == w.heard

\* saveTrainingAnalysisDraft: the newest drafts stay.
DraftSaved ==
  /\ draftSaves # <<>> /\ draftSaves' = Tail(draftSaves)
  /\ LET w == Head(draftSaves)
         others == SelectSeq(drafts, LAMBDA d : d.prompt # w.prompt)
         tell(status) == workspace' = IF HeardAnswer(w) THEN [workspace EXCEPT !.status = status] ELSE workspace
     IN \/ /\ drafts' = SubSeq(<<[prompt |-> w.prompt, tree |-> w.tree]>> \o others, 1,
                               IF Len(others) < MaxDrafts THEN Len(others) + 1 ELSE MaxDrafts)
           /\ tell("saved") /\ UNCHANGED draftFaults
        \/ tell("unavailable") /\ DraftFault /\ UNCHANGED drafts
  /\ UNCHANGED <<left, live, treeEdits, opened, engineCalls>>

-----------------------------------------------------------------------------
(* The live engine *)

Called == engineCalls < MaxEngineCalls /\ engineCalls' = engineCalls + 1

SetLive(l) ==
  /\ live' = l
  /\ UNCHANGED <<workspace, draftSaves, drafts, left, treeEdits, opened, draftFaults>>

\* selectPanel, and requestEngine, which may fail; a panel that is left pauses the engine.
SelectPanel(engine) ==
  /\ Open /\ Called
  /\ \E client \in IF engine THEN {TRUE, live.client} ELSE {live.client} :
       SetLive(Follow(workspace.tree, workspace.ready, [live EXCEPT !.enabled = engine, !.client = client]))

ToggleThreats ==
  /\ Open /\ workspace.ready /\ Called
  /\ LET on == live.threat # workspace.tree.cursor
         l == [live EXCEPT !.threat = IF on THEN workspace.tree.cursor ELSE NoNode, !.enabled = on \/ @]
     IN \E client \in IF on THEN {TRUE, live.client} ELSE {live.client} :
          SetLive(Follow(workspace.tree, workspace.ready, [l EXCEPT !.client = client]))

ChooseLines ==
  /\ Open /\ Called /\ SetLive(Follow(workspace.tree, workspace.ready, [live EXCEPT !.multi = ~@]))

\* The button: pause, or resume, or run again.
PauseOrResume ==
  /\ Open /\ Called
  /\ SetLive(IF live.running /\ Enabled(workspace.ready, live)
             THEN [live EXCEPT !.stream = NoStream, !.running = FALSE, !.enabled = FALSE]
             ELSE IF ~live.client THEN Follow(workspace.tree, workspace.ready, [live EXCEPT !.client = TRUE])
             ELSE IF live.enabled THEN [StartLive(workspace.tree, live) EXCEPT !.running = TRUE]
             ELSE Follow(workspace.tree, workspace.ready, [live EXCEPT !.enabled = TRUE]))

\* onUpdate, and onDone with the last update, and onError
StreamSpeaks ==
  /\ Open /\ live.stream # NoStream
  /\ \/ SetLive([live EXCEPT !.shown = live.stream, !.running = TRUE])
     \/ SetLive([live EXCEPT !.shown = live.stream, !.running = FALSE, !.stream = NoStream])
     \/ SetLive([live EXCEPT !.running = FALSE, !.stream = NoStream])
  /\ UNCHANGED engineCalls

WorkspaceNext ==
  \/ \E p \in Prompts \cup {"coach"}, m \in TreeMoves : OpenWorkspace(p, m)
  \/ CloseWorkspace \/ DraftLoaded
  \/ Navigate \/ PromoteVariation \/ DeleteVariation \/ ResetWorkspace
  \/ \E m \in TreeMoves : PlayMove(m)
  \/ BeginSaveDraft \/ DraftSaved
  \/ \E engine \in BOOLEAN : SelectPanel(engine)
  \/ ToggleThreats \/ ChooseLines \/ PauseOrResume \/ StreamSpeaks

-----------------------------------------------------------------------------
(* Properties *)

Same(t, u) == [t EXCEPT !.next = 0] = [u EXCEPT !.next = 0]

\* Whatever is done with a tree, the draft of it is accepted and is the tree; the moves of a
\* position are different, the next number is free, and the practised line is never deleted.
TreeIsSound ==
  Open => LET t == workspace.tree
          IN /\ Same(Accepted(t), t) /\ t.next \notin DOMAIN t.nodes
             /\ \A n \in DOMAIN t.nodes : \A c, d \in Children(t, n) :
                  t.nodes[c].move = t.nodes[d].move => c = d
             /\ \A tag \in {"SOURCE_GAME", "GAME_MOVE", "YOUR_MOVE", "BEST_LINE"} :
                  \E n \in DOMAIN t.nodes : tag \in t.nodes[n].tags

\* A workspace that says "Saved on this device" says it of the tree it shows.
SavedIsTrue ==
  Open => (workspace.status = "saved" =>
             \E i \in DOMAIN drafts : drafts[i].prompt = workspace.prompt /\ Same(drafts[i].tree, workspace.tree))

\* A workspace that was closed when it said so is restored as it was left, if its draft is among the newest.
RestoredAsLeft ==
  \A p \in Prompts : \A i \in DOMAIN drafts :
    left[p] # NoTree /\ drafts[i].prompt = p => Same(Accepted(drafts[i].tree), left[p])

\* "Analyzing" is said while the engine analyses, and what it says is of the position shown.
LiveIsTrue ==
  Open => (Enabled(workspace.ready, live) /\ live.client =>
    /\ live.running => live.stream # NoStream
    /\ {live.stream, live.shown} \subseteq {NoStream, EngineAt(workspace.tree, live)})

\* The analysis of a position is kept, and told as it is (TrainingAnalysisWorkspace.tsx).
WorkspaceHolds == TreeIsSound /\ SavedIsTrue /\ RestoredAsLeft /\ LiveIsTrue

=============================================================================
