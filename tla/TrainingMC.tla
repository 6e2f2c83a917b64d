------------------------------- MODULE TrainingMC -------------------------------
(***************************************************************************)
(* Training on small instances: the pass over a game and the verification   *)
(* of a position of it, solving a position, the feed of positions, and the  *)
(* outbox of results, with two tabs and a queue of one entry, or one tab    *)
(* and a queue of two.  A behaviour is of one part.                         *)
(***************************************************************************)
EXTENDS TrainingExtraction, ContinuationVerifier, PracticeSession, PracticeFeed, PracticeRecords

VARIABLE part

GradingPolicy == [best |-> 0, strong |-> 50, success |-> 100]

Alone == INSTANCE PracticeRecords WITH Tabs <- {"tab"}, MaxQueue <- 2

MCInit ==
  /\ part \in {"game", "position", "session", "feed", "records", "alone"}
  /\ GameInit /\ TreeInit
  /\ part # "game" => forced = {} /\ breaksAt = 0 /\ landing
  /\ SessionInit /\ FeedInit
  /\ part # "feed" => feed.linked = {} /\ \A p \in Positions : position[p].review[1] = "none"
  /\ IF part = "alone" THEN Alone!RecordInit ELSE RecordInit

extractionVars == <<gameVars, treeVars>>
practiceVars == <<sessionVars, feedVars, recordVars>>

\* One disjunct for each part; the others do not move.
MCNext ==
  \/ part = "game" /\ GameNext /\ UNCHANGED <<part, treeVars, practiceVars>>
  \/ part = "position" /\ TreeNext /\ UNCHANGED <<part, gameVars, practiceVars>>
  \/ part = "session" /\ SessionNext /\ UNCHANGED <<part, extractionVars, feedVars, recordVars>>
  \/ part = "feed" /\ FeedNext /\ UNCHANGED <<part, extractionVars, sessionVars, recordVars>>
  \/ /\ \/ part = "records" /\ RecordNext
        \/ part = "alone" /\ Alone!RecordNext
     /\ UNCHANGED <<part, extractionVars, sessionVars, feedVars>>

MCSpec == MCInit /\ [][MCNext]_<<part, extractionVars, practiceVars>>

Symmetry == Permutations(Tabs) \cup Permutations(Hashes)
=============================================================================
