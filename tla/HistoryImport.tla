------------------------------ MODULE HistoryImport ------------------------------
(***************************************************************************)
(* The import of older games: pages of a source's history, read back in     *)
(* time and signed (lib/services/historyImport.ts, api/sync/history), and   *)
(* the dialog that saves their games in chunks and goes on to the next page *)
(* (components/sync/SyncGamesModal.tsx, lib/services/gameSync.ts).          *)
(*                                                                          *)
(* Two devices import one history, while the regular synchronisation adds   *)
(* games too.  Games are numbered from the newest to the oldest; some share *)
(* a time.                                                                  *)
(***************************************************************************)
EXTENDS Integers, Sequences, FiniteSets, FiniteSetsExt

CONSTANTS Devices,
          PlayedAt,        \* the time of each game, never increasing
          HistoryPageSize, \* HISTORY_PROVIDER_PAGE_SIZE
          RowLimit,        \* rows that fit HISTORY_SNAPSHOT_RESPONSE_LIMIT_BYTES
          ChunkSize,       \* GAME_BULK_CHUNK_SIZE
          ImportLimit,     \* HISTORY_IMPORT_LIMIT
          MaxSynced, MaxFailures,
          NoCursorLeft

\* Games are listed from the newest to the oldest.
ASSUME HistoryAssumption ==
  /\ PlayedAt \in Seq(Nat)
  /\ \A g, h \in DOMAIN PlayedAt : g <= h => PlayedAt[h] <= PlayedAt[g]
  /\ HistoryPageSize \in Nat \ {0} /\ RowLimit \in Nat /\ ChunkSize \in Nat /\ ImportLimit \in Nat
  /\ NoCursorLeft \notin [until : Nat, boundary : SUBSET DOMAIN PlayedAt]

VARIABLES
  library,    \* the games of the user
  createdBy,  \* those that the history import created
  createdCount,
  lease,      \* the device whose request holds the fetch lease, if any
  synced, failures,
  dialog,     \* the dialog of each device
  waived      \* games that the user was asked about and left

historyVars == <<library, createdBy, createdCount, lease, synced, failures, dialog, waived>>

Games == DOMAIN PlayedAt
Newest == Max({0} \cup {PlayedAt[g] : g \in Games})

\* The first n of a set of games: the newest of them.
Foremost(n, set) == {g \in set : Cardinality({h \in set : h < g}) < n}

Start == [until |-> Newest, boundary |-> {}]
Closed == [step |-> "config", cursor |-> NoCursorLeft, rows |-> {}, selected |-> {},
           saving |-> {}, allowance |-> 0, unsaved |-> 0, cut |-> FALSE]

-----------------------------------------------------------------------------
\* The provider's page: at most so many games, up to a time and with it, for
\* games of one time may lie on two pages.

RawPage(cursor) == Foremost(HistoryPageSize, {g \in Games : PlayedAt[g] <= cursor.until})
Complete(cursor) == Cardinality(RawPage(cursor)) < HistoryPageSize
Stalled(cursor) == ~Complete(cursor) /\ RawPage(cursor) \subseteq cursor.boundary
PageGames(cursor) == RawPage(cursor) \ cursor.boundary

\* Mutant: a page starts behind the time that the last one ended with.
BehindStrictly(cursor) ==
  [until |-> Min({PlayedAt[g] : g \in RawPage(cursor)}) - 1, boundary |-> {}]

\* The next page starts with the oldest time of this one, without its games.
Behind(cursor) ==
  LET oldest == Min({PlayedAt[g] : g \in RawPage(cursor)}) IN
  [until |-> oldest,
   boundary |-> {g \in RawPage(cursor) : PlayedAt[g] = oldest}
                  \cup (IF oldest = cursor.until THEN cursor.boundary ELSE {})]

Remaining == ImportLimit - createdCount

\* getHistoryImportSnapshot: what the library lacks of the page.
MissingOf(cursor) == PageGames(cursor) \ library

\* Its answer goes as far as the allowance and the size of an answer; a cut page
\* has no next one.
Snapshot(cursor, allowance) ==
  LET new == MissingOf(cursor)
      allowed == Foremost(allowance, new)
      rows == Foremost(RowLimit, allowed)
      cut == allowed # new \/ rows # allowed
  IN [rows |-> rows, cut |-> cut,
      next |-> IF cut \/ Complete(cursor) THEN NoCursorLeft ELSE Behind(cursor)]

-----------------------------------------------------------------------------
\* The dialog.

\* A request for a page reads the allowance, then takes the lease of the source.
FetchPage(d, cursor) ==
  /\ lease = {}
  /\ IF Remaining = 0
     THEN /\ dialog' = [dialog EXCEPT ![d] = [Closed EXCEPT !.step = "review", !.cut = TRUE]]
          /\ UNCHANGED lease
     ELSE /\ lease' = {d}
          /\ dialog' = [dialog EXCEPT ![d].step = "fetching", ![d].cursor = cursor,
                                      ![d].allowance = Remaining]
  /\ UNCHANGED <<library, createdBy, createdCount, synced, failures>>

Begins(d) ==
  /\ dialog[d].step = "config"
  /\ FetchPage(d, Start)
  /\ waived' = [waived EXCEPT ![d] = {}]

\* Games of the page that are not imported: none has been before an import.
UnsavedAtFirst(rows) == Cardinality(rows)

\* The page replaces the rows; the answer of a lost or failed request does not.
PageArrived(d) ==
  /\ dialog[d].step = "fetching" /\ lease = {d}
  /\ lease' = {}
  /\ ~Stalled(dialog[d].cursor)
  /\ LET page == Snapshot(dialog[d].cursor, dialog[d].allowance) IN
     dialog' = [dialog EXCEPT ![d] =
       [Closed EXCEPT !.step = "review", !.cursor = page.next, !.cut = page.cut,
                      !.rows = page.rows, !.selected = page.rows,
                      !.unsaved = UnsavedAtFirst(page.rows)]]
  /\ UNCHANGED <<library, createdBy, createdCount, synced, failures, waived>>

\* A traversal that failed is where it was; it may start over.
FetchFails(d) ==
  /\ dialog[d].step = "fetching" /\ lease = {d}
  /\ failures < MaxFailures \/ Stalled(dialog[d].cursor)
  /\ failures' = IF failures < MaxFailures THEN failures + 1 ELSE failures
  /\ lease' = {}
  /\ dialog' = [dialog EXCEPT ![d] = Closed]
  /\ UNCHANGED <<library, createdBy, createdCount, synced, waived>>

Selects(d, rows) ==
  /\ dialog[d].step = "review" /\ rows # dialog[d].selected
  /\ dialog' = [dialog EXCEPT ![d].selected = rows]
  /\ UNCHANGED <<library, createdBy, createdCount, lease, synced, failures, waived>>

SaveStarts(d) ==
  /\ dialog[d].step = "review" /\ dialog[d].selected # {}
  /\ dialog' = [dialog EXCEPT ![d].step = "saving", ![d].saving = dialog[d].selected,
                              ![d].unsaved = Cardinality(dialog[d].rows \ dialog[d].selected)]
  /\ UNCHANGED <<library, createdBy, createdCount, lease, synced, failures, waived>>

\* The allowance is spent on the games that the import has created.
Counts(chunk, created) == created

\* importHistoricalGames: one serializable transaction under the lock of the
\* source.  What it creates counts; what is over the limit is refused.
ImportChunk(d) ==
  /\ dialog[d].step = "saving" /\ dialog[d].saving # {}
  /\ LET chunk == Foremost(ChunkSize, dialog[d].saving)
         new == chunk \ library
         created == Foremost(Remaining, new)
     IN /\ library' = library \cup created
        /\ createdBy' = createdBy \cup created
        /\ createdCount' = createdCount + Cardinality(Counts(chunk, created))
        /\ \/ /\ dialog' = [dialog EXCEPT ![d].saving = @ \ chunk,
                                          ![d].unsaved = @ + Cardinality(new \ created)]
              /\ UNCHANGED failures
           \/ /\ failures < MaxFailures
              /\ failures' = failures + 1
              /\ dialog' = [dialog EXCEPT ![d].step = "review",
                                          ![d].unsaved = Cardinality(dialog[d].rows)]
  /\ UNCHANGED <<lease, synced, waived>>

\* A chunk's request or its tickets are refused before anything is written.
ChunkFails(d) ==
  /\ dialog[d].step = "saving" /\ dialog[d].saving # {}
  /\ failures < MaxFailures
  /\ failures' = failures + 1
  /\ \/ dialog' = [dialog EXCEPT ![d].step = "review", ![d].unsaved = Cardinality(dialog[d].rows)]
     \/ LET chunk == Foremost(ChunkSize, dialog[d].saving) IN
        dialog' = [dialog EXCEPT ![d].saving = @ \ chunk, ![d].unsaved = @ + Cardinality(chunk)]
  /\ UNCHANGED <<library, createdBy, createdCount, lease, synced, waived>>

SaveEnds(d) ==
  /\ dialog[d].step = "saving" /\ dialog[d].saving = {}
  /\ dialog' = [dialog EXCEPT ![d].step = "done"]
  /\ UNCHANGED <<library, createdBy, createdCount, lease, synced, failures, waived>>

\* The user goes on; with games that are not imported, only after being asked.
GoesBack(d) ==
  /\ dialog[d].cursor # NoCursorLeft
  /\ dialog[d].step = "done" \/ (dialog[d].step = "review" /\ dialog[d].selected = {})
  /\ waived' = [waived EXCEPT ![d] = IF dialog[d].unsaved > 0 THEN @ \cup dialog[d].rows ELSE @]
  /\ FetchPage(d, dialog[d].cursor)

Restarts(d) ==
  /\ dialog[d].step \in {"review", "done"}
  /\ dialog' = [dialog EXCEPT ![d] = Closed]
  /\ UNCHANGED <<library, createdBy, createdCount, lease, synced, failures, waived>>

\* The regular synchronisation adds a game.
Synchronises(g) ==
  /\ synced < MaxSynced /\ g \notin library
  /\ synced' = synced + 1
  /\ library' = library \cup {g}
  /\ UNCHANGED <<createdBy, createdCount, lease, failures, dialog, waived>>

HistoryInit ==
  /\ library = {} /\ createdBy = {} /\ createdCount = 0
  /\ lease = {} /\ synced = 0 /\ failures = 0
  /\ dialog = [d \in Devices |-> Closed]
  /\ waived = [d \in Devices |-> {}]

HistoryNext ==
  \/ \E d \in Devices :
       \/ Begins(d) \/ PageArrived(d) \/ FetchFails(d) \/ SaveStarts(d) \/ ImportChunk(d)
       \/ ChunkFails(d) \/ SaveEnds(d) \/ GoesBack(d) \/ Restarts(d)
       \/ \E rows \in SUBSET dialog[d].rows : Selects(d, rows)
  \/ \E g \in Games : Synchronises(g)

HistorySpec == HistoryInit /\ [][HistoryNext]_historyVars

-----------------------------------------------------------------------------
\* The allowance of a source is what its imports have created, from whatever
\* devices and whatever the synchronisation added meanwhile.
AllowanceIsTrue == createdCount = Cardinality(createdBy) /\ createdCount <= ImportLimit

\* A traversal that has come to the end of the history has passed no game: each
\* is in the library, on the page, or was left by a user who was asked.
HistoryIsComplete ==
  \A d \in Devices :
    (dialog[d].step \in {"review", "done"} /\ dialog[d].cursor = NoCursorLeft /\ ~dialog[d].cut)
      => Games \subseteq library \cup dialog[d].rows \cup waived[d]

\* What historyImport.ts and its dialog keep of an import: the allowance, and every game.
HistoryHolds == AllowanceIsTrue /\ HistoryIsComplete
=============================================================================
