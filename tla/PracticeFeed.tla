------------------------------ MODULE PracticeFeed ------------------------------
(***************************************************************************)
(* The practice feed: pages of due and new positions from the service       *)
(* (lib/training/practiceFeedQueries.ts, practiceScheduler.ts,              *)
(* readService.ts) and the buffer of the browser that asks for them         *)
(* (lib/hooks/usePracticeFeed.ts, lib/training/practiceFeedCoordinator.ts). *)
(*                                                                          *)
(* Positions are reviewed, re-analysed and archived while a feed is read.   *)
(* Keys are ordered by position: a review state by when it is due, a        *)
(* position by when it was created.                                         *)
(***************************************************************************)
EXTENDS Integers, Sequences, FiniteSets, FiniteSetsExt, SequencesExt

CONSTANTS LastPosition,  \* the positions are 1..LastPosition
          Major,         \* the positions that the narrower focus lets through
          SliceSize,     \* PRACTICE_SCAN_SLICE_SIZE
          MaxSlices,     \* PRACTICE_MAX_SCAN_SLICES
          PageLimit,     \* PRACTICE_FEED_BATCH_SIZE
          LowWater,      \* PRACTICE_FEED_LOW_WATER_MARK
          MaxChanges, MaxResets,
          NoCursor, NoPage

VARIABLES
  position,   \* what the database holds of each position
  changes,    \* how often it has changed
  touched,    \* the positions changed since the feed started
  promised,   \* the prompts that were due or new when it started
  feed,       \* the feed of the browser
  page,       \* the page request under way
  late        \* answers to requests that the browser gave up

feedVars == <<position, changes, touched, promised, feed, page, late>>
databaseVars == <<position, changes>>

Positions == 1..LastPosition
Revisions == 1..2
Focus == {"ALL", "MAJOR"}
Through(focus, p) == focus = "ALL" \/ p \in Major

-----------------------------------------------------------------------------
\* The scans.  A raw row is a review state or a position; it is a candidate
\* when it belongs to the current solution and passes the filters.

PositionsInOrder == [i \in Positions |-> i]
DueRowsInOrder == [i \in 1..(2 * LastPosition) |-> <<(i + 1) \div 2, 2 - (i % 2)>>]

RawDue(bucket) ==
  SelectSeq(DueRowsInOrder, LAMBDA row : position[row[1]].review[row[2]] = bucket)

RawNew == SelectSeq(PositionsInOrder, LAMBDA p : position[p].active)

DueCandidate(focus, row) ==
  /\ position[row[1]].active
  /\ position[row[1]].revision = row[2]
  /\ Through(focus, row[1])

NewCandidate(focus, p) ==
  /\ position[p].review[position[p].revision] = "none"
  /\ Through(focus, p)

After(rows, key, Less(_, _)) == SelectSeq(rows, LAMBDA row : Less(key, row))

DueLess(key, row) == key[1] < row[1] \/ (key[1] = row[1] /\ key[2] < row[2])
NewLess(key, row) == key < row

Beginning == [due |-> [bucket |-> "LAPSED", after |-> <<0, 0>>],
              fresh |-> [after |-> 0, exhausted |-> FALSE],
              pattern |-> 0]

NextBucket(bucket) == [bucket |-> IF bucket = "LAPSED" THEN "CLEAN" ELSE "DONE",
                       after |-> <<0, 0>>]

\* One slice of raw rows from the cursor, with the candidates it adds.
DueSlice(focus, take, scan) ==
  LET at == scan.through IN
  IF at.bucket = "DONE" \/ Len(scan.candidates) >= take THEN scan
  ELSE LET rest == After(RawDue(at.bucket), at.after, DueLess)
           rows == SubSeq(rest, 1, Min({SliceSize, Len(rest)}))
           found == SelectSeq(rows, LAMBDA row : DueCandidate(focus, row))
       IN [candidates |-> scan.candidates \o
             [i \in DOMAIN found |->
               [prompt |-> found[i], key |-> [bucket |-> at.bucket, after |-> found[i]]]],
           through |-> IF Len(rows) < SliceSize THEN NextBucket(at.bucket)
                       ELSE [bucket |-> at.bucket, after |-> rows[Len(rows)]]]

RECURSIVE DueSlices(_, _, _, _)
DueSlices(focus, take, scan, slices) ==
  IF slices = 0 THEN scan
  ELSE DueSlices(focus, take, DueSlice(focus, take, scan), slices - 1)

QueryDue(focus, cursor, take) ==
  DueSlices(focus, take, [candidates |-> <<>>, through |-> cursor], MaxSlices)

NewSlice(focus, take, scan) ==
  LET at == scan.through IN
  IF at.exhausted \/ Len(scan.candidates) >= take THEN scan
  ELSE LET rest == After(RawNew, at.after, NewLess)
           rows == SubSeq(rest, 1, Min({SliceSize, Len(rest)}))
           found == SelectSeq(rows, LAMBDA p : NewCandidate(focus, p))
       IN [candidates |-> scan.candidates \o
             [i \in DOMAIN found |->
               [prompt |-> <<found[i], position[found[i]].revision>>,
                key |-> [after |-> found[i], exhausted |-> FALSE]]],
           through |-> [after |-> IF rows = <<>> THEN at.after ELSE rows[Len(rows)],
                        exhausted |-> Len(rows) < SliceSize]]

RECURSIVE NewSlices(_, _, _, _)
NewSlices(focus, take, scan, slices) ==
  IF slices = 0 THEN scan
  ELSE NewSlices(focus, take, NewSlice(focus, take, scan), slices - 1)

QueryNew(focus, cursor, take) ==
  NewSlices(focus, take, [candidates |-> <<>>, through |-> cursor], MaxSlices)

\* The watermark passes hidden rows only behind the last candidate.
Consumed(scan, start, consumed) ==
  IF consumed >= Len(scan.candidates) THEN scan.through
  ELSE IF consumed = 0 THEN start
  ELSE scan.candidates[consumed].key

\* Two due positions, then a new one; the other stream when one is empty.
RECURSIVE InterleaveStreams(_, _, _)
InterleaveStreams(due, fresh, pick) ==
  LET dueLeft == pick.due < Len(due)
      newLeft == pick.new < Len(fresh)
      takesDue == dueLeft /\ (pick.pattern # 2 \/ ~newLeft)
  IN IF Len(pick.prompts) = PageLimit \/ (~dueLeft /\ ~newLeft) THEN pick
     ELSE InterleaveStreams(due, fresh,
            [pattern |-> (pick.pattern + 1) % 3,
             due |-> pick.due + (IF takesDue THEN 1 ELSE 0),
             new |-> pick.new + (IF takesDue THEN 0 ELSE 1),
             prompts |-> Append(pick.prompts,
               IF takesDue THEN due[pick.due + 1].prompt ELSE fresh[pick.new + 1].prompt)])

\* One page and the cursor behind it, or none when both streams are at their end.
ListFeed(focus, cursor) ==
  LET due == QueryDue(focus, cursor.due, PageLimit + 1)
      fresh == QueryNew(focus, cursor.fresh, PageLimit + 1)
      pick == InterleaveStreams(due.candidates, fresh.candidates,
                [pattern |-> cursor.pattern, due |-> 0, new |-> 0, prompts |-> <<>>])
      behind == [due |-> Consumed(due, cursor.due, pick.due),
                 fresh |-> Consumed(fresh, cursor.fresh, pick.new),
                 pattern |-> pick.pattern]
      more == behind.due.bucket # "DONE" \/ ~behind.fresh.exhausted
  IN [prompts |-> pick.prompts, next |-> IF more THEN behind ELSE NoCursor]

\* The prompts that a feed which starts now should come to.
Eligible(focus) ==
  {<<p, position[p].revision>> : p \in
     {q \in Positions : position[q].active /\ Through(focus, q)
                        /\ position[q].review[position[q].revision] # "later"}}

-----------------------------------------------------------------------------
\* The browser.

EmptyFeed(focus, resets) ==
  [focus |-> focus, resets |-> resets, started |-> FALSE, cursor |-> NoCursor,
   buffer |-> <<>>, seen |-> {}, shown |-> <<>>, advancing |-> TRUE, linked |-> {}]

Exhausted == feed.started /\ feed.cursor = NoCursor

Shows(f, prompt) == [f EXCEPT !.shown = Append(@, prompt), !.advancing = FALSE]

\* Positions that the feed has not seen, in the order of the page.
Unseen(f, prompts) == SelectSeq(prompts, LAMBDA prompt : prompt \notin f.seen)

\* A page is appended; a user who waits for it gets its first position.
AppendPage(f, answer) ==
  LET unseen == Unseen(f, answer.prompts)
      next == [f EXCEPT !.started = TRUE, !.cursor = answer.next,
                        !.seen = @ \cup Range(unseen), !.buffer = @ \o unseen]
  IN IF ~f.advancing THEN next
     ELSE IF next.buffer # <<>>
          THEN Shows([next EXCEPT !.buffer = Tail(@)], Head(next.buffer))
          ELSE [next EXCEPT !.advancing = answer.next # NoCursor]

Request == [focus |-> feed.focus, resets |-> feed.resets,
            cursor |-> IF feed.started THEN feed.cursor ELSE Beginning,
            answer |-> NoPage]

\* One page request at a time: one that the user waits for, the first of a feed
\* among them, or one ahead of an empty buffer.
RequestPage ==
  /\ page = NoPage /\ ~Exhausted
  /\ feed.advancing \/ (feed.started /\ Len(feed.buffer) <= LowWater)
  /\ page' = Request
  /\ UNCHANGED <<databaseVars, touched, promised, feed, late>>

\* The service reads one page.
ServePage ==
  /\ page # NoPage /\ page.answer = NoPage
  /\ page' = [page EXCEPT !.answer = ListFeed(page.focus, page.cursor)]
  /\ IF page.cursor = Beginning
     THEN promised' = Eligible(page.focus) /\ touched' = {}
     ELSE UNCHANGED <<promised, touched>>
  /\ UNCHANGED <<databaseVars, feed, late>>

PageArrives ==
  /\ page # NoPage /\ page.answer # NoPage
  /\ feed' = AppendPage(feed, page.answer)
  /\ page' = NoPage
  /\ UNCHANGED <<databaseVars, touched, promised, late>>

\* The request fails, or its cursor has expired: what is buffered stays.
PageFails ==
  /\ page # NoPage
  /\ page' = NoPage
  /\ feed' = [feed EXCEPT !.advancing = FALSE]
  /\ UNCHANGED <<databaseVars, touched, promised, late>>

\* Mutant: an answer is not compared with the generation of its request.
LateArrivesAnyway(answer) ==
  /\ answer \in late
  /\ late' = late \ {answer}
  /\ feed' = AppendPage(feed, answer.answer)
  /\ UNCHANGED <<databaseVars, touched, promised, page>>

\* The answer of a request that was given up: its generation is over.
LateArrives(answer) ==
  /\ answer \in late
  /\ late' = late \ {answer}
  /\ feed' = IF answer.resets = feed.resets THEN AppendPage(feed, answer.answer) ELSE feed
  /\ UNCHANGED <<databaseVars, touched, promised, page>>

\* The next position: buffered, or waited for, or none when all are done.
Advance ==
  /\ ~feed.advancing
  /\ feed' = IF feed.buffer # <<>>
             THEN Shows([feed EXCEPT !.buffer = Tail(@)], Head(feed.buffer))
             ELSE [feed EXCEPT !.advancing = ~Exhausted]
  /\ UNCHANGED <<databaseVars, touched, promised, page, late>>

\* A change of focus, or a retry, starts over in a new generation; the request
\* under way is aborted.
ResetFeed(focus) ==
  /\ feed.resets < MaxResets
  /\ feed' = EmptyFeed(focus, feed.resets + 1)
  /\ late' = IF page # NoPage /\ page.answer # NoPage THEN late \cup {page} ELSE late
  /\ page' = NoPage
  /\ promised' = {} /\ touched' = {}
  /\ UNCHANGED databaseVars

-----------------------------------------------------------------------------
\* The positions change under the feed.

Change(p, to) ==
  /\ changes < MaxChanges
  /\ changes' = changes + 1
  /\ position' = [position EXCEPT ![p] = to]
  /\ touched' = touched \cup {p}
  /\ UNCHANGED <<promised, feed, page, late>>

\* A result is recorded here or in another tab: the position is due later.
Review(p) ==
  /\ position[p].active
  /\ Change(p, [position[p] EXCEPT !.review[position[p].revision] = "later"])

\* A re-analysis finds another solution, or no longer finds the position.
Reanalyse(p) ==
  \/ /\ position[p].revision = 1
     /\ Change(p, [position[p] EXCEPT !.revision = 2])
  \/ /\ position[p].active
     /\ Change(p, [position[p] EXCEPT !.active = FALSE])

FeedInit ==
  /\ position \in [Positions ->
       {[active |-> TRUE, revision |-> r,
         review |-> [q \in Revisions |-> IF q = r THEN s ELSE "none"]] :
          r \in {1}, s \in {"none", "LAPSED", "CLEAN"}}]
  /\ changes = 0 /\ touched = {} /\ promised = {}
  /\ feed \in {EmptyFeed("ALL", 0)} \cup
       {[EmptyFeed("ALL", 0) EXCEPT !.seen = {<<1, 1>>}, !.shown = <<<<1, 1>>>>,
                                    !.linked = {<<1, 1>>}, !.advancing = FALSE]}
  /\ page = IF feed.linked = {} THEN NoPage ELSE Request
  /\ late = {}

FeedNext ==
  \/ RequestPage \/ ServePage \/ PageArrives \/ PageFails \/ Advance
  \/ \E a \in late : LateArrives(a)
  \/ \E f \in Focus : ResetFeed(f)
  \/ \E p \in Positions : Review(p) \/ Reanalyse(p)

-----------------------------------------------------------------------------
\* No position is shown or buffered twice, through pages that overlap, a deep
\* link and re-analyses; all of them pass the focus that the user chose last.
FeedIsPure ==
  LET prompts == feed.shown \o feed.buffer IN
  /\ IsInjective(prompts)
  /\ \A i \in DOMAIN prompts :
       prompts[i] \in feed.linked \/ Through(feed.focus, prompts[i][1])

\* A feed that ends has come to every position that was due or new when it
\* started and has not changed since.
FeedIsComplete ==
  Exhausted
    => \A prompt \in promised :
         prompt[1] \in touched \/ prompt \in Range(feed.shown \o feed.buffer)

\* A user who asks for the next position asks for pages until one holds a
\* position: a page of hidden rows only moves a cursor, so that this ends.
EmptyPagesMove ==
  [][(page # NoPage /\ page' # NoPage /\ page'.answer # NoPage)
       => \/ page'.answer.prompts # <<>>
          \/ page'.answer.next \notin {page.cursor}]_page

\* What a user is shown (practice feed route and hook): nothing twice, nothing of another focus,
\* everything that was due, and no page that stands still.
FeedHolds == [](FeedIsPure /\ FeedIsComplete) /\ EmptyPagesMove
================================================================================
