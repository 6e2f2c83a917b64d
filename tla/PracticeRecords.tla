---------------------------- MODULE PracticeRecords ----------------------------
(***************************************************************************)
(* Practice results: the browser's outbox of results                        *)
(* (lib/training/offlineQueue.ts, lib/hooks/usePracticeFeed.ts), the        *)
(* service that records them (lib/training/attemptService.ts) and the       *)
(* persistence of re-analysed positions under it                            *)
(* (lib/training/persistence.ts), for one position of one owner.            *)
(*                                                                          *)
(* Several tabs of the owner share the outbox.  A request may be lost on    *)
(* its way, its answer may be lost after the service committed, and the     *)
(* service reads the position before the transaction that records.          *)
(***************************************************************************)
EXTENDS Integers, Sequences, FiniteSets, FiniteSetsExt, SequencesExt

CONSTANTS Results,       \* client attempt ids
          Tabs,
          Hashes,        \* semantics of a solution
          Successes,     \* the results that solve the position
          MaxQueue,      \* TRAINING_QUEUE_MAX_ENTRIES
          MaxRevisions, MaxTime, MaxRetries,
          NoReview, NoCall

VARIABLES
  clock,
  revisions,   \* the solution hash of each revision, the last is current
  active,      \* the position is not archived
  attempts,    \* the recorded attempts
  reviews,     \* hash -> review state
  result,      \* client attempt id -> what became of it in the browser
  queue,       \* the entries of local storage
  writes,      \* result -> the request of its first write
  flushes,     \* tab -> its flush
  abandoned    \* requests that the service still handles for nobody

recordVars == <<clock, revisions, active, attempts, reviews, result, queue,
                writes, flushes, abandoned>>

serverVars == <<revisions, active, attempts, reviews>>

Current == Len(revisions)
Recorded(r) == \E a \in attempts : a.id = r

-----------------------------------------------------------------------------
\* The service.

Days(review, success) ==
  IF ~success \/ review = NoReview THEN 1
  ELSE IF review.successes = 0 THEN 1
  ELSE IF review.successes = 1 THEN 3
  ELSE Min({60, Max({3, 2 * review.interval})})

\* The scheduler snapshot after one more attempt; one that occurred before the
\* last review counts without moving the schedule.
Reviewed(review, success, now) ==
  LET before == IF review = NoReview
                THEN [successes |-> 0, lapses |-> 0, interval |-> 0, last |-> -1, due |-> 0]
                ELSE review
      advances == review = NoReview \/ now > before.last
      days == IF advances THEN Days(review, success) ELSE before.interval
  IN [successes |-> before.successes + (IF success THEN 1 ELSE 0),
      lapses |-> before.lapses + (IF success THEN 0 ELSE 1),
      interval |-> days,
      last |-> IF advances THEN now ELSE before.last,
      due |-> IF advances THEN now + days ELSE before.due]

\* The row that a request would create; its context is the revision's.
Attempt(r, revision, now) ==
  [id |-> r, revision |-> revision, hash |-> revisions[revision],
   success |-> r \in Successes, at |-> now]

\* Before the transaction: a recorded attempt answers at once, a position that
\* is gone or solved against another revision is refused.
Answer(r, revision) ==
  CASE Recorded(r) -> "RECORDED"
    [] ~Recorded(r) /\ ~active -> "NOT_FOUND"
    [] ~Recorded(r) /\ active /\ revision # Current -> "STALE_REVISION"
    [] OTHER -> "OPEN"

\* The transaction: it locks the position, re-reads its revision, inserts the
\* attempt under the unique client id and reviews the solution.
Record(r, revision, now) ==
  LET a == Attempt(r, revision, now) IN
  IF Recorded(r) \/ ~active \/ revision # Current
  THEN UNCHANGED <<attempts, reviews>>
  ELSE /\ attempts' = attempts \cup {a}
       /\ reviews' = [reviews EXCEPT ![a.hash] = Reviewed(@, a.success, now)]

\* What the transaction answers: a loser of the race for the client id reads
\* the winner.
Outcome(r, revision) ==
  IF ~active \/ revision # Current THEN "STALE_REVISION" ELSE "RECORDED"

\* A run observes a solution: the current revision is reused when its solution
\* is the same, otherwise a revision is appended and becomes current.
AppendOrReuse(hash) ==
  IF revisions[Current] = hash THEN revisions ELSE Append(revisions, hash)

\* A re-analysis of the game persists its positions in one transaction.
Republish(hash) ==
  /\ Len(AppendOrReuse(hash)) <= MaxRevisions
  /\ revisions' = AppendOrReuse(hash)
  /\ active' = TRUE
  /\ UNCHANGED <<clock, attempts, reviews, result, queue, writes, flushes, abandoned>>

\* A re-analysis that does not find the position any more archives it.
Archive ==
  /\ active
  /\ active' = FALSE
  /\ UNCHANGED <<clock, revisions, attempts, reviews, result, queue, writes, flushes,
                 abandoned>>

Tick ==
  /\ clock < MaxTime
  /\ clock' = clock + 1
  /\ UNCHANGED <<serverVars, result, queue, writes, flushes, abandoned>>

-----------------------------------------------------------------------------
\* Requests.  A call is on its way, or it has passed the checks with the time
\* it arrived at.

Sent(r) == [result |-> r, stage |-> "sent", now |-> 0]

\* Stages a call may answer from, with the answer.
Answers(c) ==
  LET revision == result[c.result].revision IN
  IF c.stage = "sent"
  THEN {Answer(c.result, revision)} \ {"OPEN"}
  ELSE {Outcome(c.result, revision)}

\* The service passes the checks of a call.
Opens(c) == c.stage = "sent" /\ Answer(c.result, result[c.result].revision) = "OPEN"
Opened(c) == [c EXCEPT !.stage = "open", !.now = clock]

\* The service handles a call to its end.
Handle(c) ==
  IF c.stage = "sent" THEN UNCHANGED <<attempts, reviews>>
  ELSE Record(c.result, result[c.result].revision, c.now)

\* A call that the browser gives up may still be handled.
Detached(c) == abandoned \cup (IF c.stage = "open" THEN {c} ELSE {})

HandleAbandoned(c) ==
  /\ c \in abandoned
  /\ Handle(c)
  /\ abandoned' = abandoned \ {c}
  /\ UNCHANGED <<clock, revisions, active, result, queue, writes, flushes>>

-----------------------------------------------------------------------------
\* The browser.

Entry(r, state, count) == [result |-> r, state |-> state, count |-> count]

Ids(entries) == {entries[i].result : i \in DOMAIN entries}

\* An entry is stored once, and not at all when the outbox is full.
Enqueue(entries, e) ==
  IF e.result \in Ids(entries) \/ Len(entries) >= MaxQueue THEN entries
  ELSE Append(entries, e)

\* A refusal needs the user, any other failure is retried.
Disposition(answer) ==
  IF answer \in {"NOT_FOUND", "STALE_REVISION"} THEN "NEEDS_ATTENTION" ELSE "PENDING"

\* The outbox after the result is put into it, and what the browser knows.
QueueRecord(r, e) ==
  /\ queue' = Enqueue(queue, e)
  /\ result' = [result EXCEPT ![r].state =
                  IF r \in Ids(Enqueue(queue, e)) THEN "queued" ELSE "unsaved"]

\* A tab shows the position; its result will name this revision.
Show(r) ==
  /\ result[r].state = "none" /\ active
  /\ result' = [result EXCEPT ![r] = [state |-> "shown", revision |-> Current]]
  /\ UNCHANGED <<clock, serverVars, queue, writes, flushes, abandoned>>

\* The result is graded: it is written at once, or queued when offline.
Complete(r) ==
  /\ result[r].state = "shown"
  /\ \/ /\ writes' = [writes EXCEPT ![r] = Sent(r)]
        /\ result' = [result EXCEPT ![r].state = "writing"]
        /\ UNCHANGED queue
     \/ /\ QueueRecord(r, Entry(r, "PENDING", 0))
        /\ UNCHANGED writes
  /\ UNCHANGED <<clock, serverVars, flushes, abandoned>>

Writing(r) == writes[r] # NoCall

WriteOpens(r) ==
  /\ Writing(r) /\ Opens(writes[r])
  /\ writes' = [writes EXCEPT ![r] = Opened(@)]
  /\ UNCHANGED <<clock, serverVars, result, queue, flushes, abandoned>>

\* The service answers the first write of a result.
WriteEnds(r) ==
  /\ Writing(r)
  /\ \E answer \in Answers(writes[r]) :
       /\ Handle(writes[r])
       /\ IF answer = "RECORDED"
          THEN /\ result' = [result EXCEPT ![r].state = "saved"]
               /\ UNCHANGED queue
          ELSE QueueRecord(r, Entry(r, Disposition(answer), 1))
  /\ writes' = [writes EXCEPT ![r] = NoCall]
  /\ UNCHANGED <<clock, revisions, active, flushes, abandoned>>

\* The write or its answer is lost: the result is queued.
WriteFails(r) ==
  /\ Writing(r)
  /\ QueueRecord(r, Entry(r, "PENDING", 1))
  /\ abandoned' = Detached(writes[r])
  /\ writes' = [writes EXCEPT ![r] = NoCall]
  /\ UNCHANGED <<clock, serverVars, flushes>>

\* The page is closed, or the owner signs out, while the write is under way.
WriteAborts(r) ==
  /\ Writing(r)
  /\ result' = [result EXCEPT ![r].state = "aborted"]
  /\ abandoned' = Detached(writes[r])
  /\ writes' = [writes EXCEPT ![r] = NoCall]
  /\ UNCHANGED <<clock, serverVars, queue, flushes>>

-----------------------------------------------------------------------------
\* A flush reads the outbox, sends its pending entries one after the other and
\* puts the outcome back into what the outbox holds by then.

NoFlush == [snapshot |-> <<>>, next |-> 1, kept |-> <<>>, call |-> NoCall]

Flushing(t) == flushes[t] # NoFlush
FlushEntry(t) == flushes[t].snapshot[flushes[t].next]

Find(entries, r) == SelectSeq(entries, LAMBDA e : e.result = r)

\* Mutant: what the flush kept replaces the outbox.
ReconcileOverwriting(f, latest) == f.kept

\* An entry that is new or has changed since the snapshot wins over the flush.
Reconcile(f, latest) ==
  FlattenSeq([i \in DOMAIN latest |->
    IF Find(f.snapshot, latest[i].result) = <<latest[i]>>
    THEN Find(f.kept, latest[i].result) ELSE <<latest[i]>>])

\* The entries of the snapshot from position i on.
From(f, i) == SubSeq(f.snapshot, i, Len(f.snapshot))

\* The flush goes on behind an answer: it sends the next pending entry, or puts
\* the outcome back when there is none.
Proceed(t, f) ==
  LET pending == {i \in f.next..Len(f.snapshot) : f.snapshot[i].state = "PENDING"} IN
  IF pending # {}
  THEN LET i == Min(pending) IN
       /\ flushes' = [flushes EXCEPT ![t] =
            [f EXCEPT !.next = i, !.call = Sent(f.snapshot[i].result),
                      !.kept = @ \o SubSeq(f.snapshot, f.next, i - 1)]]
       /\ UNCHANGED <<queue, result>>
  ELSE LET latest == Reconcile([f EXCEPT !.kept = @ \o From(f, f.next)], queue) IN
       /\ flushes' = [flushes EXCEPT ![t] = NoFlush]
       /\ queue' = latest
       /\ result' = [r \in Results |->
            IF r \in Ids(queue) \ Ids(latest) THEN [result[r] EXCEPT !.state = "saved"]
            ELSE result[r]]

FlushStart(t) ==
  /\ ~Flushing(t)
  /\ \E i \in DOMAIN queue : queue[i].state = "PENDING"
  /\ Proceed(t, [NoFlush EXCEPT !.snapshot = queue])
  /\ UNCHANGED <<clock, serverVars, writes, abandoned>>

FlushOpens(t) ==
  /\ Flushing(t) /\ Opens(flushes[t].call)
  /\ flushes' = [flushes EXCEPT ![t].call = Opened(@)]
  /\ UNCHANGED <<clock, serverVars, result, queue, writes, abandoned>>

FailedEntry(e, state) == Entry(e.result, state, Min({MaxRetries, e.count + 1}))

FlushAnswered(t) ==
  /\ Flushing(t)
  /\ \E answer \in Answers(flushes[t].call) :
       /\ Handle(flushes[t].call)
       /\ LET kept == IF answer = "RECORDED" THEN <<>>
                      ELSE <<FailedEntry(FlushEntry(t), Disposition(answer))>>
          IN Proceed(t, [flushes[t] EXCEPT !.next = @ + 1, !.kept = @ \o kept])
  /\ UNCHANGED <<clock, revisions, active, writes, abandoned>>

\* A failure that may be retried ends the flush: the rest of the snapshot stays.
FlushFails(t) ==
  /\ Flushing(t)
  /\ abandoned' = Detached(flushes[t].call)
  /\ LET f == flushes[t] IN
     Proceed(t, [f EXCEPT !.next = Len(f.snapshot) + 1,
                          !.kept = (@ \o <<FailedEntry(FlushEntry(t), "PENDING")>>)
                                     \o From(f, f.next + 1)])
  /\ UNCHANGED <<clock, serverVars, writes>>

\* The tab is closed, or its owner changes.
FlushAborts(t) ==
  /\ Flushing(t)
  /\ abandoned' = Detached(flushes[t].call)
  /\ flushes' = [flushes EXCEPT ![t] = NoFlush]
  /\ UNCHANGED <<clock, serverVars, result, queue, writes>>

\* The user retries or dismisses a result that needs attention.
RetryWrite(r) ==
  /\ Find(queue, r) # <<>> /\ Find(queue, r)[1].state = "NEEDS_ATTENTION"
  /\ Find(queue, r)[1].count < MaxRetries
  /\ queue' = [i \in DOMAIN queue |->
                 IF queue[i].result = r THEN [queue[i] EXCEPT !.state = "PENDING"]
                 ELSE queue[i]]
  /\ UNCHANGED <<clock, serverVars, result, writes, flushes, abandoned>>

DismissWrite(r) ==
  /\ Find(queue, r) # <<>> /\ Find(queue, r)[1].state = "NEEDS_ATTENTION"
  /\ queue' = SelectSeq(queue, LAMBDA e : e.result # r)
  /\ result' = [result EXCEPT ![r].state = "dismissed"]
  /\ UNCHANGED <<clock, serverVars, writes, flushes, abandoned>>

-----------------------------------------------------------------------------
RecordInit ==
  /\ clock = 0 /\ active = TRUE
  /\ revisions \in {<<h>> : h \in Hashes}
  /\ attempts = {} /\ reviews = [h \in Hashes |-> NoReview]
  /\ result = [r \in Results |-> [state |-> "none", revision |-> 0]]
  /\ queue = <<>> /\ writes = [r \in Results |-> NoCall]
  /\ flushes = [t \in Tabs |-> NoFlush]
  /\ abandoned = {}

RecordNext ==
  \/ Tick \/ Archive
  \/ \E h \in Hashes : Republish(h)
  \/ \E c \in abandoned : HandleAbandoned(c)
  \/ \E r \in Results : \/ Show(r) \/ Complete(r) \/ WriteOpens(r) \/ WriteEnds(r)
                        \/ WriteFails(r) \/ WriteAborts(r)
                        \/ RetryWrite(r) \/ DismissWrite(r)
  \/ \E t \in Tabs : \/ FlushStart(t) \/ FlushOpens(t) \/ FlushAnswered(t)
                     \/ FlushFails(t) \/ FlushAborts(t)

-----------------------------------------------------------------------------
\* No graded result disappears: it is being written, it is in the outbox, or the
\* service has it, unless the user dismissed it, was told that the outbox is
\* full, or left the page during its first write.
NoResultLost ==
  \A r \in Results :
    result[r].state \in {"writing", "queued", "saved"}
      => Recorded(r) \/ Writing(r) \/ r \in Ids(queue)

\* Every recorded attempt is counted once in the review state of its solution,
\* however often its request was sent.
ReviewsCountAttempts ==
  \A h \in Hashes :
    LET of == {a \in attempts : a.hash = h}
        won == {a \in of : a.success}
    IN IF of = {} THEN reviews[h] = NoReview
       ELSE /\ reviews[h].successes = Cardinality(won)
            /\ reviews[h].lapses = Cardinality(of \ won)

\* A result is recorded against the revision that is current when it commits,
\* never against a solution that a re-analysis has replaced meanwhile.
RecordedAgainstCurrent ==
  [][\A a \in attempts' \ attempts : active /\ a.revision = Current]_recordVars

\* What becomes of a graded result (reviews.ts, trainingOutbox.ts): it is kept, counted once, and
\* of the solution that was current.
RecordsHold == [](NoResultLost /\ ReviewsCountAttempts) /\ RecordedAgainstCurrent
================================================================================
