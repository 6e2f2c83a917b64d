---------------------------- MODULE PracticeDueSweep ----------------------------
(***************************************************************************)
(* The daily sweep over the positions that are due for review               *)
(* (lib/training/practiceDueSweep.ts) and the notifications that it records *)
(* (lib/notifications/service.ts).                                          *)
(*                                                                          *)
(* A sweep is a row that queue messages drive: they scan slices of the      *)
(* review states into totals per user, then tell page after page of users.  *)
(* A message may be handled twice at the same time, and a handler may stop  *)
(* between any two of its steps; a message that was handled in vain comes   *)
(* again, or is dropped until the next day's cron.                          *)
(***************************************************************************)
EXTENDS Integers, FiniteSets, FiniteSetsExt

CONSTANTS Learners,      \* users, numbered in the order of their ids
          StatesOf,      \* the review states of each, numbers in one order
          SweepSlice,    \* PRACTICE_DUE_SWEEP_SLICE_SIZE
          NotifyPage,    \* PRACTICE_DUE_NOTIFY_PAGE_SIZE
          LastDay, MaxReviewed, Handlers, NoMessage

VARIABLES
  dueOn,      \* the day on which each review state is due
  reviewed,   \* the states reviewed so far
  day,        \* the day of the latest cron
  sweeps,     \* the sweep of each day: status and cursor
  totals,     \* what each sweep has counted for each user
  told,       \* the count that the user's notification of a day names
  published,  \* idempotency keys that the queue has seen
  queued,     \* messages that the queue still delivers
  handler,    \* the handlers at work
  owed        \* the states that were due when the sweep of a day was created

sweepVars == <<dueOn, reviewed, day, sweeps, totals, told, published, queued, handler, owed>>

Sweeps == 1..LastDay
States == UNION {StatesOf[u] : u \in Learners}

\* Users and review states are numbered from 1.
ASSUME SweepAssumption ==
  /\ IsFiniteSet(Learners) /\ Learners = 1..Cardinality(Learners)
  /\ IsFiniteSet(States) /\ States = 1..Cardinality(States)
  /\ SweepSlice \in Nat /\ NotifyPage \in Nat \ {0} /\ LastDay \in Nat
  /\ NoMessage \notin [of : Nat, step : {"scan", "notify"}, after : Nat, cron : Nat]

First(n, set) == {x \in set : Cardinality({y \in set : y < x}) < n}

Asleep == [message |-> NoMessage, stage |-> "idle", page |-> {}, next |-> NoMessage]

-----------------------------------------------------------------------------
\* Messages are what their idempotency keys say: the sweep, the step, where it
\* starts, and the day of the cron that resumed it.

ScanMessage(d, cursor, cron) == [of |-> d, step |-> "scan", after |-> cursor, cron |-> cron]
NotifyMessage(d, cursor, cron) == [of |-> d, step |-> "notify", after |-> cursor, cron |-> cron]

\* The queue drops a message whose key it has seen.
Publish(message) ==
  /\ published' = published \cup {message}
  /\ queued' = IF message \in published THEN queued ELSE queued \cup {message}

\* The cron resumes the oldest sweep that is not complete, or starts today's.
Cron ==
  /\ day < LastDay
  /\ day' = day + 1
  /\ LET active == {d \in Sweeps : sweeps[d].status \in {"SCANNING", "NOTIFYING"}}
         d == IF active = {} THEN day + 1 ELSE Min(active)
         due == {s \in States : dueOn[s] <= day + 1}
     IN /\ IF active # {} THEN UNCHANGED <<sweeps, owed>>
           ELSE /\ sweeps' = [sweeps EXCEPT ![d].status = "SCANNING"]
                /\ owed' = [owed EXCEPT ![d] = due]
        /\ Publish(IF active # {} /\ sweeps[d].status = "NOTIFYING"
                   THEN NotifyMessage(d, 0, day + 1) ELSE ScanMessage(d, 0, day + 1))
  /\ UNCHANGED <<dueOn, reviewed, totals, told, handler>>

\* A review moves a state behind today.
ReviewDue(s) ==
  /\ s \notin reviewed /\ Cardinality(reviewed) < MaxReviewed
  /\ reviewed' = reviewed \cup {s}
  /\ dueOn' = [dueOn EXCEPT ![s] = LastDay + 1]
  /\ UNCHANGED <<day, sweeps, totals, told, published, queued, handler, owed>>

-----------------------------------------------------------------------------
\* Handlers.

Receive(h, message) ==
  /\ handler[h] = Asleep
  /\ handler' = [handler EXCEPT ![h] = [Asleep EXCEPT !.message = message, !.stage = message.step]]
  /\ UNCHANGED <<dueOn, reviewed, day, sweeps, totals, told, published, queued, owed>>

Slice(d) == First(SweepSlice, {s \in States : dueOn[s] <= d /\ s > sweeps[d].cursor})

\* Mutant: a slice of the states is one that the page has not filled.
FullUnlessMore(set, size) == Cardinality(set) > size

\* A full slice or page may have another one behind it.
Full(set, size) == Cardinality(set) = size

\* advancePracticeDueSweep: one slice under the lock of the row, whatever cursor
\* the message was sent for; then the message that continues from there.
Advances(h) ==
  /\ handler[h].stage = "scan"
  /\ LET d == handler[h].message.of
         slice == Slice(d)
         cursor == IF slice = {} THEN sweeps[d].cursor ELSE Max(slice)
         full == Full(slice, SweepSlice)
         next == CASE sweeps[d].status = "SCANNING" /\ full -> ScanMessage(d, cursor, 0)
                   [] sweeps[d].status = "COMPLETE" -> NoMessage
                   [] OTHER -> NotifyMessage(d, 0, 0)
     IN /\ IF sweeps[d].status = "SCANNING"
           THEN /\ totals' = [totals EXCEPT ![d] =
                     [u \in Learners |-> @[u] + Cardinality(slice \cap StatesOf[u])]]
                /\ sweeps' = [sweeps EXCEPT ![d] =
                     [status |-> IF full THEN "SCANNING" ELSE "NOTIFYING", cursor |-> cursor]]
           ELSE UNCHANGED <<totals, sweeps>>
        /\ handler' = [handler EXCEPT ![h].stage = "continue", ![h].next = next]
  /\ UNCHANGED <<dueOn, reviewed, day, told, published, queued, owed>>

\* A page of the users that the sweep has counted something for.
ReadsPage(h) ==
  /\ handler[h].stage = "notify"
  /\ LET message == handler[h].message
         counted == {u \in Learners : totals[message.of][u] > 0 /\ u > message.after}
         page == First(NotifyPage, counted)
     IN CASE sweeps[message.of].status = "COMPLETE" ->
               handler' = [handler EXCEPT ![h].stage = "continue"]
          [] sweeps[message.of].status = "SCANNING" -> handler' = [handler EXCEPT ![h] = Asleep]
          [] OTHER ->
               handler' = [handler EXCEPT
                 ![h].stage = "tell", ![h].page = page,
                 ![h].next = IF Full(page, NotifyPage)
                             THEN NotifyMessage(message.of, Max(page), 0) ELSE NoMessage]
  /\ UNCHANGED <<dueOn, reviewed, day, sweeps, totals, told, published, queued, owed>>

\* recordPracticeDue: one notification of a user and a day, replaced when it is
\* told again.  The users of a page are told in any order.
Tells(h, u) ==
  /\ handler[h].stage = "tell" /\ u \in handler[h].page
  /\ LET d == handler[h].message.of IN told' = [told EXCEPT ![d][u] = totals[d][u]]
  /\ handler' = [handler EXCEPT ![h].page = @ \ {u}]
  /\ UNCHANGED <<dueOn, reviewed, day, sweeps, totals, published, queued, owed>>

\* Behind the last page the sweep is complete.
EndsPage(h) ==
  /\ handler[h].stage = "tell" /\ handler[h].page = {}
  /\ sweeps' = IF handler[h].next = NoMessage
               THEN [sweeps EXCEPT ![handler[h].message.of].status = "COMPLETE"] ELSE sweeps
  /\ handler' = [handler EXCEPT ![h].stage = "continue"]
  /\ UNCHANGED <<dueOn, reviewed, day, totals, told, published, queued, owed>>

Continues(h) ==
  /\ handler[h].stage = "continue"
  /\ IF handler[h].next = NoMessage THEN UNCHANGED <<published, queued>>
     ELSE Publish(handler[h].next)
  /\ handler' = [handler EXCEPT ![h].stage = "ack"]
  /\ UNCHANGED <<dueOn, reviewed, day, sweeps, totals, told, owed>>

Acknowledges(h) ==
  /\ handler[h].stage = "ack"
  /\ queued' = queued \ {handler[h].message}
  /\ handler' = [handler EXCEPT ![h] = Asleep]
  /\ UNCHANGED <<dueOn, reviewed, day, sweeps, totals, told, published, owed>>

\* A handler stops: its message comes again, or the queue gives it up.
StopsHandling(h) ==
  /\ handler[h] # Asleep
  /\ handler' = [handler EXCEPT ![h] = Asleep]
  /\ queued' \in {queued, queued \ {handler[h].message}}
  /\ UNCHANGED <<dueOn, reviewed, day, sweeps, totals, told, published, owed>>

SweepInit ==
  /\ dueOn \in [States -> {1, LastDay}]
  /\ reviewed = {} /\ day = 0
  /\ sweeps = [d \in Sweeps |-> [status |-> "NONE", cursor |-> 0]]
  /\ totals = [d \in Sweeps |-> [u \in Learners |-> 0]]
  /\ told = totals
  /\ published = {} /\ queued = {}
  /\ handler = [h \in Handlers |-> Asleep]
  /\ owed = [d \in Sweeps |-> {}]

SweepNext ==
  \/ Cron
  \/ \E s \in States : ReviewDue(s)
  \/ \E h \in Handlers :
       \/ Advances(h) \/ ReadsPage(h) \/ EndsPage(h) \/ Continues(h) \/ Acknowledges(h) \/ StopsHandling(h)
       \/ \E message \in queued : Receive(h, message)
       \/ \E u \in Learners : Tells(h, u)

SweepSpec == SweepInit /\ [][SweepNext]_sweepVars

-----------------------------------------------------------------------------
\* A complete sweep has told every user of each position that stayed due, and of
\* none twice, through messages that are repeated, concurrent or cut short.
DueIsTold ==
  \A d \in Sweeps : sweeps[d].status = "COMPLETE" =>
    \A u \in Learners :
      /\ told[d][u] >= Cardinality((owed[d] \cap StatesOf[u]) \ reviewed)
      /\ told[d][u] <= Cardinality(owed[d] \cap StatesOf[u])
=============================================================================
