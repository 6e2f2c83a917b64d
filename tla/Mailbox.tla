------------------------------- MODULE Mailbox -------------------------------
(***************************************************************************)
(* What the transactional outbox promises: a staged message is handed to   *)
(* the queue at least once and then closed, or else dropped.  The queue    *)
(* ignores a message whose key it has seen.                                *)
(***************************************************************************)
CONSTANT Keys  \* idempotency keys

VARIABLES
  mail,  \* "none", "waiting", "closed" (it was sent) or "dropped"
  queue  \* "unsent", "queued" or "taken"

vars == <<mail, queue>>

Init == /\ mail = [k \in Keys |-> "none"]
        /\ queue = [k \in Keys |-> "unsent"]

Turn(k, from, to) == mail[k] = from /\ mail' = [mail EXCEPT ![k] = to]

Stage(k) == Turn(k, "none", "waiting") /\ UNCHANGED queue

Send(k) == /\ mail[k] = "waiting" /\ queue[k] = "unsent"
           /\ queue' = [queue EXCEPT ![k] = "queued"]
           /\ UNCHANGED mail

Close(k) == queue[k] # "unsent" /\ Turn(k, "waiting", "closed") /\ UNCHANGED queue

Drop(k) == Turn(k, "waiting", "dropped") /\ UNCHANGED queue

Take(k) == /\ queue[k] = "queued"
           /\ queue' = [queue EXCEPT ![k] = "taken"]
           /\ UNCHANGED mail

Next == \E k \in Keys : Stage(k) \/ Send(k) \/ Close(k) \/ Drop(k) \/ Take(k)

Leave(k) == Send(k) \/ Close(k) \/ Drop(k)

Spec == Init /\ [][Next]_vars
FairSpec == Spec /\ \A k \in Keys : WF_vars(Leave(k)) /\ WF_vars(Take(k))
=============================================================================
