--------------------------- MODULE PremiumInvitations ---------------------------
(***************************************************************************)
(* Invitations to the complimentary plan (lib/premium): the administrator's *)
(* commands with their receipts, the delivery of an invitation's e-mail,    *)
(* its acceptance, and the grant that follows from it.                      *)
(*                                                                          *)
(* A command reads the invitation and then writes it, and others may write  *)
(* in between.  A delivery may stop between any two steps, and its lease    *)
(* and the reservation of its e-mail may expire while it still runs.        *)
(***************************************************************************)
EXTENDS Integers, Sequences, FiniteSets, SequencesExt

CONSTANTS Postmen,          \* requests that deliver an invitation
          MaxInvitations, MaxSends, MaxReceipts,
          NoPostman

VARIABLES
  invitations,   \* of one address, in the order of their creation
  sends,         \* the reservation of each send attempt
  postman,
  admin,         \* what the command under way has read
  receipts,      \* the invitation and the generation of each recorded command
  given,        \* the grant of each invitation: "none", "active" or "revoked"
  received,         \* what the provider has accepted
  knownSent           \* generations whose delivery is recorded as SENT

premiumVars == <<invitations, sends, postman, admin, receipts, given, received, knownSent>>

Unread == [does |-> "nothing", at |-> 0, generation |-> 0, status |-> "PENDING"]
AtRest == [stage |-> "rest", at |-> 0, generation |-> 0, send |-> 0, outcome |-> "none"]

IsPending(i) == invitations[i].state = "open"
UnderDelivery(i) == invitations[i].status = "SENDING" /\ invitations[i].leased
SendsDelivered(i) == {m.send : m \in {n \in ToSet(received) : n.of = i}}

Starts(p, i, generation) ==
  postman' = [postman EXCEPT ![p] =
    [AtRest EXCEPT !.stage = "claim", !.at = i, !.generation = generation]]

-----------------------------------------------------------------------------
\* The commands.  A recorded command is not executed again: its repetition only
\* delivers the generation that its receipt names.

Considers ==
  /\ admin = Unread /\ Len(receipts) < MaxReceipts
  /\ Len(invitations) < MaxInvitations
  /\ \A i \in DOMAIN invitations : given[i] # "active"
  /\ admin' = [Unread EXCEPT !.does = "create"]
  /\ UNCHANGED <<invitations, sends, postman, receipts, given, received, knownSent>>

\* The key of an active invitation is unique.
KeyIsFree == \A i \in DOMAIN invitations : ~IsPending(i)

Recorded(p, i, generation) ==
  /\ receipts' = Append(receipts, [of |-> i, generation |-> generation])
  /\ Starts(p, i, generation)
  /\ admin' = Unread

CreatesInvitation(p) ==
  /\ admin.does = "create" /\ postman[p] = AtRest
  /\ Len(sends) < MaxSends
  /\ IF KeyIsFree
     THEN /\ invitations' = Append(invitations,
               [state |-> "open", expired |-> FALSE, generation |-> 1, send |-> Len(sends) + 1,
                status |-> "PENDING", lease |-> NoPostman, leased |-> FALSE])
          /\ sends' = Append(sends, [status |-> "NONE", live |-> FALSE, owner |-> NoPostman])
          /\ given' = Append(given, "none")
          /\ Recorded(p, Len(invitations) + 1, 1)
     ELSE admin' = Unread /\ UNCHANGED <<invitations, sends, given, receipts, postman>>
  /\ UNCHANGED <<received, knownSent>>

ReadsInvitation(does, i) ==
  /\ admin = Unread /\ Len(receipts) < MaxReceipts
  /\ IsPending(i) /\ ~UnderDelivery(i)
  /\ admin' = [does |-> does, at |-> i, generation |-> invitations[i].generation,
               status |-> invitations[i].status]
  /\ UNCHANGED <<invitations, sends, postman, receipts, given, received, knownSent>>

\* Mutant: every repetition draws a new link.
RotatesAlways == TRUE

\* A link that may be under way is kept: only one that was sent is replaced.
Rotates == admin.status = "SENT"

\* The write of a repetition is conditional on the generation and the status that
\* were read; one that comes too late starts again.
Resends(p) ==
  /\ admin.does = "resend" /\ postman[p] = AtRest
  /\ Len(sends) < MaxSends
  /\ LET i == admin.at
         generation == admin.generation + IF Rotates THEN 1 ELSE 0
     IN IF /\ IsPending(i) /\ invitations[i].generation = admin.generation
           /\ invitations[i].status = admin.status
        THEN /\ invitations' = [invitations EXCEPT ![i] =
                  [@ EXCEPT !.expired = FALSE, !.generation = generation, !.send = Len(sends) + 1,
                            !.status = "PENDING", !.lease = NoPostman, !.leased = FALSE]]
             /\ sends' = Append(sends, [status |-> "NONE", live |-> FALSE, owner |-> NoPostman])
             /\ Recorded(p, i, generation)
        ELSE admin' = Unread /\ UNCHANGED <<invitations, sends, receipts, postman>>
  /\ UNCHANGED <<given, received, knownSent>>

Revokes ==
  /\ admin.does = "revoke"
  /\ LET i == admin.at IN
     IF IsPending(i) /\ invitations[i].generation = admin.generation
     THEN invitations' = [invitations EXCEPT ![i].state = "revoked", ![i].lease = NoPostman,
                                             ![i].leased = FALSE]
     ELSE UNCHANGED invitations
  /\ admin' = Unread
  /\ UNCHANGED <<sends, postman, receipts, given, received, knownSent>>

RevokesGrant(i) ==
  /\ given[i] = "active"
  /\ given' = [given EXCEPT ![i] = "revoked"]
  /\ UNCHANGED <<invitations, sends, postman, admin, receipts, received, knownSent>>

RepeatsCommand(p, r) ==
  /\ postman[p] = AtRest
  /\ Starts(p, receipts[r].of, receipts[r].generation)
  /\ UNCHANGED <<invitations, sends, admin, receipts, given, received, knownSent>>

-----------------------------------------------------------------------------
\* The recipient.  An acceptance that comes twice neither creates a second grant
\* nor renews one that was revoked.

AcceptsInvitation(m) ==
  /\ LET i == received[m].of IN
     /\ IsPending(i) /\ ~invitations[i].expired
     /\ received[m].generation = invitations[i].generation
     /\ invitations' = [invitations EXCEPT ![i].state = "accepted"]
     /\ given' = [given EXCEPT ![i] = IF @ = "none" THEN "active" ELSE @]
  /\ UNCHANGED <<sends, postman, admin, receipts, received, knownSent>>

\* Fourteen days outlast every request and every lease.
InvitationExpires(i) ==
  /\ ~invitations[i].expired /\ IsPending(i) /\ ~invitations[i].leased
  /\ \A p \in Postmen : postman[p] = AtRest
  /\ invitations' = [invitations EXCEPT ![i].expired = TRUE]
  /\ UNCHANGED <<sends, postman, admin, receipts, given, received, knownSent>>

-----------------------------------------------------------------------------
\* The delivery of one generation.

Goes(p, stage) == postman' = [postman EXCEPT ![p].stage = stage]
Ends(p, outcome) ==
  postman' = [postman EXCEPT ![p].stage = "complete", ![p].outcome = outcome]

Deliverable(p, i) ==
  /\ invitations[i].generation = postman[p].generation
  /\ IsPending(i) /\ ~invitations[i].expired
  /\ \/ invitations[i].status = "PENDING"
     \/ invitations[i].status = "SENDING" /\ ~invitations[i].leased

ClaimsDelivery(p) ==
  /\ postman[p].stage = "claim"
  /\ LET i == postman[p].at IN
     IF Deliverable(p, i)
     THEN /\ invitations' = [invitations EXCEPT ![i].status = "SENDING", ![i].lease = p,
                                                ![i].leased = TRUE]
          /\ Goes(p, "read")
     ELSE postman' = [postman EXCEPT ![p] = AtRest] /\ UNCHANGED invitations
  /\ UNCHANGED <<sends, admin, receipts, given, received, knownSent>>

ReadsDelivery(p) ==
  /\ postman[p].stage = "read"
  /\ LET i == postman[p].at IN
     IF invitations[i].generation = postman[p].generation /\ invitations[i].lease = p
     THEN postman' = [postman EXCEPT ![p].stage = "reserve", ![p].send = invitations[i].send]
     ELSE postman' = [postman EXCEPT ![p] = AtRest]
  /\ UNCHANGED <<invitations, sends, admin, receipts, given, received, knownSent>>

Lapses(s) == sends[s].status = "RESERVED" /\ ~sends[s].live

\* A send attempt without a reservation that stands.
Reservable(s) == sends[s].status \in {"NONE", "RELEASED"} \/ Lapses(s)

\* The reservation of the send attempt, or what an earlier one knows of it.
ReservesSend(p) ==
  /\ postman[p].stage = "reserve"
  /\ LET s == postman[p].send IN
     \/ /\ Reservable(s)
        /\ sends' = [sends EXCEPT ![s] = [status |-> "RESERVED", live |-> TRUE, owner |-> p]]
        /\ Goes(p, "hand")
     \/ /\ Reservable(s) /\ Ends(p, "FAILED") /\ UNCHANGED sends    \* the day's budget
     \/ /\ sends[s].status = "SENT" /\ Ends(p, "SENT") /\ UNCHANGED sends
     \/ /\ sends[s].status \in {"HANDOFF", "AMBIGUOUS"}
        /\ Ends(p, "AMBIGUOUS") /\ UNCHANGED sends
     \/ /\ sends[s].status = "RESERVED" /\ sends[s].live
        /\ Ends(p, "DEFERRED") /\ UNCHANGED sends
  /\ UNCHANGED <<invitations, admin, receipts, given, received, knownSent>>

HandsOver(p) ==
  /\ postman[p].stage = "hand"
  /\ LET s == postman[p].send IN
     IF sends[s].status = "RESERVED" /\ sends[s].owner = p
     THEN sends' = [sends EXCEPT ![s].status = "HANDOFF"] /\ Goes(p, "send")
     ELSE Ends(p, "FAILED") /\ UNCHANGED sends
  /\ UNCHANGED <<invitations, admin, receipts, given, received, knownSent>>

\* The provider accepts, rejects, or its answer is lost with what it did; what is
\* known of it is stored with the reservation.
SendsInvitation(p) ==
  /\ postman[p].stage = "send"
  /\ LET s == postman[p].send
         mail == [of |-> postman[p].at, generation |-> postman[p].generation, send |-> s]
         stored(status) == sends' = [sends EXCEPT ![s].status = status]
     IN \/ /\ received' = Append(received, mail)
           /\ \/ stored("SENT") /\ Ends(p, "SENT")
              \/ stored("AMBIGUOUS") /\ Ends(p, "AMBIGUOUS")
              \/ UNCHANGED sends /\ Ends(p, "AMBIGUOUS")
        \/ /\ UNCHANGED received
           /\ \/ stored("RELEASED") /\ Ends(p, "FAILED")
              \/ stored("AMBIGUOUS") /\ Ends(p, "AMBIGUOUS")
  /\ UNCHANGED <<invitations, admin, receipts, given, knownSent>>

\* The delivery is still the one that this request has claimed.
OwnsDelivery(p, i) ==
  /\ invitations[i].generation = postman[p].generation
  /\ invitations[i].send = postman[p].send
  /\ invitations[i].status = "SENDING" /\ invitations[i].lease = p

CompletesDelivery(p) ==
  /\ postman[p].stage = "complete"
  /\ LET i == postman[p].at
         outcome == postman[p].outcome
     IN IF OwnsDelivery(p, i)
        THEN /\ invitations' = [invitations EXCEPT ![i] =
                  IF outcome = "DEFERRED" THEN [@ EXCEPT !.lease = NoPostman, !.leased = TRUE]
                  ELSE [@ EXCEPT !.status = outcome, !.lease = NoPostman, !.leased = FALSE]]
             /\ knownSent' = IF outcome = "SENT" THEN knownSent \cup {<<i, postman[p].generation>>} ELSE knownSent
        ELSE UNCHANGED <<invitations, knownSent>>
  /\ postman' = [postman EXCEPT ![p] = AtRest]
  /\ UNCHANGED <<sends, admin, receipts, given, received>>

StopsDelivering(p) ==
  /\ postman[p].stage \notin {"rest", "claim"}
  /\ postman' = [postman EXCEPT ![p] = AtRest]
  /\ UNCHANGED <<invitations, sends, admin, receipts, given, received, knownSent>>

DeliveryLeaseEnds(i) ==
  /\ invitations[i].leased
  /\ invitations' = [invitations EXCEPT ![i].leased = FALSE]
  /\ UNCHANGED <<sends, postman, admin, receipts, given, received, knownSent>>

SendLeaseEnds(s) ==
  /\ sends[s].live
  /\ sends' = [sends EXCEPT ![s].live = FALSE]
  /\ UNCHANGED <<invitations, postman, admin, receipts, given, received, knownSent>>

PremiumInit ==
  /\ invitations = <<>> /\ sends = <<>> /\ receipts = <<>> /\ given = <<>> /\ received = <<>>
  /\ postman = [p \in Postmen |-> AtRest]
  /\ admin = Unread /\ knownSent = {}

PremiumNext ==
  \/ Considers \/ Revokes
  \/ \E i \in DOMAIN invitations : \/ \E does \in {"resend", "revoke"} : ReadsInvitation(does, i)
                                   \/ RevokesGrant(i) \/ InvitationExpires(i)
                                   \/ DeliveryLeaseEnds(i)
  \/ \E m \in DOMAIN received : AcceptsInvitation(m)
  \/ \E s \in DOMAIN sends : SendLeaseEnds(s)
  \/ \E p \in Postmen : \/ CreatesInvitation(p) \/ Resends(p)
                        \/ \E r \in DOMAIN receipts : RepeatsCommand(p, r)
                        \/ ClaimsDelivery(p) \/ ReadsDelivery(p) \/ ReservesSend(p)
                        \/ HandsOver(p) \/ SendsInvitation(p) \/ CompletesDelivery(p)
                        \/ StopsDelivering(p)

PremiumSpec == PremiumInit /\ [][PremiumNext]_premiumVars
-----------------------------------------------------------------------------
\* An invitation that is shown as sent was sent in its present generation and by
\* its present attempt, whatever slower requests do.
SentIsTrue ==
  \A i \in DOMAIN invitations :
    invitations[i].status = "SENT" => invitations[i].send \in SendsDelivered(i)

\* No attempt mails twice, however often its command or its delivery is repeated.
InvitedOnce ==
  \A m, n \in DOMAIN received : received[m].send = received[n].send => m = n

\* A link that may be under way is not made worthless: one that was received
\* is replaced only after its own delivery was known to have succeeded.
LinksHold ==
  \A m \in DOMAIN received :
    received[m].generation < invitations[received[m].of].generation
      => <<received[m].of, received[m].generation>> \in knownSent

\* One invitation of an address is open at most, and access follows from its
\* acceptance alone: a revoked invitation never gives any.
GrantsFollow ==
  /\ \A i, j \in DOMAIN invitations : IsPending(i) /\ IsPending(j) => i = j
  /\ \A i \in DOMAIN invitations : given[i] # "none" <=> invitations[i].state = "accepted"

\* What the four say of invitations under repeated commands and slow deliveries.
InvitationsHold == SentIsTrue /\ InvitedOnce /\ LinksHold /\ GrantsFollow
=============================================================================
