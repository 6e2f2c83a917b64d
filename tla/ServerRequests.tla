----------------------------- MODULE ServerRequests -----------------------------
(***************************************************************************)
(* The requests of server analysis that the tabs of one account keep track  *)
(* of in the storage they share (lib/analysis/serverAnalysisCoordinator.ts, *)
(* components/analysis/BackgroundAnalysisBar.tsx).                          *)
(*                                                                          *)
(* A request carries an id of its own, so that it can be sent again when it *)
(* is not known whether it arrived.  Calls may be answered late, or never.  *)
(* The 20 requests and the 24 hours that the storage keeps are not reached. *)
(***************************************************************************)
EXTENDS Integers, Sequences, FiniteSets

CONSTANTS Tabs,
          Requests,     \* 1..n, in the order in which they are made
          Selections,   \* sets of games that are asked for: payloadFingerprint
          MaxAttempts,  \* of a detached reconciliation
          MaxBegun,     \* calls that a tab begins by itself
          MaxLosses     \* answers lost, and tabs closed

VARIABLES
  tracked,   \* the storage: the status and the selection of each request in it
  asked,     \* the selection of each request that was made
  batch,     \* the batch of each request, as the service has it
  calls,     \* calls under way
  told,      \* the requests whose completion was published
  refused,   \* the requests whose failure was told
  begun, losses

requestVars == <<tracked, asked, batch, calls, told, refused, begun, losses>>

Confirming == {"confirming", "planning"}
NotAsked == "none"
ASSUME SelectionsAssumption == NotAsked \notin Selections

Call(t, role, kind, r) ==
  [tab |-> t, role |-> role, kind |-> kind, of |-> r, attempt |-> 1, at |-> "sent", saw |-> "nothing",
   resends |-> role = "detached" \/ (role = "poll" /\ tracked[r] = "confirming")]
Without(r) == [x \in DOMAIN tracked \ {r} |-> tracked[x]]
WithStatus(r, status) == [x \in DOMAIN tracked \cup {r} |-> IF x = r THEN status ELSE tracked[x]]
Swap(c, next) == calls' = (calls \ {c}) \cup next

-----------------------------------------------------------------------------
\* queueServerAnalysisBatch

Unconfirmed(s) == {r \in DOMAIN tracked : asked[r] = s /\ tracked[r] \in Confirming}

BeginsCall == begun < MaxBegun /\ begun' = begun + 1

Ask(t, s) ==
  /\ BeginsCall
  /\ \A c \in calls : c.tab = t => c.role # "asker"
  /\ IF Unconfirmed(s) # {}
     THEN /\ \E r \in Unconfirmed(s) : calls' = calls \cup {Call(t, "asker", "get", r)}
          /\ UNCHANGED <<tracked, asked>>
     ELSE \E r \in Requests :
            /\ asked[r] = NotAsked /\ \A x \in Requests : x < r => asked[x] # NotAsked
            /\ asked' = [asked EXCEPT ![r] = s]
            /\ tracked' = WithStatus(r, "confirming")
            /\ calls' = calls \cup {Call(t, "asker", "post", r)}
  /\ UNCHANGED <<batch, told, refused, losses>>

\* reconcileTrackedServerAnalysis: one look at a time in each tab.
Poll(t) ==
  /\ BeginsCall
  /\ DOMAIN tracked # {}
  /\ \A c \in calls : c.tab = t => c.role # "poll"
  /\ calls' = calls \cup {Call(t, "poll", "get", r) : r \in DOMAIN tracked}
  /\ UNCHANGED <<tracked, asked, batch, told, refused, losses>>

-----------------------------------------------------------------------------
\* The service.

Serve(c) ==
  /\ c.at = "sent"
  /\ \/ /\ LET made == IF c.kind = "post" /\ batch[c.of] = "none" THEN "planning" ELSE batch[c.of] IN
           /\ batch' = [batch EXCEPT ![c.of] = made]
           /\ Swap(c, {[c EXCEPT !.at = "served", !.saw = made]})
        /\ UNCHANGED losses
     \/ /\ losses < MaxLosses
        /\ losses' = losses + 1
        /\ Swap(c, {[c EXCEPT !.at = "served", !.saw = "error"]})
        /\ UNCHANGED batch
  /\ UNCHANGED <<tracked, asked, told, refused, begun>>

BatchMoves(r) ==
  /\ \/ batch[r] = "planning" /\ batch' = [batch EXCEPT ![r] = "running"]
     \/ batch[r] = "running" /\ batch' = [batch EXCEPT ![r] = "ended"]
  /\ UNCHANGED <<tracked, asked, calls, told, refused, begun, losses>>

-----------------------------------------------------------------------------
\* Answers.

\* acceptSummary
Accept(r, status) ==
  IF status = "ended"
  THEN tracked' = Without(r) /\ told' = told \cup {r}
  ELSE tracked' = WithStatus(r, status) /\ UNCHANGED told

\* The next try of a detached reconciliation, which looks before it posts.
Again(c) ==
  IF c.role # "detached" \/ c.attempt = MaxAttempts THEN {}
  ELSE {[Call(c.tab, "detached", "get", c.of) EXCEPT !.attempt = c.attempt + 1]}

AnswerKnown(c) ==
  /\ c.saw \in {"planning", "running", "ended"}
  /\ Accept(c.of, c.saw)
  /\ Swap(c, {})
  /\ UNCHANGED refused

\* The service does not know the request: it is sent again, if its selection
\* was stored with it when the call was made.
AnswerUnknown(c) ==
  /\ c.saw = "none"
  /\ Swap(c, IF c.resends THEN {[c EXCEPT !.kind = "post", !.at = "sent", !.saw = "nothing"]} ELSE {})
  /\ UNCHANGED <<tracked, told, refused>>

\* Only the request that was asked for is dropped when it fails.
AnswerError(c) ==
  /\ c.saw = "error"
  /\ Swap(c, Again(c))
  /\ IF c.role = "asker" /\ c.kind = "post"
     THEN tracked' = Without(c.of) /\ refused' = refused \cup {c.of}
     ELSE UNCHANGED <<tracked, refused>>
  /\ UNCHANGED told

Answer(c) ==
  /\ c.at = "served"
  /\ AnswerKnown(c) \/ AnswerUnknown(c) \/ AnswerError(c)
  /\ UNCHANGED <<asked, batch, begun, losses>>

\* Mutant: a request without an answer is dropped like one that failed.
DropsRequest(c) == tracked' = Without(c.of)

KeepsRequest(c) == UNCHANGED tracked

\* No answer in time: whether the call arrived is not known.
TimesOut(c) ==
  /\ losses < MaxLosses
  /\ losses' = losses + 1
  /\ IF c.role = "asker" /\ c.kind = "post"
     THEN /\ KeepsRequest(c)
          /\ Swap(c, IF \E d \in calls : d.tab = c.tab /\ d.role = "detached" /\ d.of = c.of THEN {}
                     ELSE {Call(c.tab, "detached", "get", c.of)})
     ELSE Swap(c, Again(c)) /\ UNCHANGED tracked
  /\ \/ UNCHANGED batch
     \/ /\ c.at = "sent" /\ c.kind = "post" /\ batch[c.of] = "none"
        /\ batch' = [batch EXCEPT ![c.of] = "planning"]
  /\ UNCHANGED <<asked, told, refused, begun>>

CloseRequestTab(t) ==
  /\ losses < MaxLosses
  /\ losses' = losses + 1
  /\ calls' = {c \in calls : c.tab # t}
  /\ calls' # calls
  /\ UNCHANGED <<tracked, asked, batch, told, refused, begun>>

-----------------------------------------------------------------------------
RequestsInit ==
  /\ tracked = [x \in {} |-> "none"]
  /\ asked = [r \in Requests |-> NotAsked] /\ batch = [r \in Requests |-> "none"]
  /\ calls = {} /\ told = {} /\ refused = {} /\ begun = 0 /\ losses = 0

RequestsNext ==
  \/ \E t \in Tabs : Poll(t) \/ CloseRequestTab(t) \/ \E s \in Selections : Ask(t, s)
  \/ \E c \in calls : Serve(c) \/ Answer(c) \/ TimesOut(c)
  \/ \E r \in Requests : BatchMoves(r)

RequestsSpec == RequestsInit /\ [][RequestsNext]_requestVars

-----------------------------------------------------------------------------
\* The user hears of every batch that the service made: until its end is
\* published, some tab that opens will still ask for it.
NoneUntold ==
  \A r \in Requests :
    batch[r] # "none" => r \in told \cup DOMAIN tracked \cup refused

\* To ask again while it is not known whether the service has the request does
\* not make a second one of the same games.
AskedOnce ==
  \A r, x \in DOMAIN tracked :
    tracked[r] = "confirming" /\ tracked[x] = "confirming" /\ asked[r] = asked[x] => r = x

\* What the tabs keep of the requests (serverAnalysisCoordinator.ts): none is lost, none is doubled.
RequestsHold == NoneUntold /\ AskedOnce
=============================================================================
