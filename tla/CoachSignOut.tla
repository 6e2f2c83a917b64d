------------------------------ MODULE CoachSignOut ------------------------------
(***************************************************************************)
(* The coach's checkpoint of one owner on a device, and the sign-out that   *)
(* removes it while the owner's other tabs may be at a game                 *)
(* (lib/coach/signOut.ts, sessionCleanup.ts, sessionStore.ts,               *)
(* offlineAccess.ts, offlineOwner.ts, components/coach/CoachOnlineShell.tsx *)
(* and CoachOfflineShell.tsx).                                              *)
(*                                                                          *)
(* navigator.locks serves the operations on the owner's store in the order  *)
(* in which the tabs ask.  Events of the storage that tabs share, and the   *)
(* answers about the session, arrive later.                                 *)
(***************************************************************************)
EXTENDS Integers, Sequences, FiniteSets

CONSTANTS Pages,          \* the tabs
          MaxVisits, MaxSignOuts, MaxAsked    \* pages opened, sign-outs, operations that wait

VARIABLES
  session,      \* the server has the owner's session
  page,         \* where a tab is; blockedPersistenceOwners of its memory
  events,       \* events that have not reached a tab
  granted,      \* the device's coach access, and the owner it remembers
  operations,   \* requests for the owner's lock
  checkpoint,   \* the device holds a checkpoint of the owner
  tombstone,    \* the durable block
  signedOut,    \* history: a sign-out was finished, and no sign-in followed
  stale,        \* history: since then a game was mounted on an answer that was
                \* no longer true, when its checkpoint was already to be cleared
  visits, signOuts

signOutVars == <<session, page, events, granted, operations, checkpoint, tombstone, signedOut, stale,
                 visits, signOuts>>

Closed == [at |-> "closed", owns |-> FALSE, blocked |-> FALSE]
Requested(t, op) == Append(operations, [by |-> t, op |-> op, signOut |-> signOuts])
AtGame(t) == page[t].at \in {"game", "offline game"}

\* The requests that wait; of a closed tab, none is served.
Waiting == {i \in DOMAIN operations : operations[i].op # "gone"}

-----------------------------------------------------------------------------
\* The pages

\* /play redirects who has no session; the page then asks for the session itself.
OpenPlay(t) ==
  /\ page[t].at = "closed" /\ session
  /\ visits < MaxVisits /\ visits' = visits + 1
  /\ page' = [page EXCEPT ![t] = [Closed EXCEPT !.at = "asking"]]
  /\ UNCHANGED <<session, events, granted, operations, checkpoint, tombstone, signedOut, stale, signOuts>>

\* The offline shell needs the access that an earlier visit was granted.
OpenOffline(t) ==
  /\ page[t].at = "closed" /\ granted
  /\ visits < MaxVisits /\ visits' = visits + 1
  /\ page' = [page EXCEPT ![t] = [Closed EXCEPT !.at = "offline game"]]
  /\ UNCHANGED <<session, events, granted, operations, checkpoint, tombstone, signedOut, stale, signOuts>>

SessionRead(t) ==
  /\ page[t].at \in {"asking", "game"}
  /\ page' = [page EXCEPT ![t].owns = session, ![t].at = IF @ = "asking" THEN "told" ELSE @]
  /\ UNCHANGED <<session, events, granted, operations, checkpoint, tombstone, signedOut, stale, visits, signOuts>>

ClearAsked ==
  signedOut \/ \E i \in DOMAIN operations : operations[i].op = "wipe" /\ operations[i].signOut = signOuts

\* The game is mounted, on the answer that the tab was given: access is granted,
\* and the block is lifted, although the session may have ended since.
MountGame(t) ==
  /\ page[t].at = "told" /\ page[t].owns
  /\ page' = [page EXCEPT ![t].at = "game", ![t].blocked = FALSE]
  /\ granted' = TRUE
  /\ operations' = Requested(t, "allow")
  /\ stale' = (stale \/ (~session /\ ClearAsked))
  /\ UNCHANGED <<session, events, checkpoint, tombstone, signedOut, visits, signOuts>>

LockGame(t) ==
  /\ \/ page[t].at \in {"told", "game"} /\ ~page[t].owns
     \/ AtGame(t) /\ "access" \in events[t] /\ ~granted
  /\ page' = [page EXCEPT ![t].at = "locked"]
  /\ events' = [events EXCEPT ![t] = @ \ {"access"}]
  /\ UNCHANGED <<session, granted, operations, checkpoint, tombstone, signedOut, stale, visits, signOuts>>

\* receiveSignOutBlock
Blocked(t) ==
  /\ "block" \in events[t] /\ page[t].at # "closed"
  /\ events' = [events EXCEPT ![t] = @ \ {"block"}]
  /\ page' = [page EXCEPT ![t].blocked = TRUE]
  /\ UNCHANGED <<session, granted, operations, checkpoint, tombstone, signedOut, stale, visits, signOuts>>

SaveCheckpoint(t) ==
  /\ AtGame(t) /\ ~page[t].blocked
  /\ Cardinality(Waiting) < MaxAsked
  /\ operations' = Requested(t, "save")
  /\ UNCHANGED <<session, page, events, granted, checkpoint, tombstone, signedOut, stale, visits, signOuts>>

CloseTab(t) ==
  /\ page[t].at # "closed"
  /\ page' = [page EXCEPT ![t] = Closed]
  /\ events' = [events EXCEPT ![t] = {}]
  /\ operations' = [i \in DOMAIN operations |->
                      [operations[i] EXCEPT !.op = IF operations[i].by = t THEN "gone" ELSE @]]
  /\ UNCHANGED <<session, granted, checkpoint, tombstone, signedOut, stale, visits, signOuts>>

-----------------------------------------------------------------------------
\* Signing out

\* The server's session ends first: signOutAndClearCoachSession.
Revoke(t) ==
  /\ AtGame(t) /\ session
  /\ signOuts < MaxSignOuts /\ signOuts' = signOuts + 1
  /\ session' = FALSE
  /\ page' = [page EXCEPT ![t].at = "leaving"]
  /\ UNCHANGED <<events, granted, operations, checkpoint, tombstone, signedOut, stale, visits>>

\* clearCoachSessionOnSignOut: the other tabs are told, and the store is to be
\* cleared and blocked.
ClearLocal(t) ==
  /\ page[t].at = "leaving"
  /\ granted' = FALSE
  /\ page' = [page EXCEPT ![t].at = "clearing", ![t].blocked = TRUE]
  /\ events' = [u \in Pages |-> IF u = t \/ page[u].at = "closed" THEN events[u]
                                ELSE events[u] \cup {"access", "block"}]
  /\ operations' = Requested(t, "wipe")
  /\ UNCHANGED <<session, checkpoint, tombstone, signedOut, stale, visits, signOuts>>

\* Mutant: a save asks the memory of its tab, and not the store.
Unblocked(t) == ~page[t].blocked

MaySave(t) == ~page[t].blocked /\ ~tombstone

StoreOperation ==
  LET o == Head(operations) IN
  /\ operations # <<>> /\ operations' = Tail(operations)
  /\ CASE o.op = "allow" -> tombstone' = FALSE /\ UNCHANGED <<checkpoint, signedOut, page>>
       [] o.op = "gone" -> UNCHANGED <<checkpoint, tombstone, signedOut, page>>
       [] o.op = "save" -> /\ checkpoint' = (checkpoint \/ MaySave(o.by))
                           /\ UNCHANGED <<tombstone, signedOut, page>>
       [] OTHER -> /\ checkpoint' = FALSE /\ tombstone' = TRUE /\ signedOut' = (~session /\ o.signOut = signOuts)
                   /\ page' = [page EXCEPT ![o.by] = Closed]
  /\ UNCHANGED <<session, events, granted, stale, visits, signOuts>>

SignIn ==
  /\ ~session /\ session' = TRUE /\ signedOut' = FALSE /\ stale' = FALSE
  /\ UNCHANGED <<page, events, granted, operations, checkpoint, tombstone, visits, signOuts>>

SignOutInit ==
  /\ session = TRUE /\ page = [t \in Pages |-> Closed] /\ events = [t \in Pages |-> {}]
  /\ granted = FALSE /\ operations = <<>> /\ checkpoint = FALSE /\ tombstone = FALSE
  /\ signedOut = FALSE /\ stale = FALSE /\ visits = 0 /\ signOuts = 0

SignOutNext ==
  \/ \E t \in Pages :
       \/ OpenPlay(t) \/ OpenOffline(t) \/ SessionRead(t) \/ MountGame(t) \/ LockGame(t)
       \/ Blocked(t) \/ SaveCheckpoint(t) \/ CloseTab(t) \/ Revoke(t) \/ ClearLocal(t)
  \/ StoreOperation \/ SignIn

SignOutSpec == SignOutInit /\ [][SignOutNext]_signOutVars

-----------------------------------------------------------------------------
\* Once a sign-out is finished, no checkpoint of the owner comes back to the
\* device before the owner signs in again, whatever tabs were at a game, had a
\* save under way, were being opened, or mounted a game before the sign-out came
\* to the store.  The code breaks this in one case, which is left open: a tab
\* that was told of the session before it ended, and mounts its game only after
\* the store was to be cleared, lifts the block of the sign-out.
SignedOutIsCleared == signedOut /\ ~stale => ~checkpoint

=============================================================================
