------------------------------ MODULE MaiaOpponent ------------------------------
(***************************************************************************)
(* The Maia opponent: the clients of the tabs (lib/coach/maia/client.ts,    *)
(* components/coach/useMaiaOpponent.ts), their workers (worker.ts), and the *)
(* model and the runtime that they keep on the device (storage.ts).         *)
(*                                                                          *)
(* A worker's message reaches its client at once, and bytes are good or     *)
(* bad: what verifyModel tells apart.  The tabs run one release, of which   *)
(* every caller allows the download.                                        *)
(***************************************************************************)
EXTENDS Naturals, FiniteSets

CONSTANTS
  MaiaTabs,
  MaiaClients,      \* in the order in which they are made
  MaxMaiaFaults,    \* requests that fail, workers that crash and timeouts
  MaxRemovals,
  MaxCorruptions    \* of the stored model

VARIABLES
  clients,        \* the clients made, with their workers
  currentClient,  \* clientRef of a tab
  removal,        \* removeOfflineData of a tab
  storedModel,    \* the entry of the database
  deletePending,  \* a database deletion that waits for connections to close
  runtime,        \* who stored each file of the runtime cache
  cacheNumber,    \* of the runtime cache of that name
  removedFrom,    \* history: clients whose data a completed removal took away
  maiaFaults, removals, corruptions

maiaVars == <<clients, currentClient, removal, storedModel, deletePending, runtime, cacheNumber,
              removedFrom, maiaFaults, removals, corruptions>>

Nobody == 0
MaiaFiles == {"worker", "mjs", "wasm"}
NoModel == [by |-> Nobody, good |-> FALSE]
NotRemoving == [step |-> "no", client |-> Nobody, old |-> {}]

NewClient(t) ==
  [tab |-> t, phase |-> "idle", initializing |-> FALSE, moves |-> 0,
   preparation |-> "none", force |-> FALSE, cache |-> 0,
   worker |-> "none", connected |-> FALSE, bytes |-> "none", cached |-> "none",
   modelPersisted |-> FALSE, runtimePersisted |-> FALSE,
   disturbed |-> FALSE]    \* history: something stored was deleted since its worker looked

Made == DOMAIN clients
OfTab(t) == {c \in Made : clients[c].tab = t}
Connections == {c \in Made : clients[c].connected}
OfflineReady(k) == k.phase = "ready" /\ k.modelPersisted /\ k.runtimePersisted

MaiaInit ==
  /\ clients = [c \in {} |-> NewClient("t1")]
  /\ currentClient = [t \in MaiaTabs |-> Nobody]
  /\ removal = [t \in MaiaTabs |-> NotRemoving]
  /\ storedModel = NoModel /\ deletePending = FALSE
  /\ runtime = [f \in MaiaFiles |-> Nobody] /\ cacheNumber = 0
  /\ removedFrom = {}
  /\ maiaFaults = 0 /\ removals = 0 /\ corruptions = 0

Fault == maiaFaults < MaxMaiaFaults /\ maiaFaults' = maiaFaults + 1

Unserved(k, p) == [k EXCEPT !.phase = p, !.initializing = FALSE, !.moves = 0,
                            !.worker = "none", !.connected = FALSE, !.bytes = "none", !.cached = "none",
                            !.modelPersisted = FALSE, !.runtimePersisted = FALSE, !.force = FALSE,
                            !.disturbed = FALSE]
FailAll(k) == Unserved(k, "error")
Terminate(k) == Unserved(k, "terminated")

\* The clients, with something deleted that their workers may count on.
Disturbed(ks) == [c \in DOMAIN ks |-> [ks[c] EXCEPT !.disturbed = ks[c].worker # "none"]]

Set(c, k) == clients' = [clients EXCEPT ![c] = k]

-----------------------------------------------------------------------------
(* The hook and the client *)

\* The worker that is there is asked at once; one that is being prepared, when it is installed.
AskMaia(k, force) ==
  IF k.worker # "none" THEN [k EXCEPT !.worker = "open"]
  ELSE IF k.preparation # "none" THEN k
  ELSE [k EXCEPT !.preparation = IF force THEN "fetching" ELSE "matching"]

InitializeMaia(t, force) ==
  /\ \E c \in MaiaClients :
       LET k == IF c \in Made THEN clients[c] ELSE NewClient(t)
           asked == [AskMaia(k, force) EXCEPT !.initializing = TRUE, !.force = force]
       IN /\ IF currentClient[t] = Nobody THEN c = Cardinality(Made) + 1 ELSE c = currentClient[t]
          /\ k.phase # "ready" /\ ~k.initializing
          /\ clients' = [d \in Made \cup {c} |-> IF d = c THEN asked ELSE clients[d]]
          /\ currentClient' = [currentClient EXCEPT ![t] = c]
  /\ UNCHANGED <<removal, storedModel, deletePending, runtime, cacheNumber, removedFrom,
                 maiaFaults, removals, corruptions>>

\* The caller of a preparation that fails is told, unless the client was terminated.
Unprepared(k) ==
  IF k.phase = "terminated" THEN [k EXCEPT !.preparation = "none"]
  ELSE [FailAll(k) EXCEPT !.preparation = "none"]

LoadCachedWorker(c) ==
  /\ clients[c].preparation = "matching"
  /\ Set(c, [clients[c] EXCEPT !.preparation =
               IF runtime["worker"] = Nobody \/ clients[c].phase = "terminated"
               THEN "fetching" ELSE "installing"])
  /\ UNCHANGED <<currentClient, removal, storedModel, deletePending, runtime, cacheNumber,
                 removedFrom, maiaFaults, removals, corruptions>>

\* Mutant: a client that was terminated meanwhile goes on with what it downloaded.
WantedAlways(k) == TRUE
StillWanted(k) == k.phase # "terminated"

FetchWorker(c) ==
  /\ clients[c].preparation = "fetching"
  /\ \/ /\ UNCHANGED maiaFaults
        /\ Set(c, IF StillWanted(clients[c]) THEN [clients[c] EXCEPT !.preparation = "opening"]
                                        ELSE Unprepared(clients[c]))
     \/ Fault /\ Set(c, Unprepared(clients[c]))
  /\ UNCHANGED <<currentClient, removal, storedModel, deletePending, runtime, cacheNumber,
                 removedFrom, removals, corruptions>>

OpenRuntimeCache(c) ==
  /\ clients[c].preparation = "opening"
  /\ \/ /\ UNCHANGED maiaFaults
        /\ Set(c, IF StillWanted(clients[c])
                  THEN [clients[c] EXCEPT !.preparation = "putting", !.cache = cacheNumber]
                  ELSE Unprepared(clients[c]))
     \/ Fault /\ Set(c, [clients[c] EXCEPT !.preparation = "installing"])
  /\ UNCHANGED <<currentClient, removal, storedModel, deletePending, runtime, cacheNumber,
                 removedFrom, removals, corruptions>>

\* What is put into a cache that was deleted meanwhile is not found under its name.
PutWorker(c) ==
  /\ clients[c].preparation = "putting"
  /\ \/ /\ UNCHANGED maiaFaults
        /\ runtime' = IF clients[c].cache = cacheNumber THEN [runtime EXCEPT !["worker"] = c] ELSE runtime
     \/ Fault /\ UNCHANGED runtime
  /\ Set(c, [clients[c] EXCEPT !.preparation = "installing", !.cache = 0])
  /\ UNCHANGED <<currentClient, removal, storedModel, deletePending, cacheNumber,
                 removedFrom, removals, corruptions>>

InstallWorker(c) ==
  /\ clients[c].preparation = "installing"
  /\ Set(c, IF clients[c].phase = "terminated" THEN Unprepared(clients[c])
            ELSE [clients[c] EXCEPT !.preparation = "none",
                    !.worker = IF clients[c].initializing THEN "open" ELSE "idle"])
  /\ UNCHANGED <<currentClient, removal, storedModel, deletePending, runtime, cacheNumber,
                 removedFrom, maiaFaults, removals, corruptions>>

\* A timeout of a request, or a worker that crashes.
RequestFails(c) ==
  /\ clients[c].initializing \/ clients[c].moves > 0 \/ clients[c].worker # "none"
  /\ Fault
  /\ Set(c, FailAll(clients[c]))
  /\ UNCHANGED <<currentClient, removal, storedModel, deletePending, runtime, cacheNumber,
                 removedFrom, removals, corruptions>>

Reset(t) ==
  /\ currentClient[t] # Nobody
  /\ Set(currentClient[t], Terminate(clients[currentClient[t]]))
  /\ currentClient' = [currentClient EXCEPT ![t] = Nobody]
  /\ UNCHANGED <<removal, storedModel, deletePending, runtime, cacheNumber, removedFrom,
                 maiaFaults, removals, corruptions>>

-----------------------------------------------------------------------------
(* The worker *)

Working(c, stage) == clients[c].worker = stage

OpenModel(c) ==
  /\ Working(c, "open") /\ ~deletePending
  /\ \/ /\ UNCHANGED maiaFaults
        /\ Set(c, [clients[c] EXCEPT !.worker = "verify", !.connected = TRUE, !.disturbed = FALSE,
                     !.cached = IF storedModel.by = Nobody THEN "none"
                                ELSE IF storedModel.good THEN "good" ELSE "bad"])
     \/ Fault /\ Set(c, [clients[c] EXCEPT !.worker = "download", !.disturbed = FALSE])
  /\ UNCHANGED <<currentClient, removal, storedModel, deletePending, runtime, cacheNumber,
                 removedFrom, removals, corruptions>>

\* A cached model that is not the one expected is deleted, and is not used if that fails.
VerifyCached(c) ==
  /\ Working(c, "verify")
  /\ LET good == clients[c].cached = "good"
         k == [clients[c] EXCEPT !.cached = "none", !.bytes = IF good THEN "good" ELSE "none",
                 !.worker = IF good THEN "runtime" ELSE "download",
                 !.modelPersisted = good, !.connected = ~good]
     IN \/ /\ clients[c].cached # "bad"
           /\ Set(c, k) /\ UNCHANGED <<storedModel, maiaFaults>>
        \/ /\ clients[c].cached = "bad"
           /\ storedModel' = NoModel
           /\ clients' = [Disturbed(clients) EXCEPT ![c] = k] /\ UNCHANGED maiaFaults
        \/ clients[c].cached = "bad" /\ Fault /\ Set(c, k) /\ UNCHANGED storedModel
  /\ UNCHANGED <<currentClient, removal, deletePending, runtime, cacheNumber, removedFrom, removals,
                 corruptions>>

\* A download that fails, ends early or is not the model expected ends the initialisation.
DownloadModel(c) ==
  /\ Working(c, "download")
  /\ \/ UNCHANGED maiaFaults /\ Set(c, [clients[c] EXCEPT !.worker = "store", !.bytes = "good"])
     \/ Fault /\ Set(c, FailAll(clients[c]))
  /\ UNCHANGED <<currentClient, removal, storedModel, deletePending, runtime, cacheNumber,
                 removedFrom, removals, corruptions>>

StoreModel(c) ==
  /\ Working(c, "store")
  /\ \/ /\ clients[c].connected
        /\ storedModel' = [by |-> c, good |-> TRUE] /\ UNCHANGED maiaFaults
        /\ Set(c, [clients[c] EXCEPT !.worker = "runtime", !.modelPersisted = TRUE, !.connected = FALSE])
     \/ /\ IF clients[c].connected THEN Fault ELSE UNCHANGED maiaFaults
        /\ UNCHANGED storedModel
        /\ Set(c, [clients[c] EXCEPT !.worker = "runtime", !.modelPersisted = FALSE, !.connected = FALSE])
  /\ UNCHANGED <<currentClient, removal, deletePending, runtime, cacheNumber,
                 removedFrom, removals, corruptions>>

ReadRuntime(c) ==
  /\ Working(c, "runtime")
  /\ Set(c, IF ~clients[c].force /\ runtime["mjs"] # Nobody /\ runtime["wasm"] # Nobody
            THEN [clients[c] EXCEPT !.worker = "create", !.runtimePersisted = runtime["worker"] # Nobody]
            ELSE [clients[c] EXCEPT !.worker = "fetch"])
  /\ UNCHANGED <<currentClient, removal, storedModel, deletePending, runtime, cacheNumber,
                 removedFrom, maiaFaults, removals, corruptions>>

FetchRuntime(c) ==
  /\ Working(c, "fetch")
  /\ \/ UNCHANGED maiaFaults /\ Set(c, [clients[c] EXCEPT !.worker = "put", !.cache = cacheNumber])
     \/ Fault /\ Set(c, FailAll(clients[c]))
  /\ UNCHANGED <<currentClient, removal, storedModel, deletePending, runtime, cacheNumber,
                 removedFrom, removals, corruptions>>

PersistRuntime(c) ==
  /\ Working(c, "put")
  /\ \/ /\ UNCHANGED maiaFaults
        /\ runtime' = IF clients[c].cache = cacheNumber
                      THEN [f \in MaiaFiles |-> IF f = "worker" THEN runtime[f] ELSE c] ELSE runtime
        /\ Set(c, [clients[c] EXCEPT !.worker = "create", !.cache = 0,
                     !.runtimePersisted = runtime["worker"] # Nobody])
     \/ /\ Fault /\ UNCHANGED runtime
        /\ Set(c, [clients[c] EXCEPT !.worker = "create", !.cache = 0, !.runtimePersisted = FALSE])
  /\ UNCHANGED <<currentClient, removal, storedModel, deletePending, cacheNumber,
                 removedFrom, removals, corruptions>>

CreateSession(c) ==
  /\ Working(c, "create")
  /\ \/ UNCHANGED maiaFaults
        /\ Set(c, [clients[c] EXCEPT !.worker = "idle", !.phase = "ready", !.initializing = FALSE, !.force = FALSE])
     \/ Fault /\ Set(c, FailAll(clients[c]))
  /\ UNCHANGED <<currentClient, removal, storedModel, deletePending, runtime, cacheNumber,
                 removedFrom, removals, corruptions>>

SelectMove(t) ==
  \E c \in Made :
    /\ c = currentClient[t] /\ clients[c].phase = "ready" /\ clients[c].moves = 0
    /\ Set(c, [clients[c] EXCEPT !.moves = 1])
    /\ UNCHANGED <<currentClient, removal, storedModel, deletePending, runtime, cacheNumber,
                   removedFrom, maiaFaults, removals, corruptions>>

\* A move that fails leaves its worker in error: the next initialisation loads it anew.
AnswerMove(c) ==
  /\ clients[c].moves > 0 /\ Working(c, "idle")
  /\ \/ UNCHANGED maiaFaults /\ Set(c, [clients[c] EXCEPT !.moves = 0])
     \/ Fault /\ Set(c, [clients[c] EXCEPT !.moves = 0, !.phase = "error", !.bytes = "none"])
  /\ UNCHANGED <<currentClient, removal, storedModel, deletePending, runtime, cacheNumber,
                 removedFrom, removals, corruptions>>

-----------------------------------------------------------------------------
(* The removal of what is stored *)

RemoveOfflineData(t) ==
  /\ removal[t].step = "no" /\ removals < MaxRemovals /\ removals' = removals + 1
  /\ removal' = [removal EXCEPT ![t] = [step |-> "waiting", client |-> currentClient[t], old |-> OfTab(t)]]
  /\ clients' = [c \in Made |-> IF c = currentClient[t] THEN Terminate(clients[c]) ELSE clients[c]]
  /\ currentClient' = [currentClient EXCEPT ![t] = Nobody]
  /\ UNCHANGED <<storedModel, deletePending, runtime, cacheNumber, removedFrom, maiaFaults,
                 corruptions>>

TerminatedAndWaited(t) ==
  /\ removal[t].step = "waiting"
  /\ \A c \in Made : c = removal[t].client => clients[c].preparation = "none"
  /\ removal' = [removal EXCEPT ![t].step = "model"]
  /\ UNCHANGED <<clients, currentClient, storedModel, deletePending, runtime, cacheNumber, removedFrom,
                 maiaFaults, removals, corruptions>>

\* With a connection open the removal fails, and the browser deletes when it closes.
DeleteModelDatabase(t) ==
  /\ removal[t].step = "model"
  /\ IF Connections = {}
     THEN /\ storedModel' = NoModel /\ clients' = Disturbed(clients)
          /\ removal' = [removal EXCEPT ![t].step = "runtime"]
          /\ UNCHANGED deletePending
     ELSE /\ deletePending' = TRUE
          /\ removal' = [removal EXCEPT ![t] = NotRemoving]
          /\ UNCHANGED <<storedModel, clients>>
  /\ UNCHANGED <<currentClient, runtime, cacheNumber, removedFrom, maiaFaults, removals,
                 corruptions>>

BlockedDeletion ==
  /\ deletePending /\ Connections = {}
  /\ deletePending' = FALSE /\ storedModel' = NoModel /\ clients' = Disturbed(clients)
  /\ UNCHANGED <<currentClient, removal, runtime, cacheNumber, removedFrom, maiaFaults,
                 removals, corruptions>>

DeleteRuntimeCaches(t) ==
  /\ removal[t].step = "runtime"
  /\ runtime' = [f \in MaiaFiles |-> Nobody] /\ cacheNumber' = cacheNumber + 1
  /\ clients' = Disturbed(clients)
  /\ removedFrom' = removedFrom \cup removal[t].old
  /\ removal' = [removal EXCEPT ![t] = NotRemoving]
  /\ UNCHANGED <<currentClient, storedModel, deletePending, maiaFaults, removals, corruptions>>

CorruptModel ==
  /\ storedModel.good /\ corruptions < MaxCorruptions
  /\ corruptions' = corruptions + 1
  /\ storedModel' = [storedModel EXCEPT !.good = FALSE]
  /\ clients' = Disturbed(clients)
  /\ UNCHANGED <<currentClient, removal, deletePending, runtime, cacheNumber, removedFrom,
                 maiaFaults, removals>>

MaiaNext ==
  \/ \E t \in MaiaTabs :
       \/ \E force \in BOOLEAN : InitializeMaia(t, force)
       \/ Reset(t) \/ SelectMove(t)
       \/ RemoveOfflineData(t) \/ TerminatedAndWaited(t) \/ DeleteModelDatabase(t) \/ DeleteRuntimeCaches(t)
  \/ \E c \in Made :
       \/ LoadCachedWorker(c) \/ FetchWorker(c) \/ OpenRuntimeCache(c) \/ PutWorker(c) \/ InstallWorker(c)
       \/ RequestFails(c) \/ AnswerMove(c)
       \/ OpenModel(c) \/ VerifyCached(c) \/ DownloadModel(c) \/ StoreModel(c)
       \/ ReadRuntime(c) \/ FetchRuntime(c) \/ PersistRuntime(c) \/ CreateSession(c)
  \/ BlockedDeletion \/ CorruptModel

MaiaSpec == MaiaInit /\ [][MaiaNext]_maiaVars

-----------------------------------------------------------------------------
(* Properties *)

\* Nothing that a client stored before the removal of its tab's data is found after it.
RemovedStaysRemoved ==
  /\ storedModel.by \notin removedFrom
  /\ \A f \in MaiaFiles : runtime[f] \notin removedFrom

\* Nobody waits for a worker that is not there, or not being prepared.
WaitersAreServed ==
  \A c \in Made :
    clients[c].initializing \/ clients[c].moves > 0 =>
      clients[c].worker # "none" \/ clients[c].preparation # "none"

\* A worker runs for the client that its tab uses, and never after it.
NoOrphanWorker ==
  \A c \in Made : clients[c].worker # "none" => currentClient[clients[c].tab] = c

\* Moves come from a verified model; and what is called ready offline is stored, unless
\* something was deleted since its worker looked.
ReadinessIsTrue ==
  \A c \in Made :
    /\ clients[c].phase = "ready" => clients[c].bytes = "good"
    /\ OfflineReady(clients[c]) /\ ~clients[c].disturbed =>
         storedModel.good /\ \A f \in MaiaFiles : runtime[f] # Nobody

\* The data of the Maia opponent are removed for good, nobody waits for ever, no worker is
\* left behind, and what is said of them is true (terminateAndWait's comment, client.ts).
MaiaIsSound == RemovedStaysRemoved /\ WaitersAreServed /\ NoOrphanWorker /\ ReadinessIsTrue

=============================================================================
