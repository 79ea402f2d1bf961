--------------------------- MODULE QueryEmbedder ---------------------------
(***************************************************************************)
(* The warm query-embedding helper of semantic/query_embedder.py: search   *)
(* processes that find, replace or spawn it and send it their query, the   *)
(* index process that shuts it down before it loads the model itself, and  *)
(* the helper processes.                                                   *)
(*                                                                         *)
(* They share three things in the runtime directory: the socket path, the  *)
(* flock on the lock file (the lifetime of a helper) and the POSIX record  *)
(* lock on the same file (the spawn lock of a client).  Each step is one   *)
(* system call that another process can tell apart, and any process may be *)
(* killed between two.                                                     *)
(*                                                                         *)
(* Not modelled: peers of another user, a lock file that is deleted, and   *)
(* how long a wait lasts: a window that elapses is a step that may be      *)
(* taken.  A probe of the lifetime lock takes and drops it in one step,    *)
(* since helpers retry for two seconds.                                    *)
(***************************************************************************)
EXTENDS Integers, Sequences

CONSTANTS
  Clients,      \* client processes; each runs request_query_embedding
  Indexers,     \* or, these, shutdown_query_embedder: client_admission lets
                \* one `index' run at a time
  Helpers,      \* helper processes, a slot used again once its process is gone
  Versions,     \* package version, model revision and test token together
  Version(_),   \* what a client is compatible with, and spawns
  NoHelper,     \* no process, no socket, a free lock
  Gone,         \* a process that exited: what is left of a socket file or
                \* of a spawned child
  MaxKills      \* bound: processes killed

ASSUME ActorsAssumption ==
  /\ Indexers \subseteq Clients /\ Clients \cap Helpers = {}
  /\ {NoHelper, Gone} \cap (Helpers \cup Clients) = {} /\ Gone # NoHelper
  /\ NoHelper \notin Versions
ASSUME VersionAssumption == \A c \in Clients : Version(c) \in Versions
ASSUME KillsAssumption == MaxKills \in Nat

VARIABLES
  pc,        \* where each process is
  conn,      \* its connection to a helper
  tried,     \* an embed request failed once and was repeated
  child,     \* the helper it spawned, while it waits for its hello
  awaited,   \* the recorded pid whose exit it waits for
  target,    \* the lifetime owner when a shutdown began, until it exits
  spawnLock, \* owner of the record lock
  lifetime,  \* owner of the flock
  pidFile,   \* the pid in the lock file
  sock,      \* whose socket the path names
  helper,    \* the helper processes
  backlog,   \* per listener, the clients whose connections wait to be
             \* accepted, in order
  kills

clientVars == <<pc, conn, tried, child, awaited, target>>
fileVars == <<spawnLock, lifetime, pidFile, sock>>
vars == <<clientVars, fileVars, helper, backlog, kills>>

-----------------------------------------------------------------------------
(* A helper process; `ghost': a connection of a client that was killed is  *)
(* still in its queue.                                                     *)
Stages == {"none", "starting", "bound", "serving", "embedding", "closing",
           "closed", "exiting"}
HelperRow == [stage : Stages, version : Versions \cup {NoHelper},
              loaded : BOOLEAN, ghost : BOOLEAN]
NoProcess == [stage |-> "none", version |-> NoHelper, loaded |-> FALSE,
              ghost |-> FALSE]
NewProcess(v) == [NoProcess EXCEPT !.stage = "starting", !.version = v]
Alive(h) == helper[h] # NoProcess
At(h, stage) == helper[h].stage = stage

(* The model is in memory from the first query until release_model.        *)
Loaded(h) == helper[h].loaded \/ At(h, "embedding")
Listening(h) ==
  h \in Helpers /\ helper[h].stage \in {"serving", "embedding", "closing"}

(* A connection: waiting, accepted, or answered (by a version).  "reset"   *)
(* is an OSError of send or recv, "eof" the end of the stream without a    *)
(* terminal response, which is a RuntimeError.                             *)
Answers == {"hello", "ack", "result", "error", "reset", "eof"}
Connection == [state : {"none", "pending", "accepted"} \cup Answers,
               to : Helpers \cup {NoHelper}, by : Versions \cup {NoHelper}]
NoConn == [state |-> "none", to |-> NoHelper, by |-> NoHelper]
Reply(c, a) == [state |-> a, to |-> NoHelper, by |-> c.by]

(* Where a process sends hello, where it has the spawn lock, and the rest. *)
Greeting == {"fast", "spawn", "await"}
InSpawn == {"spawn", "probe", "spawning", "await", "awaitProbe", "stopRead",
            "stopSend", "stopWait", "stopUnlink", "stopExit"}
Shutting == {"shutSend", "shutProbe", "shutDone", "shutWait", "shutUnlink",
             "shutExit", "indexing"}
Pcs == {"idle", "fast", "lockWait", "embed"} \cup InSpawn \cup Shutting

-----------------------------------------------------------------------------
(* Mutants: helpers below as a bug would have them.  No specification uses *)
(* them; README.md says which property each one must break.                *)

AlwaysFree(l) == TRUE
NeverHungUp(c, h) == c
KeepsLock(h) == lifetime
KeepsSocket(h) == sock
MarkedGone(f, h, v) == [p \in DOMAIN f |-> IF f[p] = h THEN Gone ELSE f[p]]
-----------------------------------------------------------------------------
(* _acquire_lifetime_lock and _descriptor_lifetime_lock_free; lockf.       *)
LifetimeFree(l) == l = NoHelper
SpawnLockFree(l) == l = NoHelper

(* A listener that closes resets the connections it has not accepted; one  *)
(* that was accepted and read ends without an answer.                      *)
HangUp(c, h) ==
  IF c.to # h THEN c
  ELSE Reply(c, IF c.state = "pending" THEN "reset" ELSE "eof")

HangUpAll(h) ==
  /\ conn' = [p \in Clients |-> HangUp(conn[p], h)]
  /\ backlog' = [backlog EXCEPT ![h] = <<>>]

(* _unlink_owned_socket, and flock(LOCK_UN) or the end of the process.     *)
UnlinkOwned(h) == IF sock = h THEN NoHelper ELSE sock
LetGo(h) == IF lifetime = h THEN NoHelper ELSE lifetime

Forgotten(f, h, v) == [p \in DOMAIN f |-> IF f[p] = h THEN v ELSE f[p]]

Init ==
  /\ pc = [p \in Clients |-> "idle"]
  /\ conn = [p \in Clients |-> NoConn]
  /\ tried = [s \in Clients |-> FALSE]
  /\ child = [s \in Clients |-> NoHelper]
  /\ awaited = [p \in Clients |-> NoHelper]
  /\ target = [i \in Clients |-> NoHelper]
  /\ spawnLock = NoHelper /\ lifetime = NoHelper
  /\ pidFile = NoHelper /\ sock = NoHelper
  /\ helper = [h \in Helpers |-> NoProcess]
  /\ backlog = [h \in Helpers |-> <<>>]
  /\ kills = 0

-----------------------------------------------------------------------------
(* The helper process: serve_query_embedder.                               *)

HelperUnchanged == UNCHANGED <<pc, tried, spawnLock, kills>>
Become(h, stage) == helper' = [helper EXCEPT ![h].stage = stage]

(* The process is gone; a socket file that still is its own stays behind.  *)
Exit(h) ==
  /\ helper' = [helper EXCEPT ![h] = NoProcess]
  /\ HangUpAll(h)
  /\ child' = Forgotten(child, h, Gone)
  /\ awaited' = Forgotten(awaited, h, NoHelper)
  /\ target' = Forgotten(target, h, NoHelper)
  /\ lifetime' = LetGo(h)
  /\ pidFile' = IF pidFile = h THEN NoHelper ELSE pidFile
  /\ sock' = IF sock = h THEN Gone ELSE sock

(* The flock; then the pid is written, whatever file is at the socket path *)
(* is unlinked, and the listener bound: steps nobody can interfere with.   *)
TakeLifetime(h) ==
  /\ At(h, "starting") /\ LifetimeFree(lifetime)
  /\ Become(h, "bound")
  /\ lifetime' = h /\ pidFile' = h /\ sock' = h
  /\ UNCHANGED <<conn, backlog, child, awaited, target>>
  /\ HelperUnchanged

(* Another helper owns the lock for two seconds.                           *)
GiveUp(h) ==
  /\ At(h, "starting") /\ ~LifetimeFree(lifetime)
  /\ Exit(h) /\ HelperUnchanged

(* chmod, listen and stat of the path; they fail when it was unlinked.     *)
Listen(h) ==
  /\ At(h, "bound")
  /\ Become(h, IF sock = h THEN "serving" ELSE "closing")
  /\ UNCHANGED <<conn, backlog, child, awaited, target, lifetime, pidFile,
                 sock>>
  /\ HelperUnchanged

(* _serve_loop accepts a connection, and _dispatch_request answers it.     *)
Serve(h, p) ==
  /\ At(h, "serving")
  /\ backlog[h] # <<>> /\ p = Head(backlog[h])
  /\ \/ /\ pc[p] \in Greeting
        /\ conn' = [conn EXCEPT ![p] = Reply(@, "hello")]
        /\ UNCHANGED helper
     \/ /\ pc[p] \in {"stopSend", "shutSend"}
        /\ conn' = [conn EXCEPT ![p] = Reply(@, "ack")]
        /\ Become(h, "closing")
     \/ /\ pc[p] = "embed"
        /\ conn' = [conn EXCEPT ![p].state = "accepted"]
        /\ Become(h, "embedding")
  /\ backlog' = [backlog EXCEPT ![h] = Tail(@)]
  /\ UNCHANGED <<child, awaited, target, lifetime, pidFile, sock>>
  /\ HelperUnchanged

(* The query is embedded, or fails, perhaps with the model loaded.  When   *)
(* the client is gone the send fails, and the helper leaves its loop.      *)
FinishEmbed(h) ==
  /\ At(h, "embedding")
  /\ \E loaded \in {helper[h].loaded, TRUE} :
       LET served == {p \in Clients :
                        conn[p].to = h /\ conn[p].state = "accepted"}
       IN /\ helper' = [helper EXCEPT
               ![h].loaded = loaded,
               ![h].stage = IF served = {} THEN "closing" ELSE "serving"]
          /\ \E a \in IF loaded THEN {"result", "error"} ELSE {"error"} :
               conn' = [p \in Clients |->
                 IF p \in served THEN Reply(conn[p], a) ELSE conn[p]]
  /\ UNCHANGED <<backlog, child, awaited, target, lifetime, pidFile, sock>>
  /\ HelperUnchanged

(* The request of a client that is gone: the answer cannot be sent, unless *)
(* the client died before it sent anything.                                *)
ServeGhost(h) ==
  /\ At(h, "serving") /\ helper[h].ghost
  /\ \E to \in {"serving", "closing"} :
       helper' = [helper EXCEPT ![h].ghost = FALSE, ![h].stage = to]
  /\ UNCHANGED <<conn, backlog, child, awaited, target, lifetime, pidFile,
                 sock>>
  /\ HelperUnchanged

(* The warm window elapses, or the path names another socket or none.      *)
LeaveLoop(h) ==
  /\ At(h, "serving")
  /\ Become(h, "closing")
  /\ UNCHANGED <<conn, backlog, child, awaited, target, lifetime, pidFile,
                 sock>>
  /\ HelperUnchanged

(* The finally of serve_query_embedder: unlink, close, release_model ...   *)
Close(h) ==
  /\ At(h, "closing")
  /\ helper' = [helper EXCEPT ![h].stage = "closed", ![h].loaded = FALSE,
                              ![h].ghost = FALSE]
  /\ sock' = UnlinkOwned(h)
  /\ HangUpAll(h)
  /\ UNCHANGED <<child, awaited, target, lifetime, pidFile>>
  /\ HelperUnchanged

(* ... and unlock, before the process exits.                               *)
Unlock(h) ==
  /\ At(h, "closed")
  /\ Become(h, "exiting")
  /\ lifetime' = LetGo(h)
  /\ UNCHANGED <<conn, backlog, child, awaited, target, pidFile, sock>>
  /\ HelperUnchanged

Leave(h) == At(h, "exiting") /\ Exit(h) /\ HelperUnchanged

HelperStep(h) ==
  \/ TakeLifetime(h) \/ GiveUp(h) \/ Listen(h)
  \/ \E p \in Clients : Serve(h, p)
  \/ FinishEmbed(h) \/ ServeGhost(h) \/ LeaveLoop(h)
  \/ Close(h) \/ Unlock(h) \/ Leave(h)

KillHelper(h) ==
  /\ Alive(h) /\ kills < MaxKills
  /\ kills' = kills + 1
  /\ Exit(h)
  /\ UNCHANGED <<pc, tried, spawnLock>>

-----------------------------------------------------------------------------
(* Connections of the clients: _exchange.                                  *)

Move(p, from, to) == pc[p] = from /\ pc' = [pc EXCEPT ![p] = to]
Hang(p) == conn' = [conn EXCEPT ![p] = NoConn]
Got(p, answers) == conn[p].state \in answers

Asks(p) ==
  /\ pc[p] \in Greeting \cup {"embed", "stopSend", "shutSend"}
  /\ conn[p] = NoConn

Connect(p) ==
  /\ Asks(p) /\ Listening(sock)
  /\ conn' = [conn EXCEPT ![p] =
       [state |-> "pending", to |-> sock, by |-> helper[sock].version]]
  /\ backlog' = [backlog EXCEPT ![sock] = Append(@, p)]
  /\ UNCHANGED <<pc, tried, child, awaited, target, fileVars, helper, kills>>

(* No listener to connect to, or a connection that was reset: an OSError.  *)
OSErr(p) == (Asks(p) /\ ~Listening(sock)) \/ Got(p, {"reset"})
Compatible(s) == Got(s, {"hello"}) /\ conn[s].by = Version(s)
Incompatible(s) == Got(s, {"hello"}) /\ conn[s].by # Version(s)

(* The request ends, with a vector or with an exception; a finally gives   *)
(* the spawn lock back.                                                    *)
DropSpawnLock(s) ==
  spawnLock' = IF spawnLock = s THEN NoHelper ELSE spawnLock
Forget(s) ==
  /\ pc' = [pc EXCEPT ![s] = "idle"]
  /\ Hang(s)
  /\ tried' = [tried EXCEPT ![s] = FALSE]
  /\ child' = [child EXCEPT ![s] = NoHelper]
  /\ awaited' = [awaited EXCEPT ![s] = NoHelper]
  /\ target' = [target EXCEPT ![s] = NoHelper]
  /\ DropSpawnLock(s)
End(s) ==
  /\ Forget(s)
  /\ UNCHANGED <<lifetime, pidFile, sock, helper, backlog, kills>>

(* Steps that change only the process's own place and connection.          *)
Step(s) ==
  UNCHANGED <<tried, child, awaited, target, fileVars, helper, backlog, kills>>

-----------------------------------------------------------------------------
(* A search: request_query_embedding.                                      *)

Request(s) == Move(s, "idle", "fast") /\ UNCHANGED conn /\ Step(s)

(* The first hello of _ensure_compatible_helper, without the spawn lock.   *)
FastHello(s) ==
  /\ \/ Compatible(s) /\ Move(s, "fast", "embed")
     \/ (Incompatible(s) \/ OSErr(s)) /\ Move(s, "fast", "lockWait")
  /\ Hang(s) /\ Step(s)

TakeSpawnLock(s) ==
  /\ SpawnLockFree(spawnLock)
  /\ Move(s, "lockWait", "spawn")
  /\ spawnLock' = s
  /\ UNCHANGED <<conn, tried, child, awaited, target, lifetime, pidFile, sock,
                 helper, backlog, kills>>

(* _spawn_compatible_helper, at the top of its loop.                       *)
SpawnHello(s) ==
  /\ \/ Incompatible(s) /\ Move(s, "spawn", "stopRead")
     \/ OSErr(s) /\ Move(s, "spawn", "probe")
  /\ Hang(s) /\ Step(s)

(* A compatible hello ends it, here and in _wait_for_hello after a spawn.  *)
Found(s) ==
  /\ Compatible(s)
  /\ \/ Move(s, "spawn", "embed")
     \/ child[s] # NoHelper /\ Move(s, "await", "embed")
  /\ Hang(s)
  /\ child' = [child EXCEPT ![s] = NoHelper]
  /\ DropSpawnLock(s)
  /\ UNCHANGED <<tried, awaited, target, lifetime, pidFile, sock, helper,
                 backlog, kills>>

(* A helper owns the lifetime lock: wait for its hello, without a child.   *)
Probe(s) ==
  /\ Move(s, "probe", IF LifetimeFree(lifetime) THEN "spawning" ELSE "await")
  /\ UNCHANGED conn /\ Step(s)

(* The socket path is unlinked and a detached helper started.              *)
Spawn(s) ==
  /\ Move(s, "spawning", "await")
  /\ sock' = NoHelper
  /\ \E h \in Helpers :
       /\ ~Alive(h)
       /\ helper' = [helper EXCEPT ![h] = NewProcess(Version(s))]
       /\ child' = [child EXCEPT ![s] = h]
  /\ UNCHANGED <<conn, tried, awaited, target, spawnLock, lifetime, pidFile,
                 backlog, kills>>

(* _wait_for_hello: another helper's hello starts the loop again, ...      *)
AwaitHello(s) ==
  /\ \/ /\ Got(s, {"hello"}) /\ child[s] = NoHelper
        /\ Move(s, "await", "spawn")
        /\ UNCHANGED child
     \/ /\ Incompatible(s) /\ child[s] # NoHelper
        /\ Move(s, "await", "stopRead")
        /\ child' = [child EXCEPT ![s] = NoHelper]
     \/ /\ OSErr(s)
        /\ Move(s, "await", "awaitProbe")
        /\ UNCHANGED child
  /\ Hang(s)
  /\ UNCHANGED <<tried, awaited, target, fileVars, helper, backlog, kills>>

(* ... a free lifetime lock leads to a spawn when it had no child, ...     *)
AwaitProbe(s) ==
  /\ ~(LifetimeFree(lifetime) /\ child[s] = Gone)
  /\ Move(s, "awaitProbe",
          IF LifetimeFree(lifetime) /\ child[s] = NoHelper
          THEN "spawning" ELSE "await")
  /\ UNCHANGED conn /\ Step(s)

(* ... and to "query embedder exited before binding" when that is gone.    *)
NotBound(s) ==
  /\ pc[s] = "awaitProbe" /\ LifetimeFree(lifetime) /\ child[s] = Gone
  /\ End(s)

(* _stop_incompatible_helper.  _recorded_helper_pid opens and closes the   *)
(* lock file, and a process that closes any descriptor of a file loses its *)
(* record locks on it.                                                     *)
ReadPid(s) ==
  /\ Move(s, "stopRead", "stopSend")
  /\ awaited' = [awaited EXCEPT ![s] = pidFile]
  /\ DropSpawnLock(s)
  /\ UNCHANGED <<conn, tried, child, target, lifetime, pidFile, sock, helper,
                 backlog, kills>>

StopAnswer(s) ==
  /\ Got(s, {"ack"}) \/ OSErr(s)
  /\ Move(s, "stopSend", "stopWait")
  /\ Hang(s) /\ Step(s)

(* The embed request; an OSError is answered by ensuring a helper again.   *)
Embedded(s) ==
  /\ pc[s] = "embed" /\ Got(s, {"result"})
  /\ End(s)

EmbedAgain(s) ==
  /\ OSErr(s) /\ ~tried[s]
  /\ Move(s, "embed", "fast")
  /\ tried' = [tried EXCEPT ![s] = TRUE]
  /\ Hang(s)
  /\ UNCHANGED <<child, awaited, target, fileVars, helper, backlog, kills>>

(* An exception: the model is unavailable, the stream ended, or the second *)
(* attempt failed as well.                                                 *)
RequestFails(s) ==
  /\ \/ Got(s, {"eof"})
     \/ pc[s] = "embed" /\ Got(s, {"error"})
     \/ pc[s] = "embed" /\ OSErr(s) /\ tried[s]
  /\ End(s)

-----------------------------------------------------------------------------
(* What both do to stop a helper: wait until the lifetime lock is free,    *)
(* unlink the socket path, and wait for the recorded pid, ten seconds.     *)

WaitsUnlocked(c, from, to) ==
  /\ LifetimeFree(lifetime)
  /\ Move(c, from, to)
  /\ UNCHANGED conn /\ Step(c)

Unlinks(c, from, to) ==
  /\ Move(c, from, to)
  /\ sock' = NoHelper
  /\ UNCHANGED <<conn, tried, child, awaited, target, spawnLock, lifetime,
                 pidFile, helper, backlog, kills>>

WaitsGone(c, from, to) ==
  /\ awaited[c] = NoHelper
  /\ Move(c, from, to)
  /\ UNCHANGED conn /\ Step(c)

StopWait(s) == WaitsUnlocked(s, "stopWait", "stopUnlink")
StopUnlink(s) == Unlinks(s, "stopUnlink", "stopExit")
Stopped(s) == WaitsGone(s, "stopExit", "spawn")

StopTimeout(s) == pc[s] \in {"stopExit", "shutExit"} /\ awaited[s] # NoHelper
                    /\ End(s)

-----------------------------------------------------------------------------
(* An index run: shutdown_query_embedder, then its own use of the model.   *)

BeginShutdown(i) ==
  /\ Move(i, "idle", "shutSend")
  /\ awaited' = [awaited EXCEPT ![i] = pidFile]
  /\ target' = [target EXCEPT ![i] = lifetime]
  /\ UNCHANGED <<conn, tried, child, fileVars, helper, backlog, kills>>

ShutdownAnswer(i) ==
  /\ \/ Got(i, {"ack"}) /\ Move(i, "shutSend", "shutWait")
     \/ OSErr(i) /\ Move(i, "shutSend", "shutProbe")
  /\ Hang(i) /\ Step(i)

(* After an OSError: no owner means no helper, else read the pid again.    *)
ShutdownProbe(i) ==
  /\ IF LifetimeFree(lifetime)
     THEN Move(i, "shutProbe", "shutDone") /\ UNCHANGED awaited
     ELSE /\ Move(i, "shutProbe", "shutWait")
          /\ awaited' = [awaited EXCEPT ![i] = pidFile]
  /\ UNCHANGED <<conn, tried, child, target, fileVars, helper, backlog, kills>>

ShutdownDone(i) == Unlinks(i, "shutDone", "indexing")
ShutdownWait(i) == WaitsUnlocked(i, "shutWait", "shutUnlink")
ShutdownUnlink(i) == Unlinks(i, "shutUnlink", "shutExit")
ShutdownGone(i) == WaitsGone(i, "shutExit", "indexing")

FinishIndex(i) == pc[i] = "indexing" /\ End(i)

(* A queue without the connection of a client that waits in it once.       *)
Without(q, c) ==
  IF \E k \in 1..Len(q) : q[k] = c
  THEN LET k == CHOOSE k \in 1..Len(q) : q[k] = c
       IN SubSeq(q, 1, k - 1) \o SubSeq(q, k + 1, Len(q))
  ELSE q

(* A client is killed: its lock goes and its connection becomes a ghost.   *)
KillClient(c) ==
  /\ pc[c] # "idle" /\ kills < MaxKills
  /\ kills' = kills + 1
  /\ Forget(c)
  /\ helper' = [h \in Helpers |->
       IF conn[c].state = "pending" /\ conn[c].to = h
       THEN [helper[h] EXCEPT !.ghost = TRUE] ELSE helper[h]]
  /\ backlog' = [h \in Helpers |-> Without(backlog[h], c)]
  /\ UNCHANGED <<lifetime, pidFile, sock>>

SearchStep(s) ==
  \/ Connect(s) \/ FastHello(s) \/ TakeSpawnLock(s) \/ SpawnHello(s)
  \/ Found(s) \/ Probe(s) \/ Spawn(s) \/ AwaitHello(s) \/ AwaitProbe(s)
  \/ NotBound(s)
  \/ ReadPid(s) \/ StopAnswer(s) \/ StopWait(s) \/ StopUnlink(s) \/ Stopped(s)
  \/ Embedded(s) \/ EmbedAgain(s) \/ RequestFails(s)

IndexStep(i) ==
  \/ Connect(i) \/ ShutdownAnswer(i) \/ ShutdownProbe(i) \/ ShutdownDone(i)
  \/ ShutdownWait(i) \/ ShutdownUnlink(i) \/ ShutdownGone(i)
  \/ RequestFails(i) \/ FinishIndex(i)

Next ==
  \/ \E c \in Clients :
       Request(c) \/ SearchStep(c) \/ StopTimeout(c) \/ KillClient(c)
  \/ \E i \in Indexers : BeginShutdown(i) \/ IndexStep(i)
  \/ \E h \in Helpers : HelperStep(h) \/ KillHelper(h)

(* Processes that can go on do, an embedding ends, a warm window elapses,  *)
(* and a waiter for the spawn lock is woken whenever it is released.       *)
Fairness ==
  /\ \A s \in Clients : SF_vars(SearchStep(s))
  /\ \A h \in Helpers : WF_vars(HelperStep(h))

Spec == Init /\ [][Next]_vars
FairSpec == Spec /\ Fairness

-----------------------------------------------------------------------------
(* Properties.                                                             *)

(* Every variable stays in its domain, and no client waits twice in the    *)
(* queue of a listener.                                                    *)
TypeOK ==
  /\ pc \in [Clients -> Pcs]
  /\ conn \in [Clients -> Connection]
  /\ tried \in [Clients -> BOOLEAN]
  /\ child \in [Clients -> Helpers \cup {NoHelper, Gone}]
  /\ awaited \in [Clients -> Helpers \cup {NoHelper}]
  /\ target \in [Clients -> Helpers \cup {NoHelper}]
  /\ spawnLock \in Clients \cup {NoHelper}
  /\ lifetime \in Helpers \cup {NoHelper}
  /\ pidFile \in Helpers \cup {NoHelper}
  /\ sock \in Helpers \cup {NoHelper, Gone}
  /\ helper \in [Helpers -> HelperRow]
  /\ backlog \in [Helpers -> Seq(Clients)]
  /\ \A h \in Helpers : \A j, k \in 1..Len(backlog[h]) :
       backlog[h][j] = backlog[h][k] => j = k
  /\ kills \in 0..MaxKills

(* "holds a lifetime file lock as the single-instance owner" (ADR 0004):   *)
(* the model is never in the memory of two helpers, nor of one that has    *)
(* let go of the lock, while helpers race to start and are replaced.       *)
OneModel == \A h \in Helpers : Loaded(h) => lifetime = h

(* "index shuts it down before acquiring index ownership"                  *)
(* (docs/architecture/database.md): when an index run goes on, the helper  *)
(* that was warm when its shutdown began has let go of model and lock,     *)
(* whoever stops, replaces or succeeds it meanwhile.                       *)
ShutdownReleases ==
  \A i \in Indexers : pc[i] = "indexing" /\ target[i] # NoHelper =>
    ~Loaded(target[i]) /\ lifetime # target[i]

(* Concurrent clients spawn one helper: unless a process was killed, none  *)
(* is started while another one is still to give up its resources.         *)
SpawnsAlone ==
  [][\A s \in Clients : Spawn(s) /\ kills = 0 =>
       \A h \in Helpers : helper[h].stage \in {"none", "exiting"}]_vars

(* Semantic search may take long but ends: with a vector or an error,      *)
(* whatever happens to helpers, other searches and index runs.             *)
RequestEnds ==
  \A c \in Clients \ Indexers : pc[c] # "idle" ~> pc[c] = "idle"

(* docs/uat/cross-vendor-search-wip.md: after the last semantic call, when *)
(* "the helper count is zero, no socket remains, and its lifetime lock is  *)
(* acquirable", unless a process was killed.                               *)
NothingRemains ==
  (\A h \in Helpers : ~Alive(h)) =>
    lifetime = NoHelper /\ (kills = 0 => sock = NoHelper)
=============================================================================
