------------------------ MODULE QueryEmbedderProofs ------------------------
(***************************************************************************)
(* Proofs about QueryEmbedder, for any sets of clients, helpers and        *)
(* versions and any number of kills: the model is in the memory of the     *)
(* owner of the lifetime lock alone, a shutdown returns only when the      *)
(* helper it met has let go, and helpers that are gone leave nothing.      *)
(* Clients of one version start one helper at a time.                      *)
(*                                                                         *)
(* IInv is about the lifetime lock, the model and shutdowns, RestInv about *)
(* files, connections and queues, VersionInv and SpawnInv about spawning.  *)
(***************************************************************************)
EXTENDS QueryEmbedder, TLAPS

(* The stages in which a helper owns the lifetime lock, those it can be in *)
(* from then on, and the places of a shutdown that found the lock free.    *)
Owning == {"bound", "serving", "embedding", "closing", "closed"}
Past == Owning \cup {"exiting"}
Released == {"shutDone", "shutUnlink", "shutExit", "indexing"}

DomainInv ==
  /\ pc \in [Clients -> Pcs]
  /\ target \in [Clients -> Helpers \cup {NoHelper}]
  /\ lifetime \in Helpers \cup {NoHelper}
  /\ helper \in [Helpers -> HelperRow]

(* The flock has the owner that the stages of the helpers tell, and the    *)
(* model is loaded only between the start and the end of its service.      *)
LockInv == \A h \in Helpers : lifetime = h <=> helper[h].stage \in Owning
MemoryInv ==
  \A h \in Helpers : helper[h].loaded =>
    helper[h].stage \in {"serving", "embedding", "closing"}

(* A helper that owned the lock when a shutdown began still owns it or is  *)
(* about to exit; once the lock was seen free, it is about to exit.        *)
TargetInv ==
  \A c \in Clients : target[c] # NoHelper =>
    /\ helper[target[c]].stage \in Past
    /\ pc[c] \in Released => helper[target[c]].stage = "exiting"

IInv == DomainInv /\ LockInv /\ MemoryInv /\ TargetInv

-----------------------------------------------------------------------------
(* NoHelper is no helper.                                                  *)
LEMMA NoHelperNone == NoHelper \notin Helpers
  BY ActorsAssumption

LEMMA NoProcessRow == NoProcess \in HelperRow
  BY DEF NoProcess, HelperRow, Stages

LEMMA InitOK == Init => IInv
<1> SUFFICES ASSUME Init PROVE IInv
  OBVIOUS
<1>1. NoProcess.stage = "none" /\ NoProcess.loaded = FALSE
  BY DEF NoProcess
<1>2. \A h \in Helpers : helper[h] = NoProcess
  BY DEF Init
<1>3. DomainInv
  BY NoProcessRow DEF Init, DomainInv, Pcs
<1>4. LockInv /\ MemoryInv
  BY <1>1, <1>2, NoHelperNone DEF Init, LockInv, MemoryInv, Owning
<1>5. TargetInv
  BY DEF Init, TargetInv
<1> QED
  BY <1>3, <1>4, <1>5 DEF IInv

-----------------------------------------------------------------------------
(* What kinds of steps preserve the invariant.                             *)

(* A client moves on, and may forget its target; it is past a shutdown's   *)
(* wait only if it was before or the lock is free.                         *)
LEMMA ClientMoves ==
  ASSUME IInv, NEW c \in Clients, NEW to \in Pcs,
         pc' = [pc EXCEPT ![c] = to],
         target' \in {target, [target EXCEPT ![c] = NoHelper]},
         to \in Released => pc[c] \in Released \/ lifetime = NoHelper,
         UNCHANGED <<helper, lifetime>>
  PROVE  IInv'
<1>1. DomainInv'
  BY DEF IInv, DomainInv
<1>2. LockInv' /\ MemoryInv'
  BY DEF IInv, LockInv, MemoryInv
<1>3. TargetInv'
  <2> SUFFICES ASSUME NEW d \in Clients, target'[d] # NoHelper
               PROVE  /\ helper'[target'[d]].stage \in Past
                      /\ pc'[d] \in Released =>
                           helper'[target'[d]].stage = "exiting"
    BY DEF TargetInv
  <2>1. target'[d] = target[d] /\ target[d] \in Helpers
    BY DEF IInv, DomainInv
  <2>2. /\ helper[target[d]].stage \in Past
        /\ pc[d] \in Released => helper[target[d]].stage = "exiting"
    BY <2>1 DEF IInv, TargetInv
  <2>3. CASE pc'[d] \in Released /\ pc[d] \notin Released
    <3>1. lifetime = NoHelper
      BY <2>3 DEF IInv, DomainInv
    <3>2. helper[target[d]].stage \notin Owning
      BY <3>1, <2>1, NoHelperNone DEF IInv, LockInv
    <3> QED
      BY <3>2, <2>1, <2>2 DEF Past
  <2>4. CASE ~(pc'[d] \in Released /\ pc[d] \notin Released)
    BY <2>1, <2>2, <2>4
  <2>5. QED
    BY <2>3, <2>4
<1>4. QED
  BY <1>1, <1>2, <1>3 DEF IInv

(* Only connections, locks of clients and files change.                    *)
LEMMA ClientRests ==
  ASSUME IInv, UNCHANGED <<pc, target, helper, lifetime>>
  PROVE  IInv'
  BY DEF IInv, DomainInv, LockInv, MemoryInv, TargetInv

(* A helper changes its row: it owns the lock exactly in Owning, nobody    *)
(* else's ownership changes, and it goes forward only.                     *)
LEMMA HelperMoves ==
  ASSUME IInv, NEW h \in Helpers, NEW r \in HelperRow,
         helper' = [helper EXCEPT ![h] = r],
         UNCHANGED <<pc, target>>,
         lifetime' \in Helpers \cup {NoHelper},
         \A k \in Helpers \ {h} : lifetime' = k <=> lifetime = k,
         lifetime' = h <=> r.stage \in Owning,
         r.loaded => r.stage \in {"serving", "embedding", "closing"},
         helper[h].stage \in Past => r.stage \in Past,
         helper[h].stage = "exiting" => r.stage = "exiting"
  PROVE  IInv'
<1>0. /\ helper'[h] = r
      /\ \A k \in Helpers \ {h} : helper'[k] = helper[k]
  BY DEF IInv, DomainInv
<1>1. DomainInv'
  BY DEF IInv, DomainInv
<1>2. LockInv'
  BY <1>0 DEF IInv, LockInv
<1>3. MemoryInv'
  BY <1>0 DEF IInv, MemoryInv
<1>4. TargetInv'
  <2> SUFFICES ASSUME NEW d \in Clients, target[d] # NoHelper
               PROVE  /\ helper'[target[d]].stage \in Past
                      /\ pc[d] \in Released =>
                           helper'[target[d]].stage = "exiting"
    BY DEF TargetInv
  <2>1. target[d] \in Helpers
    BY DEF IInv, DomainInv
  <2>2. /\ helper[target[d]].stage \in Past
        /\ pc[d] \in Released => helper[target[d]].stage = "exiting"
    BY DEF IInv, TargetInv
  <2>3. QED
    BY <1>0, <2>1, <2>2
<1>5. QED
  BY <1>1, <1>2, <1>3, <1>4 DEF IInv

(* A process is gone: its lock is free, and nobody waits for it.           *)
LEMMA HelperExits ==
  ASSUME IInv, NEW h \in Helpers, Exit(h), UNCHANGED pc
  PROVE  IInv'
<1>0. /\ helper'[h] = NoProcess
      /\ \A k \in Helpers \ {h} : helper'[k] = helper[k]
      /\ helper' \in [Helpers -> HelperRow]
  BY NoProcessRow DEF IInv, DomainInv, Exit
<1>1. lifetime' = IF lifetime = h THEN NoHelper ELSE lifetime
  BY DEF Exit, LetGo
<1>2. /\ target' \in [Clients -> Helpers \cup {NoHelper}]
      /\ \A c \in Clients :
           target'[c] = IF target[c] = h THEN NoHelper ELSE target[c]
  BY DEF Exit, Forgotten, IInv, DomainInv
<1>3. NoProcess.stage = "none" /\ NoProcess.loaded = FALSE
  BY DEF NoProcess
<1>4. DomainInv'
  BY <1>0, <1>1, <1>2 DEF IInv, DomainInv
<1>5. LockInv'
  <2>1. lifetime' # h /\ NoProcess.stage \notin Owning
    BY <1>1, <1>3, NoHelperNone DEF Owning
  <2>2. \A k \in Helpers \ {h} : lifetime' = k <=> lifetime = k
    BY <1>1, NoHelperNone
  <2>3. QED
    BY <2>1, <2>2, <1>0 DEF IInv, LockInv
<1>6. MemoryInv'
  BY <1>0, <1>3 DEF IInv, MemoryInv
<1>7. TargetInv'
  <2> SUFFICES ASSUME NEW d \in Clients, target'[d] # NoHelper
               PROVE  /\ helper'[target'[d]].stage \in Past
                      /\ pc[d] \in Released =>
                           helper'[target'[d]].stage = "exiting"
    BY DEF TargetInv
  <2>1. target'[d] = target[d] /\ target[d] \in Helpers \ {h}
    BY <1>2 DEF IInv, DomainInv
  <2>2. /\ helper[target[d]].stage \in Past
        /\ pc[d] \in Released => helper[target[d]].stage = "exiting"
    BY <2>1 DEF IInv, TargetInv
  <2>3. QED
    BY <1>0, <2>1, <2>2
<1>8. QED
  BY <1>4, <1>5, <1>6, <1>7 DEF IInv

-----------------------------------------------------------------------------
(* The steps of a helper.                                                  *)

LEMMA RowStage ==
  ASSUME NEW r \in HelperRow, NEW stage \in Stages
  PROVE  /\ [r EXCEPT !.stage = stage] \in HelperRow
         /\ [r EXCEPT !.stage = stage].stage = stage
         /\ [r EXCEPT !.stage = stage].loaded = r.loaded
  BY DEF HelperRow

(* A step that keeps the lock and leads from one owning stage to another.  *)
LEMMA HelperStays ==
  ASSUME IInv, NEW h \in Helpers, NEW r \in HelperRow,
         helper' = [helper EXCEPT ![h] = r],
         UNCHANGED <<pc, target, lifetime>>,
         helper[h].stage \in Owning, r.stage \in Owning,
         r.loaded => r.stage \in {"serving", "embedding", "closing"}
  PROVE  IInv'
<1>1. lifetime = h
  BY DEF IInv, LockInv
<1>2. lifetime' \in Helpers \cup {NoHelper}
  BY DEF IInv, DomainInv
<1>3. helper[h].stage # "exiting"
  BY DEF Owning
<1>4. QED
  BY <1>1, <1>2, <1>3, HelperMoves DEF Past

LEMMA HelperStepOK ==
  ASSUME IInv, NEW h \in Helpers, HelperStep(h)
  PROVE  IInv'
<1> DEFINE row == helper[h]
<1>0. row \in HelperRow /\ row.loaded \in BOOLEAN
  BY DEF IInv, DomainInv, HelperRow
<1>1. CASE TakeLifetime(h)
  <2> DEFINE r == [row EXCEPT !.stage = "bound"]
  <2>1. r \in HelperRow /\ r.stage = "bound" /\ r.loaded = row.loaded
    BY <1>0, RowStage DEF Stages
  <2>2. row.stage = "starting" /\ ~row.loaded
    BY <1>1 DEF TakeLifetime, At, IInv, MemoryInv
  <2>3. helper' = [helper EXCEPT ![h] = r] /\ UNCHANGED <<pc, target>>
    BY <1>1 DEF TakeLifetime, Become, HelperUnchanged
  <2>4. lifetime = NoHelper /\ lifetime' = h
    BY <1>1 DEF TakeLifetime, LifetimeFree
  <2> HIDE DEF r, row
  <2>5. \A k \in Helpers \ {h} : lifetime' = k <=> lifetime = k
    BY <2>4, NoHelperNone
  <2>6. row.stage \notin Past
    BY <2>2 DEF Past, Owning
  <2>7. QED
    BY <2>1, <2>2, <2>3, <2>4, <2>5, <2>6, HelperMoves DEF row, Owning, Past
<1>2. CASE GiveUp(h)
  BY <1>2, HelperExits DEF GiveUp, HelperUnchanged
<1>3. CASE Listen(h)
  <2>1. PICK stage \in {"serving", "closing"} : Become(h, stage)
    BY <1>3 DEF Listen
  <2> DEFINE r == [row EXCEPT !.stage = stage]
  <2>2. r \in HelperRow /\ r.stage = stage
    BY <1>0 DEF HelperRow, Stages
  <2>3. helper' = [helper EXCEPT ![h] = r]
    BY <2>1 DEF Become
  <2>4. row.stage \in Owning /\ UNCHANGED <<pc, target, lifetime>>
    BY <1>3 DEF Listen, At, HelperUnchanged, Owning
  <2> HIDE DEF r
  <2>5. r.stage \in Owning /\ r.stage \in {"serving", "embedding", "closing"}
    BY <2>2 DEF Owning
  <2>6. QED
    BY <2>2, <2>3, <2>4, <2>5, HelperStays
<1>4. CASE \E p \in Clients : Serve(h, p)
  <2> PICK p \in Clients : Serve(h, p)
    BY <1>4
  <2>1. row.stage = "serving" /\ UNCHANGED <<pc, target, lifetime>>
    BY DEF Serve, At, HelperUnchanged
  <2>2. helper' = helper \/ Become(h, "closing") \/ Become(h, "embedding")
    BY DEF Serve
  <2>3. CASE helper' = helper
    BY <2>1, <2>3, ClientRests
  <2>4. ASSUME NEW stage \in {"closing", "embedding"}, Become(h, stage)
        PROVE  IInv'
    <3> DEFINE r == [row EXCEPT !.stage = stage]
    <3>1. r \in HelperRow /\ r.stage = stage
      BY <1>0 DEF HelperRow, Stages
    <3>2. helper' = [helper EXCEPT ![h] = r]
      BY <2>4 DEF Become
    <3> HIDE DEF r
    <3>3. r.stage \in Owning /\ r.stage \in {"serving", "embedding", "closing"}
      BY <3>1 DEF Owning
    <3>4. row.stage \in Owning
      BY <2>1 DEF Owning
    <3>5. QED
      BY <2>1, <3>1, <3>2, <3>3, <3>4, HelperStays
  <2>5. QED
    BY <2>2, <2>3, <2>4
<1>5. CASE FinishEmbed(h)
  <2>1. PICK loaded \in {row.loaded, TRUE}, stage \in {"closing", "serving"} :
          helper' = [helper EXCEPT ![h].loaded = loaded, ![h].stage = stage]
    BY <1>5 DEF FinishEmbed
  <2> DEFINE r == [row EXCEPT !.loaded = loaded, !.stage = stage]
  <2>2. r \in HelperRow /\ r.stage = stage
    BY <1>0 DEF HelperRow, Stages
  <2>3. helper' = [helper EXCEPT ![h] = r]
    BY <2>1 DEF IInv, DomainInv
  <2>4. row.stage = "embedding" /\ UNCHANGED <<pc, target, lifetime>>
    BY <1>5 DEF FinishEmbed, At, HelperUnchanged
  <2> HIDE DEF r
  <2>5. QED
    BY <2>2, <2>3, <2>4, HelperStays DEF Owning
<1>6. CASE ServeGhost(h)
  <2>1. PICK stage \in {"closing", "serving"} :
          helper' = [helper EXCEPT ![h].ghost = FALSE, ![h].stage = stage]
    BY <1>6 DEF ServeGhost
  <2> DEFINE r == [row EXCEPT !.ghost = FALSE, !.stage = stage]
  <2>2. r \in HelperRow /\ r.stage = stage
    BY <1>0 DEF HelperRow, Stages
  <2>3. helper' = [helper EXCEPT ![h] = r]
    BY <2>1 DEF IInv, DomainInv
  <2>4. row.stage = "serving" /\ UNCHANGED <<pc, target, lifetime>>
    BY <1>6 DEF ServeGhost, At, HelperUnchanged
  <2> HIDE DEF r
  <2>5. QED
    BY <2>2, <2>3, <2>4, HelperStays DEF Owning
<1>7. CASE LeaveLoop(h)
  <2> DEFINE r == [row EXCEPT !.stage = "closing"]
  <2>1. r \in HelperRow /\ r.stage = "closing"
    BY <1>0, RowStage DEF Stages
  <2>2. helper' = [helper EXCEPT ![h] = r] /\ row.stage = "serving"
    BY <1>7 DEF LeaveLoop, Become, At
  <2>3. UNCHANGED <<pc, target, lifetime>>
    BY <1>7 DEF LeaveLoop, HelperUnchanged
  <2> HIDE DEF r
  <2>4. QED
    BY <2>1, <2>2, <2>3, HelperStays DEF Owning
<1>8. CASE Close(h)
  <2> DEFINE r == [row EXCEPT !.stage = "closed", !.loaded = FALSE,
                              !.ghost = FALSE]
  <2>1. r \in HelperRow /\ r.stage = "closed" /\ ~r.loaded
    BY <1>0 DEF HelperRow, Stages
  <2>2. helper' = [helper EXCEPT ![h] = r]
    BY <1>8 DEF Close, IInv, DomainInv
  <2>3. row.stage = "closing" /\ UNCHANGED <<pc, target, lifetime>>
    BY <1>8 DEF Close, At, HelperUnchanged
  <2> HIDE DEF r
  <2>4. QED
    BY <2>1, <2>2, <2>3, HelperStays DEF Owning
<1>9. CASE Unlock(h)
  <2> DEFINE r == [row EXCEPT !.stage = "exiting"]
  <2>1. r \in HelperRow /\ r.stage = "exiting" /\ r.loaded = row.loaded
    BY <1>0, RowStage DEF Stages
  <2>2. row.stage = "closed" /\ ~row.loaded
    BY <1>9 DEF Unlock, At, IInv, MemoryInv
  <2>3. helper' = [helper EXCEPT ![h] = r] /\ UNCHANGED <<pc, target>>
    BY <1>9 DEF Unlock, Become, HelperUnchanged
  <2>4. lifetime = h
    BY <2>2 DEF IInv, LockInv, Owning
  <2>5. lifetime' = NoHelper
    BY <1>9, <2>4 DEF Unlock, LetGo
  <2> HIDE DEF r
  <2>6. \A k \in Helpers \ {h} : lifetime' = k <=> lifetime = k
    BY <2>4, <2>5, NoHelperNone
  <2>7. lifetime' # h /\ r.stage \notin Owning /\ r.stage \in Past
    BY <2>1, <2>5, NoHelperNone DEF Owning, Past
  <2>8. QED
    BY <2>1, <2>2, <2>3, <2>5, <2>6, <2>7, HelperMoves
<1>10. CASE Leave(h)
  BY <1>10, HelperExits DEF Leave, HelperUnchanged
<1>11. QED
  BY <1>1, <1>2, <1>3, <1>4, <1>5, <1>6, <1>7, <1>8, <1>9, <1>10
     DEF HelperStep

-----------------------------------------------------------------------------
(* The steps of a client.                                                  *)

(* A search, or a shutdown that still waits, moves on.                     *)
LEMMA QuietMove ==
  ASSUME IInv, NEW c \in Clients, NEW from, NEW to \in Pcs \ Released,
         Move(c, from, to), UNCHANGED <<target, helper, lifetime>>
  PROVE  IInv'
<1>1. pc' = [pc EXCEPT ![c] = to]
  BY DEF Move
<1>2. QED
  BY <1>1, ClientMoves

(* A shutdown goes on once the lock is free, or was before.                *)
LEMMA ReleasedMove ==
  ASSUME IInv, NEW c \in Clients, NEW from, NEW to \in Pcs,
         Move(c, from, to), from \in Released \/ LifetimeFree(lifetime),
         UNCHANGED <<target, helper, lifetime>>
  PROVE  IInv'
<1>1. pc' = [pc EXCEPT ![c] = to] /\ pc[c] = from
  BY DEF Move
<1>2. pc[c] \in Released \/ lifetime = NoHelper
  BY <1>1 DEF LifetimeFree
<1>3. QED
  BY <1>1, <1>2, ClientMoves

LEMMA EndOK ==
  ASSUME IInv, NEW c \in Clients, End(c)
  PROVE  IInv'
<1>1. /\ pc' = [pc EXCEPT ![c] = "idle"]
      /\ target' = [target EXCEPT ![c] = NoHelper]
      /\ UNCHANGED <<helper, lifetime>>
  BY DEF End, Forget
<1>2. "idle" \in Pcs /\ "idle" \notin Released
  BY DEF Pcs, Released
<1>3. QED
  BY <1>1, <1>2, ClientMoves

(* Where a search may be, and the first places of a shutdown.              *)
LEMMA QuietPlaces ==
  {"idle", "fast", "lockWait", "embed", "spawn", "probe", "spawning", "await",
   "awaitProbe", "stopRead", "stopSend", "stopWait", "stopUnlink", "stopExit",
   "shutSend", "shutProbe", "shutWait"} \subseteq Pcs \ Released
  BY DEF Pcs, InSpawn, Shutting, Released

LEMMA ReleasedPlaces == Released \subseteq Pcs
  BY DEF Pcs, Shutting, Released

(* A helper is started in a free slot, which nobody waits for.             *)
LEMMA SpawnOK ==
  ASSUME IInv, NEW c \in Clients, Spawn(c)
  PROVE  IInv'
<1>1. PICK h \in Helpers :
        ~Alive(h) /\ helper' = [helper EXCEPT ![h] = NewProcess(Version(c))]
  BY DEF Spawn
<1> DEFINE r == NewProcess(Version(c))
<1>2. r \in HelperRow /\ r.stage = "starting" /\ ~r.loaded
  BY VersionAssumption DEF NewProcess, NoProcess, HelperRow, Stages
<1>3. helper[h].stage = "none"
  BY <1>1 DEF Alive, NoProcess
<1>4. pc' = [pc EXCEPT ![c] = "await"] /\ UNCHANGED <<target, lifetime>>
  BY DEF Spawn, Move
<1>5. helper' = [helper EXCEPT ![h] = r]
  BY <1>1
<1> HIDE DEF r
<1>6. /\ helper'[h] = r
      /\ \A k \in Helpers \ {h} : helper'[k] = helper[k]
  BY <1>5 DEF IInv, DomainInv
<1>7. DomainInv'
  BY <1>2, <1>4, <1>5, QuietPlaces DEF IInv, DomainInv
<1>8. LockInv' /\ MemoryInv'
  BY <1>2, <1>3, <1>4, <1>6 DEF IInv, LockInv, MemoryInv, Owning
<1>9. TargetInv'
  <2> SUFFICES ASSUME NEW d \in Clients, target[d] # NoHelper
               PROVE  /\ helper'[target[d]].stage \in Past
                      /\ pc'[d] \in Released =>
                           helper'[target[d]].stage = "exiting"
    BY <1>4 DEF TargetInv
  <2>1. /\ target[d] \in Helpers
        /\ helper[target[d]].stage \in Past
        /\ pc[d] \in Released => helper[target[d]].stage = "exiting"
    BY DEF IInv, DomainInv, TargetInv
  <2>2. target[d] # h
    BY <2>1, <1>3 DEF Past, Owning
  <2>3. pc'[d] \in Released => pc[d] \in Released
    BY <1>4, QuietPlaces DEF IInv, DomainInv
  <2>4. QED
    BY <1>6, <2>1, <2>2, <2>3
<1>10. QED
  BY <1>7, <1>8, <1>9 DEF IInv

(* The owner of the lock is the target of a shutdown that begins.          *)
LEMMA BeginShutdownOK ==
  ASSUME IInv, NEW c \in Clients, BeginShutdown(c)
  PROVE  IInv'
<1>1. /\ pc' = [pc EXCEPT ![c] = "shutSend"]
      /\ target' = [target EXCEPT ![c] = lifetime]
      /\ UNCHANGED <<helper, lifetime>>
  BY DEF BeginShutdown, Move, fileVars
<1>2. DomainInv' /\ LockInv' /\ MemoryInv'
  BY <1>1, QuietPlaces DEF IInv, DomainInv, LockInv, MemoryInv
<1>3. TargetInv'
  <2> SUFFICES ASSUME NEW d \in Clients, target'[d] # NoHelper
               PROVE  /\ helper[target'[d]].stage \in Past
                      /\ pc'[d] \in Released =>
                           helper[target'[d]].stage = "exiting"
    BY <1>1 DEF TargetInv
  <2>1. CASE d = c
    <3>1. target'[d] = lifetime /\ pc'[d] = "shutSend" /\ lifetime \in Helpers
      BY <1>1, <2>1 DEF IInv, DomainInv
    <3>2. helper[lifetime].stage \in Owning
      BY <3>1 DEF IInv, LockInv
    <3>3. QED
      BY <3>1, <3>2, QuietPlaces DEF Past
  <2>2. CASE d # c
    BY <1>1, <2>2 DEF IInv, DomainInv, TargetInv
  <2>3. QED
    BY <2>1, <2>2
<1>4. QED
  BY <1>2, <1>3 DEF IInv

(* A client is killed: at most a ghost is left in a helper's queue.        *)
LEMMA KillClientOK ==
  ASSUME IInv, NEW c \in Clients, KillClient(c)
  PROVE  IInv'
<1>1. /\ pc' = [pc EXCEPT ![c] = "idle"]
      /\ target' = [target EXCEPT ![c] = NoHelper]
      /\ UNCHANGED lifetime
  BY DEF KillClient, Forget
<1>2. helper' \in [Helpers -> HelperRow]
  BY DEF KillClient, HelperRow, IInv, DomainInv
<1>3. \A h \in Helpers : /\ helper'[h].stage = helper[h].stage
                         /\ helper'[h].loaded = helper[h].loaded
  BY DEF KillClient, HelperRow, IInv, DomainInv
<1>4. DomainInv'
  BY <1>1, <1>2, QuietPlaces DEF IInv, DomainInv
<1>5. LockInv' /\ MemoryInv'
  BY <1>1, <1>3 DEF IInv, LockInv, MemoryInv
<1>6. TargetInv'
  <2> SUFFICES ASSUME NEW d \in Clients, target'[d] # NoHelper
               PROVE  /\ helper'[target'[d]].stage \in Past
                      /\ pc'[d] \in Released =>
                           helper'[target'[d]].stage = "exiting"
    BY DEF TargetInv
  <2>1. target'[d] = target[d] /\ pc'[d] = pc[d] /\ target[d] \in Helpers
    BY <1>1 DEF IInv, DomainInv
  <2>2. QED
    BY <1>3, <2>1 DEF IInv, TargetInv
<1>7. QED
  BY <1>4, <1>5, <1>6 DEF IInv

LEMMA SearchStepOK ==
  ASSUME IInv, NEW c \in Clients, Request(c) \/ SearchStep(c)
  PROVE  IInv'
<1> USE DEF Step, fileVars
<1>1. CASE Request(c)
  BY <1>1, QuietMove, QuietPlaces DEF Request
<1>2. CASE Connect(c)
  BY <1>2, ClientRests DEF Connect
<1>3. CASE FastHello(c)
  BY <1>3, QuietMove, QuietPlaces DEF FastHello
<1>4. CASE TakeSpawnLock(c)
  BY <1>4, QuietMove, QuietPlaces DEF TakeSpawnLock
<1>5. CASE SpawnHello(c)
  BY <1>5, QuietMove, QuietPlaces DEF SpawnHello
<1>6. CASE Found(c)
  BY <1>6, QuietMove, QuietPlaces DEF Found
<1>7. CASE Probe(c)
  BY <1>7, QuietMove, QuietPlaces DEF Probe
<1>8. CASE Spawn(c)
  BY <1>8, SpawnOK
<1>9. CASE AwaitHello(c)
  BY <1>9, QuietMove, QuietPlaces DEF AwaitHello
<1>10. CASE AwaitProbe(c)
  BY <1>10, QuietMove, QuietPlaces DEF AwaitProbe
<1>11. CASE ReadPid(c)
  BY <1>11, QuietMove, QuietPlaces DEF ReadPid
<1>12. CASE StopAnswer(c)
  BY <1>12, QuietMove, QuietPlaces DEF StopAnswer
<1>13. CASE StopWait(c)
  BY <1>13, QuietMove, QuietPlaces DEF StopWait, WaitsUnlocked
<1>14. CASE StopUnlink(c)
  BY <1>14, QuietMove, QuietPlaces DEF StopUnlink, Unlinks
<1>15. CASE Stopped(c)
  BY <1>15, QuietMove, QuietPlaces DEF Stopped, WaitsGone
<1>16. CASE EmbedAgain(c)
  BY <1>16, QuietMove, QuietPlaces DEF EmbedAgain
<1>17. CASE NotBound(c) \/ Embedded(c) \/ RequestFails(c)
  BY <1>17, EndOK DEF NotBound, Embedded, RequestFails
<1>18. QED
  BY <1>1, <1>2, <1>3, <1>4, <1>5, <1>6, <1>7, <1>8, <1>9, <1>10, <1>11,
     <1>12, <1>13, <1>14, <1>15, <1>16, <1>17 DEF SearchStep

LEMMA IndexStepOK ==
  ASSUME IInv, NEW c \in Clients, BeginShutdown(c) \/ IndexStep(c)
  PROVE  IInv'
<1> USE DEF Step, fileVars
<1>1. CASE BeginShutdown(c)
  BY <1>1, BeginShutdownOK
<1>2. CASE Connect(c)
  BY <1>2, ClientRests DEF Connect
<1>3. CASE ShutdownAnswer(c)
  BY <1>3, QuietMove, QuietPlaces DEF ShutdownAnswer
<1>4. CASE ShutdownProbe(c)
  <2>1. CASE LifetimeFree(lifetime)
    BY <1>4, <2>1, ReleasedMove, ReleasedPlaces DEF ShutdownProbe, Released
  <2>2. CASE ~LifetimeFree(lifetime)
    BY <1>4, <2>2, QuietMove, QuietPlaces DEF ShutdownProbe
  <2>3. QED
    BY <2>1, <2>2
<1>5. CASE ShutdownDone(c)
  BY <1>5, ReleasedMove, ReleasedPlaces
     DEF ShutdownDone, Unlinks, Released
<1>6. CASE ShutdownWait(c)
  BY <1>6, ReleasedMove, ReleasedPlaces
     DEF ShutdownWait, WaitsUnlocked, Released
<1>7. CASE ShutdownUnlink(c)
  BY <1>7, ReleasedMove, ReleasedPlaces
     DEF ShutdownUnlink, Unlinks, Released
<1>8. CASE ShutdownGone(c)
  BY <1>8, ReleasedMove, ReleasedPlaces
     DEF ShutdownGone, WaitsGone, Released
<1>9. CASE RequestFails(c) \/ FinishIndex(c)
  BY <1>9, EndOK DEF RequestFails, FinishIndex
<1>10. QED
  BY <1>1, <1>2, <1>3, <1>4, <1>5, <1>6, <1>7, <1>8, <1>9 DEF IndexStep

LEMMA StepOK == IInv /\ [Next]_vars => IInv'
<1> SUFFICES ASSUME IInv, [Next]_vars PROVE IInv'
  OBVIOUS
<1>1. CASE \E c \in Clients :
        Request(c) \/ SearchStep(c) \/ StopTimeout(c) \/ KillClient(c)
  <2> PICK c \in Clients :
        Request(c) \/ SearchStep(c) \/ StopTimeout(c) \/ KillClient(c)
    BY <1>1
  <2>1. CASE Request(c) \/ SearchStep(c)
    BY <2>1, SearchStepOK
  <2>2. CASE StopTimeout(c)
    BY <2>2, EndOK DEF StopTimeout
  <2>3. CASE KillClient(c)
    BY <2>3, KillClientOK
  <2>4. QED
    BY <2>1, <2>2, <2>3
<1>2. CASE \E i \in Indexers : BeginShutdown(i) \/ IndexStep(i)
  BY <1>2, ActorsAssumption, IndexStepOK
<1>3. CASE \E h \in Helpers : HelperStep(h) \/ KillHelper(h)
  <2> PICK h \in Helpers : HelperStep(h) \/ KillHelper(h)
    BY <1>3
  <2>1. CASE HelperStep(h)
    BY <2>1, HelperStepOK
  <2>2. CASE KillHelper(h)
    BY <2>2, HelperExits DEF KillHelper
  <2>3. QED
    BY <2>1, <2>2
<1>4. CASE UNCHANGED vars
  BY <1>4, ClientRests DEF vars, clientVars, fileVars
<1>5. QED
  BY <1>1, <1>2, <1>3, <1>4 DEF Next

-----------------------------------------------------------------------------
(* The theorems.                                                           *)

(* The lifetime lock tells the stages of all helpers, and a shutdown the   *)
(* stage of the helper it met, whoever is killed.                          *)
THEOREM Invariance == Spec => []IInv
  BY InitOK, StepOK, PTL DEF Spec

(* The model is in the memory of the owner of the lifetime lock alone, for *)
(* any number of clients, helpers and versions.                            *)
THEOREM ModelHeldOnce == Spec => []OneModel
<1>1. IInv => OneModel
  BY DEF IInv, LockInv, MemoryInv, OneModel, Loaded, At, Owning
<1>2. QED
  BY <1>1, Invariance, PTL

(* When an index run goes on, the helper that was warm as its shutdown     *)
(* began has released the model and the lock.                              *)
THEOREM ShutdownComplete == Spec => []ShutdownReleases
<1>1. IInv => ShutdownReleases
  <2> SUFFICES ASSUME IInv, NEW i \in Indexers,
                      pc[i] = "indexing", target[i] # NoHelper
               PROVE  ~Loaded(target[i]) /\ lifetime # target[i]
    BY DEF ShutdownReleases
  <2>1. i \in Clients /\ target[i] \in Helpers
    BY ActorsAssumption DEF IInv, DomainInv
  <2>2. helper[target[i]].stage = "exiting"
    BY <2>1 DEF IInv, TargetInv, Released
  <2>3. QED
    BY <2>1, <2>2 DEF IInv, LockInv, MemoryInv, Loaded, At, Owning
<1>2. QED
  BY <1>1, Invariance, PTL
-----------------------------------------------------------------------------
(* The rest of the state: connections, queues, files.                      *)

Asking == Greeting \cup {"embed", "stopSend", "shutSend"}
Once(q) == \A j, k \in 1..Len(q) : q[j] = q[k] => j = k

(* A queue holds connections that wait for its listener, each once, and a  *)
(* client that asks nothing has no connection.                             *)
QueueOK(q, cn, h) ==
  /\ q \in Seq(Clients) /\ Once(q)
  /\ \A k \in 1..Len(q) : cn[q[k]].state = "pending" /\ cn[q[k]].to = h
ConnInv ==
  /\ conn \in [Clients -> Connection]
  /\ DOMAIN backlog = Helpers /\ backlog = [h \in Helpers |-> backlog[h]]
  /\ \A h \in Helpers : QueueOK(backlog[h], conn, h)
  /\ \A p \in Clients : pc[p] \notin Asking => conn[p] = NoConn

FileInv ==
  /\ tried \in [Clients -> BOOLEAN]
  /\ child \in [Clients -> Helpers \cup {NoHelper, Gone}]
  /\ awaited \in [Clients -> Helpers \cup {NoHelper}]
  /\ spawnLock \in Clients \cup {NoHelper}
  /\ pidFile \in Helpers \cup {NoHelper}
  /\ sock \in Helpers \cup {NoHelper, Gone}
  /\ kills \in 0..MaxKills

(* The socket path names a helper that may still answer there, and no dead *)
(* one until a process was killed.                                         *)
Bound == {"bound", "serving", "embedding", "closing"}
SockInv ==
  /\ \A h \in Helpers : sock = h => helper[h].stage \in Bound
  /\ kills = 0 => sock # Gone

RestInv == FileInv /\ SockInv /\ ConnInv

-----------------------------------------------------------------------------
(* Files.                                                                  *)

LEMMA FileStep ==
  ASSUME IInv, FileInv, [Next]_vars
  PROVE  FileInv'
<1> USE ActorsAssumption, KillsAssumption
    DEF IInv, DomainInv, FileInv, clientVars, fileVars, Step, HelperUnchanged
<1>1. ASSUME NEW c \in Clients, Request(c) PROVE FileInv'
  BY <1>1 DEF Request
<1>2. ASSUME NEW c \in Clients, Connect(c) PROVE FileInv'
  BY <1>2 DEF Connect
<1>3. ASSUME NEW c \in Clients, FastHello(c) PROVE FileInv'
  BY <1>3 DEF FastHello
<1>4. ASSUME NEW c \in Clients, TakeSpawnLock(c) PROVE FileInv'
  BY <1>4 DEF TakeSpawnLock
<1>5. ASSUME NEW c \in Clients, SpawnHello(c) PROVE FileInv'
  BY <1>5 DEF SpawnHello
<1>6. ASSUME NEW c \in Clients, Found(c) PROVE FileInv'
  BY <1>6 DEF Found, DropSpawnLock
<1>7. ASSUME NEW c \in Clients, Probe(c) PROVE FileInv'
  BY <1>7 DEF Probe
<1>8. ASSUME NEW c \in Clients, Spawn(c) PROVE FileInv'
  BY <1>8 DEF Spawn
<1>9. ASSUME NEW c \in Clients, AwaitHello(c) PROVE FileInv'
  BY <1>9 DEF AwaitHello
<1>10. ASSUME NEW c \in Clients, AwaitProbe(c) PROVE FileInv'
  BY <1>10 DEF AwaitProbe
<1>11. ASSUME NEW c \in Clients, NotBound(c) PROVE FileInv'
  BY <1>11 DEF NotBound, End, Forget, DropSpawnLock
<1>12. ASSUME NEW c \in Clients, ReadPid(c) PROVE FileInv'
  BY <1>12 DEF ReadPid, DropSpawnLock
<1>13. ASSUME NEW c \in Clients, StopAnswer(c) PROVE FileInv'
  BY <1>13 DEF StopAnswer
<1>14. ASSUME NEW c \in Clients, StopWait(c) PROVE FileInv'
  BY <1>14 DEF StopWait, WaitsUnlocked
<1>15. ASSUME NEW c \in Clients, StopUnlink(c) PROVE FileInv'
  BY <1>15 DEF StopUnlink, Unlinks
<1>16. ASSUME NEW c \in Clients, Stopped(c) PROVE FileInv'
  BY <1>16 DEF Stopped, WaitsGone
<1>17. ASSUME NEW c \in Clients, Embedded(c) PROVE FileInv'
  BY <1>17 DEF Embedded, End, Forget, DropSpawnLock
<1>18. ASSUME NEW c \in Clients, EmbedAgain(c) PROVE FileInv'
  BY <1>18 DEF EmbedAgain
<1>19. ASSUME NEW c \in Clients, RequestFails(c) PROVE FileInv'
  BY <1>19 DEF RequestFails, End, Forget, DropSpawnLock
<1>20. ASSUME NEW c \in Clients, StopTimeout(c) PROVE FileInv'
  BY <1>20 DEF StopTimeout, End, Forget, DropSpawnLock
<1>21. ASSUME NEW c \in Clients, KillClient(c) PROVE FileInv'
  BY <1>21 DEF KillClient, Forget, DropSpawnLock
<1>22. ASSUME NEW c \in Clients, BeginShutdown(c) PROVE FileInv'
  BY <1>22 DEF BeginShutdown
<1>23. ASSUME NEW c \in Clients, ShutdownAnswer(c) PROVE FileInv'
  BY <1>23 DEF ShutdownAnswer
<1>24. ASSUME NEW c \in Clients, ShutdownProbe(c) PROVE FileInv'
  BY <1>24 DEF ShutdownProbe
<1>25. ASSUME NEW c \in Clients, ShutdownDone(c) PROVE FileInv'
  BY <1>25 DEF ShutdownDone, Unlinks
<1>26. ASSUME NEW c \in Clients, ShutdownWait(c) PROVE FileInv'
  BY <1>26 DEF ShutdownWait, WaitsUnlocked
<1>27. ASSUME NEW c \in Clients, ShutdownUnlink(c) PROVE FileInv'
  BY <1>27 DEF ShutdownUnlink, Unlinks
<1>28. ASSUME NEW c \in Clients, ShutdownGone(c) PROVE FileInv'
  BY <1>28 DEF ShutdownGone, WaitsGone
<1>29. ASSUME NEW c \in Clients, FinishIndex(c) PROVE FileInv'
  BY <1>29 DEF FinishIndex, End, Forget, DropSpawnLock
<1>30. ASSUME NEW h \in Helpers, TakeLifetime(h) PROVE FileInv'
  BY <1>30 DEF TakeLifetime
<1>31. ASSUME NEW h \in Helpers, GiveUp(h) PROVE FileInv'
  BY <1>31 DEF GiveUp, Exit, Forgotten
<1>32. ASSUME NEW h \in Helpers, Listen(h) PROVE FileInv'
  BY <1>32 DEF Listen
<1>33. ASSUME NEW h \in Helpers, NEW p \in Clients, Serve(h, p)
      PROVE  FileInv'
  BY <1>33 DEF Serve
<1>34. ASSUME NEW h \in Helpers, FinishEmbed(h) PROVE FileInv'
  BY <1>34 DEF FinishEmbed
<1>35. ASSUME NEW h \in Helpers, ServeGhost(h) PROVE FileInv'
  BY <1>35 DEF ServeGhost
<1>36. ASSUME NEW h \in Helpers, LeaveLoop(h) PROVE FileInv'
  BY <1>36 DEF LeaveLoop
<1>37. ASSUME NEW h \in Helpers, Close(h) PROVE FileInv'
  BY <1>37 DEF Close, UnlinkOwned
<1>38. ASSUME NEW h \in Helpers, Unlock(h) PROVE FileInv'
  BY <1>38 DEF Unlock
<1>39. ASSUME NEW h \in Helpers, Leave(h) PROVE FileInv'
  BY <1>39 DEF Leave, Exit, Forgotten
<1>40. ASSUME NEW h \in Helpers, KillHelper(h) PROVE FileInv'
  BY <1>40 DEF KillHelper, Exit, Forgotten
<1>41. CASE UNCHANGED vars
  BY <1>41 DEF vars
<1>42. QED
  BY <1>1, <1>2, <1>3, <1>4, <1>5, <1>6, <1>7, <1>8, <1>9, <1>10, <1>11,
     <1>12, <1>13, <1>14, <1>15, <1>16, <1>17, <1>18, <1>19, <1>20,
     <1>21, <1>22, <1>23, <1>24, <1>25, <1>26, <1>27, <1>28, <1>29,
     <1>30, <1>31, <1>32, <1>33, <1>34, <1>35, <1>36, <1>37, <1>38,
     <1>39, <1>40, <1>41
     DEF Next, SearchStep, IndexStep, HelperStep

(* A step of a client leaves the stages of helpers alone, except that it   *)
(* may start one, and at most unlinks the socket path.                     *)
LEMMA SockOfClient ==
  ASSUME SockInv, sock' \in {sock, NoHelper}, UNCHANGED kills,
         \A h \in Helpers : helper'[h].stage = helper[h].stage
  PROVE  SockInv'
BY ActorsAssumption DEF SockInv

LEMMA SockStep ==
  ASSUME IInv, FileInv, SockInv, [Next]_vars
  PROVE  SockInv'
<1> USE ActorsAssumption
    DEF clientVars, fileVars, Step, HelperUnchanged
<1>1. ASSUME NEW c \in Clients, Request(c) PROVE SockInv'
  BY <1>1, SockOfClient DEF Request
<1>2. ASSUME NEW c \in Clients, Connect(c) PROVE SockInv'
  BY <1>2, SockOfClient DEF Connect
<1>3. ASSUME NEW c \in Clients, FastHello(c) PROVE SockInv'
  BY <1>3, SockOfClient DEF FastHello
<1>4. ASSUME NEW c \in Clients, TakeSpawnLock(c) PROVE SockInv'
  BY <1>4, SockOfClient DEF TakeSpawnLock
<1>5. ASSUME NEW c \in Clients, SpawnHello(c) PROVE SockInv'
  BY <1>5, SockOfClient DEF SpawnHello
<1>6. ASSUME NEW c \in Clients, Found(c) PROVE SockInv'
  BY <1>6, SockOfClient DEF Found, DropSpawnLock
<1>7. ASSUME NEW c \in Clients, Probe(c) PROVE SockInv'
  BY <1>7, SockOfClient DEF Probe
<1>8. ASSUME NEW c \in Clients, AwaitHello(c) PROVE SockInv'
  BY <1>8, SockOfClient DEF AwaitHello
<1>9. ASSUME NEW c \in Clients, AwaitProbe(c) PROVE SockInv'
  BY <1>9, SockOfClient DEF AwaitProbe
<1>10. ASSUME NEW c \in Clients, NotBound(c) PROVE SockInv'
  BY <1>10, SockOfClient DEF NotBound, End, Forget, DropSpawnLock
<1>11. ASSUME NEW c \in Clients, ReadPid(c) PROVE SockInv'
  BY <1>11, SockOfClient DEF ReadPid, DropSpawnLock
<1>12. ASSUME NEW c \in Clients, StopAnswer(c) PROVE SockInv'
  BY <1>12, SockOfClient DEF StopAnswer
<1>13. ASSUME NEW c \in Clients, StopWait(c) PROVE SockInv'
  BY <1>13, SockOfClient DEF StopWait, WaitsUnlocked
<1>14. ASSUME NEW c \in Clients, StopUnlink(c) PROVE SockInv'
  BY <1>14, SockOfClient DEF StopUnlink, Unlinks
<1>15. ASSUME NEW c \in Clients, Stopped(c) PROVE SockInv'
  BY <1>15, SockOfClient DEF Stopped, WaitsGone
<1>16. ASSUME NEW c \in Clients, Embedded(c) PROVE SockInv'
  BY <1>16, SockOfClient DEF Embedded, End, Forget, DropSpawnLock
<1>17. ASSUME NEW c \in Clients, EmbedAgain(c) PROVE SockInv'
  BY <1>17, SockOfClient DEF EmbedAgain
<1>18. ASSUME NEW c \in Clients, RequestFails(c) PROVE SockInv'
  BY <1>18, SockOfClient DEF RequestFails, End, Forget, DropSpawnLock
<1>19. ASSUME NEW c \in Clients, StopTimeout(c) PROVE SockInv'
  BY <1>19, SockOfClient DEF StopTimeout, End, Forget, DropSpawnLock
<1>20. ASSUME NEW c \in Clients, BeginShutdown(c) PROVE SockInv'
  BY <1>20, SockOfClient DEF BeginShutdown
<1>21. ASSUME NEW c \in Clients, ShutdownAnswer(c) PROVE SockInv'
  BY <1>21, SockOfClient DEF ShutdownAnswer
<1>22. ASSUME NEW c \in Clients, ShutdownProbe(c) PROVE SockInv'
  BY <1>22, SockOfClient DEF ShutdownProbe
<1>23. ASSUME NEW c \in Clients, ShutdownDone(c) PROVE SockInv'
  BY <1>23, SockOfClient DEF ShutdownDone, Unlinks
<1>24. ASSUME NEW c \in Clients, ShutdownWait(c) PROVE SockInv'
  BY <1>24, SockOfClient DEF ShutdownWait, WaitsUnlocked
<1>25. ASSUME NEW c \in Clients, ShutdownUnlink(c) PROVE SockInv'
  BY <1>25, SockOfClient DEF ShutdownUnlink, Unlinks
<1>26. ASSUME NEW c \in Clients, ShutdownGone(c) PROVE SockInv'
  BY <1>26, SockOfClient DEF ShutdownGone, WaitsGone
<1>27. ASSUME NEW c \in Clients, FinishIndex(c) PROVE SockInv'
  BY <1>27, SockOfClient DEF FinishIndex, End, Forget, DropSpawnLock
<1>28. ASSUME NEW c \in Clients, Spawn(c) PROVE SockInv'
  BY <1>28, NoHelperNone DEF Spawn, SockInv
<1>29. ASSUME NEW c \in Clients, KillClient(c) PROVE SockInv'
  <2>1. \A h \in Helpers : helper'[h].stage = helper[h].stage
    BY <1>29 DEF KillClient, HelperRow, IInv, DomainInv
  <2>2. sock' = sock /\ kills' # 0
    BY <1>29 DEF KillClient, FileInv
  <2>3. QED
    BY <2>1, <2>2 DEF SockInv
<1> USE DEF SockInv, Bound, IInv, DomainInv, FileInv, At, Become
<1>30. ASSUME NEW h \in Helpers, TakeLifetime(h) PROVE SockInv'
  BY <1>30 DEF TakeLifetime
<1>31. ASSUME NEW h \in Helpers, GiveUp(h) PROVE SockInv'
  BY <1>31 DEF GiveUp, Exit, Forgotten, NoProcess
<1>32. ASSUME NEW h \in Helpers, Listen(h) PROVE SockInv'
  BY <1>32 DEF Listen
<1>33. ASSUME NEW h \in Helpers, NEW p \in Clients, Serve(h, p)
      PROVE  SockInv'
  <2>1. helper[h].stage = "serving" /\ UNCHANGED <<sock, kills>>
    BY <1>33 DEF Serve
  <2>2. helper' = helper \/ Become(h, "closing") \/ Become(h, "embedding")
    BY <1>33 DEF Serve
  <2>3. \A k \in Helpers : helper'[k].stage = helper[k].stage
          \/ helper'[k].stage \in {"closing", "embedding"}
    BY <2>2 DEF HelperRow
  <2>4. QED
    BY <2>1, <2>3
<1>34. ASSUME NEW h \in Helpers, FinishEmbed(h) PROVE SockInv'
  BY <1>34 DEF FinishEmbed
<1>35. ASSUME NEW h \in Helpers, ServeGhost(h) PROVE SockInv'
  BY <1>35 DEF ServeGhost
<1>36. ASSUME NEW h \in Helpers, LeaveLoop(h) PROVE SockInv'
  BY <1>36 DEF LeaveLoop
<1>37. ASSUME NEW h \in Helpers, Close(h) PROVE SockInv'
  BY <1>37 DEF Close, UnlinkOwned
<1>38. ASSUME NEW h \in Helpers, Unlock(h) PROVE SockInv'
  BY <1>38 DEF Unlock
<1>39. ASSUME NEW h \in Helpers, Leave(h) PROVE SockInv'
  BY <1>39 DEF Leave, Exit, Forgotten, NoProcess
<1>40. ASSUME NEW h \in Helpers, KillHelper(h) PROVE SockInv'
  BY <1>40 DEF KillHelper, Exit, Forgotten, NoProcess
<1>41. CASE UNCHANGED vars
  BY <1>41 DEF vars
<1>42. QED
  BY <1>1, <1>2, <1>3, <1>4, <1>5, <1>6, <1>7, <1>8, <1>9, <1>10, <1>11,
     <1>12, <1>13, <1>14, <1>15, <1>16, <1>17, <1>18, <1>19, <1>20,
     <1>21, <1>22, <1>23, <1>24, <1>25, <1>26, <1>27, <1>28, <1>29,
     <1>30, <1>31, <1>32, <1>33, <1>34, <1>35, <1>36, <1>37, <1>38,
     <1>39, <1>40, <1>41
     DEF Next, SearchStep, IndexStep, HelperStep

-----------------------------------------------------------------------------
(* Connections and queues.                                                 *)

LEMMA Replies ==
  ASSUME NEW c \in Connection
  PROVE  /\ NoConn \in Connection /\ NoConn.state = "none"
         /\ \A a \in Answers : Reply(c, a) \in Connection
         /\ \A h : HangUp(c, h) \in Connection
         /\ \A h : c.to # h => HangUp(c, h) = c
         /\ \A h : NoHelper # h => HangUp(NoConn, h) = NoConn
BY DEF Connection, NoConn, Reply, HangUp, Answers

(* What happens to a queue: a client joins it, its head or a client that   *)
(* died leaves it.                                                         *)
LEMMA QueueJoin ==
  ASSUME NEW q \in Seq(Clients), Once(q), NEW c \in Clients,
         \A k \in 1..Len(q) : q[k] # c
  PROVE  /\ Append(q, c) \in Seq(Clients) /\ Once(Append(q, c))
         /\ \A k \in 1..Len(Append(q, c)) :
              \/ Append(q, c)[k] = c
              \/ \E j \in 1..Len(q) : Append(q, c)[k] = q[j]
BY DEF Once

LEMMA QueueTail ==
  ASSUME NEW q \in Seq(Clients), Once(q), q # <<>>
  PROVE  /\ Tail(q) \in Seq(Clients) /\ Once(Tail(q))
         /\ \A k \in 1..Len(Tail(q)) :
              Tail(q)[k] # Head(q) /\ \E j \in 1..Len(q) : Tail(q)[k] = q[j]
BY DEF Once

LEMMA QueueWithout ==
  ASSUME NEW q \in Seq(Clients), Once(q), NEW c \in Clients
  PROVE  /\ Without(q, c) \in Seq(Clients) /\ Once(Without(q, c))
         /\ \A k \in 1..Len(Without(q, c)) :
              /\ Without(q, c)[k] # c
              /\ \E j \in 1..Len(q) : Without(q, c)[k] = q[j]
<1>1. CASE \A k \in 1..Len(q) : q[k] # c
  BY <1>1 DEF Without
<1>2. CASE \E k \in 1..Len(q) : q[k] = c
  <2> DEFINE n == CHOOSE k \in 1..Len(q) : q[k] = c
             a == SubSeq(q, 1, n - 1)
             b == SubSeq(q, n + 1, Len(q))
  <2>1. n \in 1..Len(q) /\ q[n] = c
    BY <1>2
  <2>2. Without(q, c) = a \o b
    BY <1>2 DEF Without
  <2> HIDE DEF n
  <2>3. a \in Seq(Clients) /\ Len(a) = n - 1
          /\ \A k \in 1..(n - 1) : a[k] = q[k]
    BY <2>1
  <2>4. b \in Seq(Clients) /\ Len(b) = Len(q) - n
          /\ \A k \in 1..(Len(q) - n) : b[k] = q[k + n]
    BY <2>1
  <2> HIDE DEF a, b
  <2>5. /\ a \o b \in Seq(Clients) /\ Len(a \o b) = Len(q) - 1
    <3>1. Len(a \o b) = Len(a) + Len(b)
      BY <2>3, <2>4
    <3>2. QED
      BY <2>1, <2>3, <2>4, <3>1
  <2>6. \A k \in 1..(Len(q) - 1) :
          (a \o b)[k] = IF k < n THEN q[k] ELSE q[k + 1]
    <3>1. ASSUME NEW k \in 1..(Len(q) - 1), k < n
          PROVE  (a \o b)[k] = q[k]
      <4>1. k \in 1..Len(a)
        BY <2>1, <2>3, <3>1
      <4>2. (a \o b)[k] = a[k]
        BY <2>3, <2>4, <4>1
      <4>3. QED
        BY <2>1, <2>3, <3>1, <4>2
    <3>2. ASSUME NEW k \in 1..(Len(q) - 1), ~(k < n)
          PROVE  (a \o b)[k] = q[k + 1]
      <4>1. k > Len(a) /\ k <= Len(a) + Len(b)
        BY <2>1, <2>3, <2>4, <3>2
      <4>2. (a \o b)[k] = b[k - Len(a)]
        BY <2>3, <2>4, <4>1
      <4>3. k - Len(a) \in 1..(Len(q) - n) /\ k - Len(a) + n = k + 1
        BY <2>1, <2>3, <3>2
      <4>4. QED
        BY <2>4, <4>2, <4>3
    <3>3. QED
      BY <3>1, <3>2
  <2> DEFINE r == a \o b
  <2> HIDE DEF r
  <2>7. /\ r \in Seq(Clients) /\ Len(r) = Len(q) - 1
        /\ \A k \in 1..Len(r) :
             \E j \in 1..Len(q) : /\ r[k] = q[j] /\ j # n
                                  /\ j = IF k < n THEN k ELSE k + 1
    <3>1. r \in Seq(Clients) /\ Len(r) = Len(q) - 1
      BY <2>5 DEF r
    <3>2. \A k \in 1..(Len(q) - 1) :
            /\ k < n => k \in 1..Len(q) /\ k # n
            /\ ~(k < n) => k + 1 \in 1..Len(q) /\ k + 1 # n
      BY <2>1
    <3>3. QED
      BY <2>6, <3>1, <3>2 DEF r
  <2>8. Once(r)
    <3> SUFFICES ASSUME NEW i \in 1..Len(r), NEW k \in 1..Len(r), r[i] = r[k]
                 PROVE  i = k
      BY DEF Once
    <3>1. PICK x \in 1..Len(q) : /\ r[i] = q[x]
                                 /\ x = IF i < n THEN i ELSE i + 1
      BY <2>7
    <3>2. PICK y \in 1..Len(q) : /\ r[k] = q[y]
                                 /\ y = IF k < n THEN k ELSE k + 1
      BY <2>7
    <3>3. x = y
      BY <3>1, <3>2 DEF Once
    <3>4. QED
      BY <2>1, <2>7, <3>1, <3>2, <3>3
  <2>9. \A k \in 1..Len(r) :
          r[k] # c /\ \E j \in 1..Len(q) : r[k] = q[j]
    BY <2>1, <2>7 DEF Once
  <2>10. QED
    BY <2>2, <2>7, <2>8, <2>9 DEF r
<1>3. QED
  BY <1>1, <1>2

(* A queue whose clients keep their connections.                           *)
LEMMA QueueKept ==
  ASSUME NEW q, NEW cn, NEW dn, NEW h, QueueOK(q, cn, h),
         \A p \in Clients : cn[p].state = "pending" => dn[p] = cn[p]
  PROVE  QueueOK(q, dn, h)
BY DEF QueueOK

(* A client whose connection does not wait moves and has none after.       *)
LEMMA ConnOfClient ==
  ASSUME IInv, ConnInv, NEW c \in Clients, NEW to,
         pc' = [pc EXCEPT ![c] = to], conn[c].state # "pending",
         \/ conn' = [conn EXCEPT ![c] = NoConn]
         \/ conn' = conn /\ (conn[c] = NoConn \/ pc[c] \notin Asking),
         UNCHANGED backlog
  PROVE  ConnInv'
<1>1. NoConn \in Connection
  BY Replies DEF ConnInv
<1>2. /\ conn' \in [Clients -> Connection] /\ conn'[c] = NoConn
      /\ \A p \in Clients \ {c} : conn'[p] = conn[p] /\ pc'[p] = pc[p]
  BY <1>1 DEF ConnInv, IInv, DomainInv
<1>3. \A h \in Helpers : QueueOK(backlog[h], conn', h)
  BY <1>2, QueueKept DEF ConnInv
<1>4. QED
  BY <1>2, <1>3 DEF ConnInv

(* A client that heard an answer or an error, or asks nothing, waits in no *)
(* queue.                                                                  *)
LEMMA NotWaiting ==
  ASSUME ConnInv, NEW c \in Clients,
         Got(c, Answers) \/ OSErr(c) \/ pc[c] \notin Asking
  PROVE  conn[c].state # "pending"
BY Replies DEF ConnInv, Got, Answers, OSErr, Asks, NoConn

LEMMA GotAnswer ==
  ASSUME NEW c, \/ Got(c, {"hello"}) \/ Got(c, {"ack"}) \/ Got(c, {"result"})
                \/ Got(c, {"error"}) \/ Got(c, {"eof"})
  PROVE  Got(c, Answers)
BY DEF Got, Answers

LEMMA ConnOfEnd ==
  ASSUME IInv, ConnInv, NEW c \in Clients, End(c),
         conn[c].state # "pending"
  PROVE  ConnInv'
<1>1. /\ pc' = [pc EXCEPT ![c] = "idle"]
      /\ conn' = [conn EXCEPT ![c] = NoConn] /\ UNCHANGED backlog
  BY DEF End, Forget, Hang
<1>2. QED
  BY <1>1, ConnOfClient

LEMMA ClientConnStep ==
  ASSUME IInv, ConnInv, NEW c \in Clients,
         \/ Request(c) \/ SearchStep(c) \/ StopTimeout(c)
         \/ BeginShutdown(c) \/ IndexStep(c)
  PROVE  ConnInv' \/ Connect(c)
<1> USE ConnOfClient, NotWaiting, GotAnswer
    DEF Move, Hang, Step, Asking, Greeting, Compatible, Incompatible
<1>1. CASE Request(c)
  BY <1>1 DEF Request
<1>2. CASE FastHello(c)
  BY <1>2 DEF FastHello
<1>3. CASE TakeSpawnLock(c)
  BY <1>3 DEF TakeSpawnLock
<1>4. CASE SpawnHello(c)
  BY <1>4 DEF SpawnHello
<1>5. CASE Found(c)
  BY <1>5 DEF Found, DropSpawnLock
<1>6. CASE Probe(c)
  BY <1>6 DEF Probe
<1>7. CASE Spawn(c)
  BY <1>7 DEF Spawn
<1>8. CASE AwaitHello(c)
  BY <1>8 DEF AwaitHello
<1>9. CASE AwaitProbe(c)
  BY <1>9 DEF AwaitProbe
<1>10. CASE NotBound(c)
  BY <1>10, ConnOfEnd DEF NotBound
<1>11. CASE ReadPid(c)
  BY <1>11 DEF ReadPid, DropSpawnLock
<1>12. CASE StopAnswer(c)
  BY <1>12 DEF StopAnswer
<1>13. CASE StopWait(c)
  BY <1>13 DEF StopWait, WaitsUnlocked
<1>14. CASE StopUnlink(c)
  BY <1>14 DEF StopUnlink, Unlinks
<1>15. CASE Stopped(c)
  BY <1>15 DEF Stopped, WaitsGone
<1>16. CASE Embedded(c)
  BY <1>16, ConnOfEnd DEF Embedded
<1>17. CASE EmbedAgain(c)
  BY <1>17 DEF EmbedAgain
<1>18. CASE RequestFails(c)
  BY <1>18, ConnOfEnd DEF RequestFails
<1>19. CASE StopTimeout(c)
  BY <1>19, ConnOfEnd DEF StopTimeout
<1>20. CASE BeginShutdown(c)
  BY <1>20 DEF BeginShutdown
<1>21. CASE ShutdownAnswer(c)
  BY <1>21 DEF ShutdownAnswer
<1>22. CASE ShutdownProbe(c)
  BY <1>22 DEF ShutdownProbe
<1>23. CASE ShutdownDone(c)
  BY <1>23 DEF ShutdownDone, Unlinks
<1>24. CASE ShutdownWait(c)
  BY <1>24 DEF ShutdownWait, WaitsUnlocked
<1>25. CASE ShutdownUnlink(c)
  BY <1>25 DEF ShutdownUnlink, Unlinks
<1>26. CASE ShutdownGone(c)
  BY <1>26 DEF ShutdownGone, WaitsGone
<1>27. CASE FinishIndex(c)
  BY <1>27, ConnOfEnd DEF FinishIndex
<1>28. QED
  BY <1>1, <1>2, <1>3, <1>4, <1>5, <1>6, <1>7, <1>8, <1>9, <1>10, <1>11,
     <1>12, <1>13, <1>14, <1>15, <1>16, <1>17, <1>18, <1>19, <1>20,
     <1>21, <1>22, <1>23, <1>24, <1>25, <1>26, <1>27
     DEF SearchStep, IndexStep

(* A connection waits last in the queue of its listener.                   *)
LEMMA ConnectStep ==
  ASSUME IInv, FileInv, ConnInv, NEW c \in Clients, Connect(c)
  PROVE  ConnInv'
<1> DEFINE l == sock
           w == [state |-> "pending", to |-> l, by |-> helper[l].version]
<1>1. /\ pc[c] \in Asking /\ conn[c] = NoConn /\ l \in Helpers
      /\ conn' = [conn EXCEPT ![c] = w]
      /\ backlog' = [backlog EXCEPT ![l] = Append(@, c)]
      /\ pc' = pc
  BY DEF Connect, Asks, Asking, Listening
<1>2. helper[l].version \in Versions \cup {NoHelper}
  BY <1>1 DEF IInv, DomainInv, HelperRow
<1>3. w \in Connection /\ w.state = "pending" /\ w.to = l
  BY <1>1, <1>2 DEF Connection
<1> HIDE DEF w, l
<1>4. /\ conn' \in [Clients -> Connection] /\ conn'[c] = w
      /\ \A p \in Clients \ {c} : conn'[p] = conn[p]
  BY <1>1, <1>3 DEF ConnInv
<1>5. conn[c].state # "pending"
  BY <1>1 DEF NoConn
<1>6. \A h \in Helpers : QueueOK(backlog[h], conn', h)
  BY <1>4, <1>5, QueueKept DEF ConnInv
<1>7. \A k \in 1..Len(backlog[l]) : backlog[l][k] # c
  BY <1>1, <1>5 DEF ConnInv, QueueOK
<1>8. QueueOK(Append(backlog[l], c), conn', l)
  <2>1. backlog[l] \in Seq(Clients) /\ Once(backlog[l])
    BY <1>1 DEF ConnInv, QueueOK
  <2>2. QED
    BY <1>1, <1>3, <1>4, <1>6, <1>7, <2>1, QueueJoin DEF QueueOK
<1>9. /\ DOMAIN backlog' = Helpers
      /\ backlog' = [h \in Helpers |-> backlog'[h]]
      /\ \A h \in Helpers : backlog'[h] =
           IF h = l THEN Append(backlog[l], c) ELSE backlog[h]
  BY <1>1 DEF ConnInv
<1>10. \A h \in Helpers : QueueOK(backlog'[h], conn', h)
  BY <1>6, <1>8, <1>9
<1>11. QED
  BY <1>1, <1>4, <1>9, <1>10 DEF ConnInv

(* The connection of a killed client leaves its queue.                     *)
LEMMA KillConnStep ==
  ASSUME IInv, ConnInv, NEW c \in Clients, KillClient(c)
  PROVE  ConnInv'
<1>1. /\ pc' = [pc EXCEPT ![c] = "idle"]
      /\ conn' = [conn EXCEPT ![c] = NoConn]
      /\ backlog' = [h \in Helpers |-> Without(backlog[h], c)]
  BY DEF KillClient, Forget, Hang
<1>2. NoConn \in Connection
  BY DEF NoConn, Connection
<1>3. /\ conn' \in [Clients -> Connection] /\ conn'[c] = NoConn
      /\ \A p \in Clients \ {c} : conn'[p] = conn[p] /\ pc'[p] = pc[p]
  BY <1>1, <1>2 DEF ConnInv, IInv, DomainInv
<1>4. ASSUME NEW h \in Helpers
      PROVE  QueueOK(Without(backlog[h], c), conn', h)
  <2> DEFINE q == backlog[h]
  <2>1. QueueOK(q, conn, h) /\ q \in Seq(Clients) /\ Once(q)
    BY DEF ConnInv, QueueOK
  <2> HIDE DEF q
  <2>2. \A k \in 1..Len(q) : q[k] \in Clients
    BY <2>1
  <2>3. /\ Without(q, c) \in Seq(Clients) /\ Once(Without(q, c))
        /\ \A k \in 1..Len(Without(q, c)) :
             /\ Without(q, c)[k] # c
             /\ \E j \in 1..Len(q) : Without(q, c)[k] = q[j]
    BY <2>1, QueueWithout
  <2>4. \A k \in 1..Len(Without(q, c)) :
          /\ conn'[Without(q, c)[k]].state = "pending"
          /\ conn'[Without(q, c)[k]].to = h
    BY <1>3, <2>1, <2>2, <2>3 DEF QueueOK
  <2>5. QueueOK(Without(q, c), conn', h)
    BY <2>3, <2>4 DEF QueueOK
  <2>6. QED
    BY <2>5 DEF q
<1>5. /\ DOMAIN backlog' = Helpers
      /\ backlog' = [h \in Helpers |-> backlog'[h]]
      /\ \A h \in Helpers : backlog'[h] = Without(backlog[h], c)
  BY <1>1
<1>6. \A h \in Helpers : QueueOK(backlog'[h], conn', h)
  BY <1>4, <1>5
<1>7. QED
  BY <1>3, <1>5, <1>6 DEF ConnInv

(* A listener that closes answers or resets all its connections.           *)
LEMMA HangUpStep ==
  ASSUME ConnInv, NEW h \in Helpers, HangUpAll(h), UNCHANGED pc
  PROVE  ConnInv'
<1>1. /\ conn' = [p \in Clients |-> HangUp(conn[p], h)]
      /\ backlog' = [backlog EXCEPT ![h] = <<>>]
  BY DEF HangUpAll
<1>2. \A p \in Clients : conn[p] \in Connection
  BY DEF ConnInv
<1>3. conn' \in [Clients -> Connection]
  BY <1>1, <1>2, Replies
<1>4. \A p \in Clients :
        /\ conn[p].to # h => conn'[p] = conn[p]
        /\ conn[p] = NoConn => conn'[p] = NoConn
  BY <1>1, <1>2, NoHelperNone DEF HangUp, NoConn
<1>5. ASSUME NEW g \in Helpers, g # h
      PROVE  QueueOK(backlog[g], conn', g)
  <2>1. QueueOK(backlog[g], conn, g) /\ backlog[g] \in Seq(Clients)
    BY DEF ConnInv, QueueOK
  <2>2. \A k \in 1..Len(backlog[g]) : backlog[g][k] \in Clients
    BY <2>1
  <2>3. QED
    <3>1. \A k \in 1..Len(backlog[g]) :
            conn'[backlog[g][k]] = conn[backlog[g][k]]
      BY <1>4, <1>5, <2>1, <2>2 DEF QueueOK
    <3>2. QED
      BY <2>1, <3>1 DEF QueueOK
<1>6. QueueOK(<<>>, conn', h)
  BY DEF QueueOK, Once
<1>7. /\ DOMAIN backlog' = Helpers
      /\ backlog' = [g \in Helpers |-> backlog'[g]]
      /\ \A g \in Helpers : backlog'[g] = IF g = h THEN <<>> ELSE backlog[g]
  BY <1>1 DEF ConnInv
<1>8. \A g \in Helpers : QueueOK(backlog'[g], conn', g)
  BY <1>5, <1>6, <1>7
<1>9. \A p \in Clients : pc'[p] \notin Asking => conn'[p] = NoConn
  BY <1>4 DEF ConnInv
<1>10. QED
  BY <1>3, <1>7, <1>8, <1>9 DEF ConnInv

(* The first connection of a queue is accepted.                            *)
LEMMA ServeStep ==
  ASSUME ConnInv, NEW h \in Helpers, NEW p \in Clients, Serve(h, p)
  PROVE  ConnInv'
<1> DEFINE q == backlog[h]
<1>1. /\ q # <<>> /\ p = Head(q) /\ pc' = pc
      /\ backlog' = [backlog EXCEPT ![h] = Tail(q)]
  BY DEF Serve, HelperUnchanged
<1>2. QueueOK(q, conn, h) /\ q \in Seq(Clients) /\ Once(q)
  BY DEF ConnInv, QueueOK
<1>3. pc[p] \in Asking
  BY DEF Serve, Asking
<1>4. PICK c \in Connection : conn' = [conn EXCEPT ![p] = c]
  <2>1. conn[p] \in Connection
    BY DEF ConnInv
  <2>2. [conn[p] EXCEPT !.state = "accepted"] \in Connection
    BY <2>1 DEF Connection
  <2>3. /\ Reply(conn[p], "hello") \in Connection
        /\ Reply(conn[p], "ack") \in Connection
    BY <2>1, Replies DEF Answers
  <2>4. \/ conn' = [conn EXCEPT ![p] = Reply(conn[p], "hello")]
        \/ conn' = [conn EXCEPT ![p] = Reply(conn[p], "ack")]
        \/ conn' = [conn EXCEPT ![p] = [conn[p] EXCEPT !.state = "accepted"]]
    BY DEF Serve
  <2>5. QED
    BY <2>2, <2>3, <2>4
<1>5. /\ conn' \in [Clients -> Connection]
      /\ \A d \in Clients \ {p} : conn'[d] = conn[d]
  BY <1>4 DEF ConnInv
<1>6. QueueOK(Tail(q), conn', h)
  <2> HIDE DEF q
  <2>1. /\ Tail(q) \in Seq(Clients) /\ Once(Tail(q))
        /\ \A k \in 1..Len(Tail(q)) :
             Tail(q)[k] # p /\ \E j \in 1..Len(q) : Tail(q)[k] = q[j]
    BY <1>1, <1>2, QueueTail
  <2>2. \A k \in 1..Len(q) : q[k] \in Clients
    BY <1>2
  <2>3. \A k \in 1..Len(Tail(q)) : /\ conn'[Tail(q)[k]].state = "pending"
                                   /\ conn'[Tail(q)[k]].to = h
    BY <1>2, <1>5, <2>1, <2>2 DEF QueueOK
  <2>4. QED
    BY <2>1, <2>3 DEF QueueOK
<1>7. ASSUME NEW g \in Helpers, g # h
      PROVE  QueueOK(backlog[g], conn', g)
  <2>1. QueueOK(backlog[g], conn, g) /\ backlog[g] \in Seq(Clients)
    BY DEF ConnInv, QueueOK
  <2>2. \A k \in 1..Len(backlog[g]) : backlog[g][k] \in Clients
    BY <2>1
  <2>3. 1 \in 1..Len(q) /\ p = q[1]
    BY <1>1, <1>2
  <2>4. conn[p].to = h
    BY <1>2, <2>3 DEF QueueOK
  <2>5. \A k \in 1..Len(backlog[g]) : backlog[g][k] # p
    BY <1>7, <2>1, <2>4 DEF QueueOK
  <2>6. QED
    BY <1>5, <2>1, <2>2, <2>5 DEF QueueOK
<1>8. /\ DOMAIN backlog' = Helpers
      /\ backlog' = [g \in Helpers |-> backlog'[g]]
      /\ \A g \in Helpers : backlog'[g] = IF g = h THEN Tail(q) ELSE backlog[g]
  BY <1>1 DEF ConnInv
<1>9. \A g \in Helpers : QueueOK(backlog'[g], conn', g)
  BY <1>6, <1>7, <1>8
<1>10. QED
  BY <1>1, <1>3, <1>5, <1>8, <1>9 DEF ConnInv

(* The clients that a helper served were accepted, not waiting.            *)
LEMMA FinishStep ==
  ASSUME ConnInv, NEW h \in Helpers, FinishEmbed(h)
  PROVE  ConnInv'
<1>1. pc' = pc /\ backlog' = backlog
  BY DEF FinishEmbed, HelperUnchanged
<1>2. PICK a \in {"result", "error"} :
        conn' = [p \in Clients |->
          IF p \in {s \in Clients :
                      conn[s].to = h /\ conn[s].state = "accepted"}
          THEN Reply(conn[p], a) ELSE conn[p]]
  BY DEF FinishEmbed
<1>3. \A p \in Clients : conn[p] \in Connection
        /\ Reply(conn[p], a) \in Connection
  BY Replies DEF ConnInv, Answers
<1>4. conn' \in [Clients -> Connection]
  BY <1>2, <1>3
<1>5. \A p \in Clients : conn[p].state # "accepted" => conn'[p] = conn[p]
  BY <1>2
<1>6. \A g \in Helpers : QueueOK(backlog[g], conn', g)
  BY <1>5, QueueKept DEF ConnInv
<1>7. NoConn.state # "accepted"
  BY DEF NoConn
<1>8. QED
  BY <1>1, <1>4, <1>5, <1>6, <1>7 DEF ConnInv

LEMMA ConnStep ==
  ASSUME IInv, FileInv, ConnInv, [Next]_vars
  PROVE  ConnInv'
<1>1. ASSUME NEW c \in Clients,
             \/ Request(c) \/ SearchStep(c) \/ StopTimeout(c) \/ KillClient(c)
             \/ BeginShutdown(c) \/ IndexStep(c)
      PROVE  ConnInv'
  BY <1>1, ClientConnStep, ConnectStep, KillConnStep
<1>2. CASE UNCHANGED <<pc, conn, backlog>>
  BY <1>2 DEF ConnInv
<1>3. ASSUME NEW h \in Helpers, HelperStep(h) \/ KillHelper(h)
      PROVE  ConnInv'
  <2>1. CASE Exit(h) /\ UNCHANGED pc
    BY <2>1, HangUpStep DEF Exit
  <2>2. CASE Close(h)
    BY <2>2, HangUpStep DEF Close, HelperUnchanged
  <2>3. CASE TakeLifetime(h) \/ Listen(h) \/ ServeGhost(h) \/ LeaveLoop(h)
               \/ Unlock(h)
    BY <1>2, <2>3 DEF TakeLifetime, Listen, ServeGhost, LeaveLoop, Unlock,
       HelperUnchanged
  <2>4. QED
    BY <1>3, <2>1, <2>2, <2>3, ServeStep, FinishStep
       DEF HelperStep, GiveUp, Leave, KillHelper, HelperUnchanged
<1>4. CASE UNCHANGED vars
  BY <1>2, <1>4 DEF vars, clientVars
<1>5. QED
  BY <1>1, <1>3, <1>4, ActorsAssumption DEF Next

LEMMA RestInit == Init => RestInv
<1> SUFFICES ASSUME Init PROVE RestInv
  OBVIOUS
<1>1. FileInv
  BY KillsAssumption DEF Init, FileInv
<1>2. SockInv
  BY ActorsAssumption DEF Init, SockInv
<1>3. ConnInv
  <2>1. NoConn \in Connection
    BY DEF NoConn, Connection
  <2>2. <<>> \in Seq(Clients)
    OBVIOUS
  <2>3. \A h : QueueOK(<<>>, conn, h)
    BY <2>2 DEF QueueOK, Once
  <2>4. QED
    BY <2>1, <2>3 DEF Init, ConnInv
<1>4. QED
  BY <1>1, <1>2, <1>3 DEF RestInv

LEMMA RestStep == IInv /\ RestInv /\ [Next]_vars => RestInv'
  BY FileStep, SockStep, ConnStep DEF RestInv

(* What clients, queues and files hold follows the stages of the helpers.  *)
THEOREM RestInvariance == Spec => []RestInv
  BY RestInit, RestStep, Invariance, PTL DEF Spec

(* Every variable stays in its domain, and no client waits twice in the    *)
(* queue of a listener, for any sets of processes and number of kills.     *)
THEOREM TypeCorrect == Spec => []TypeOK
<1>1. IInv /\ RestInv => TypeOK
  <2> SUFFICES ASSUME IInv, RestInv PROVE TypeOK
    OBVIOUS
  <2>1. backlog \in [Helpers -> Seq(Clients)]
    BY DEF RestInv, ConnInv, QueueOK
  <2>2. \A h \in Helpers : Once(backlog[h])
    BY DEF RestInv, ConnInv, QueueOK
  <2>3. conn \in [Clients -> Connection]
    BY DEF RestInv, ConnInv
  <2>4. QED
    BY <2>1, <2>2, <2>3
       DEF TypeOK, IInv, DomainInv, RestInv, FileInv, Once
<1>2. QED
  BY <1>1, Invariance, RestInvariance, PTL

(* When no helper process is left the lifetime lock is free, and unless a  *)
(* process was killed no socket file is left either.                       *)
THEOREM NothingLeft == Spec => []NothingRemains
<1>1. IInv /\ RestInv => NothingRemains
  <2> SUFFICES ASSUME IInv, RestInv, \A h \in Helpers : ~Alive(h)
               PROVE  lifetime = NoHelper /\ (kills = 0 => sock = NoHelper)
    BY DEF NothingRemains
  <2>1. \A h \in Helpers : helper[h].stage = "none"
    BY DEF Alive, NoProcess
  <2>2. \A h \in Helpers : lifetime # h /\ sock # h
    BY <2>1 DEF IInv, LockInv, RestInv, SockInv, Owning, Bound
  <2>3. QED
    BY <2>2 DEF IInv, DomainInv, RestInv, FileInv, SockInv
<1>2. QED
  BY <1>1, Invariance, RestInvariance, PTL

-----------------------------------------------------------------------------
(* Spawning, while all clients are of one version and none was killed.     *)

SameVersions == \A c, d \in Clients : Version(c) = Version(d)

(* Every helper and every connection is of the version of the clients.     *)
VersionInv ==
  /\ \A h \in Helpers : \A c \in Clients :
       helper[h].stage # "none" => helper[h].version = Version(c)
  /\ \A c \in Clients : conn[c] = NoConn \/ conn[c].by = Version(c)

Locked == {"spawn", "probe", "spawning", "await", "awaitProbe"}
Stops == {"stopRead", "stopSend", "stopWait", "stopUnlink", "stopExit"}

(* The spawn lock is held throughout, a helper that starts is the child    *)
(* its owner waits for, and no lock was taken since its owner saw the      *)
(* lifetime lock free.                                                     *)
SpawnInv ==
  kills = 0 =>
    /\ \A c \in Clients :
         /\ pc[c] \in Locked => spawnLock = c
         /\ pc[c] \notin Stops
         /\ pc[c] = "spawning" => lifetime = NoHelper
    /\ \A h \in Helpers : At(h, "starting") =>
         /\ lifetime = NoHelper /\ spawnLock \in Clients
         /\ pc[spawnLock] \in {"await", "awaitProbe"}
         /\ child[spawnLock] = h /\ conn[spawnLock] = NoConn

LEMMA NoConnFields ==
  /\ NoConn.state = "none"
  /\ \A h \in Helpers : HangUp(NoConn, h) = NoConn
  /\ \A a : \A c : Reply(c, a).by = c.by
  /\ \A h : \A c : HangUp(c, h).by = c.by
BY NoHelperNone DEF NoConn, HangUp, Reply

LEMMA VersionStep ==
  ASSUME SameVersions, IInv, ConnInv, VersionInv, [Next]_vars
  PROVE  VersionInv'
<1> USE NoConnFields
    DEF VersionInv, clientVars, fileVars, Step, HelperUnchanged, Hang, Move
<1>1. ASSUME NEW c \in Clients, Request(c) PROVE VersionInv'
  BY <1>1 DEF ConnInv, Request
<1>2. ASSUME NEW c \in Clients, FastHello(c) PROVE VersionInv'
  BY <1>2 DEF ConnInv, FastHello
<1>3. ASSUME NEW c \in Clients, TakeSpawnLock(c) PROVE VersionInv'
  BY <1>3 DEF ConnInv, TakeSpawnLock
<1>4. ASSUME NEW c \in Clients, SpawnHello(c) PROVE VersionInv'
  BY <1>4 DEF ConnInv, SpawnHello
<1>5. ASSUME NEW c \in Clients, Found(c) PROVE VersionInv'
  BY <1>5 DEF ConnInv, Found, DropSpawnLock
<1>6. ASSUME NEW c \in Clients, Probe(c) PROVE VersionInv'
  BY <1>6 DEF ConnInv, Probe
<1>7. ASSUME NEW c \in Clients, AwaitHello(c) PROVE VersionInv'
  BY <1>7 DEF ConnInv, AwaitHello
<1>8. ASSUME NEW c \in Clients, AwaitProbe(c) PROVE VersionInv'
  BY <1>8 DEF ConnInv, AwaitProbe
<1>9. ASSUME NEW c \in Clients, NotBound(c) PROVE VersionInv'
  BY <1>9 DEF ConnInv, NotBound, End, Forget, DropSpawnLock
<1>10. ASSUME NEW c \in Clients, ReadPid(c) PROVE VersionInv'
  BY <1>10 DEF ConnInv, ReadPid, DropSpawnLock
<1>11. ASSUME NEW c \in Clients, StopAnswer(c) PROVE VersionInv'
  BY <1>11 DEF ConnInv, StopAnswer
<1>12. ASSUME NEW c \in Clients, StopWait(c) PROVE VersionInv'
  BY <1>12 DEF ConnInv, StopWait, WaitsUnlocked
<1>13. ASSUME NEW c \in Clients, StopUnlink(c) PROVE VersionInv'
  BY <1>13 DEF ConnInv, StopUnlink, Unlinks
<1>14. ASSUME NEW c \in Clients, Stopped(c) PROVE VersionInv'
  BY <1>14 DEF ConnInv, Stopped, WaitsGone
<1>15. ASSUME NEW c \in Clients, Embedded(c) PROVE VersionInv'
  BY <1>15 DEF ConnInv, Embedded, End, Forget, DropSpawnLock
<1>16. ASSUME NEW c \in Clients, EmbedAgain(c) PROVE VersionInv'
  BY <1>16 DEF ConnInv, EmbedAgain
<1>17. ASSUME NEW c \in Clients, RequestFails(c) PROVE VersionInv'
  BY <1>17 DEF ConnInv, RequestFails, End, Forget, DropSpawnLock
<1>18. ASSUME NEW c \in Clients, StopTimeout(c) PROVE VersionInv'
  BY <1>18 DEF ConnInv, StopTimeout, End, Forget, DropSpawnLock
<1>19. ASSUME NEW c \in Clients, BeginShutdown(c) PROVE VersionInv'
  BY <1>19 DEF ConnInv, BeginShutdown
<1>20. ASSUME NEW c \in Clients, ShutdownAnswer(c) PROVE VersionInv'
  BY <1>20 DEF ConnInv, ShutdownAnswer
<1>21. ASSUME NEW c \in Clients, ShutdownProbe(c) PROVE VersionInv'
  BY <1>21 DEF ConnInv, ShutdownProbe
<1>22. ASSUME NEW c \in Clients, ShutdownDone(c) PROVE VersionInv'
  BY <1>22 DEF ConnInv, ShutdownDone, Unlinks
<1>23. ASSUME NEW c \in Clients, ShutdownWait(c) PROVE VersionInv'
  BY <1>23 DEF ConnInv, ShutdownWait, WaitsUnlocked
<1>24. ASSUME NEW c \in Clients, ShutdownUnlink(c) PROVE VersionInv'
  BY <1>24 DEF ConnInv, ShutdownUnlink, Unlinks
<1>25. ASSUME NEW c \in Clients, ShutdownGone(c) PROVE VersionInv'
  BY <1>25 DEF ConnInv, ShutdownGone, WaitsGone
<1>26. ASSUME NEW c \in Clients, FinishIndex(c) PROVE VersionInv'
  BY <1>26 DEF ConnInv, FinishIndex, End, Forget, DropSpawnLock
<1>27. ASSUME NEW c \in Clients, Connect(c) PROVE VersionInv'
  <2>1. sock \in Helpers /\ helper[sock].stage # "none"
    BY <1>27 DEF Connect, Listening
  <2>2. conn'[c].by = Version(c)
          /\ \A d \in Clients \ {c} : conn'[d] = conn[d]
    BY <1>27, <2>1 DEF Connect, ConnInv
  <2>3. QED
    BY <1>27, <2>2 DEF Connect
<1>28. ASSUME NEW c \in Clients, Spawn(c) PROVE VersionInv'
  <2>1. NewProcess(Version(c)).version = Version(c)
    BY DEF NewProcess, NoProcess
  <2>2. QED
    BY <1>28, <2>1 DEF Spawn, SameVersions, IInv, DomainInv
<1>29. ASSUME NEW c \in Clients, KillClient(c) PROVE VersionInv'
  <2>1. \A h \in Helpers : helper'[h].stage = helper[h].stage
                            /\ helper'[h].version = helper[h].version
    BY <1>29 DEF KillClient, HelperRow, IInv, DomainInv
  <2>2. QED
    BY <1>29, <2>1 DEF KillClient, Forget, ConnInv
<1> USE DEF IInv, DomainInv, ConnInv, HelperRow, At, Become
<1>30. ASSUME NEW h \in Helpers, TakeLifetime(h) PROVE VersionInv'
  BY <1>30 DEF TakeLifetime
<1>31. ASSUME NEW h \in Helpers, GiveUp(h) PROVE VersionInv'
  BY <1>31 DEF GiveUp, Exit, Forgotten, HangUpAll, NoProcess
<1>32. ASSUME NEW h \in Helpers, Listen(h) PROVE VersionInv'
  BY <1>32 DEF Listen
<1>33. ASSUME NEW h \in Helpers, NEW p \in Clients, Serve(h, p)
      PROVE  VersionInv'
  <2>1. /\ helper' = helper \/ Become(h, "closing") \/ Become(h, "embedding")
        /\ helper[h].stage = "serving"
    BY <1>33 DEF Serve
  <2>2. \A k \in Helpers :
          /\ helper'[k].version = helper[k].version
          /\ helper'[k].stage # "none" => helper[k].stage # "none"
    BY <2>1
  <2>3. /\ conn[p] # NoConn => conn[p].by = Version(p)
        /\ \A d \in Clients \ {p} : conn'[d] = conn[d]
        /\ conn'[p].by = conn[p].by
    BY <1>33 DEF Serve, Connection
  <2>4. conn[p] # NoConn
    <3>1. backlog[h] \in Seq(Clients) /\ backlog[h] # <<>>
            /\ p = Head(backlog[h])
      BY <1>33 DEF Serve, QueueOK
    <3>2. 1 \in 1..Len(backlog[h]) /\ p = backlog[h][1]
      BY <3>1
    <3>3. conn[p].state = "pending"
      BY <3>2 DEF QueueOK
    <3>4. QED
      BY <3>3
  <2>5. QED
    BY <2>2, <2>3, <2>4
<1>34. ASSUME NEW h \in Helpers, FinishEmbed(h) PROVE VersionInv'
  BY <1>34 DEF FinishEmbed
<1>35. ASSUME NEW h \in Helpers, ServeGhost(h) PROVE VersionInv'
  BY <1>35 DEF ServeGhost
<1>36. ASSUME NEW h \in Helpers, LeaveLoop(h) PROVE VersionInv'
  BY <1>36 DEF LeaveLoop
<1>37. ASSUME NEW h \in Helpers, Close(h) PROVE VersionInv'
  BY <1>37 DEF Close, UnlinkOwned, HangUpAll
<1>38. ASSUME NEW h \in Helpers, Unlock(h) PROVE VersionInv'
  BY <1>38 DEF Unlock
<1>39. ASSUME NEW h \in Helpers, Leave(h) PROVE VersionInv'
  BY <1>39 DEF Leave, Exit, Forgotten, HangUpAll, NoProcess
<1>40. ASSUME NEW h \in Helpers, KillHelper(h) PROVE VersionInv'
  BY <1>40 DEF KillHelper, Exit, Forgotten, HangUpAll, NoProcess
<1>41. CASE UNCHANGED vars
  BY <1>41 DEF vars
<1>42. QED
  BY ActorsAssumption, <1>1, <1>2, <1>3, <1>4, <1>5, <1>6, <1>7, <1>8,
     <1>9, <1>10, <1>11,
     <1>12, <1>13, <1>14, <1>15, <1>16, <1>17, <1>18, <1>19, <1>20,
     <1>21, <1>22, <1>23, <1>24, <1>25, <1>26, <1>27, <1>28, <1>29,
     <1>30, <1>31, <1>32, <1>33, <1>34, <1>35, <1>36, <1>37, <1>38,
     <1>39, <1>40, <1>41
     DEF Next, SearchStep, IndexStep, HelperStep

LEMMA SpawnInvStep ==
  ASSUME IInv, RestInv, VersionInv, SpawnInv, [Next]_vars
  PROVE  SpawnInv'
<1>0. \A h \in Helpers : lifetime = h <=> helper[h].stage \in Owning
  BY DEF IInv, LockInv
<1> USE <1>0, NoConnFields, ActorsAssumption
    DEF SpawnInv, clientVars, fileVars, Step, HelperUnchanged, Hang, Move,
        Locked, Stops, RestInv, FileInv, ConnInv, At, Asking, Greeting,
        Owning, LifetimeFree, SpawnLockFree, DropSpawnLock, IInv, DomainInv
<1>1. ASSUME NEW c \in Clients, Request(c) PROVE SpawnInv'
  BY <1>1 DEF Request
<1>2. ASSUME NEW c \in Clients, Connect(c) PROVE SpawnInv'
  BY <1>2 DEF Connect, Asks, Listening
<1>3. ASSUME NEW c \in Clients, FastHello(c) PROVE SpawnInv'
  BY <1>3 DEF FastHello, Compatible, Incompatible, OSErr, Got, Asks, VersionInv
<1>4. ASSUME NEW c \in Clients, TakeSpawnLock(c) PROVE SpawnInv'
  BY <1>4 DEF TakeSpawnLock
<1>5. ASSUME NEW c \in Clients, SpawnHello(c) PROVE SpawnInv'
  BY <1>5
     DEF SpawnHello, Compatible, Incompatible, OSErr, Got, Asks,
         VersionInv
<1>6. ASSUME NEW c \in Clients, Found(c) PROVE SpawnInv'
  BY <1>6
     DEF Found, DropSpawnLock, Compatible, Incompatible, OSErr, Got, Asks,
         VersionInv
<1>7. ASSUME NEW c \in Clients, Probe(c) PROVE SpawnInv'
  BY <1>7 DEF Probe
<1>8. ASSUME NEW c \in Clients, AwaitHello(c) PROVE SpawnInv'
  BY <1>8
     DEF AwaitHello, Compatible, Incompatible, OSErr, Got, Asks,
         VersionInv
<1>9. ASSUME NEW c \in Clients, AwaitProbe(c) PROVE SpawnInv'
  BY <1>9 DEF AwaitProbe
<1>10. ASSUME NEW c \in Clients, NotBound(c) PROVE SpawnInv'
  BY <1>10 DEF NotBound, End, Forget, DropSpawnLock
<1>11. ASSUME NEW c \in Clients, ReadPid(c) PROVE SpawnInv'
  BY <1>11 DEF ReadPid, DropSpawnLock
<1>12. ASSUME NEW c \in Clients, StopAnswer(c) PROVE SpawnInv'
  BY <1>12
     DEF StopAnswer, Compatible, Incompatible, OSErr, Got, Asks,
         VersionInv
<1>13. ASSUME NEW c \in Clients, StopWait(c) PROVE SpawnInv'
  BY <1>13 DEF StopWait, WaitsUnlocked
<1>14. ASSUME NEW c \in Clients, StopUnlink(c) PROVE SpawnInv'
  BY <1>14 DEF StopUnlink, Unlinks
<1>15. ASSUME NEW c \in Clients, Stopped(c) PROVE SpawnInv'
  BY <1>15 DEF Stopped, WaitsGone
<1>16. ASSUME NEW c \in Clients, Embedded(c) PROVE SpawnInv'
  BY <1>16 DEF Embedded, End, Forget, DropSpawnLock
<1>17. ASSUME NEW c \in Clients, EmbedAgain(c) PROVE SpawnInv'
  BY <1>17
     DEF EmbedAgain, Compatible, Incompatible, OSErr, Got, Asks,
         VersionInv
<1>18. ASSUME NEW c \in Clients, RequestFails(c) PROVE SpawnInv'
  BY <1>18
     DEF RequestFails, End, Forget, DropSpawnLock, Compatible,
         Incompatible, OSErr, Got, Asks, VersionInv
<1>19. ASSUME NEW c \in Clients, StopTimeout(c) PROVE SpawnInv'
  BY <1>19 DEF StopTimeout, End, Forget, DropSpawnLock
<1>20. ASSUME NEW c \in Clients, KillClient(c) PROVE SpawnInv'
  BY <1>20 DEF KillClient, Forget, DropSpawnLock
<1>21. ASSUME NEW c \in Clients, BeginShutdown(c) PROVE SpawnInv'
  BY <1>21 DEF BeginShutdown
<1>22. ASSUME NEW c \in Clients, ShutdownAnswer(c) PROVE SpawnInv'
  BY <1>22
     DEF ShutdownAnswer, Compatible, Incompatible, OSErr, Got, Asks,
         VersionInv
<1>23. ASSUME NEW c \in Clients, ShutdownProbe(c) PROVE SpawnInv'
  BY <1>23 DEF ShutdownProbe
<1>24. ASSUME NEW c \in Clients, ShutdownDone(c) PROVE SpawnInv'
  BY <1>24 DEF ShutdownDone, Unlinks
<1>25. ASSUME NEW c \in Clients, ShutdownWait(c) PROVE SpawnInv'
  BY <1>25 DEF ShutdownWait, WaitsUnlocked
<1>26. ASSUME NEW c \in Clients, ShutdownUnlink(c) PROVE SpawnInv'
  BY <1>26 DEF ShutdownUnlink, Unlinks
<1>27. ASSUME NEW c \in Clients, ShutdownGone(c) PROVE SpawnInv'
  BY <1>27 DEF ShutdownGone, WaitsGone
<1>28. ASSUME NEW c \in Clients, FinishIndex(c) PROVE SpawnInv'
  BY <1>28 DEF FinishIndex, End, Forget, DropSpawnLock
<1>29. ASSUME NEW c \in Clients, Spawn(c) PROVE SpawnInv'
  <2>1. NewProcess(Version(c)).version = Version(c)
    BY DEF NewProcess, NoProcess
  <2>2. QED
    BY <1>29, <2>1 DEF Spawn, SameVersions
<1> USE DEF Become
<1>30. ASSUME NEW h \in Helpers, TakeLifetime(h) PROVE SpawnInv'
  BY <1>30 DEF TakeLifetime
<1>31. ASSUME NEW h \in Helpers, GiveUp(h) PROVE SpawnInv'
  BY <1>31 DEF GiveUp, Exit, Forgotten, HangUpAll, NoProcess, LetGo
<1>32. ASSUME NEW h \in Helpers, Listen(h) PROVE SpawnInv'
  BY <1>32 DEF Listen
<1>33. ASSUME NEW h \in Helpers, NEW p \in Clients, Serve(h, p)
      PROVE  SpawnInv'
  <2>1. /\ helper' = helper \/ Become(h, "closing") \/ Become(h, "embedding")
        /\ lifetime = h /\ lifetime' = h
        /\ UNCHANGED <<pc, spawnLock, kills>>
    BY <1>33 DEF Serve
  <2>2. \A k \in Helpers :
          helper'[k].stage = "starting" => helper[k].stage = "starting"
    BY <2>1 DEF HelperRow
  <2>3. QED
    BY <2>1, <2>2, NoHelperNone
<1>34. ASSUME NEW h \in Helpers, FinishEmbed(h) PROVE SpawnInv'
  BY <1>34 DEF FinishEmbed
<1>35. ASSUME NEW h \in Helpers, ServeGhost(h) PROVE SpawnInv'
  BY <1>35 DEF ServeGhost
<1>36. ASSUME NEW h \in Helpers, LeaveLoop(h) PROVE SpawnInv'
  BY <1>36 DEF LeaveLoop
<1>37. ASSUME NEW h \in Helpers, Close(h) PROVE SpawnInv'
  BY <1>37 DEF Close, UnlinkOwned, HangUpAll
<1>38. ASSUME NEW h \in Helpers, Unlock(h) PROVE SpawnInv'
  BY <1>38 DEF Unlock, LetGo
<1>39. ASSUME NEW h \in Helpers, Leave(h) PROVE SpawnInv'
  BY <1>39 DEF Leave, Exit, Forgotten, HangUpAll, NoProcess, LetGo
<1>40. ASSUME NEW h \in Helpers, KillHelper(h) PROVE SpawnInv'
  BY <1>40 DEF KillHelper, Exit, Forgotten, HangUpAll, NoProcess, LetGo
<1>41. CASE UNCHANGED vars
  BY <1>41 DEF vars
<1>42. QED
  BY ActorsAssumption,
     <1>1, <1>2, <1>3, <1>4, <1>5, <1>6, <1>7, <1>8, <1>9, <1>10, <1>11,
     <1>12, <1>13, <1>14, <1>15, <1>16, <1>17, <1>18, <1>19, <1>20,
     <1>21, <1>22, <1>23, <1>24, <1>25, <1>26, <1>27, <1>28, <1>29,
     <1>30, <1>31, <1>32, <1>33, <1>34, <1>35, <1>36, <1>37, <1>38,
     <1>39, <1>40, <1>41
     DEF Next, SearchStep, IndexStep, HelperStep

LEMMA VersionInit == Init => VersionInv
  BY DEF Init, VersionInv, NoProcess

LEMMA SpawnInit == Init => SpawnInv
  BY DEF Init, SpawnInv, Locked, Stops, At, NoProcess

LEMMA VersionInvariance ==
  ASSUME SameVersions
  PROVE  Spec => [](VersionInv /\ SpawnInv)
<1>1. Init => VersionInv /\ SpawnInv
  BY VersionInit, SpawnInit
<1>2. IInv /\ RestInv /\ VersionInv /\ SpawnInv /\ [Next]_vars
        => (VersionInv /\ SpawnInv)'
  BY VersionStep, SpawnInvStep DEF RestInv
<1>3. QED
  BY <1>1, <1>2, Invariance, RestInvariance, PTL DEF Spec

(* Clients of one version that race for the helper, while index runs shut  *)
(* it down, start one only when no other has resources left to give up.    *)
THEOREM SpawnedAlone ==
  ASSUME SameVersions
  PROVE  Spec => SpawnsAlone
<1> DEFINE Alone ==
      \A s \in Clients : Spawn(s) /\ kills = 0 =>
        \A h \in Helpers : helper[h].stage \in {"none", "exiting"}
<1>1. IInv /\ SpawnInv => Alone
  <2> SUFFICES ASSUME IInv, SpawnInv, NEW s \in Clients, Spawn(s), kills = 0,
                      NEW h \in Helpers
               PROVE  helper[h].stage \in {"none", "exiting"}
    OBVIOUS
  <2>1. pc[s] = "spawning" /\ lifetime = NoHelper /\ spawnLock = s
    BY DEF Spawn, Move, SpawnInv, Locked
  <2>2. helper[h].stage # "starting"
    BY <2>1 DEF SpawnInv, At
  <2>3. helper[h].stage \notin Owning
    BY <2>1, NoHelperNone DEF IInv, LockInv
  <2>4. helper[h].stage \in Stages
    BY DEF IInv, DomainInv, HelperRow
  <2>5. QED
    BY <2>2, <2>3, <2>4 DEF Stages, Owning
<1>2. Spec => []SpawnInv
  <2>1. Spec => [](VersionInv /\ SpawnInv)
    BY VersionInvariance
  <2>2. QED
    BY <2>1, PTL
<1>3. Spec => [][Alone]_vars
  <2>1. IInv /\ SpawnInv /\ [Next]_vars => [Alone]_vars
    BY <1>1
  <2> HIDE DEF Alone
  <2>2. QED
    BY <2>1, <1>2, Invariance, PTL DEF Spec
<1>4. QED
  BY <1>3 DEF SpawnsAlone
=============================================================================
