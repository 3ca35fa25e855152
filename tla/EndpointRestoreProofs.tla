----------------------- MODULE EndpointRestoreProofs -----------------------
(***************************************************************************)
(* For any number of pods, addresses, IDs and crashes: the address of an   *)
(* endpoint the agent answers for is its own, no state directory is shared *)
(* between two endpoints, and the deletion queue stays empty once drained. *)
(***************************************************************************)
EXTENDS EndpointRestore, TLAPS

\* Nothing is exposed, and no ID is taken, before restoration exposes endpoints.
Early ==
  boot \in {"down", "restore", "serving"} => ids = {} /\ \A e \in Pod : ~Exposed(e)

\* How a state directory is accounted for in each phase: by the plan until the
\* endpoints are exposed, by an exposed endpoint once all others are removed.
OnDisk ==
  \A e \in Pod :
    /\ Exposed(e) => disk[e] # None
    /\ plan[e] = "clean" => ~Exposed(e)
    /\ boot \in {"restore", "serving"} /\ plan[e] # "none" => disk[e] # None
    /\ disk[e] # None =>
         /\ boot = "restore" => plan[e] # "none"
         /\ boot = "serving" => plan[e] \in {"restore", "clean"}
         /\ boot = "cleaning" => Exposed(e) \/ plan[e] = "clean"
         /\ Complete => Exposed(e)

\* A pod that is not created yet has left no trace.
Untouched ==
  \A e \in Pod : stage[e] \in {"none", "leased"} =>
    disk[e] = None /\ plan[e] = "none" /\ ~Exposed(e)

\* No plugin is about to write a file while the queue is drained or later.
NoWriter ==
  boot \in {"draining", "open"} => \A e \in Pod : stage[e] # "enqueue"

Inv ==
  /\ TypeOK /\ AddressesHeld /\ IDsDistinct /\ QueueDrained
  /\ Early /\ OnDisk /\ Untouched /\ NoWriter

USE DEF Serving, Complete, Exposed, link

\* Nothing is exposed, leased or on disk at first.
LEMMA InitInv == ASSUME Init PROVE Inv
  BY RestoreAssumption DEF Init, Inv, TypeOK, AddressesHeld, IDsDistinct, QueueDrained,
     Early, OnDisk, Untouched, NoWriter, Holds, Stages, Phases

\* Every directory is read, so each gets its place in the plan.
LEMMA StepStart ==
  ASSUME Inv, Start
  PROVE  Inv'
<1> USE DEF Start, worldVars
<1>1. TypeOK'  BY DEF Inv, TypeOK, Stages, Phases, Early
<1>2. AddressesHeld'  BY DEF Inv, AddressesHeld, Holds, TypeOK, Early
<1>3. IDsDistinct'  BY DEF Inv, IDsDistinct, TypeOK, OnDisk
<1>4. Early'  BY DEF Inv, Early, TypeOK
<1>5. OnDisk'  BY DEF Inv, OnDisk, TypeOK, Early
<1>6. Untouched'  BY DEF Inv, Untouched, TypeOK
<1>7. NoWriter'  BY DEF Inv, NoWriter, TypeOK
<1>8. QueueDrained'  BY DEF Inv, QueueDrained, NoWriter
<1>. QED  BY <1>1, <1>2, <1>3, <1>4, <1>5, <1>6, <1>7, <1>8 DEF Inv

\* A CIDR that comes late changes nothing that is allocated.
LEMMA StepAddCIDR ==
  ASSUME Inv, AddCIDR
  PROVE  Inv'
<1> USE DEF AddCIDR, worldVars
<1>1. TypeOK'  BY DEF Inv, TypeOK, Stages, Phases
<1>2. AddressesHeld'  BY DEF Inv, AddressesHeld, Holds, TypeOK
<1>3. IDsDistinct'  BY DEF Inv, IDsDistinct, TypeOK, OnDisk
<1>4. Early'  BY DEF Inv, Early, TypeOK
<1>5. OnDisk'  BY DEF Inv, OnDisk, TypeOK, Early
<1>6. Untouched'  BY DEF Inv, Untouched, TypeOK
<1>7. NoWriter'  BY DEF Inv, NoWriter, TypeOK
<1>8. QueueDrained'  BY DEF Inv, QueueDrained, NoWriter
<1>. QED  BY <1>1, <1>2, <1>3, <1>4, <1>5, <1>6, <1>7, <1>8 DEF Inv

\* An address is taken only when nobody else has it.
LEMMA StepValidate ==
  ASSUME Inv, NEW e \in Pod, validateEndpoint(e)
  PROVE  Inv'
<1> USE DEF validateEndpoint, taken, worldVars
<1>1. TypeOK'  BY DEF Inv, TypeOK, Stages, Phases
<1>2. AddressesHeld'  BY DEF Inv, AddressesHeld, Holds, TypeOK
<1>3. IDsDistinct'  BY DEF Inv, IDsDistinct, TypeOK, OnDisk
<1>4. Early'  BY DEF Inv, Early, TypeOK
<1>5. OnDisk'  BY DEF Inv, OnDisk, TypeOK, Early
<1>6. Untouched'  BY DEF Inv, Untouched, TypeOK
<1>7. NoWriter'  BY DEF Inv, NoWriter, TypeOK
<1>8. QueueDrained'  BY DEF Inv, QueueDrained, NoWriter
<1>. QED  BY <1>1, <1>2, <1>3, <1>4, <1>5, <1>6, <1>7, <1>8 DEF Inv

\* All directories are planned for when the API server starts.
LEMMA StepStartAPI ==
  ASSUME Inv, StartAPI
  PROVE  Inv'
<1> USE DEF StartAPI, worldVars
<1>1. TypeOK'  BY DEF Inv, TypeOK, Stages, Phases
<1>2. AddressesHeld'  BY DEF Inv, AddressesHeld, Holds, TypeOK
<1>3. IDsDistinct'  BY DEF Inv, IDsDistinct, TypeOK, OnDisk
<1>4. Early'  BY DEF Inv, Early, TypeOK
<1>5. OnDisk'  BY DEF Inv, OnDisk, TypeOK, Early
<1>6. Untouched'  BY DEF Inv, Untouched, TypeOK
<1>7. NoWriter'  BY DEF Inv, NoWriter, TypeOK
<1>8. QueueDrained'  BY DEF Inv, QueueDrained, NoWriter
<1>. QED  BY <1>1, <1>2, <1>3, <1>4, <1>5, <1>6, <1>7, <1>8 DEF Inv

\* The endpoints exposed are those that have taken their addresses.
LEMMA StepRestore ==
  ASSUME Inv, RestoreEndpoints
  PROVE  Inv'
<1> USE DEF RestoreEndpoints, worldVars
<1>1. TypeOK'  BY DEF Inv, TypeOK, Stages, Phases, OnDisk
<1>2. AddressesHeld'  BY DEF Inv, AddressesHeld, Holds, TypeOK, Early
<1>3. IDsDistinct'  BY DEF Inv, IDsDistinct, TypeOK, OnDisk
<1>4. Early'  BY DEF Inv, Early, TypeOK
<1>5. OnDisk'  BY DEF Inv, OnDisk, TypeOK, Early
<1>6. Untouched'  BY DEF Inv, Untouched, TypeOK
<1>7. NoWriter'  BY DEF Inv, NoWriter, TypeOK
<1>8. QueueDrained'  BY DEF Inv, QueueDrained, NoWriter
<1>. QED  BY <1>1, <1>2, <1>3, <1>4, <1>5, <1>6, <1>7, <1>8 DEF Inv

\* What is cleaned is not exposed.
LEMMA StepClean ==
  ASSUME Inv, NEW e \in Pod, Clean(e)
  PROVE  Inv'
<1> USE DEF Clean
<1>1. TypeOK'  BY DEF Inv, TypeOK, Stages, Phases
<1>2. AddressesHeld'  BY DEF Inv, AddressesHeld, Holds, TypeOK
<1>3. IDsDistinct'  BY DEF Inv, IDsDistinct, TypeOK, OnDisk
<1>4. Early'  BY DEF Inv, Early, TypeOK
<1>5. OnDisk'  BY DEF Inv, OnDisk, TypeOK, Early
<1>6. Untouched'  BY DEF Inv, Untouched, TypeOK
<1>7. NoWriter'  BY DEF Inv, NoWriter, TypeOK
<1>8. QueueDrained'  BY DEF Inv, QueueDrained, NoWriter
<1>. QED  BY <1>1, <1>2, <1>3, <1>4, <1>5, <1>6, <1>7, <1>8 DEF Inv

\* After the cleaning every directory has an exposed endpoint.
LEMMA StepRestoreComplete ==
  ASSUME Inv, RestoreComplete
  PROVE  Inv'
<1> USE DEF RestoreComplete, worldVars
<1>1. TypeOK'  BY DEF Inv, TypeOK, Stages, Phases
<1>2. AddressesHeld'  BY DEF Inv, AddressesHeld, Holds, TypeOK
<1>3. IDsDistinct'  BY DEF Inv, IDsDistinct, TypeOK, OnDisk
<1>4. Early'  BY DEF Inv, Early, TypeOK
<1>5. OnDisk'  BY DEF Inv, OnDisk, TypeOK, Early
<1>6. Untouched'  BY DEF Inv, Untouched, TypeOK
<1>7. NoWriter'  BY DEF Inv, NoWriter, TypeOK
<1>8. QueueDrained'  BY DEF Inv, QueueDrained, NoWriter
<1>. QED  BY <1>1, <1>2, <1>3, <1>4, <1>5, <1>6, <1>7, <1>8 DEF Inv

\* Nobody is about to write a file under the exclusive lock.
LEMMA StepLockQueue ==
  ASSUME Inv, LockQueue
  PROVE  Inv'
<1> USE DEF LockQueue, exclusive, worldVars
<1>1. TypeOK'  BY DEF Inv, TypeOK, Stages, Phases
<1>2. AddressesHeld'  BY DEF Inv, AddressesHeld, Holds, TypeOK
<1>3. IDsDistinct'  BY DEF Inv, IDsDistinct, TypeOK, OnDisk
<1>4. Early'  BY DEF Inv, Early, TypeOK
<1>5. OnDisk'  BY DEF Inv, OnDisk, TypeOK, Early
<1>6. Untouched'  BY DEF Inv, Untouched, TypeOK
<1>7. NoWriter'  BY DEF Inv, NoWriter, TypeOK
<1>8. QueueDrained'  BY DEF Inv, QueueDrained, NoWriter
<1>. QED  BY <1>1, <1>2, <1>3, <1>4, <1>5, <1>6, <1>7, <1>8 DEF Inv

\* A removed endpoint gives back what only it had.
LEMMA StepQueuedDelete ==
  ASSUME Inv, NEW e \in Pod, processQueuedDelete(e)
  PROVE  Inv'
<1> USE DEF processQueuedDelete, RemoveEndpoints
<1>1. TypeOK'  BY DEF Inv, TypeOK, Stages, Phases
<1>2. AddressesHeld'  BY DEF Inv, AddressesHeld, Holds, TypeOK
<1>3. IDsDistinct'  BY DEF Inv, IDsDistinct, TypeOK, OnDisk
<1>4. Early'  BY DEF Inv, Early, TypeOK
<1>5. OnDisk'  BY DEF Inv, OnDisk, TypeOK, Early
<1>6. Untouched'  BY DEF Inv, Untouched, TypeOK
<1>7. NoWriter'  BY DEF Inv, NoWriter, TypeOK
<1>8. QueueDrained'  BY DEF Inv, QueueDrained, NoWriter
<1>. QED  BY <1>1, <1>2, <1>3, <1>4, <1>5, <1>6, <1>7, <1>8 DEF Inv

\* The fence opens with an empty queue.
LEMMA StepQueueProcessed ==
  ASSUME Inv, QueueProcessed
  PROVE  Inv'
<1> USE DEF QueueProcessed, worldVars
<1>1. TypeOK'  BY DEF Inv, TypeOK, Stages, Phases
<1>2. AddressesHeld'  BY DEF Inv, AddressesHeld, Holds, TypeOK
<1>3. IDsDistinct'  BY DEF Inv, IDsDistinct, TypeOK, OnDisk
<1>4. Early'  BY DEF Inv, Early, TypeOK
<1>5. OnDisk'  BY DEF Inv, OnDisk, TypeOK, Early
<1>6. Untouched'  BY DEF Inv, Untouched, TypeOK
<1>7. NoWriter'  BY DEF Inv, NoWriter, TypeOK
<1>8. QueueDrained'  BY DEF Inv, QueueDrained, NoWriter
<1>. QED  BY <1>1, <1>2, <1>3, <1>4, <1>5, <1>6, <1>7, <1>8 DEF Inv

\* Regeneration neither exposes nor removes an endpoint.
LEMMA StepRegenerate ==
  ASSUME Inv, NEW e \in Pod, Regenerate(e)
  PROVE  Inv'
<1> USE DEF Regenerate, worldVars
<1>1. TypeOK'  BY DEF Inv, TypeOK, Stages, Phases
<1>2. AddressesHeld'  BY DEF Inv, AddressesHeld, Holds, TypeOK
<1>3. IDsDistinct'  BY DEF Inv, IDsDistinct, TypeOK, OnDisk
<1>4. Early'  BY DEF Inv, Early, TypeOK
<1>5. OnDisk'  BY DEF Inv, OnDisk, TypeOK, Early
<1>6. Untouched'  BY DEF Inv, Untouched, TypeOK
<1>7. NoWriter'  BY DEF Inv, NoWriter, TypeOK
<1>8. QueueDrained'  BY DEF Inv, QueueDrained, NoWriter
<1>. QED  BY <1>1, <1>2, <1>3, <1>4, <1>5, <1>6, <1>7, <1>8 DEF Inv

\* The collector removes whole endpoints only.
LEMMA StepSweep ==
  ASSUME Inv, markAndSweep
  PROVE  Inv'
<1> USE DEF markAndSweep, RemoveEndpoints, strays
<1>1. TypeOK'  BY DEF Inv, TypeOK, Stages, Phases, OnDisk
<1>2. AddressesHeld'
  <2> SUFFICES ASSUME NEW e \in Pod, Holds(e)'
               PROVE  /\ addr[e] \in alloc'
                      /\ \A f \in Pod : f # e /\ Holds(f)' => addr[f] # addr[e]
    BY DEF AddressesHeld
  <2>1. \A f \in Pod : Holds(f)' => Holds(f)  BY DEF Inv, TypeOK, Holds
  <2>2. \A f \in Pod : Exposed(f) /\ disk[f] \in marked => f # e
    BY DEF Inv, TypeOK, Holds, Untouched
  <2>3. \A f \in Pod : Exposed(f) => Holds(f)  BY DEF Holds
  <2>. QED  BY <2>1, <2>2, <2>3 DEF Inv, AddressesHeld
<1>3. IDsDistinct'  BY DEF Inv, IDsDistinct, TypeOK, OnDisk
<1>4. Early'  BY DEF Inv, Early, TypeOK
<1>5. OnDisk'  BY DEF Inv, OnDisk, TypeOK, Early
<1>6. Untouched'  BY DEF Inv, Untouched, TypeOK
<1>7. NoWriter'  BY DEF Inv, NoWriter, TypeOK
<1>8. QueueDrained'  BY DEF Inv, QueueDrained, NoWriter
<1>. QED  BY <1>1, <1>2, <1>3, <1>4, <1>5, <1>6, <1>7, <1>8 DEF Inv

\* A new lease is on a free address.
LEMMA StepAllocateIP ==
  ASSUME Inv, NEW e \in Pod, AllocateIP(e)
  PROVE  Inv'
<1> USE DEF AllocateIP, SetStage
<1>1. TypeOK'  BY DEF Inv, TypeOK, Stages, Phases
<1>2. AddressesHeld'  BY DEF Inv, AddressesHeld, Holds, TypeOK
<1>3. IDsDistinct'  BY DEF Inv, IDsDistinct, TypeOK, OnDisk
<1>4. Early'  BY DEF Inv, Early, TypeOK
<1>5. OnDisk'  BY DEF Inv, OnDisk, TypeOK, Early
<1>6. Untouched'  BY DEF Inv, Untouched, TypeOK
<1>7. NoWriter'  BY DEF Inv, NoWriter, TypeOK
<1>8. QueueDrained'  BY DEF Inv, QueueDrained, NoWriter
<1>. QED  BY <1>1, <1>2, <1>3, <1>4, <1>5, <1>6, <1>7, <1>8 DEF Inv

\* Behind the fence, IDs out of the pool are on no disk.
LEMMA StepCreate ==
  ASSUME Inv, NEW e \in Pod, CreateEndpoint(e)
  PROVE  Inv'
<1> USE DEF CreateEndpoint, SetStage, afterFence
<1>1. TypeOK'  BY DEF Inv, TypeOK, Stages, Phases, Untouched
<1>2. AddressesHeld'  BY DEF Inv, AddressesHeld, Holds, TypeOK, Untouched
<1>3. IDsDistinct'  BY DEF Inv, IDsDistinct, TypeOK, OnDisk, Untouched
<1>4. Early'  BY DEF Inv, Early, TypeOK
<1>5. OnDisk'
  <2>1. CASE stage'[e] = "created"
    <3>1. \A f \in Pod : f # e => disk'[f] = disk[f] /\ state'[f] = state[f]
      BY <2>1 DEF Inv, TypeOK
    <3>2. disk'[e] # None /\ state'[e] = "ready" /\ plan[e] = "none"
      BY <2>1, RestoreAssumption DEF Inv, TypeOK, Untouched
    <3>. QED  BY <3>1, <3>2 DEF Inv, OnDisk
  <2>2. CASE stage'[e] # "created"
    BY <2>2 DEF Inv, TypeOK, OnDisk
  <2>. QED  BY <2>1, <2>2
<1>6. Untouched'  BY DEF Inv, Untouched, TypeOK
<1>7. NoWriter'  BY DEF Inv, NoWriter, TypeOK
<1>8. QueueDrained'  BY DEF Inv, QueueDrained, NoWriter
<1>. QED  BY <1>1, <1>2, <1>3, <1>4, <1>5, <1>6, <1>7, <1>8 DEF Inv

\* A step that moves only the stage of one pod.
LEMMA StepStage ==
  ASSUME Inv, NEW e \in Pod, NEW new \in Stages \ {"none", "leased"},
         SetStage(e, new), UNCHANGED <<pods, addr, disk, queue, crashes, agentVars>>,
         stage[e] \notin {"none", "leased"},
         stage[e] \in {"acked", "gone"} => new \in {"acked", "gone"},
         new = "enqueue" => ~Serving
  PROVE  Inv'
<1> USE DEF SetStage, agentVars
<1>1. TypeOK'  BY DEF Inv, TypeOK, Stages, Phases
<1>2. AddressesHeld'  BY DEF Inv, AddressesHeld, Holds, TypeOK
<1>3. IDsDistinct'  BY DEF Inv, IDsDistinct, TypeOK, OnDisk
<1>4. Early'  BY DEF Inv, Early, TypeOK
<1>5. OnDisk'  BY DEF Inv, OnDisk, TypeOK, Early
<1>6. Untouched'  BY DEF Inv, Untouched, TypeOK
<1>7. NoWriter'  BY DEF Inv, NoWriter, TypeOK, Stages
<1>8. QueueDrained'  BY DEF Inv, QueueDrained, NoWriter
<1>. QED  BY <1>1, <1>2, <1>3, <1>4, <1>5, <1>6, <1>7, <1>8 DEF Inv

\* The pod's object is not the agent's state.
LEMMA StepRemovePod ==
  ASSUME Inv, NEW e \in Pod, RemovePod(e)
  PROVE  Inv'
<1> USE DEF RemovePod, agentVars
<1>1. TypeOK'  BY DEF Inv, TypeOK, Stages, Phases
<1>2. AddressesHeld'  BY DEF Inv, AddressesHeld, Holds, TypeOK
<1>3. IDsDistinct'  BY DEF Inv, IDsDistinct, TypeOK, OnDisk
<1>4. Early'  BY DEF Inv, Early, TypeOK
<1>5. OnDisk'  BY DEF Inv, OnDisk, TypeOK, Early
<1>6. Untouched'  BY DEF Inv, Untouched, TypeOK
<1>7. NoWriter'  BY DEF Inv, NoWriter, TypeOK
<1>8. QueueDrained'  BY DEF Inv, QueueDrained, NoWriter
<1>. QED  BY <1>1, <1>2, <1>3, <1>4, <1>5, <1>6, <1>7, <1>8 DEF Inv

\* A removed endpoint gives back what only it had.
LEMMA StepDelete ==
  ASSUME Inv, NEW e \in Pod, DeleteEndpoint(e)
  PROVE  Inv'
<1> USE DEF DeleteEndpoint, RemoveEndpoints, SetStage
<1>1. TypeOK'  BY DEF Inv, TypeOK, Stages, Phases
<1>2. AddressesHeld'  BY DEF Inv, AddressesHeld, Holds, TypeOK
<1>3. IDsDistinct'  BY DEF Inv, IDsDistinct, TypeOK, OnDisk
<1>4. Early'  BY DEF Inv, Early, TypeOK
<1>5. OnDisk'  BY DEF Inv, OnDisk, TypeOK, Early
<1>6. Untouched'  BY DEF Inv, Untouched, TypeOK
<1>7. NoWriter'  BY DEF Inv, NoWriter, TypeOK
<1>8. QueueDrained'  BY DEF Inv, QueueDrained, NoWriter
<1>. QED  BY <1>1, <1>2, <1>3, <1>4, <1>5, <1>6, <1>7, <1>8 DEF Inv

\* A file is written only before the queue is drained.
LEMMA StepEnqueue ==
  ASSUME Inv, NEW e \in Pod, enqueueDeletionRequestLocked(e)
  PROVE  Inv'
<1> USE DEF enqueueDeletionRequestLocked, SetStage, agentVars
<1>1. TypeOK'  BY DEF Inv, TypeOK, Stages, Phases
<1>2. AddressesHeld'  BY DEF Inv, AddressesHeld, Holds, TypeOK
<1>3. IDsDistinct'  BY DEF Inv, IDsDistinct, TypeOK, OnDisk
<1>4. Early'  BY DEF Inv, Early, TypeOK
<1>5. OnDisk'  BY DEF Inv, OnDisk, TypeOK, Early
<1>6. Untouched'  BY DEF Inv, Untouched, TypeOK
<1>7. NoWriter'  BY DEF Inv, NoWriter, TypeOK
<1>8. QueueDrained'  BY DEF Inv, QueueDrained, NoWriter
<1>. QED  BY <1>1, <1>2, <1>3, <1>4, <1>5, <1>6, <1>7, <1>8 DEF Inv

\* A crash leaves directories, files and no memory.
LEMMA StepCrash ==
  ASSUME Inv, Crash
  PROVE  Inv'
<1> USE DEF Crash
<1>1. TypeOK'
  <2>1. crashes' \in 0 .. MaxCrashes  BY RestoreAssumption DEF Inv, TypeOK
  <2>2. stage' \in [Pod -> Stages]  BY DEF Inv, TypeOK, Stages
  <2>3. queue' \subseteq {e \in Pod : stage'[e] \in {"acked", "gone"}}
    BY DEF Inv, TypeOK, Stages
  <2>. QED  BY <2>1, <2>2, <2>3 DEF Inv, TypeOK, Phases
<1>2. AddressesHeld'  BY DEF Inv, AddressesHeld, Holds, TypeOK
<1>3. IDsDistinct'  BY DEF Inv, IDsDistinct, TypeOK, OnDisk
<1>4. Early'  BY DEF Inv, Early, TypeOK
<1>5. OnDisk'  BY DEF Inv, OnDisk, TypeOK, Early
<1>6. Untouched'  BY DEF Inv, Untouched, TypeOK
<1>7. NoWriter'  BY DEF Inv, NoWriter, TypeOK
<1>8. QueueDrained'  BY DEF Inv, QueueDrained, NoWriter
<1>. QED  BY <1>1, <1>2, <1>3, <1>4, <1>5, <1>6, <1>7, <1>8 DEF Inv

\* Every step keeps the invariant.
LEMMA StepInv == ASSUME Inv, [Next]_vars PROVE Inv'
<1>1. CASE UNCHANGED vars
  BY <1>1 DEF vars, Inv, TypeOK, AddressesHeld, IDsDistinct, QueueDrained, Early, OnDisk,
     Untouched, NoWriter, Holds
<1>2. CASE AgentStep
  BY <1>2, StepStart, StepAddCIDR, StepValidate, StepStartAPI, StepRestore, StepClean,
     StepRestoreComplete, StepLockQueue, StepQueuedDelete, StepQueueProcessed,
     StepRegenerate, StepSweep DEF AgentStep
<1>3. CASE Crash
  BY <1>3, StepCrash
<1>4. ASSUME NEW e \in Pod, PluginStep(e) \/ StopPod(e) \/ RemovePod(e)
      PROVE  Inv'
  <2>1. CASE AllocateIP(e) \/ CreateEndpoint(e) \/ RemovePod(e) \/ DeleteEndpoint(e)
             \/ enqueueDeletionRequestLocked(e)
    BY <2>1, StepAllocateIP, StepCreate, StepRemovePod, StepDelete, StepEnqueue
  <2>2. CASE Added(e)
    BY <2>2, StepStage DEF Added, Stages
  <2>3. CASE StopPod(e)
    BY <2>3, StepStage DEF StopPod, Stages
  <2>4. CASE CallFails(e)
    BY <2>4, StepStage DEF CallFails, Stages
  <2>5. CASE CallTimesOut(e)
    BY <2>5, StepStage DEF CallTimesOut, Stages
  <2>6. CASE LockShared(e)
    BY <2>6, StepStage DEF LockShared, Stages
  <2>7. CASE LockTimesOut(e)
    BY <2>7, StepStage DEF LockTimesOut, Stages
  <2>8. CASE RemoveLink(e)
    BY <2>8, StepStage DEF RemoveLink, Stages
  <2>. QED  BY <1>4, <2>1, <2>2, <2>3, <2>4, <2>5, <2>6, <2>7, <2>8 DEF PluginStep
<1>. QED  BY <1>1, <1>2, <1>3, <1>4 DEF Next

\* The invariant holds throughout.
LEMMA Invariance == Spec => []Inv
<1>1. Init => Inv  BY InitInv
<1>2. Inv /\ [Next]_vars => Inv'  BY StepInv
<1>. QED  BY <1>1, <1>2, PTL DEF Spec

\* Restoration is ahead of every other allocation: the address of a restored,
\* exposed or leased pod is allocated to that pod alone, whatever validateEndpoint
\* rejected, whichever CIDRs came late and whenever the agent crashed.
THEOREM RestoredAddressesHeld == Spec => []AddressesHeld
<1>1. Inv => AddressesHeld  BY DEF Inv
<1>. QED  BY <1>1, Invariance, PTL

\* An endpoint never gets the ID of another endpoint's state directory, since
\* creations wait for the fence and removal deletes the directory first.
THEOREM DirectoriesNotShared == Spec => []IDsDistinct
<1>1. Inv => IDsDistinct  BY DEF Inv
<1>. QED  BY <1>1, Invariance, PTL

\* The state of the agent, the plugins and the disk is always well formed: a
\* crash leaves nothing in memory, and only acknowledged deletions are queued.
THEOREM TypeCorrect == Spec => []TypeOK
<1>1. Inv => TypeOK  BY DEF Inv
<1>. QED  BY <1>1, Invariance, PTL

\* The locking of the deletion queue loses no file: after the agent has drained
\* it, plugins reach the API.
THEOREM QueueStaysDrained == Spec => []QueueDrained
<1>1. Inv => QueueDrained  BY DEF Inv
<1>. QED  BY <1>1, Invariance, PTL
=============================================================================
