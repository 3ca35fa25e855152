-------------------------- MODULE EndpointRestore --------------------------
(***************************************************************************)
(* The endpoints of an agent across its crashes                            *)
(* (daemon/cmd/endpoint_restore.go, pkg/endpointmanager,                   *)
(* pkg/endpoint/api/endpoint_deletion_queue.go), and the CNI plugin, which *)
(* deletes an endpoint through the API or, when the agent is down, leaves  *)
(* a file for it (plugins/cilium-cni/lib/deletion_queue.go).               *)
(*                                                                         *)
(* An agent that starts reads the endpoints from disk, validates each and  *)
(* takes its address again, starts the API server, exposes the endpoints   *)
(* that are valid, removes the others, drains the deletion queue under an  *)
(* exclusive lock, and only then regenerates what is left and serves       *)
(* creations.  Endpoint IDs and addresses live in memory; what is on disk  *)
(* survives, and so do the pods.                                           *)
(*                                                                         *)
(* Every pod is created once.  Its endpoint and its address are known by   *)
(* the pod.  The lock on the queue directory is the shared one of a plugin *)
(* in the steps "retry" and "enqueue" and the exclusive one of an agent    *)
(* that is "draining"; taking it does not fail for other reasons.          *)
(***************************************************************************)
EXTENDS Naturals, FiniteSets

CONSTANTS
  Pod,        \* pods, each with one endpoint
  OnPawn,     \* those bound to a pawn rather than to the agent's own node
  Addr,       \* addresses of the pods' CIDRs
  ID,         \* endpoint IDs
  None,
  MaxCrashes,
  MaxFiles    \* maxDeletionFiles

ASSUME RestoreAssumption ==
  /\ OnPawn \subseteq Pod
  /\ None \notin Addr \cup ID
  /\ IsFiniteSet(Pod)
  /\ MaxCrashes \in Nat
  /\ MaxFiles \in Nat

VARIABLES
  stage,      \* how far the CNI plugin and the kubelet are with each pod
  pods,       \* the pods whose object is still in the cluster
  addr,       \* the address in the pod's network namespace, or None
  disk,       \* the ID of the endpoint's state directory, or None
  queue,      \* the pods with a file in the deletion queue
  crashes,
  boot,       \* how far the agent has come
  plan,       \* what restoration will do with an endpoint on disk
  state,      \* endpoints in the manager: "none", "restoring" or "ready"
  ids,        \* endpoint IDs taken from the pool
  alloc,      \* addresses allocated in IPAM
  cidr,       \* addresses whose CIDR the allocator knows
  marked      \* IDs the last garbage collection marked

worldVars == <<stage, pods, addr, disk, queue, crashes>>
agentVars == <<boot, plan, state, ids, alloc, cidr, marked>>
vars == <<stage, pods, addr, disk, queue, crashes, boot, plan, state, ids, alloc,
          cidr, marked>>

Stages == {"none", "leased", "created", "up", "try", "lock", "retry", "enqueue",
           "acked", "gone"}
Phases == {"down", "restore", "serving", "cleaning", "complete", "draining", "open"}

\* The API server is started when the daemon is initialised.
Serving == boot \in {"serving", "cleaning", "complete", "draining", "open"}

\* endpointRestoreComplete is closed.
Complete == boot \in {"complete", "draining", "open"}

\* The pod's interface exists: checkLink finds it.
link(e) == stage[e] \notin {"none", "gone"}

Exposed(e) == state[e] # "none"

Init ==
  /\ stage = [e \in Pod |-> "none"]
  /\ pods = Pod
  /\ addr = [e \in Pod |-> None]
  /\ disk = [e \in Pod |-> None]
  /\ queue = {}
  /\ crashes = 0
  /\ boot = "down"
  /\ plan = [e \in Pod |-> "none"]
  /\ state = [e \in Pod |-> "none"]
  /\ ids = {}
  /\ alloc = {}
  /\ cidr = {}
  /\ marked = {}

\* removeEndpoint, for a set of exposed endpoints, with the subscriber that
\* releases the address.  The ID of one that is still restoring is not released.
RemoveEndpoints(S) ==
  /\ state' = [e \in Pod |-> IF e \in S THEN "none" ELSE state[e]]
  /\ disk' = [e \in Pod |-> IF e \in S THEN None ELSE disk[e]]
  /\ ids' = ids \ {disk[e] : e \in {x \in S : state[x] # "restoring"}}
  /\ alloc' = alloc \ {addr[e] : e \in S}

(***************************************************************************)
(* Start of the agent.                                                     *)
(***************************************************************************)
\* readOldEndpointsFromDisk.  The allocator knows the CIDRs of the CiliumNodes
\* it could read; callbacks add the others later.
Start ==
  /\ boot = "down"
  /\ boot' = "restore"
  /\ plan' = [e \in Pod |-> IF disk[e] # None THEN "read" ELSE "none"]
  /\ cidr' \in SUBSET Addr
  /\ UNCHANGED <<worldVars, state, ids, alloc, marked>>

AddCIDR ==
  /\ boot # "down"
  /\ cidr # Addr
  /\ cidr' = Addr
  /\ UNCHANGED <<worldVars, boot, plan, state, ids, alloc, marked>>

\* Mutant: the pod has to be on the agent's own node.
validLocal(e) == e \in pods \ OnPawn /\ link(e)

\* The pod exists, on a managed node, and so does its interface.
valid(e) == e \in pods /\ link(e)

\* Mutant: the address is looked up, not taken.
lookedUp(e) == alloc

taken(e) == alloc \cup {addr[e]}

\* validateEndpoint, with the reallocation of the address.
validateEndpoint(e) ==
  /\ boot = "restore"
  /\ plan[e] = "read"
  /\ IF valid(e) /\ addr[e] \in cidr \ alloc
     THEN /\ plan' = [plan EXCEPT ![e] = "restore"]
          /\ alloc' = taken(e)
     ELSE /\ plan' = [plan EXCEPT ![e] = "clean"]
          /\ UNCHANGED alloc
  /\ UNCHANGED <<worldVars, boot, state, ids, cidr, marked>>

\* RestoreOldEndpoints is through, and the rest of the daemon's initialisation.
StartAPI ==
  /\ boot = "restore"
  /\ \A e \in Pod : plan[e] # "read"
  /\ boot' = "serving"
  /\ UNCHANGED <<worldVars, plan, state, ids, alloc, cidr, marked>>

\* regenerateRestoredEndpoints: all endpoints are exposed first, with the IDs
\* they had.
RestoreEndpoints ==
  LET S == {e \in Pod : plan[e] = "restore"}
  IN  /\ boot = "serving"
      /\ boot' = "cleaning"
      /\ state' = [e \in Pod |-> IF e \in S THEN "restoring" ELSE "none"]
      /\ ids' = {disk[e] : e \in S}
      /\ UNCHANGED <<worldVars, plan, alloc, cidr, marked>>

\* An endpoint that cannot be restored is removed without releasing anything.
Clean(e) ==
  /\ boot = "cleaning"
  /\ plan[e] = "clean"
  /\ plan' = [plan EXCEPT ![e] = "none"]
  /\ disk' = [disk EXCEPT ![e] = None]
  /\ UNCHANGED <<stage, pods, addr, queue, crashes, boot, state, ids, alloc, cidr, marked>>

RestoreComplete ==
  /\ boot = "cleaning"
  /\ \A e \in Pod : plan[e] # "clean"
  /\ boot' = "complete"
  /\ UNCHANGED <<worldVars, plan, state, ids, alloc, cidr, marked>>

(***************************************************************************)
(* The deletion queue, regeneration and garbage collection.                *)
(***************************************************************************)
\* Mutant: the agent does not wait for the plugins that hold the lock.
unlocked == TRUE

exclusive == \A e \in Pod : stage[e] \notin {"retry", "enqueue"}

\* process takes the exclusive lock ...
LockQueue ==
  /\ boot = "complete"
  /\ exclusive
  /\ boot' = "draining"
  /\ UNCHANGED <<worldVars, plan, state, ids, alloc, cidr, marked>>

\* ... deletes the endpoint of every file, if it still exists, and the file ...
processQueuedDelete(e) ==
  /\ boot = "draining"
  /\ e \in queue
  /\ queue' = queue \ {e}
  /\ RemoveEndpoints({e} \cap {x \in Pod : Exposed(x)})
  /\ UNCHANGED <<stage, pods, addr, crashes, boot, plan, cidr, marked>>

\* ... and opens the fence, on which the lock is dropped.
QueueProcessed ==
  /\ boot = "draining"
  /\ queue = {}
  /\ boot' = "open"
  /\ UNCHANGED <<worldVars, plan, state, ids, alloc, cidr, marked>>

\* handleRestoredEndpointsRegeneration: an endpoint that was deleted meanwhile is
\* passed over; one whose regeneration fails stays as it is.
Regenerate(e) ==
  /\ boot = "open"
  /\ plan[e] = "restore"
  /\ plan' = [plan EXCEPT ![e] = "none"]
  /\ state' \in {state, [state EXCEPT ![e] = IF Exposed(e) THEN "ready" ELSE "none"]}
  /\ UNCHANGED <<worldVars, boot, ids, alloc, cidr, marked>>

\* Mutant: nothing is ever marked.
noStrays == {}

strays == {disk[e] : e \in {x \in Pod : Exposed(x) /\ ~link(x)}}

\* markAndSweep, a controller that starts when all endpoints are regenerated:
\* what the previous round marked is removed, by ID.
markAndSweep ==
  /\ boot = "open"
  /\ \A e \in Pod : plan[e] = "none"
  /\ marked' = strays
  /\ RemoveEndpoints({e \in Pod : Exposed(e) /\ disk[e] \in marked})
  /\ UNCHANGED <<stage, pods, addr, queue, crashes, boot, plan, cidr>>

(***************************************************************************)
(* The CNI plugin and the kubelet.                                         *)
(***************************************************************************)
SetStage(e, new) == stage' = [stage EXCEPT ![e] = new]

\* ADD: POST /ipam.
AllocateIP(e) ==
  /\ stage[e] = "none"
  /\ Serving
  /\ \E a \in cidr \ alloc :
       /\ addr' = [addr EXCEPT ![e] = a]
       /\ alloc' = alloc \cup {a}
  /\ SetStage(e, "leased")
  /\ UNCHANGED <<pods, disk, queue, crashes, boot, plan, state, ids, cidr, marked>>

\* Mutant: creations wait for the API server only.
afterStart == Serving

\* PUT /endpoint waits for the fence.
afterFence == boot = "open"

\* ADD: PUT /endpoint.  Without a free ID the plugin fails and gives back the
\* address.
CreateEndpoint(e) ==
  /\ stage[e] = "leased"
  /\ afterFence
  /\ \/ \E i \in ID \ ids :
          /\ disk' = [disk EXCEPT ![e] = i]
          /\ ids' = ids \cup {i}
          /\ state' = [state EXCEPT ![e] = "ready"]
          /\ SetStage(e, "created")
          /\ UNCHANGED alloc
     \/ /\ ID \subseteq ids
        /\ SetStage(e, "gone")
        /\ alloc' = alloc \ {addr[e]}
        /\ UNCHANGED <<disk, ids, state>>
  /\ UNCHANGED <<pods, addr, queue, crashes, boot, plan, cidr, marked>>

\* The plugin has the answer.
Added(e) ==
  /\ stage[e] = "created"
  /\ SetStage(e, "up")
  /\ UNCHANGED <<pods, addr, disk, queue, crashes, agentVars>>

\* The pod is deleted: the kubelet stops it and calls the plugin with DEL; the
\* object goes some time.
StopPod(e) ==
  /\ stage[e] = "up"
  /\ SetStage(e, "try")
  /\ UNCHANGED <<pods, addr, disk, queue, crashes, agentVars>>

RemovePod(e) ==
  /\ stage[e] \in {"try", "lock", "retry", "enqueue", "acked", "gone"}
  /\ e \in pods
  /\ pods' = pods \ {e}
  /\ UNCHANGED <<stage, addr, disk, queue, crashes, agentVars>>

\* deleteEndpoints, when there is no API server: fall back.
CallFails(e) ==
  /\ ~Serving
  /\ \/ stage[e] = "try" /\ SetStage(e, "lock")
     \/ stage[e] = "retry" /\ SetStage(e, "enqueue")
  /\ UNCHANGED <<pods, addr, disk, queue, crashes, agentVars>>

\* The handler waits for the restoration and deletes what it finds; an endpoint
\* that is not found counts as deleted.
DeleteEndpoint(e) ==
  /\ stage[e] \in {"try", "retry"}
  /\ Complete
  /\ RemoveEndpoints({e} \cap {x \in Pod : Exposed(x)})
  /\ SetStage(e, "acked")
  /\ UNCHANGED <<pods, addr, queue, crashes, boot, plan, cidr, marked>>

\* The client gives up before the handler is through, or the rate limiter refuses
\* the call.  Neither is a 503, and Del takes it for an error that needs no retry.
CallTimesOut(e) ==
  /\ stage[e] \in {"try", "retry"}
  /\ Serving
  /\ SetStage(e, "acked")
  /\ UNCHANGED <<pods, addr, disk, queue, crashes, agentVars>>

\* tryQueueLock.
LockShared(e) ==
  /\ stage[e] = "lock"
  /\ boot # "draining"
  /\ SetStage(e, "retry")
  /\ UNCHANGED <<pods, addr, disk, queue, crashes, agentVars>>

\* The lock is not granted in time: DEL fails and the kubelet calls again.
LockTimesOut(e) ==
  /\ stage[e] = "lock"
  /\ boot = "draining"
  /\ SetStage(e, "try")
  /\ UNCHANGED <<pods, addr, disk, queue, crashes, agentVars>>

\* Mutant: the file is written before the limit is checked.
enqueueFirst(e) ==
  /\ stage[e] = "enqueue"
  /\ SetStage(e, IF Cardinality(queue) + 1 > MaxFiles THEN "try" ELSE "acked")
  /\ queue' = queue \cup {e}
  /\ UNCHANGED <<pods, addr, disk, crashes, agentVars>>

\* The directory holds the lock file too; if it is full DEL fails.
enqueueDeletionRequestLocked(e) ==
  /\ stage[e] = "enqueue"
  /\ IF Cardinality(queue) + 1 > MaxFiles
     THEN SetStage(e, "try") /\ UNCHANGED queue
     ELSE SetStage(e, "acked") /\ queue' = queue \cup {e}
  /\ UNCHANGED <<pods, addr, disk, crashes, agentVars>>

\* The rest of Del removes the interface.
RemoveLink(e) ==
  /\ stage[e] = "acked"
  /\ SetStage(e, "gone")
  /\ UNCHANGED <<pods, addr, disk, queue, crashes, agentVars>>

(***************************************************************************)
(* The agent dies.  A plugin in the middle of ADD fails and removes the    *)
(* interface; one in the middle of a DELETE call gets an error without a   *)
(* status, with or without the endpoint being gone.                        *)
(***************************************************************************)
Crash ==
  /\ boot # "down"
  /\ crashes < MaxCrashes
  /\ crashes' = crashes + 1
  /\ \E lost \in SUBSET {e \in Pod : Serving /\ stage[e] \in {"try", "retry"}} :
       stage' = [e \in Pod |-> IF stage[e] \in {"leased", "created"} THEN "gone"
                               ELSE IF e \in lost THEN "acked" ELSE stage[e]]
  /\ boot' = "down"
  /\ plan' = [e \in Pod |-> "none"]
  /\ state' = [e \in Pod |-> "none"]
  /\ ids' = {}
  /\ alloc' = {}
  /\ cidr' = {}
  /\ marked' = {}
  /\ UNCHANGED <<pods, addr, disk, queue>>

AgentStep ==
  \/ Start \/ StartAPI \/ RestoreEndpoints \/ RestoreComplete \/ LockQueue
  \/ QueueProcessed \/ AddCIDR \/ markAndSweep
  \/ \E e \in Pod : validateEndpoint(e) \/ Clean(e) \/ processQueuedDelete(e)
                    \/ Regenerate(e)

PluginStep(e) ==
  \/ AllocateIP(e) \/ CreateEndpoint(e) \/ Added(e)
  \/ CallFails(e) \/ DeleteEndpoint(e) \/ CallTimesOut(e)
  \/ LockShared(e) \/ LockTimesOut(e) \/ enqueueDeletionRequestLocked(e)
  \/ RemoveLink(e)

Next ==
  \/ AgentStep
  \/ Crash
  \/ \E e \in Pod : PluginStep(e) \/ StopPod(e) \/ RemovePod(e)

Spec == Init /\ [][Next]_vars

\* The agent is started again and its goroutines, jobs and controllers run; the
\* plugin runs, and the kubelet repeats a DEL that failed.
Fairness ==
  /\ WF_vars(\/ Start \/ StartAPI \/ RestoreEndpoints \/ RestoreComplete
             \/ LockQueue \/ QueueProcessed
             \/ \E e \in Pod : validateEndpoint(e) \/ Clean(e)
                               \/ processQueuedDelete(e) \/ Regenerate(e))
  /\ WF_vars(markAndSweep)
  /\ \A e \in Pod : WF_vars(PluginStep(e))

FairSpec == Spec /\ Fairness

(***************************************************************************)
(* Properties.                                                             *)
(***************************************************************************)
\* The type invariant.  An agent that is down has nothing in memory, and the
\* queue holds only pods whose DEL was acknowledged.
TypeOK ==
  /\ stage \in [Pod -> Stages]
  /\ pods \subseteq Pod
  /\ addr \in [Pod -> Addr \cup {None}]
  /\ disk \in [Pod -> ID \cup {None}]
  /\ queue \subseteq {e \in Pod : stage[e] \in {"acked", "gone"}}
  /\ crashes \in 0 .. MaxCrashes
  /\ boot \in Phases
  /\ plan \in [Pod -> {"none", "read", "restore", "clean"}]
  /\ state \in [Pod -> {"none", "restoring", "ready"}]
  /\ ids \subseteq ID
  /\ alloc \subseteq Addr
  /\ cidr \subseteq Addr
  /\ marked \subseteq ID
  /\ boot = "down" => ids = {} /\ alloc = {} /\ \A e \in Pod : ~Exposed(e)

\* A pod whose address the agent answers for: a plugin has just been given it,
\* restoration has taken it again, or its endpoint is exposed.
Holds(e) ==
  \/ Exposed(e)
  \/ stage[e] = "leased"
  \/ plan[e] = "restore" /\ boot \in {"restore", "serving"}

\* The address of every restored, exposed or leased pod is allocated, to that
\* pod alone: restoration is ahead of every other allocation.
AddressesHeld ==
  \A e \in Pod : Holds(e) =>
    /\ addr[e] \in alloc
    /\ \A f \in Pod : f # e /\ Holds(f) => addr[f] # addr[e]

\* No endpoint is given the ID of another whose state directory exists, exposed
\* or not, and the ID of every exposed endpoint is out of the pool.
IDsDistinct ==
  \A e \in Pod : disk[e] # None =>
    /\ Exposed(e) => disk[e] \in ids
    /\ \A f \in Pod : f # e => disk[f] # disk[e]

\* Once the agent has drained the deletion queue, no plugin adds a file to it
\* that the agent would not see before its next start.
QueueDrained == boot = "open" => queue = {}

\* The endpoint of a pod whose DEL was acknowledged is removed in the end, from
\* the manager and from disk, also when the agent never saw the call.
DeletesTakeEffect ==
  \A e \in Pod : <>[](stage[e] = "gone") => <>[](~Exposed(e) /\ disk[e] = None)

\* No ID the collector has marked belongs to an endpoint that is in use.
MarksStray ==
  \A e \in Pod : Exposed(e) /\ disk[e] \in marked => ~link(e)

\* A pod that stays up keeps its endpoint across crashes, on whichever managed
\* node it is: provided that the allocator knows all CIDRs when it starts, and
\* that the random choice of an ID misses those the collector has marked.
PodsKeepEndpoints ==
  [](boot # "down" => cidr = Addr) /\ []MarksStray
    => \A e \in Pod : <>[](stage[e] = "up") => <>[]Exposed(e)

\* "restore endpoints before any IPs are allocated to avoid eventual IP conflicts
\* later on" (daemon/cmd/daemon.go): two running pods never share an address.
NoAddressConflict ==
  \A e, f \in Pod : e # f /\ stage[e] = "up" /\ stage[f] = "up" => addr[e] # addr[f]
=============================================================================
