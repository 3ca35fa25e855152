# Constellation: TLA+ models, model checking and proofs

Constellation is a fork of Cilium in which one agent per physical host serves
many Kubernetes nodes: the host itself and its virtual nodes, the *pawns*.
Almost everything upstream Cilium assumes to be "one per node" (the pod CIDR,
the CNI configuration, the node ID, the local node name) exists several times
in one agent. This directory models the parts where that assumption was
rewritten, checks them with TLC on small instances, and proves the central
properties with TLAPS for every size.

## 1. The system

| Part | Code | State | Operations |
| --- | --- | --- | --- |
| Managed-scope IPAM | `pkg/ipam/managed_scope.go` | ordered list `subs` and map `subByNode` of sub-allocators, each a CIDR with a bitmap | `AddCIDR`, `Allocate`, `AllocateNext`, `Release` |
| Address leases | `pkg/ipam/allocator.go` | `owner`, `expirationTimers`, `excludedIPs` | allocate, start, stop and expire a lease, release |
| IPAM and endpoint API | `pkg/ipam/api`, `pkg/endpoint/api`, `pkg/endpointmanager` | endpoints and their index by address | POST and DELETE `/ipam`, PUT and DELETE `/endpoint` |
| CNI plugin | `plugins/cilium-cni` | how far an ADD has come | ADD with deferred release, DEL |
| Scale to zero | `bpf/lib/constellation_stz.h`, `pkg/maps/constellationstz` | trigger map by address | arm (periapsis), clear (IPAM), trap and wake (datapath) |
| Pod-endpoint watchdog | `pkg/podendpointwatchdog` | `pending` (first seen missing), CNI ownership | `check`, `heal` |
| Node IDs | `pkg/datapath/linux/node_ids.go`, `node.go`, `pkg/idpool` | ID of each node address, its inverse, pool of IDs, BPF map | add, update, delete, validate a node, restore |
| Node manager | `pkg/node/manager` | known nodes, checkpoint, restored nodes | `NodeUpdated`, `NodeDeleted`, checkpoint, prune |
| Managed node watcher | `pkg/k8s/tables/nodewatcher.go`, `pkg/node/types` | managed names, known nodes, reflectors, callbacks | discovery, watch loop, `handleAdded`, `handleDeleted` |
| Endpoint restore | `daemon/cmd/endpoint_restore.go` | endpoints on disk, in the manager, and on their way back | read, validate, reallocate addresses, expose, clean, regenerate |
| Endpoint deletion queue | `pkg/endpoint/api/endpoint_deletion_queue.go`, `plugins/cilium-cni/lib/deletion_queue.go` | directory of files under a file lock | enqueue (plugin), drain (agent) |
| Endpoint garbage collection | `pkg/endpointmanager` | marked endpoint IDs | mark, sweep |
| Address fan-out | `pkg/nodediscovery/managed.go` | addresses in the pawns' CiliumNodes | get, modify, update with retries |
| Pod CIDR manager | `operator/pkg/ipam`, `pkg/ipam/cidrset` | CIDRs of each node, bitmaps, nodes that wait, queued writes | `Upsert`, `Delete`, `Resync`, `syncToK8s` |
| API server rotation | `pkg/k8s/client/rotate.go` | index of the server in use | rotate |

How they interact. The node watcher discovers a pawn, starts a reflector for its
pods and calls back IPAM, which fetches the pawn's CiliumNode and adds its CIDR.
A CNI ADD asks IPAM for an address from the pool named after the pawn, under a
lease of ten minutes, and then has an endpoint created, which ends the lease. The
watchdog compares the pod table of the reflectors with the endpoints and deletes
pods that have none. The node manager passes CiliumNodes to the datapath, which
gives each one a node ID; the address fan-out puts the host's internal address
into every pawn's CiliumNode, so that all nodes of a machine share one ID. The
agent creates those CiliumNodes, the operator's pod CIDR manager adds the CIDR, and
the fan-out writes whole objects back. When the agent starts, it takes the addresses
of the endpoints on disk again before it serves requests, and the CNI plugin leaves
deletions in a queue while the agent is away.

The hard behaviours: handlers that take a lock twice, or look something up under
one lock and act under another; a lease that runs out under a slow request; two
objects of one pawn (Kubernetes Node and CiliumNode) whose events come in any
order; a pod table and a list of managed names that are behind or ahead; agent
restarts, where the BPF map, the checkpoint, the endpoints' directories and the
deletion queue survive and the rest does not; an operator that rebuilds its bitmaps
from the objects it wrote; watches that lose events; API calls that fail or conflict.
`PROJECT.json` lists these hazards at the line where each of them bites, with the
properties that would catch it.

## 2. Modules

| Module | Models | Runs |
| --- | --- | --- |
| `ManagedIPAM` | managed-scope IPAM, leases, their API handlers, the part of endpoint creation and of the CNI plugin that handles addresses, the trigger map | `ipam_*` |
| `Watchdog` | the watchdog against pods, endpoints and a lagging pod table | `watchdog_*` |
| `NodeIDs` | node IDs, their pool, node manager deletions, checkpoint and restart | `nodeids_*` |
| `NodeWatcher` | discovery, the watch on Nodes, reflectors, creation of CiliumNodes, the callback into IPAM | |
| `AddressFanOut` | the loop that writes the agent's address into the pawns' CiliumNodes | |
| `ManagedAgent` | the two composed | `agent_joins` |
| `EndpointRestore` | endpoints, addresses and IDs across crashes of the agent, the deletion queue, garbage collection | `restore`, `restore_conflict` |
| `PodCIDRs` | the operator's pod CIDR manager, its controller, the watch that drives it, and the CiliumNodes of the API server | `podcidrs` |
| `IPLease` | what `ManagedIPAM` promises, as an abstract specification | `ipam_prompt` |
| `ManagedIPAMProofs`, `ManagedIPAMLeases`, `ManagedIPAMRefinement` | theorems about `ManagedIPAM`; each builds on the one before | |
| `WatchdogProofs`, `NodeIDsProofs`, `ManagedAgentProofs`, `EndpointRestoreProofs`, `PodCIDRsProofs` | theorems about the module they are named after | |
| `MCManagedIPAM`, `MCWatchdog`, `MCNodeIDs`, `MCManagedAgent`, `MCEndpointRestore`, `MCPodCIDRs` | instances for TLC | |

Operators that begin with the comment "Mutant" are plausible bugs of the code
that a definition may be replaced with, to see that a property notices. The
specifications do not use them.

### ManagedIPAM

A request `r` in `Req` is one CNI ADD, or one direct allocation of an address,
with all that follows from it: the lease whose uuid it is, the endpoint, the
plugin's cleanup and the DEL. `pc[r]` is how far it has come, `ip[r]` its address
and `from[r]` the pool name the result carried. Each action is one critical
section of the agent:

| Action | Code |
| --- | --- |
| `AllocateNextFamily`, `PoolExhausted` | `allocateNextFamilyLocked` with the loop over excluded addresses |
| `StartExpirationTimer`, `UndoAllocation` | the second half of `AllocateNextWithExpiration` |
| `Expire` | the timer's goroutine |
| `AllocateIP` | `allocateIPWithOwner`: router, restored and directly requested addresses |
| `CheckEndpoint`, `AddEndpoint`, `errorDuringCreation`, `StopExpirationTimer` | `CreateEndpoint` |
| `CniFail`, `CniDie` | the plugin fails, with or without its deferred release |
| `DeleteIpamCheck`, `DeleteIpamRelease` | the two steps of `DELETE /ipam/{ip}` |
| `DeleteEndpoint`, `EndpointDeleted` | removal of an endpoint and its address |
| `AssignCIDR`, `DeleteCiliumNode`, `FetchCiliumNode`, `addManagedNodeCIDR` | the operator, and the node-added callback, which reads first and adds later |
| `ArmTrigger` | periapsis (external) |

A sub-allocator is the set of its allocated addresses. The order in which
`AllocateNext` picks free addresses is left open. Two constants say what the
environment does. `Prompt`: no CNI ADD outlives its lease (`IPAMExpiration`, ten
minutes, against the much shorter timeouts of container runtimes) or overlaps
its own DEL. `StableCidrs`: no CiliumNode is deleted.

`IPLease` knows neither bitmaps nor timers: a request is new, has an address
under a lease, holds it, or is done, and an address is granted only while nobody
has it. The refinement mapping is `leaseStates`: `Owns(r)` says that request `r`
has an address nobody else may be given, from allocation until its expiry, its
cleanup or the removal of its endpoint, and `addr` is `ip`.

### Watchdog

A pod is a name with a generation, which stands for its UID. `table` is the
agent's pod table, a row of which catches up with the API server by `Reflect`.
`Check` is the decision of one scan, including the ownership gate, the grace
period and the blast-radius guard; `heal` deletes one pod, with the UID as
precondition; `EndCheck` prunes the pending entries; `StandDown` and
`RefuseToAct` are the early returns. Time is `Tick`: ages are counted up to
`Grace`. `since`, `condemned` and `killed` are history variables: since when every
check has found the pod missing, which pods a scan found due, and which the
watchdog deleted.

### NodeIDs

`nodeIDsByIPs`, `nodeIPsByIDs` and `pool` are the variables of the handler;
`nodeIDsByIPs` also stands for the BPF map, which is written first and survives
`Restart`. `NodeAdd`, `NodeUpdate` and `NodeDelete` are the handlers, each with
the guard of its code; the loops of `NodeConfigurationChanged` and
`AllNodeValidateImplementation` are `SyncNode` steps that no handler interrupts,
because they hold the mutex. `Checkpoint`, `Restart`, `NodeSync` and
`pruneClusterNode` are the node manager's replay of deletions that happened
while the agent was down. `Manage` and `Unmanage` are the node watcher as the
guard in `nodeDelete` sees it. A failing write of the BPF map leaves its address
unmapped (`lost`); a failing delete is left out. `Orderly` says that a pawn stays
managed as long as its CiliumNode is known or in the checkpoint.

### NodeWatcher, AddressFanOut and ManagedAgent

`nodes`, `addressed` and `cn` are the objects at the API server; `known` is
`nw.known` and the list of `SetManagedNames`, which are always written together.
`boot` follows the startup: `discoverManagedNodes` (with its fallback to the local
node), one `EnsureAtStart` per pawn, `RegisterReflectors`, `ChooseAllocator`, which
decides once between the managed-scope and the host-scope allocator, one
`FetchAtStart` per pawn, and `RegisterNodeAddedCallback`. The watch runs next to it
from `RegisterReflectors` on: `Connect` delivers an Added event for every object, in
any order, `Disconnect` loses what is in flight, and events that come while it is down are
never delivered. `handleAdded` is one critical section; the read and the
`AddCIDR` of its callback are steps of their own in the same goroutine, and
`EnsureGet` and `EnsureCreate` run in goroutines it starts. `ReflectorPanic` is the
`RegisterInitializer` of a node that came back before its first reflector had
listed; the agent exits and is started again.

`AddressFanOut` reads a pawn's CiliumNode (`SyncGet`, from the informer's store
once it is there, and then possibly an old copy) and updates it (`SyncPut`, with
conflict, retry and give up). resourceVersions are not counted: a copy is
`current` until somebody writes the object.

`ManagedAgent` lets both work on the same `known` and `cn`. A step of the watcher,
the operator or the API server is joined with `FanOut!Observe`, which outdates the
copies of what it wrote; `Restart` is joined with `FanOut!Reset`.

### EndpointRestore

`stage[e]` is how far the CNI plugin and the kubelet are with pod `e`, `disk[e]` the
ID of its state directory, `boot` how far the agent is:

| Action | Code |
| --- | --- |
| `Start`, `validateEndpoint`, `StartAPI` | `readOldEndpointsFromDisk`, `RestoreOldEndpoints`, `validateEndpoint` with `allocateIPsLocked` |
| `RestoreEndpoints`, `Clean`, `RestoreComplete` | `regenerateRestoredEndpoints`: all are exposed, then the others are removed |
| `LockQueue`, `processQueuedDelete`, `QueueProcessed` | the deletion queue's `lock`, `process` and the fence |
| `Regenerate`, `markAndSweep` | `handleRestoredEndpointsRegeneration`, the garbage collector |
| `AllocateIP`, `CreateEndpoint`, `Added` | CNI ADD |
| `CallFails`, `DeleteEndpoint`, `CallTimesOut`, `LockShared`, `LockTimesOut`, `enqueueDeletionRequestLocked`, `RemoveLink` | CNI DEL with its fallback |
| `Crash` | memory is gone; disk, queue and pods stay |

The removal of an endpoint is one step here, and leases do not expire; both are
taken apart in `ManagedIPAM`. `cidr` is the set of addresses the allocator has a
CIDR for: any subset when the agent starts, and all of them at any later moment
(`AddCIDR`), as in `NodeWatcher`.

### PodCIDRs

`cn` holds the CiliumNodes of the API server: their CIDRs, one per family at most,
and whether their status has an error. `store`, `dirty` and `event` are the watch: the
informer's copies, the names in its work queue and the event being handled. The rest
is the manager: `nodes` and the bitmaps `used`, the nodes that wait for `Resync`
(`nodesToAllocate`), and `toK8s`, the one write queued for each node. As in
`AddressFanOut` a copy is current until somebody writes the object.

| Action | Code |
| --- | --- |
| `Reflect`, `Dispatch` | informer and `processLoop` of `resource.Resource` |
| `Upsert`, `Delete`, `Resync`, `ResyncNode` | the handlers behind `watchCiliumNodes`; `Resync` follows the last object of the initial list |
| `upsertLocked` with `allocateNext`, `reuseIPNets` | `allocateNode`: postponed, allocated, reported as an error, or nothing to do |
| `StartSync`, `syncToK8s` | the controller: the writes of spec and status, conflict, retry |
| `CreateCiliumNode`, `DeleteCiliumNode`, `Touch` | other clients of the API server |
| `Crash` | the operator starts again with empty tables and a new list |

An attempt to allocate has one outcome per family (`attempt`): a CIDR, nothing, an
error (`"fail"`) or a CIDR that is in use (`"dup"`), and `rejected` collects the
combinations after which nothing is recorded. `sane` remembers whether the
CiliumNodes the first operator found had no CIDR twice and either all their CIDRs or
none. `Orderly`: a name is used again only once its deletion was handled.
`CIDRsDistinct` and `CIDRsKept` are what `ManagedIPAM` assumes of the operator: the CIDRs
of two nodes are different, and only a deletion takes a CIDR away (`StableCidrs` is
the case without deletions).

## 3. Runs

| Run | Property | What it shows |
| --- | --- | --- |
| `ipam_prompt` | `TypeOK`, `LiveHoldsIP`, `NoOrphanedIP`, `TriggerDiesWithItsPod`, `LeasePromise` | three requests for two addresses, with failures, plugin deaths, direct allocations and a failing clear: no live address is freed, no address lost, no scale-to-zero trigger inherited, and every step is one of `IPLease` or none |
| `ipam_late` | `NoOrphanedIP`, `AbandonedIPReturns` | leases that run out at any moment lose no address, and the address of a plugin that dies comes back |
| `ipam_churn` | `SubsIndexed`, `LiveIPsDistinct` | CiliumNodes come back with other CIDRs, callbacks apply what they read earlier, and an address is excluded |
| `watchdog_heals` | `TypeOK`, `OnlyCondemnedKilled`, `BrokenPodsHealed` | with the gate closing, the guard refusing, a stale table and a refused delete, only pods a scan found overdue are deleted; while the gate is open and the guard admits them, broken pods are healed in the end |
| `watchdog_grace` | `ContinuouslyMissing` | violated: the guard returns before the pruning, so an old entry survives a healthy check |
| `nodeids_restart` | `IDsAccounted`, `KnownNodesMapped`, `HostsHaveOwnIDs` | the shared ID survives the deletion of pawns, a restart and the pruning of stale nodes |
| `nodeids_moving` | `TypeOK`, `HostsHaveOwnIDs` | moving addresses, a node without any, a failing write and an exhausted pool give no two machines one ID |
| `nodeids_heal` | `LostIDsComeBack` | the background sync repairs a mapping another node's deletion tore down |
| `agent_joins` | `TypeOK`, `PawnsAdopted`, `PawnsServed`, `OthersKept`, `PawnsAddressed` | a pawn that joins, leaves and comes back during startup, broken watches, a panic and a restart is adopted, gets its CIDR into the allocator and the agent's address into its CiliumNode; the fan-out takes nothing back that others wrote |
| `podcidrs` | `TypeOK`, `PoolAccounted`, `CIDRsDistinct`, `CIDRsKept`, `NodesServed` | a crash, a failing call and a deletion or a foreign write at any moment: bitmaps and table agree, no two CiliumNodes have a CIDR in common, none loses its CIDRs, and each gets them in the end |
| `restore` | `TypeOK`, `AddressesHeld`, `IDsDistinct`, `QueueDrained`, `DeletesTakeEffect`, `PodsKeepEndpoints` | two crashes at any point of additions, deletions and restorations: no shared address or ID, no file left in the queue behind the fence, deletions take effect, and pods that stay up keep their endpoint |
| `restore_conflict` | `NoAddressConflict` | violated: an agent that starts without a pawn's CIDR rejects its endpoints, and later gives the address of a running pod to another |

The violated properties state what a comment or a document of the repository
says; `findings` in `PROJECT.json` quotes each.

Limits. The premises of the passing runs mark where the code stops promising
something, and the models show it when a premise is dropped:

- `ExcludedNeverGiven`, as an invariant in `ipam_churn.cfg`, is violated. Exclusions
  are entered under the default pool (`daemon/infraendpoints/infra_ip_allocation.go`),
  pods ask under the name of their node, and `isIPExcluded` looks into one pool.
- `NoOrphanedIP` needs `StableCidrs`. With `StableCidrs = FALSE` and the nodes
  `{h, p1, p2}` in `ipam_prompt.cfg` a CIDR that moved from one pawn to another is in
  two sub-allocators, and a release goes to the first that covers the address.
- `LiveHoldsIP` needs `StableCidrs`, because `AddCIDR` drops the bitmap of a changed
  CIDR with its live addresses, and `Prompt`, because `DELETE /ipam` checks for an
  endpoint before, and not under the lock of, the release.
- `TriggerDiesWithItsPod` needs `MaxClearFailures` to be at most one: the clear on release
  and the clear on allocation back each other up.
- `KnownNodesMapped` needs `Orderly`. With `Orderly = FALSE` in `nodeids_restart.cfg` a
  pawn that is no longer managed when its CiliumNode goes takes its host's ID
  along. It also needs the pawns of other machines (`q` in `nodeids_heal`) left out,
  because the guard in `nodeDelete` only knows the pawns of this agent.
  It needs the pawns to carry the host's address, and no failing write: two nodes of
  a machine whose addresses met different IDs move each other's addresses to new ones.
- `LostIDsComeBack` needs deletions to stop: each deletion of a node without an ID
  puts ID 0 into the pool.
- `PawnsServed` is about the managed-scope allocator. An agent that has one managed
  name when it configures IPAM keeps the host-scope allocator for good.
- `PawnsAddressed` needs the local node to be updated again and again. The fan-out
  runs only then: a pawn that joins later, or whose last attempt met a conflict,
  waits for the next update.
- `PodsKeepEndpoints` needs the allocator to know all CIDRs when it starts (compare
  `restore_conflict`) and the collector's marks to fit: `markAndSweep` remembers IDs,
  and an ID released and given to a new endpoint between two rounds would be
  swept with it. IDs are chosen at random among thousands, two in the model.
- `CIDRsDistinct` needs `Orderly`. With `Orderly = FALSE` a name that is deleted and
  created again while a write for it is queued gets the CIDRs of that write, which
  may have gone to another node. It also needs CiliumNodes that have CIDRs of both
  families or of none at the start (`sane`): `reuseIPNets` gives a node that is new to
  the table the missing family at once, before `Resync`, when a node not yet seen may
  have that CIDR.
- `NodesServed` needs `sane`. After a conflict in one family the next event replaces
  the queued update with one of the status, so that the stripped CIDR stays in the
  object; with a single family the node is left with an empty entry and never gets a
  CIDR. `podcidrs` starts with conflicts in one and in both families as well; with them
  it checks `TypeOK` and `PoolAccounted`.

Bounds. Addresses are one or two per CIDR and IDs two or three, so every
allocation meets reuse and exhaustion. Two requests are needed for every race
between a lease and its successor; the third in `ipam_prompt` lets an address
change hands twice. In `watchdog_heals` the two pods are one more than the `Floor`, so
the guard refuses to act when both are overdue. Recreated pods and host-network pods,
which make the liveness check too large, are left to the theorem `KillsOnlyCondemned`,
which has no bounds. Three
nodes cover a host with its pawn and a stranger. `agent_joins` has one pawn and
one CIDR, since every handler works on one name; a deletion or a new address
(`MaxChurn = 1`), a failing call (`MaxErrors = 1`) and two attempts per update
(`MaxRetry = 2`, of ten in the code) bring every path about. In `restore` the
second crash hits the restoration that follows the first; one pod is on a pawn and
one on the host, they compete for two addresses and two IDs, and the queue is full
with its lock file (`MaxFiles = 1`) and one deletion. In `podcidrs` two nodes compete
for two CIDRs of each family, so a CIDR of one may be wanted by the other and a pool
runs full; one crash, one failing call and one deletion or foreign write can come
between any two steps. The caps on failures, restarts
and gate moves (`MaxClearFailures`, `MaxApiErrors`, `MaxMapErrors`, `MaxRestarts`,
`GateMoves`, `MaxCrashes`, `MaxChurn`, `MaxErrors`) are named constants. Requests are interchangeable, and
so are pods off the host network, which is where symmetry is used; liveness
runs use none. All runs but `agent_joins` have `CHECK_DEADLOCK FALSE`: when all
requests, pods, generations or crashes are used up the modelled system may stop.

Fairness. `ManagedIPAM`: a handler of the agent that has started continues and
timers fire; nothing is assumed of the plugin. `Watchdog`: the job timer runs the
check again and again, each check ends, the reflector catches up. `NodeIDs`:
start-up completes and the background sync validates every node repeatedly; no
deletion from some point on is a premise of `LostIDsComeBack`. `NodeWatcher`: the
agent's goroutines run on, the kubelet starts an agent that exited again, the
operator serves every CiliumNode, and the API server ends a watch from time to
time (it does so by itself after a random timeout) but lets watches last long
enough: an event that is at the head of the queue again and again is handled
(strong fairness of `handleAdded` and `handleDeleted`). `AddressFanOut`: the loop
runs on and the informer catches up; updates of the local node are not assumed
but a premise of `PawnsAddressed`. `EndpointRestore`: the agent is started again,
its jobs and controllers run, the plugin runs, and the kubelet repeats a DEL that
failed. `AddCIDR`, `StopPod` and `RemovePod` need not happen. `PodCIDRs`: the informer,
the event loop and the controller, which runs every 15 seconds, go on; crashes and
failing calls are bounded.

## 4. Proofs

All theorems hold for arbitrary sets of nodes, CIDRs, addresses, requests, pods
and IDs, and any bounds on faults, under the named assumptions on constants in the
modules.

- `ManagedIPAMProofs!TypeCorrect`, `SubsAlwaysIndexed`: no assumption on the
  environment. The list is handled by `WithoutProperties`: `removeCIDRLocked`
  removes the only entry of the node and keeps the rest in order.
- `ManagedIPAMLeases!LiveEndpointHoldsIP`, `LiveEndpointsDistinct`: from `Prompt`
  and `StableCidrs`. Neither property is inductive: whether a live address may be
  freed depends on which request may still release it. `IInv` therefore says who
  *owns* an address (`Owns`) from allocation to release: the bit of an owned
  address is set in the one bitmap that covers it and no two requests own the
  same address (`OwnInv`); a lease timer belongs to the request it names
  (`TimerInv`); the endpoint index finds exactly the exposed endpoints, and a
  request is released in one place only (`EndpointInv`); no CIDR is in two
  allocators (`CidrInv`).
- `ManagedIPAMRefinement!LeasePromiseKept`: the step simulation of `IPLease`, from
  the same premises. With `IInv` each action is one step of `IPLease` (an allocation
  a `Grant`, the stop of the timer a `Confirm`, an expiry or a release a `Return`) or
  leaves every lease as it is (`LeaseStep`).
- `ManagedIPAMLeases!NoAddressLost`: from the same premises. `Accounted`, on top of
  `IInv`, is the converse of `OwnInv`: every bit that is set is excluded or owned. A
  release clears the bit of the request that stops owning it (`ReturnAccounted`),
  and an owner is in one of the situations of `NoOrphanedIP` (`OwnerHolds`).
- `ManagedIPAMRefinement!TriggersNotInherited`: from the same premises and
  `MaxClearFailures <= 1`. `TriggerInv`: a trigger belongs to a pod that had the
  address, and if that pod is gone then the one failure is used up and nobody owns
  the address, so the clear of the next allocation succeeds.
- `WatchdogProofs!TypeCorrect`, `KillsOnlyCondemned`: any environment. Pods that are due are
  condemned and off the host network, and the UID precondition makes the deleted
  pod the one that was due.
- `WatchdogProofs!GraceRespected`: if the gate does not move and no more pods
  exist than the floor. `AgeInv`: a pending entry is never older than the
  uninterrupted absence of its pod. `GuardNeverTrips` is where the premise is
  used; `watchdog_grace` shows that it cannot be dropped.
- `NodeIDsProofs!TypeCorrect`, `IDsAlwaysAccounted`: any environment, failing
  writes and restarts included. Each helper keeps the two maps inverse to each
  other (`UnmapOK`, `MapOK`), the latter only because `allocateIDForNode` first
  removes inconsistent mappings (`ConsistentOK`).
- `NodeIDsProofs!HostsKeepOwnIDs`: if no address is ever listed by nodes of two
  machines (`FixedAddresses`, as in `nodeids_restart`), from the invariant that
  addresses with one ID belong to one machine.
- `NodeIDsProofs!NodesStayMapped`: `KnownNodesMapped`, from `Orderly`, writes that do
  not fail (`MaxMapErrors = 0`) and `PawnsShareAddress`: there are addresses that every
  node of this machine lists, and no other address is listed by two nodes. The
  property is not inductive, since a deletion may take an ID from any node that
  shares it. `MappedInv` adds, to the invariant above with the machine of the agent and
  each other node as classes, that all mapped addresses of this machine have the ID
  of the shared ones (`OneIDHere`), so that no update finds two IDs and moves
  addresses; that nodes of this machine that can still be deleted are managed
  (`Guarded`); and that nodes are mapped as soon as a loop has passed them
  (`UpdatedMapped`).
- `ManagedAgentProofs!TypeCorrect`: any number of pawns and restarts; a watch that
  connects queues one event per object.
- `ManagedAgentProofs!FieldsOfOthersKept`: any number of pawns, retries, stale reads,
  restarts and faults. `CopyInv`: a copy that no write has outdated, in the
  informer's store or in the loop, agrees with the object, so that the update the
  API server accepts changes only the addresses.
- `EndpointRestoreProofs!TypeCorrect`, `RestoredAddressesHeld`,
  `DirectoriesNotShared`, `QueueStaysDrained`: any number of pods, plugins and
  crashes, whatever CIDRs are known at the start. One inductive invariant `Inv`
  carries them: until the endpoints are exposed no ID is taken (`Early`); in each
  phase every state directory is accounted for, first by the plan and, once the
  others are removed, by an exposed endpoint, which is why a new endpoint cannot
  get the ID of an old directory (`OnDisk`); a pod that is not created yet has left
  no trace (`Untouched`); no plugin is about to write a file once the agent drains
  the queue (`NoWriter`).

- `PodCIDRsProofs!TypeCorrect`, `PoolsAccounted`: any environment and any CiliumNodes at
  the start. An attempt returns CIDRs that are free, one per family
  (`AttemptFacts`), so taking them keeps the entries disjoint, and a release
  clears what its entry has and nothing else.
- `PodCIDRsProofs!NoCIDRTwice`, `CIDRsNotTaken`: from `Orderly`. Neither property is
  inductive: a write is decided on a copy and carried out later. `OwnInv` says, of
  CiliumNodes that started sane, that each node has one set of CIDRs of its own and
  that no two nodes have one in common (`Owned`). The object, every copy of it and the
  event of the node have these CIDRs or none; the table and a queued update have just
  these. CIDRs the table does not know belong to nodes of the initial list that are
  still to come, and the table is complete once `Resync` lets the operator hand out
  new ones, so that a CIDR that is free in the bitmaps is in no object.

Only model-checked: `HostsHaveOwnIDs` with moving addresses, `NoOrphanedIP` when leases
run out early, and the liveness properties `AbandonedIPReturns`, `BrokenPodsHealed`,
`LostIDsComeBack`, `PawnsAdopted`, `PawnsServed`, `PawnsAddressed`, `DeletesTakeEffect`,
`PodsKeepEndpoints` and `NodesServed`, which are out of the prover's reach.

## 5. Not modelled

- Policy, load balancing, Hubble, cluster mesh and packet processing: upstream
  Cilium. So are the regeneration and the identities of endpoints.
- Kernel configuration (IPsec states, routes, interfaces) and logging.
- IPv6, for which the agent keeps the upstream allocator of a single CIDR, and the
  owner strings of the status output.
- The packet path of scale to zero (the trap, the wake event, a full ring buffer): a
  BPF program without state of its own besides the trigger map, which is in
  `ManagedIPAM`. What becomes of a wake event is up to periapsis, which is another
  program and, like perigeos, appears only as the environment.
- The watchdog's lookup of endpoints by address: `Watchdog` looks them up by pod, so
  a pod whose address already belongs to another pod's endpoint is left out.
- The index of the API server in use. A failed listing is retried against the
  next server, and nothing else depends on which one it is.
- In the operator: several CIDRs of one family per node, the annotation that makes it
  ignore a CiliumNode, and the other IPAM modes.
- The ipcache entries and tunnel overrides of the node manager, failing deletes of
  the node ID map, and errors of the file system under the deletion queue.
- The pods in the pod table are in `Watchdog`, the reflectors that fill it in
  `NodeWatcher`; the two are not composed.
