------------------------------ MODULE PodCIDRs ------------------------------
(***************************************************************************)
(* The operator's pod CIDR manager (operator/pkg/ipam/allocator/podcidr),  *)
(* the watch that drives it (operator/pkg/ipam/nodewatcher.go) and the API *)
(* server that keeps the CiliumNodes.  It is what gives the pawns of an    *)
(* agent the CIDRs that the managed-scope allocator serves from.           *)
(*                                                                         *)
(* The manager keeps the CIDRs of each node and the bitmaps of the CIDRs   *)
(* in use, and queues one write per CiliumNode, which a controller carries *)
(* out and repeats under optimistic concurrency.  The memory is rebuilt    *)
(* from the CiliumNodes after a crash: nodes without a CIDR wait until all *)
(* the others were seen.                                                   *)
(*                                                                         *)
(* A CiliumNode has at most one CIDR of each family.  resourceVersions are *)
(* not counted: a copy is current until somebody writes the object.  The   *)
(* handlers and the controller hold the mutex of the manager; a loop under *)
(* it is a sequence of steps that no other step of the manager interrupts, *)
(* while the API server, the other writers and the informer move on.       *)
(***************************************************************************)
EXTENDS Naturals, FiniteSets

CONSTANTS
  Node,       \* names of CiliumNodes
  Cidr,       \* pod CIDRs of both families
  Pool,       \* Pool[f]: the CIDRs of the allocators of family f, {} if disabled
  Start,      \* the contents of the API server the operator may start with
  Orderly,    \* a name is used again only once its deletion was handled
  None,
  MaxCrashes, \* how often the operator crashes
  MaxChurn,   \* how often others delete or write a CiliumNode
  MaxErrors   \* how often a call to the API server fails

Family == {"v4", "v6"}

\* The CIDRs in the spec of a CiliumNode.
CIDRs == [Family -> Cidr \cup {None}]

NoCIDRs == [f \in Family |-> None]

Enabled == {f \in Family : Pool[f] # {}}

\* CiliumNodes, copies of them, events of the watch, and queued writes.
Object == [cidrs : CIDRs, err : BOOLEAN]
Copies == [cidrs : CIDRs, err : BOOLEAN, current : BOOLEAN]
Events == [node : Node, obj : Copies \cup {None}]
Writes == [op : {"update", "written", "status", "delete"}, cidrs : CIDRs, err : BOOLEAN,
           current : BOOLEAN]

ASSUME PodCIDRsAssumption ==
  /\ Pool \in [Family -> SUBSET Cidr]
  /\ Enabled # {}
  /\ None \notin Cidr
  /\ {"fail", "dup"} \cap (Cidr \cup {None}) = {}
  /\ None \notin CIDRs \cup Object \cup Copies \cup Events \cup Writes
  /\ Start \subseteq [Node -> CIDRs \cup {None}]
  /\ Orderly \in BOOLEAN
  /\ MaxCrashes \in Nat /\ MaxChurn \in Nat /\ MaxErrors \in Nat

VARIABLES
  cn,         \* the CiliumNodes of the API server: CIDRs and error status, or None
  store,      \* the informer's copies of them
  dirty,      \* the names in the work queue of the watch
  initial,    \* those of the initial list that come before the Sync event
  event,      \* the event handed to watchCiliumNodes, or None
  canAllocatePodCIDRs,
  nodesToAllocate,  \* copies of the CiliumNodes that wait for Resync, or None
  nodes,      \* the CIDRs allocated for each node, or None
  used,       \* the bitmaps of the CIDR sets
  toK8s,      \* ciliumNodesToK8s: the write queued for each node, or None
  syncing,    \* the nodes the running syncToK8s has yet to visit
  crashes, churn, errors,
  sane        \* history: the first CiliumNodes were whole and distinct

apiVars == <<cn, store, dirty, initial, event>>
mgrVars == <<canAllocatePodCIDRs, nodesToAllocate, nodes, used>>
bounds  == <<crashes, churn, errors>>
vars == <<cn, store, dirty, initial, event, canAllocatePodCIDRs, nodesToAllocate,
          nodes, used, toK8s, syncing, crashes, churn, errors, sane>>

Exists == {n \in Node : cn[n] # None}

\* A copy of an object, for as long as nobody writes it.
Copy(o) == IF o = None THEN None ELSE [cidrs |-> o.cidrs, err |-> o.err, current |-> TRUE]

Outdated(c) == IF c = None THEN None ELSE [c EXCEPT !.current = FALSE]

Whole(c) == \A f \in Family : c[f] # None <=> f \in Enabled

\* The CiliumNodes have all CIDRs or none, and no CIDR twice.
Sane(o) ==
  \A n \in Node : o[n] # None =>
    /\ o[n] # NoCIDRs => Whole(o[n]) /\ \A f \in Enabled : o[n][f] \in Pool[f]
    /\ \A m \in Node \ {n}, f \in Enabled : o[m] # None /\ o[m][f] = o[n][f] => o[n][f] = None

Fresh ==
  /\ event = None
  /\ canAllocatePodCIDRs = FALSE
  /\ nodesToAllocate = [n \in Node |-> None]
  /\ nodes = [n \in Node |-> None]
  /\ used = [f \in Family |-> {}]
  /\ toK8s = [n \in Node |-> None]
  /\ syncing = {}

\* The operator starts with a list of the CiliumNodes.
Init ==
  /\ \E o \in Start :
       /\ cn = [n \in Node |-> IF o[n] = None THEN None ELSE [cidrs |-> o[n], err |-> FALSE]]
       /\ sane = Sane(o)
  /\ store = [n \in Node |-> Copy(cn[n])]
  /\ dirty = Exists
  /\ initial = Exists
  /\ crashes = 0 /\ churn = 0 /\ errors = 0
  /\ Fresh

(***************************************************************************)
(* The API server, its clients, and the informer.                          *)
(***************************************************************************)
\* An object is written: whatever copies there are, they are not current.
Write(n, o) ==
  /\ cn' = [cn EXCEPT ![n] = o]
  /\ store' = [store EXCEPT ![n] = Outdated(@)]
  /\ event' = IF event # None /\ event.node = n THEN [event EXCEPT !.obj = Outdated(@)]
              ELSE event
  /\ nodesToAllocate' = [nodesToAllocate EXCEPT ![n] = Outdated(@)]

\* An agent creates a CiliumNode without CIDRs.
CreateCiliumNode(n) ==
  /\ cn[n] = None
  /\ Orderly => store[n] = None /\ n \notin dirty /\ nodes[n] = None /\ event = None
  /\ Write(n, [cidrs |-> NoCIDRs, err |-> FALSE])
  /\ toK8s' = [toK8s EXCEPT ![n] = Outdated(@)]
  /\ UNCHANGED <<dirty, initial, canAllocatePodCIDRs, nodes, used, syncing, bounds, sane>>

DeleteCiliumNode(n) ==
  /\ cn[n] # None
  /\ churn < MaxChurn
  /\ churn' = churn + 1
  /\ Write(n, None)
  /\ toK8s' = [toK8s EXCEPT ![n] = Outdated(@)]
  /\ UNCHANGED <<dirty, initial, canAllocatePodCIDRs, nodes, used, syncing, crashes, errors, sane>>

\* Somebody writes other fields, such as the agent its addresses.
Touch(n) ==
  /\ cn[n] # None
  /\ churn < MaxChurn
  /\ churn' = churn + 1
  /\ Write(n, cn[n])
  /\ toK8s' = [toK8s EXCEPT ![n] = Outdated(@)]
  /\ UNCHANGED <<dirty, initial, canAllocatePodCIDRs, nodes, used, syncing, crashes, errors, sane>>

\* The informer brings its copy up to date and queues the name.
Reflect(n) ==
  /\ store[n] # Copy(cn[n])
  /\ store' = [store EXCEPT ![n] = Copy(cn[n])]
  /\ dirty' = dirty \cup {n}
  /\ UNCHANGED <<cn, initial, event, mgrVars, toK8s, syncing, bounds, sane>>

\* A name leaves the queue: the event has the object of this moment, or none.
Dispatch(n) ==
  /\ event = None
  /\ n \in dirty
  /\ dirty' = dirty \ {n}
  /\ initial' = initial \ {n}
  /\ event' = [node |-> n, obj |-> store[n]]
  /\ UNCHANGED <<cn, store, mgrVars, toK8s, syncing, bounds, sane>>

(***************************************************************************)
(* The manager.                                                            *)
(***************************************************************************)
\* The loop of Resync, or that of syncToK8s, has the mutex.
Resyncing == canAllocatePodCIDRs /\ \E n \in Node : nodesToAllocate[n] # None

Unlocked == ~Resyncing /\ syncing = {}

\* The CIDRs AllocateNext may return; which one is next is left open.
allocateFirstFreeCIDR(f) == IF Pool[f] \subseteq used[f] THEN {"fail"} ELSE Pool[f] \ used[f]

\* Mutant: the CIDR in the spec is not the one that is allocated.
allocateAnother(f, c) == allocateFirstFreeCIDR(f)

\* A full CIDR set is an error of its own, before the CIDR is looked up.
allocateIPNet(f, c) ==
  IF c \notin Pool[f] \/ Pool[f] \subseteq used[f] THEN {"fail"}
  ELSE IF c \in used[f] THEN {"dup"} ELSE {c}

\* A known node gets a CIDR of another family only after Resync, a new one at once.
mayAllocate(n, f) ==
  /\ f \in Enabled
  /\ nodes[n] = None \/ (nodes[n][f] = None /\ canAllocatePodCIDRs)

\* The outcome for one family: a CIDR, nothing to do, an error, or a conflict.
attempt(n, c, f) ==
  IF ~mayAllocate(n, f) THEN {None}
  ELSE IF c[f] # None THEN allocateIPNet(f, c[f]) ELSE allocateFirstFreeCIDR(f)

Attempts(n, c) ==
  {got \in [Family -> UNION {attempt(n, c, f) : f \in Family}] :
     \A f \in Family : got[f] \in attempt(n, c, f)}

\* Mutant: a family that failed is recorded as well.
entryOfAll(n, got) ==
  [f \in Family |-> IF got[f] # None THEN got[f]
                    ELSE IF nodes[n] = None THEN None ELSE nodes[n][f]]

\* What the node has once the CIDRs of an attempt are its own.
entry(n, got) ==
  [f \in Family |-> IF got[f] \in Cidr THEN got[f]
                    ELSE IF nodes[n] = None THEN None ELSE nodes[n][f]]

take(n, got) ==
  /\ nodes' = [nodes EXCEPT ![n] = entry(n, got)]
  /\ used' = [f \in Family |-> used[f] \cup ({got[f]} \cap Cidr)]

\* The write replaces the one that may be queued for the node.
syncNode(n, op, c, err, o) ==
  toK8s' = [toK8s EXCEPT ![n] = [op |-> op, cidrs |-> c, err |-> err, current |-> o.current]]

\* An error is reported in the status, along with the CIDRs if they differ.
report(n, c, o) == syncNode(n, IF c = o.cidrs THEN "status" ELSE "update", c, TRUE, o)

\* Mutant: nodes without CIDRs do not wait for the others.
atOnce == TRUE

\* New CIDRs may be given to nodes that have none.
allowed == canAllocatePodCIDRs

\* The node is kept until Resync.
postpone(n, o) ==
  /\ ~allowed
  /\ nodesToAllocate' = [nodesToAllocate EXCEPT ![n] = o]
  /\ UNCHANGED <<nodes, used, toK8s>>

\* The node does not, or no longer, wait for Resync.
settle(n) ==
  nodesToAllocate' = IF canAllocatePodCIDRs THEN [nodesToAllocate EXCEPT ![n] = None]
                     ELSE nodesToAllocate

\* A CiliumNode without CIDRs: those it has in memory, or new ones.
allocateNext(n, o) ==
  /\ allowed
  /\ \/ /\ nodes[n] # None
        /\ syncNode(n, "update", nodes[n], FALSE, o)
        /\ UNCHANGED <<nodes, used>>
     \/ /\ nodes[n] = None
        /\ \E got \in Attempts(n, NoCIDRs) :
             IF \E f \in Family : got[f] = "fail"
             THEN report(n, o.cidrs, o) /\ UNCHANGED <<nodes, used>>
             ELSE take(n, got) /\ syncNode(n, "update", entry(n, got), FALSE, o)
  /\ settle(n)

\* The CiliumNode asks for another CIDR than the one it has.
changes(n, c) ==
  nodes[n] # None /\ \E f \in Family : nodes[n][f] # None /\ c[f] \notin {None, nodes[n][f]}

\* Nothing is allocated: a family without allocators, another CIDR, an error, or
\* a conflict in both families.
rejected(n, c, got) ==
  \/ \E f \in Family \ Enabled : c[f] # None
  \/ changes(n, c)
  \/ \E f \in Family : got[f] = "fail"
  \/ \A f \in Family : got[f] = "dup"

\* A CiliumNode with CIDRs.  A conflict in one family leaves it without a CIDR
\* of that family.
reuseIPNets(n, o) ==
  \E got \in Attempts(n, o.cidrs) :
    IF rejected(n, o.cidrs, got)
    THEN /\ report(n, IF nodes[n] = None THEN o.cidrs ELSE nodes[n], o)
         /\ settle(n)
         /\ UNCHANGED <<nodes, used>>
    ELSE IF \E f \in Family : got[f] = "dup"
    THEN /\ take(n, got)
         /\ report(n, entry(n, got), o)
         /\ settle(n)
    ELSE IF \E f \in Family : got[f] \in Cidr
    THEN /\ take(n, got)
         /\ syncNode(n, "update", entry(n, got), FALSE, o)
         /\ settle(n)
    ELSE \/ postpone(n, o)
         \/ /\ canAllocatePodCIDRs
            /\ IF o.err THEN syncNode(n, "status", o.cidrs, FALSE, o) ELSE UNCHANGED toK8s
            /\ settle(n)
            /\ UNCHANGED <<nodes, used>>

upsertLocked(n, o) ==
  \/ o.cidrs = NoCIDRs /\ (postpone(n, o) \/ allocateNext(n, o))
  \/ o.cidrs # NoCIDRs /\ reuseIPNets(n, o)

Upsert(n) ==
  /\ Unlocked
  /\ event # None /\ event.node = n /\ event.obj # None
  /\ upsertLocked(n, event.obj)
  /\ event' = None
  /\ UNCHANGED <<cn, store, dirty, initial, canAllocatePodCIDRs, syncing, bounds, sane>>

\* Mutant: the bitmaps keep the CIDRs of the node.
keepBits(n) ==
  /\ nodes' = [nodes EXCEPT ![n] = None]
  /\ UNCHANGED used

\* The CIDRs of the node are free again.
releaseIPNets(n) ==
  /\ nodes' = [nodes EXCEPT ![n] = None]
  /\ used' = [f \in Family |-> used[f] \ {nodes[n][f]}]

\* The queued write of a deleted node is replaced by a look at the API server.
Delete(n) ==
  /\ Unlocked
  /\ event # None /\ event.node = n /\ event.obj = None
  /\ nodesToAllocate' = [nodesToAllocate EXCEPT ![n] = None]
  /\ IF nodes[n] # None
     THEN /\ releaseIPNets(n)
          /\ toK8s' = [toK8s EXCEPT ![n] = [op |-> "delete", cidrs |-> NoCIDRs, err |-> FALSE,
                                           current |-> FALSE]]
     ELSE UNCHANGED <<nodes, used, toK8s>>
  /\ event' = None
  /\ UNCHANGED <<cn, store, dirty, initial, canAllocatePodCIDRs, syncing, bounds, sane>>

\* The Sync event comes after every CiliumNode of the initial list.
Resync ==
  /\ Unlocked
  /\ ~canAllocatePodCIDRs
  /\ initial = {} /\ event = None
  /\ canAllocatePodCIDRs' = TRUE
  /\ UNCHANGED <<apiVars, nodesToAllocate, nodes, used, toK8s, syncing, bounds, sane>>

\* One turn of its loop over nodesToAllocate.
ResyncNode(n) ==
  /\ Resyncing
  /\ nodesToAllocate[n] # None
  /\ upsertLocked(n, nodesToAllocate[n])
  /\ UNCHANGED <<apiVars, canAllocatePodCIDRs, syncing, bounds, sane>>

(***************************************************************************)
(* The controller that writes to the API server.                           *)
(***************************************************************************)
StartSync ==
  /\ Unlocked
  /\ syncing' = {n \in Node : toK8s[n] # None}
  /\ syncing' # {}
  /\ UNCHANGED <<apiVars, mgrVars, toK8s, bounds, sane>>

\* A write that changes nothing leaves the version of the object alone.
put(n, o) == IF o = cn[n] THEN UNCHANGED <<cn, store, event, nodesToAllocate>> ELSE Write(n, o)

done(n) == toK8s' = [toK8s EXCEPT ![n] = None]

\* An update whose second write fails is an update the next time, too.
retried(op) == IF op = "written" THEN "update" ELSE op

\* After a conflict the queued CIDRs and status go on top of the latest version,
\* and the whole write is tried again.
conflict(n, op) == toK8s' = [toK8s EXCEPT ![n].current = TRUE, ![n].op = op]

\* The first write of an update, of the spec, and the second, of the status.  An
\* object that is gone is left to its deletion event.
UpdateSpec(n) ==
  /\ toK8s[n].op = "update"
  /\ \/ /\ cn[n] = None
        /\ done(n)
        /\ syncing' = syncing \ {n}
        /\ UNCHANGED <<cn, store, event, nodesToAllocate>>
     \/ /\ cn[n] # None /\ ~toK8s[n].current
        /\ conflict(n, "update")
        /\ syncing' = syncing \ {n}
        /\ UNCHANGED <<cn, store, event, nodesToAllocate>>
     \/ /\ cn[n] # None /\ toK8s[n].current
        /\ put(n, [cn[n] EXCEPT !.cidrs = toK8s[n].cidrs])
        /\ toK8s' = [toK8s EXCEPT ![n].op = "written"]
        /\ UNCHANGED syncing

UpdateStatus(n) ==
  /\ toK8s[n].op \in {"status", "written"}
  /\ \/ /\ cn[n] = None
        /\ done(n)
        /\ UNCHANGED <<cn, store, event, nodesToAllocate>>
     \/ /\ cn[n] # None /\ ~toK8s[n].current
        /\ conflict(n, retried(toK8s[n].op))
        /\ UNCHANGED <<cn, store, event, nodesToAllocate>>
     \/ /\ cn[n] # None /\ toK8s[n].current
        /\ put(n, [cn[n] EXCEPT !.err = toK8s[n].err])
        /\ done(n)
  /\ syncing' = syncing \ {n}

\* The deletion was seen already: the object is looked up for a warning only.
CheckDeleted(n) ==
  /\ toK8s[n].op = "delete"
  /\ done(n)
  /\ syncing' = syncing \ {n}
  /\ UNCHANGED <<cn, store, event, nodesToAllocate>>

\* Mutant: a write that failed is not queued again.
writeLost(n) ==
  /\ errors < MaxErrors
  /\ errors' = errors + 1
  /\ done(n)
  /\ syncing' = syncing \ {n}
  /\ UNCHANGED <<cn, store, event, nodesToAllocate>>

\* A call fails: the write stays queued.
SyncFails(n) ==
  /\ errors < MaxErrors
  /\ errors' = errors + 1
  /\ toK8s' = [toK8s EXCEPT ![n].op = retried(@)]
  /\ syncing' = syncing \ {n}
  /\ UNCHANGED <<cn, store, event, nodesToAllocate>>

\* One turn of the loop of syncToK8s; a turn with two writes is not interrupted.
syncToK8s(n) ==
  /\ n \in syncing
  /\ \A m \in syncing \ {n} : toK8s[m].op # "written"
  /\ \/ (UpdateSpec(n) \/ UpdateStatus(n) \/ CheckDeleted(n)) /\ UNCHANGED errors
     \/ SyncFails(n)
  /\ UNCHANGED <<dirty, initial, canAllocatePodCIDRs, nodes, used, crashes, churn, sane>>

\* The operator crashes; the next one lists the CiliumNodes.
Crash ==
  /\ crashes < MaxCrashes
  /\ crashes' = crashes + 1
  /\ store' = [n \in Node |-> Copy(cn[n])]
  /\ dirty' = Exists
  /\ initial' = Exists
  /\ event' = None
  /\ canAllocatePodCIDRs' = FALSE
  /\ nodesToAllocate' = [n \in Node |-> None]
  /\ nodes' = [n \in Node |-> None]
  /\ used' = [f \in Family |-> {}]
  /\ toK8s' = [n \in Node |-> None]
  /\ syncing' = {}
  /\ UNCHANGED <<cn, churn, errors, sane>>

Next ==
  \/ \E n \in Node :
       \/ CreateCiliumNode(n) \/ DeleteCiliumNode(n) \/ Touch(n) \/ Reflect(n) \/ Dispatch(n)
       \/ Upsert(n) \/ Delete(n) \/ ResyncNode(n) \/ syncToK8s(n)
  \/ Resync \/ StartSync \/ Crash

Spec == Init /\ [][Next]_vars

\* The watch, the handlers and the controller run on.
FairSpec ==
  /\ Spec
  /\ WF_vars(Resync) /\ WF_vars(StartSync)
  /\ \A n \in Node :
       /\ WF_vars(Reflect(n)) /\ WF_vars(Dispatch(n))
       /\ WF_vars(Upsert(n) \/ Delete(n) \/ ResyncNode(n))
       /\ WF_vars(syncToK8s(n))

(***************************************************************************)
(* Properties.                                                             *)
(***************************************************************************)
\* The objects, their copies and the manager's tables have their types: no
\* error or conflict of an attempt gets into an entry or a queued write.
TypeOK ==
  /\ cn \in [Node -> Object \cup {None}]
  /\ store \in [Node -> Copies \cup {None}]
  /\ dirty \subseteq Node /\ initial \subseteq dirty
  /\ event \in Events \cup {None}
  /\ canAllocatePodCIDRs \in BOOLEAN
  /\ nodesToAllocate \in [Node -> Copies \cup {None}]
  /\ nodes \in [Node -> CIDRs \cup {None}]
  /\ used \in [Family -> SUBSET Cidr]
  /\ toK8s \in [Node -> Writes \cup {None}]
  /\ syncing \subseteq {n \in Node : toK8s[n] # None}
  /\ crashes \in 0 .. MaxCrashes /\ churn \in 0 .. MaxChurn /\ errors \in 0 .. MaxErrors
  /\ sane \in BOOLEAN

\* The bitmaps and the table of nodes say the same: no CIDR has two owners, none
\* is lost in a revert or a release, and none is free while a node has it.
PoolAccounted ==
  \A f \in Family :
    /\ used[f] = {nodes[n][f] : n \in {m \in Node : nodes[m] # None}} \ {None}
    /\ \A n, m \in Node : n # m /\ nodes[n] # None /\ nodes[m] # None
                            => nodes[n][f] = None \/ nodes[n][f] # nodes[m][f]

\* No two CiliumNodes of the API server have a CIDR in common, across crashes,
\* conflicts, stale events and deletions.
CIDRsDistinct ==
  sane => \A n, m \in Exists, f \in Family :
            n # m /\ cn[n].cidrs[f] # None => cn[n].cidrs[f] # cn[m].cidrs[f]

\* A CIDR a CiliumNode has been given stays until the object is deleted.
CIDRsKept ==
  [][sane => \A n \in Node, f \in Family :
       cn[n] # None /\ cn'[n] # None /\ cn[n].cidrs[f] # None
         => cn'[n].cidrs[f] = cn[n].cidrs[f]]_vars

\* A CiliumNode that stays has its CIDRs, and no error, in the end.
NodesServed ==
  sane => \A n \in Node :
            <>[](cn[n] # None) => <>[](cn[n] # None /\ Whole(cn[n].cidrs) /\ ~cn[n].err)
=============================================================================
