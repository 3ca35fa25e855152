------------------------------ MODULE NodeIDs ------------------------------
(***************************************************************************)
(* Node IDs of the Linux datapath (pkg/datapath/linux/node_ids.go, node.go) *)
(* as the node manager drives them (pkg/node/manager/manager.go).           *)
(*                                                                          *)
(* Every node known to the agent gets a small ID, and every address of the  *)
(* node is mapped to it, in a BPF map and in memory.  A node that has an    *)
(* address in common with a node that has an ID gets the same ID: the pawns *)
(* of a physical host carry the host's CiliumInternalIP, so they share the  *)
(* ID of the host.  Deleting the CiliumNode of a pawn must leave the ID of  *)
(* its host alone; nodeDelete does that for the pawns this agent manages.   *)
(*                                                                          *)
(* The handlers run under the mutex of the handler, so each is one action;  *)
(* a loop over all nodes is a sequence of SyncNode steps that no other      *)
(* handler interrupts.  The BPF map is written before the memory, and a     *)
(* failed write leaves both alone, so nodeIDsByIPs stands for both; only    *)
(* the BPF map outlives a restart.  A crash in the middle of a handler has  *)
(* written some of the node's addresses: the state that failing writes and  *)
(* a Restart also reach.                                                    *)
(***************************************************************************)
EXTENDS Integers

CONSTANTS
    Node,          \* names of the CiliumNodes
    Local,         \* the node of this agent
    Host,          \* Host[n]: the physical machine of n
    IP,            \* node addresses
    AddrSets,      \* AddrSets[n]: the sets of addresses n's CiliumNode may list
    MaxID,         \* largest node ID (2^16 - 1 in the code)
    Orderly,       \* a pawn stays managed as long as its CiliumNode exists
    MaxRestarts,   \* bound on agent restarts
    MaxMapErrors,  \* bound on the updates with failing writes of the BPF map
    None           \* "the agent does not know this node"

ASSUME NodeIDsAssumption ==
    /\ Local \in Node
    /\ MaxID \in Nat \ {0}
    /\ MaxRestarts \in Nat
    /\ MaxMapErrors \in Nat
    /\ Orderly \in BOOLEAN
    /\ AddrSets \in [Node -> SUBSET (SUBSET IP)]
    /\ \A addrs \in SUBSET IP : None # addrs

VARIABLES
    nodes,         \* nodes[n]: addresses of n in the handler's nodes, or None
    nodeIDsByIPs,  \* ID of each address, NoID when it has none
    nodeIPsByIDs,  \* addresses of each ID
    pool,          \* idpool: the IDs that AllocateID may return
    managed,       \* the names nodeTypes.IsManaged accepts
    initialized,   \* NodeConfigurationChanged has run
    syncing,       \* nodes a loop over n.nodes has yet to update
    failed,        \* nodes whose latest update returned an error
    checkpoint,    \* nodes.json of the node manager
    restored,      \* nodes of the checkpoint not seen since the restart
    synced,        \* the initial listing is complete (NodeSync)
    restarts,
    errors

vars == <<nodes, nodeIDsByIPs, nodeIPsByIDs, pool, managed, initialized,
          syncing, failed, checkpoint, restored, synced, restarts, errors>>

NoID == 0
ID == NoID .. MaxID

Pawns == {n \in Node \ {Local} : Host[n] = Host[Local]}

Known == {n \in Node : nodes[n] # None}

Maps == [byIP |-> nodeIDsByIPs, byID |-> nodeIPsByIDs]

----------------------------------------------------------------------------
(* Helpers of node_ids.go.  A pair of maps m is the record of nodeIDsByIPs  *)
(* and nodeIPsByIDs.                                                        *)

\* setIPsByIDsMapping for every address that has an ID
reverse(byIP) == [i \in ID |-> {a \in IP : i # NoID /\ byIP[a] = i}]

IDsOf(addrs, m) == {m.byIP[a] : a \in addrs} \ {NoID}

mapNodeID(addrs, id, m) ==
    [byIP |-> [a \in IP |-> IF a \in addrs THEN id ELSE m.byIP[a]],
     byID |-> [m.byID EXCEPT ![id] = @ \cup addrs]]

\* Mutant: the reverse map keeps the address.
keepReverse(addrs, m) ==
    [byIP |-> [a \in IP |-> IF a \in addrs THEN NoID ELSE m.byIP[a]],
     byID |-> m.byID]

unmapNodeID(addrs, m) ==
    [byIP |-> [a \in IP |-> IF a \in addrs THEN NoID ELSE m.byIP[a]],
     byID |-> [i \in ID |-> m.byID[i] \ {a \in addrs : m.byIP[a] = i}]]

\* An address list that meets two IDs is inconsistent: all its addresses are
\* unmapped and the allocation starts again.
consistent(addrs, m) ==
    IF \E i, j \in IDsOf(addrs, m) : i # j THEN unmapNodeID(addrs, m) ELSE m

\* Mutant: an exhausted pool goes unnoticed.
uncheckedPool(addrs, m) ==
    IF IDsOf(addrs, m) # {} THEN IDsOf(addrs, m)
    ELSE IF pool # {} THEN pool ELSE {MaxID + 1}

\* The IDs the node may end up with.  AllocateID takes any ID of the pool
\* (iteration over a Go map) and NoID when the pool is empty.
idChoices(addrs, m) ==
    IF IDsOf(addrs, m) # {} THEN IDsOf(addrs, m)
    ELSE IF pool # {} THEN pool ELSE {NoID}

\* Mutant: the addresses a node no longer lists keep its ID.
keepOldIPs(old, new, m) == m

diffAndUnmapNodeIPs(old, new, m) == unmapNodeID(old \ new, m)

\* allocateIDForNode followed by diffAndUnmapNodeIPs(old, new), the part of
\* nodeUpdate that concerns node IDs.  lost: addresses whose map write fails.
nodeUpdate(n, old, new) ==
    LET m == consistent(new, Maps)
    IN \E id \in idChoices(new, m), lost \in SUBSET new :
         /\ lost # {} => id # NoID /\ errors < MaxMapErrors
         /\ LET allocated == IF id = NoID THEN m
                             ELSE mapNodeID(new \ lost, id, m)
                done == diffAndUnmapNodeIPs(old, new, allocated)
            IN /\ nodeIDsByIPs' = done.byIP
               /\ nodeIPsByIDs' = done.byID
         /\ pool' = IF IDsOf(new, m) = {} THEN pool \ {id} ELSE pool
         /\ errors' = IF lost = {} THEN errors ELSE errors + 1
         /\ failed' = IF id = NoID \/ lost # {} THEN failed \cup {n}
                      ELSE failed \ {n}

\* Mutant: the ID is not inserted into the pool again.
keepID(addrs) ==
    \E id \in IF IDsOf(addrs, Maps) = {} THEN {NoID} ELSE IDsOf(addrs, Maps) :
        LET m == unmapNodeID(nodeIPsByIDs[id], Maps)
        IN /\ nodeIDsByIPs' = m.byIP
           /\ nodeIPsByIDs' = m.byID
           /\ UNCHANGED pool

\* getNodeIDForNode returns the ID of the last address that has one: with
\* more than one, any of them, for the order of the addresses is left out.
\* The ID, NoID included, goes back into the pool.
deallocateIDForNode(addrs) ==
    \E id \in IF IDsOf(addrs, Maps) = {} THEN {NoID} ELSE IDsOf(addrs, Maps) :
        LET m == unmapNodeID(nodeIPsByIDs[id], Maps)
        IN /\ nodeIDsByIPs' = m.byIP
           /\ nodeIPsByIDs' = m.byID
           /\ pool' = pool \cup {id}

\* Mutant: every deleted node gives up its ID, as before the pawns' guard.
neverManaged(n) == FALSE

IsManaged(n) == n \in managed

\* nodeDelete, called with the addresses of the cached or the restored node
nodeDelete(n, addrs) ==
    IF initialized /\ ~IsManaged(n)
    THEN deallocateIDForNode(addrs)
    ELSE UNCHANGED <<nodeIDsByIPs, nodeIPsByIDs, pool>>

----------------------------------------------------------------------------
Init ==
    /\ nodes = [n \in Node |-> None]
    /\ nodeIDsByIPs = [a \in IP |-> NoID]
    /\ nodeIPsByIDs = [i \in ID |-> {}]
    /\ pool = 1 .. MaxID
    /\ managed = {Local}
    /\ initialized = FALSE
    /\ syncing = {}
    /\ failed = {}
    /\ checkpoint = [n \in Node |-> None]
    /\ restored = [n \in Node |-> None]
    /\ synced = FALSE
    /\ restarts = 0
    /\ errors = 0

\* The watch shows the CiliumNodes in the order of the API server, where an
\* address belongs to one machine at a time.
AddressesFree(n, addrs) ==
    \A k \in Known : Host[k] # Host[n] => addrs \cap nodes[k] = {}

NodeAdd(n, addrs) ==
    /\ syncing = {} /\ n \notin Known
    /\ AddressesFree(n, addrs)
    /\ Orderly /\ n \in Pawns => n \in managed
    /\ nodes' = [nodes EXCEPT ![n] = addrs]
    /\ IF initialized THEN nodeUpdate(n, {}, addrs)
       ELSE UNCHANGED <<nodeIDsByIPs, nodeIPsByIDs, pool, errors, failed>>
    /\ UNCHANGED <<managed, initialized, syncing, checkpoint, restored,
                   synced, restarts>>

NodeUpdate(n, addrs) ==
    /\ syncing = {} /\ n \in Known /\ addrs # nodes[n]
    /\ AddressesFree(n, addrs)
    /\ nodes' = [nodes EXCEPT ![n] = addrs]
    /\ IF initialized THEN nodeUpdate(n, nodes[n], addrs)
       ELSE UNCHANGED <<nodeIDsByIPs, nodeIPsByIDs, pool, errors, failed>>
    /\ UNCHANGED <<managed, initialized, syncing, checkpoint, restored,
                   synced, restarts>>

\* The manager never deletes its own node: a Kubernetes deletion of it does
\* not come from the source that owns the entry and stops the manager.
NodeDelete(n) ==
    /\ syncing = {} /\ n \in Known \ {Local}
    /\ nodes' = [nodes EXCEPT ![n] = None]
    /\ failed' = failed \ {n}
    /\ nodeDelete(n, nodes[n])
    /\ UNCHANGED <<managed, initialized, syncing, checkpoint, restored,
                   synced, restarts, errors>>

\* The manager's background sync revalidates one node at a time.
NodeValidateImplementation(n) ==
    /\ syncing = {} /\ initialized /\ n \in Known
    /\ nodeUpdate(n, {}, nodes[n])
    /\ UNCHANGED <<nodes, managed, initialized, syncing, checkpoint, restored,
                   synced, restarts>>

NodeConfigurationChanged ==
    /\ ~initialized
    /\ initialized' = TRUE
    /\ syncing' = Known
    /\ UNCHANGED <<nodes, nodeIDsByIPs, nodeIPsByIDs, pool, managed, failed,
                   checkpoint, restored, synced, restarts, errors>>

AllNodeValidateImplementation ==
    /\ initialized /\ syncing = {}
    /\ syncing' = Known
    /\ UNCHANGED <<nodes, nodeIDsByIPs, nodeIPsByIDs, pool, managed,
                   initialized, failed, checkpoint, restored, synced,
                   restarts, errors>>

\* One turn of the loops of the two actions above, in the order of a Go map.
SyncNode(n) ==
    /\ n \in syncing
    /\ nodeUpdate(n, {}, nodes[n])
    /\ syncing' = syncing \ {n}
    /\ UNCHANGED <<nodes, managed, initialized, checkpoint, restored, synced,
                   restarts>>

----------------------------------------------------------------------------
(* Managed names, checkpoint and restart.                                   *)

\* The node watcher sees the Kubernetes Node of a pawn.
Manage(n) ==
    /\ n \in Pawns \ managed
    /\ managed' = managed \cup {n}
    /\ UNCHANGED <<nodes, nodeIDsByIPs, nodeIPsByIDs, pool, initialized,
                   syncing, failed, checkpoint, restored, synced, restarts,
                   errors>>

\* The node watcher sees it deleted.  Its CiliumNode is a separate object.
Unmanage(n) ==
    /\ n \in Pawns \cap managed
    /\ Orderly => nodes[n] = None /\ checkpoint[n] = None /\ restored[n] = None
    /\ managed' = managed \ {n}
    /\ UNCHANGED <<nodes, nodeIDsByIPs, nodeIPsByIDs, pool, initialized,
                   syncing, failed, checkpoint, restored, synced, restarts,
                   errors>>

remoteNodes == [nodes EXCEPT ![Local] = None]

\* The checkpointer writes nodes.json some time after a change.
Checkpoint ==
    /\ checkpoint # remoteNodes
    /\ checkpoint' = remoteNodes
    /\ UNCHANGED <<nodes, nodeIDsByIPs, nodeIPsByIDs, pool, managed,
                   initialized, syncing, failed, restored, synced, restarts,
                   errors>>

\* Mutant: the IDs found in the BPF map stay in the pool.
fullPool(byIP) == 1 .. MaxID

registerNodeIDAllocations(byIP) == (1 .. MaxID) \ {byIP[a] : a \in IP}

\* Everything in memory is gone; the managed names are discovered again.
Restart ==
    /\ restarts < MaxRestarts
    /\ restarts' = restarts + 1
    /\ nodes' = [n \in Node |-> None]
    /\ nodeIPsByIDs' = reverse(nodeIDsByIPs)
    /\ pool' = registerNodeIDAllocations(nodeIDsByIPs)
    /\ \E names \in SUBSET Pawns :
          /\ Orderly => {n \in Pawns : checkpoint[n] # None} \subseteq names
          /\ managed' = names \cup {Local}
    /\ initialized' = FALSE
    /\ syncing' = {}
    /\ failed' = {}
    /\ restored' = [checkpoint EXCEPT ![Local] = None]
    /\ synced' = FALSE
    /\ UNCHANGED <<nodeIDsByIPs, checkpoint, errors>>

\* pruneClusterNodes up to the unlock: live nodes leave the restored ones.
NodeSync ==
    /\ ~synced
    /\ synced' = TRUE
    /\ restored' = [n \in Node |-> IF n \in Known THEN None ELSE restored[n]]
    /\ UNCHANGED <<nodes, nodeIDsByIPs, nodeIPsByIDs, pool, managed,
                   initialized, syncing, failed, checkpoint, restarts, errors>>

\* One turn of its loop, without the lock: a synthetic deletion that removes
\* the node from the handler's nodes whether or not it has come back.
pruneClusterNode(n) ==
    /\ synced /\ syncing = {} /\ restored[n] # None
    /\ nodes' = [nodes EXCEPT ![n] = None]
    /\ failed' = failed \ {n}
    /\ restored' = [restored EXCEPT ![n] = None]
    /\ nodeDelete(n, restored[n])
    /\ UNCHANGED <<managed, initialized, syncing, checkpoint, synced,
                   restarts, errors>>

Next ==
    \/ \E n \in Node :
          \/ \E addrs \in AddrSets[n] : NodeAdd(n, addrs)
          \/ \E addrs \in AddrSets[n] : NodeUpdate(n, addrs)
          \/ NodeDelete(n)
          \/ NodeValidateImplementation(n)
          \/ SyncNode(n)
          \/ Manage(n)
          \/ Unmanage(n)
          \/ pruneClusterNode(n)
    \/ NodeConfigurationChanged
    \/ AllNodeValidateImplementation
    \/ Checkpoint
    \/ Restart
    \/ NodeSync

Spec == Init /\ [][Next]_vars

\* The agent finishes its start-up, the loops under the mutex end, and the
\* background sync visits every node again and again.
Fairness ==
    /\ WF_vars(NodeConfigurationChanged)
    /\ \A n \in Node : WF_vars(SyncNode(n))
    /\ \A n \in Node : WF_vars(NodeValidateImplementation(n))

FairSpec == Spec /\ Fairness

----------------------------------------------------------------------------
(* Properties.                                                              *)

\* Every map, set and flag of the handler and of the manager has its type; in
\* particular an ID fits its width, and a loop only visits known nodes.
TypeOK ==
    /\ nodes \in [Node -> {None} \cup SUBSET IP]
    /\ nodeIDsByIPs \in [IP -> ID]
    /\ nodeIPsByIDs \in [ID -> SUBSET IP]
    /\ pool \subseteq ID
    /\ managed \subseteq Node
    /\ initialized \in BOOLEAN
    /\ syncing \subseteq Known
    /\ failed \subseteq Node
    /\ checkpoint \in [Node -> {None} \cup SUBSET IP]
    /\ restored \in [Node -> {None} \cup SUBSET IP]
    /\ synced \in BOOLEAN
    /\ restarts \in 0 .. MaxRestarts
    /\ errors \in 0 .. MaxMapErrors

\* nodeIPsByIDs is the inverse of nodeIDsByIPs and no ID in use is in the
\* pool.  deallocateNodeIDLocked unmaps the addresses nodeIPsByIDs lists and
\* then frees the ID: an address missing from the list would keep a freed ID.
IDsAccounted ==
    \A i \in 1 .. MaxID :
        /\ nodeIPsByIDs[i] = {a \in IP : nodeIDsByIPs[a] = i}
        /\ nodeIPsByIDs[i] # {} => i \notin pool

\* n has one ID and all its addresses are mapped to it.
Mapped(n) == \E i \in 1 .. MaxID : \A a \in nodes[n] : nodeIDsByIPs[a] = i

\* Once start-up is over, a known node whose latest update reported no error
\* keeps an ID for all its addresses, whatever other nodes are deleted: the
\* ID a pawn shares with its host survives the deletion of the pawn.
KnownNodesMapped ==
    initialized /\ syncing = {} =>
        \A n \in Known \ failed : Mapped(n)

\* Addresses of nodes of two machines never have the same ID: the datapath
\* would encrypt for, or route to, the wrong machine.
HostsHaveOwnIDs ==
    \A k, n \in Known :
        Host[k] # Host[n] =>
            IDsOf(nodes[k], Maps) \cap IDsOf(nodes[n], Maps) = {}

\* From some point on, no node is deleted.
DeletionsStop == <>[][\A n \in Node : nodes'[n] = None => nodes[n] = None]_vars

\* Once CiliumNodes are no longer deleted, every known node gets an ID for all
\* its addresses: nodeUpdate, repeated by the background sync, repairs the
\* mappings that the deletion of another node with the same address tore down.
LostIDsComeBack ==
    DeletionsStop =>
        \A n \in Node : n \in Known ~> (n \notin Known \/ Mapped(n))

=============================================================================
