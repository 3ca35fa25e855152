---------------------------- MODULE NodeWatcher ----------------------------
(***************************************************************************)
(* How an agent learns which nodes it manages, and what it does for each   *)
(* of them (pkg/k8s/tables/nodewatcher.go, pkg/ipam/ipam.go): discovery at *)
(* startup, the watch on Node objects that match the selector, the pod     *)
(* reflector of each node, the CiliumNode the agent creates for a pawn     *)
(* that has none, and the callback that gives the pawn's pod CIDR to the   *)
(* managed-scope allocator.                                                *)
(*                                                                         *)
(* The API server is part of the state: Node objects come and go, get      *)
(* their InternalIP after they were created, and the operator puts a pod   *)
(* CIDR into every CiliumNode.  A watch delivers an Added event for every  *)
(* object when it connects and loses what happens while it is down.  The   *)
(* list in SetManagedNames is always set from nw.known under nw.mu, so the *)
(* two are one variable.                                                   *)
(*                                                                         *)
(* Pawns come and go; the host stays, and the selector matches its Node or *)
(* does not.  The host has its CiliumNode and its CIDR from the start, so  *)
(* its Added events change nothing and are left out.                       *)
(***************************************************************************)
EXTENDS Naturals, FiniteSets, Sequences, SequencesExt

CONSTANTS
  Pawn,       \* names of the pawns of the host
  Local,      \* the node the agent runs on, nodeTypes.GetName()
  Cidr,       \* pod CIDRs the operator can assign
  None,
  MaxChurn,   \* how often Node and CiliumNode objects are deleted
  MaxErrors   \* how often a call to the API server fails

ASSUME NodeAssumption ==
  /\ IsFiniteSet(Pawn)
  /\ Local \notin Pawn
  /\ None \notin Pawn \cup Cidr
  /\ {"absent", "bare"} \cap Cidr = {}
  /\ MaxChurn \in Nat
  /\ MaxErrors \in Nat

VARIABLES
  hostMatches,\* the selector matches the Node of the host
  nodes,      \* the pawns whose Node object exists and matches the selector
  addressed,  \* those of them with an InternalIP
  cn,         \* their CiliumNodes: "absent", "bare" (no podCIDR) or the podCIDR
  churn, errors,
  boot,       \* how far the agent's startup has come
  known,      \* nw.known, which is also the list of SetManagedNames
  todo,       \* nodes the startup loop at hand still has to visit
  reflector,  \* the pod reflector of a node: "none", "listing" or "synced"
  connected,  \* the watch is established
  events,     \* what it has delivered and handleEvent has not seen
  handling,   \* the node handleAdded is at, with the CIDR its callback read
  ensuring,   \* goroutines of ensureCiliumNodeForManagedNode, by their stage
  callback,   \* the IPAM callback is registered
  allocator,  \* "none", "host" (newHostScopeAllocator) or "managed"
  sub         \* the CIDR of each node's sub-allocator, or None

apiVars   == <<hostMatches, nodes, addressed, cn, churn, errors>>
watchVars == <<known, reflector, connected, events, handling, ensuring>>
ipamVars  == <<callback, allocator, sub>>
vars == <<hostMatches, nodes, addressed, cn, churn, errors, boot, known, todo,
          reflector, connected, events, handling, ensuring, callback, allocator, sub>>

\* An empty list means the local node only.
GetManagedNames == IF known = {} THEN {Local} ELSE known

\* The state of a process that has just started.
Fresh ==
  /\ boot = "discover"
  /\ known = {}
  /\ todo = {}
  /\ reflector = [n \in Pawn |-> "none"]
  /\ connected = FALSE
  /\ events = <<>>
  /\ handling = None
  /\ ensuring = {}
  /\ callback = FALSE
  /\ allocator = "none"
  /\ sub = [n \in Pawn |-> None]

\* The agent starts with any set of pawns already there.
Init ==
  /\ hostMatches \in BOOLEAN
  /\ nodes \in SUBSET Pawn
  /\ addressed = nodes
  /\ cn = [n \in Pawn |-> "absent"]
  /\ churn = 0
  /\ errors = 0
  /\ Fresh

(***************************************************************************)
(* The API server, perigeos and the operator.                              *)
(***************************************************************************)
Deliver(kind, n) ==
  events' = IF connected THEN Append(events, <<kind, n>>) ELSE events

\* A Node object appears, or an existing one gets a label the selector matches.
CreateNode(n) ==
  /\ n \notin nodes
  /\ nodes' = nodes \cup {n}
  /\ \E s \in SUBSET {n} : addressed' = addressed \cup s
  /\ Deliver("added", n)
  /\ UNCHANGED <<hostMatches, cn, churn, errors, boot, known, todo, reflector, connected,
                 handling, ensuring, ipamVars>>

\* The InternalIP is added: a Modified event, which handleEvent ignores.
SetInternalIP(n) ==
  /\ n \in nodes \ addressed
  /\ addressed' = addressed \cup {n}
  /\ UNCHANGED <<hostMatches, nodes, cn, churn, errors, boot, todo, watchVars, ipamVars>>

DeleteNode(n) ==
  /\ n \in nodes
  /\ churn < MaxChurn
  /\ churn' = churn + 1
  /\ nodes' = nodes \ {n}
  /\ addressed' = addressed \ {n}
  /\ Deliver("deleted", n)
  /\ UNCHANGED <<hostMatches, cn, errors, boot, known, todo, reflector, connected, handling,
                 ensuring, ipamVars>>

DeleteCiliumNode(n) ==
  /\ cn[n] # "absent"
  /\ churn < MaxChurn
  /\ churn' = churn + 1
  /\ cn' = [cn EXCEPT ![n] = "absent"]
  /\ UNCHANGED <<hostMatches, nodes, addressed, errors, boot, todo, watchVars, ipamVars>>

\* The operator gives a CiliumNode without a CIDR one no CiliumNode has.
AssignCIDR(n, c) ==
  /\ cn[n] = "bare"
  /\ \A m \in Pawn : cn[m] # c
  /\ cn' = [cn EXCEPT ![n] = c]
  /\ UNCHANGED <<hostMatches, nodes, addressed, churn, errors, boot, todo, watchVars, ipamVars>>

\* A call to the API server fails.
ApiError == errors < MaxErrors /\ errors' = errors + 1

(***************************************************************************)
(* Startup.                                                                *)
(***************************************************************************)
\* discoverManagedNodesWithRetry: one List; a failure is retried against the
\* next API server and leaves everything as it was.
ListFails ==
  /\ boot = "discover"
  /\ ApiError
  /\ UNCHANGED <<hostMatches, nodes, addressed, cn, churn, boot, todo, watchVars, ipamVars>>

\* A terminal error, or five minutes without an answer: the agent exits.
DiscoveryFails ==
  /\ boot = "discover"
  /\ ApiError
  /\ boot' = "exited"
  /\ UNCHANGED <<hostMatches, nodes, addressed, cn, churn, todo, watchVars, ipamVars>>

\* No match falls back to the local node.
discoverManagedNodes ==
  /\ boot = "discover"
  /\ known' = IF hostMatches \/ nodes = {} THEN nodes \cup {Local} ELSE nodes
  /\ todo' = nodes
  /\ boot' = "ensure"
  /\ UNCHANGED <<apiVars, reflector, connected, events, handling, ensuring, ipamVars>>

\* A CiliumNode created from a Node carries its InternalIP and no CIDR; Create
\* of one that exists meanwhile is not an error.
created(n) == IF cn[n] = "absent" THEN "bare" ELSE cn[n]

\* ensureCiliumNodeFromAPI reads the CiliumNode and, if that fails, the Node; a
\* missing Node or InternalIP and any other error end it without a CiliumNode.
EnsureGet(n) ==
  /\ boot # "exited"
  /\ <<n, "get">> \in ensuring
  /\ \/ /\ cn[n] = "absent" /\ n \in addressed
        /\ ensuring' = (ensuring \ {<<n, "get">>}) \cup {<<n, "create">>}
        /\ UNCHANGED errors
     \/ /\ cn[n] # "absent" \/ n \notin addressed
        /\ ensuring' = ensuring \ {<<n, "get">>}
        /\ UNCHANGED errors
     \/ /\ ApiError
        /\ ensuring' = ensuring \ {<<n, "get">>}
  /\ UNCHANGED <<hostMatches, nodes, addressed, cn, churn, boot, known, todo, reflector,
                 connected, events, handling, ipamVars>>

EnsureCreate(n) ==
  /\ boot # "exited"
  /\ <<n, "create">> \in ensuring
  /\ ensuring' = ensuring \ {<<n, "create">>}
  /\ \/ /\ cn' = [cn EXCEPT ![n] = created(n)]
        /\ UNCHANGED errors
     \/ /\ ApiError
        /\ UNCHANGED cn
  /\ UNCHANGED <<hostMatches, nodes, addressed, churn, boot, known, todo, reflector,
                 connected, events, handling, ipamVars>>

\* The discovery loop runs ensureCiliumNodeFromAPI for one name after the other.
EnsureAtStart(n) ==
  /\ boot = "ensure"
  /\ n \in todo
  /\ ensuring = {}
  /\ todo' = todo \ {n}
  /\ ensuring' = {<<n, "get">>}
  /\ UNCHANGED <<apiVars, boot, known, reflector, connected, events, handling,
                 ipamVars>>

\* One reflector per name; the watch job may run from here on.
RegisterReflectors ==
  /\ boot = "ensure"
  /\ todo = {}
  /\ ensuring = {}
  /\ reflector' = [n \in Pawn |-> IF n \in known THEN "listing" ELSE "none"]
  /\ boot' = "running"
  /\ UNCHANGED <<apiVars, known, todo, connected, events, handling, ensuring, ipamVars>>

\* configureAllocator chooses the kind of allocator once, by the number of
\* managed names at this moment.
ChooseAllocator ==
  /\ boot = "running"
  /\ IF \E n, m \in GetManagedNames : n # m
     THEN /\ allocator' = "managed"
          /\ todo' = GetManagedNames \ {Local}
          /\ boot' = "fetch"
     ELSE /\ allocator' = "host"
          /\ boot' = "ready"
          /\ UNCHANGED todo
  /\ UNCHANGED <<apiVars, watchVars, callback, sub>>

\* Mutant: a CiliumNode without a CIDR is not skipped.
unchecked(n) == cn[n]

podCIDR(n) == IF cn[n] \in Cidr THEN cn[n] ELSE None

\* newManagedScopeAllocator: a CiliumNode that is missing, has no CIDR or cannot
\* be read is skipped.
FetchAtStart(n) ==
  /\ boot = "fetch"
  /\ n \in todo
  /\ todo' = todo \ {n}
  /\ \/ /\ sub' = [sub EXCEPT ![n] = podCIDR(n)]
        /\ UNCHANGED errors
     \/ /\ ApiError
        /\ UNCHANGED sub
  /\ UNCHANGED <<hostMatches, nodes, addressed, cn, churn, boot, watchVars, callback, allocator>>

RegisterNodeAddedCallback ==
  /\ boot = "fetch"
  /\ todo = {}
  /\ callback' = TRUE
  /\ boot' = "ready"
  /\ UNCHANGED <<apiVars, todo, watchVars, allocator, sub>>

\* The process is gone and the kubelet starts it again.
Restart ==
  /\ boot = "exited"
  /\ boot' = "discover"
  /\ known' = {}
  /\ todo' = {}
  /\ reflector' = [n \in Pawn |-> "none"]
  /\ connected' = FALSE
  /\ events' = <<>>
  /\ handling' = None
  /\ ensuring' = {}
  /\ callback' = FALSE
  /\ allocator' = "none"
  /\ sub' = [n \in Pawn |-> None]
  /\ UNCHANGED apiVars

(***************************************************************************)
(* The watch on Node objects.                                              *)
(***************************************************************************)
Running == boot \in {"running", "fetch", "ready"}

\* A new watch starts with an Added event for every object there is, in any
\* order; it is not compared with what the agent knows.
Connect ==
  /\ Running
  /\ ~connected
  /\ connected' = TRUE
  /\ \E order \in SetToSeqs(nodes) : events' = [i \in DOMAIN order |-> <<"added", order[i]>>]
  /\ UNCHANGED <<apiVars, boot, known, todo, reflector, handling, ensuring, ipamVars>>

\* The API server ends the watch, or the connection breaks; run starts a new
\* one after five seconds.
Disconnect ==
  /\ Running
  /\ connected
  /\ handling = None
  /\ connected' = FALSE
  /\ events' = <<>>
  /\ UNCHANGED <<apiVars, boot, known, todo, reflector, handling, ensuring, ipamVars>>

NextEvent(kind, n) ==
  /\ Running
  /\ handling = None
  /\ events # <<>>
  /\ Head(events) = <<kind, n>>
  /\ events' = Tail(events)

\* Mutant: callbacks hear of new nodes only.
notifyNew(n) == n \notin known

\* Callbacks hear of known nodes too.
notify(n) == TRUE

\* Mutant: only the nodes found at startup get a reflector.
noReflector(n) == reflector

\* A node that is new gets its reflector.
withReflector(n) == [reflector EXCEPT ![n] = IF n \in known THEN @ ELSE "listing"]

\* The critical section of handleAdded and the goroutine it starts.
handleAdded(n) ==
  /\ NextEvent("added", n)
  /\ n \in known \/ reflector[n] # "listing"
  /\ known' = known \cup {n}
  /\ reflector' = withReflector(n)
  /\ ensuring' = ensuring \cup {<<n, "get">>}
  /\ handling' = IF notify(n) THEN <<n, None>> ELSE None
  /\ UNCHANGED <<apiVars, boot, todo, connected, ipamVars>>

\* The first reflector of a node that left and came back is still waiting for
\* its initial list: RegisterInitializer panics on the second of that name.
ReflectorPanic(n) ==
  /\ NextEvent("added", n)
  /\ n \notin known
  /\ reflector[n] = "listing"
  /\ boot' = "exited"
  /\ UNCHANGED <<apiVars, known, todo, reflector, connected, handling, ensuring,
                 ipamVars>>

\* The node goes from the list; its reflector stays registered.
handleDeleted(n) ==
  /\ NextEvent("deleted", n)
  /\ known' = known \ {n}
  /\ UNCHANGED <<apiVars, boot, todo, reflector, connected, handling, ensuring,
                 ipamVars>>

\* fireNodeAdded and the read of addManagedNodeCIDR, in the goroutine of the
\* watch.  Without a callback or a CIDR, and on an error, it ends here.
fireNodeAdded(n) ==
  /\ Running
  /\ handling = <<n, None>>
  /\ \/ /\ handling' = IF callback /\ cn[n] \in Cidr THEN <<n, cn[n]>> ELSE None
        /\ UNCHANGED errors
     \/ /\ callback
        /\ ApiError
        /\ handling' = None
  /\ UNCHANGED <<hostMatches, nodes, addressed, cn, churn, boot, known, todo, reflector,
                 connected, events, ensuring, ipamVars>>

AddCIDR(n, c) ==
  /\ Running
  /\ handling = <<n, c>>
  /\ sub' = [sub EXCEPT ![n] = c]
  /\ handling' = None
  /\ UNCHANGED <<apiVars, boot, known, todo, reflector, connected, events, ensuring,
                 callback, allocator>>

\* The initial list of a reflector is in the pod table.
ReflectorSynced(n) ==
  /\ Running
  /\ reflector[n] = "listing"
  /\ reflector' = [reflector EXCEPT ![n] = "synced"]
  /\ UNCHANGED <<apiVars, boot, known, todo, connected, events, handling, ensuring,
                 ipamVars>>

AgentStep ==
  \/ discoverManagedNodes \/ RegisterReflectors \/ ChooseAllocator
  \/ RegisterNodeAddedCallback \/ Connect
  \/ \E n \in Pawn :
       \/ EnsureAtStart(n) \/ FetchAtStart(n) \/ EnsureGet(n) \/ EnsureCreate(n)
       \/ handleAdded(n) \/ ReflectorPanic(n) \/ handleDeleted(n)
       \/ fireNodeAdded(n) \/ ReflectorSynced(n)
       \/ \E c \in Cidr : AddCIDR(n, c)

EnvStep ==
  \/ ListFails \/ DiscoveryFails \/ Disconnect
  \/ \E n \in Pawn :
       \/ CreateNode(n) \/ SetInternalIP(n) \/ DeleteNode(n) \/ DeleteCiliumNode(n)
       \/ \E c \in Cidr : AssignCIDR(n, c)

Next == AgentStep \/ EnvStep \/ Restart

Spec == Init /\ [][Next]_vars

\* The goroutines of the agent run on; the kubelet restarts an agent that
\* exited; the operator serves every CiliumNode; the API server ends watches
\* from time to time, but lets them last long enough to deliver events.
Fairness ==
  /\ WF_vars(\/ discoverManagedNodes \/ RegisterReflectors \/ ChooseAllocator
             \/ RegisterNodeAddedCallback \/ Restart
             \/ \E n \in Pawn : EnsureAtStart(n) \/ FetchAtStart(n))
  /\ WF_vars(Connect)
  /\ WF_vars(Disconnect)
  /\ \A n \in Pawn :
       /\ WF_vars(EnsureGet(n)) /\ WF_vars(EnsureCreate(n))
       /\ SF_vars(handleAdded(n) \/ ReflectorPanic(n))
       /\ SF_vars(handleDeleted(n))
       /\ WF_vars(fireNodeAdded(n) \/ \E c \in Cidr : AddCIDR(n, c))
       /\ WF_vars(ReflectorSynced(n))
       /\ WF_vars(\E c \in Cidr : AssignCIDR(n, c))

(***************************************************************************)
(* Properties.                                                             *)
(***************************************************************************)
\* The type invariant: only a pod CIDR becomes a sub-allocator, only a pawn that
\* is there has an address, and the agent's state has its type.
TypeOK ==
  /\ hostMatches \in BOOLEAN
  /\ nodes \subseteq Pawn /\ addressed \subseteq nodes
  /\ cn \in [Pawn -> Cidr \cup {"absent", "bare"}]
  /\ churn \in 0 .. MaxChurn /\ errors \in 0 .. MaxErrors
  /\ boot \in {"discover", "ensure", "running", "fetch", "ready", "exited"}
  /\ known \subseteq Pawn \cup {Local} /\ todo \subseteq Pawn
  /\ reflector \in [Pawn -> {"none", "listing", "synced"}]
  /\ connected \in BOOLEAN
  /\ events \in Seq({"added", "deleted"} \X Pawn)
  /\ handling \in (Pawn \X (Cidr \cup {None})) \cup {None}
  /\ ensuring \subseteq Pawn \X {"get", "create"}
  /\ callback \in BOOLEAN
  /\ allocator \in {"none", "host", "managed"}
  /\ sub \in [Pawn -> Cidr \cup {None}]

\* A node that stays in the cluster is in the end managed for good, and its pods
\* are in the pod table, whatever watches broke and whatever the agent's panics.
PawnsAdopted ==
  \A n \in Pawn : <>[](n \in nodes) => <>[](n \in known /\ reflector[n] = "synced")

\* With the managed-scope allocator, a pawn that stays and has an address gets a
\* CiliumNode and a CIDR, and the allocator has that CIDR in the end, even if
\* the CIDR came after the pawn's Added event or the CiliumNode was made anew.
PawnsServed ==
  \A n \in Pawn :
    <>[](n \in addressed /\ allocator = "managed")
      => <>[](cn[n] \in Cidr /\ sub[n] = cn[n])
=============================================================================
