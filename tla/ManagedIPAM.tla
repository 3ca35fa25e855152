---------------------------- MODULE ManagedIPAM ----------------------------
(***************************************************************************)
(* The agent's IPv4 address management on a host that serves several       *)
(* virtual nodes ("pawns"): the managed-scope allocator (one bitmap per    *)
(* pawn, pkg/ipam/managed_scope.go) under the lease layer of               *)
(* pkg/ipam/allocator.go, driven by concurrent CNI ADD and DEL requests.   *)
(*                                                                         *)
(* A request r \in Req is one CNI ADD (or one direct POST /ipam/{ip}) with *)
(* everything that follows from it.  The uuid of its lease, drawn fresh by *)
(* StartExpirationTimer, is the identity of the request.  Every action is  *)
(* one critical section of the agent; between two actions of a request any *)
(* other request may run.                                                  *)
(***************************************************************************)
EXTENDS Naturals, Sequences

CONSTANTS
  Node,             \* the managed node names, which are also the pool names
  Primary,          \* the infrastructure node, primaryNode in the code
  Default,          \* PoolDefault(), the pool of a request that names none
  Cidr,             \* the pod CIDRs the operator hands to CiliumNodes
  IP,               \* addresses
  AddrsOf,          \* the usable addresses of each CIDR
  Excluded,         \* addresses given to ExcludeIP under PoolDefault()
  Req,              \* CNI ADD invocations and direct allocations
  None,
  Prompt,           \* no CNI ADD outlives its lease or overlaps its own DEL
  StableCidrs,      \* no CiliumNode is deleted, so no CIDR changes hands
  MaxClearFailures  \* how often the BPF map delete of Clear may fail

Pool == Node \cup {Default}

ASSUME ConstantsAssumption ==
  /\ Primary \in Node
  /\ Default \notin Node
  /\ None \notin Pool \cup Cidr \cup IP \cup Req
  /\ AddrsOf \in [Cidr -> SUBSET IP]
  /\ Excluded \subseteq IP
  /\ Prompt \in BOOLEAN
  /\ StableCidrs \in BOOLEAN
  /\ MaxClearFailures \in Nat

\* The operator cuts the cluster CIDR into blocks, so distinct pod CIDRs are
\* disjoint.
ASSUME CidrsDisjoint ==
  \A c, d \in Cidr : c # d => AddrsOf[c] \cap AddrsOf[d] = {}

VARIABLES
  cnCIDR,     \* podCIDR in each CiliumNode at the API server, None if absent
  fetched,    \* the node and CIDR addManagedNodeCIDR has read, not yet added
  subs,       \* the ordered list of sub-allocators, by node name
  allocCIDR,  \* subByNode: the CIDR of each node's sub-allocator, or None
  allocated,  \* the bitmap of each node's sub-allocator
  owner,      \* owner[pool][ip]
  timers,     \* expirationTimers[pool][ip]: the uuid, or None
  pc,         \* how far each request has come
  ip, from,   \* the address of a request and the pool name it came back with
  cleanup,    \* the CNI's own release of its address after an error
  del,        \* the CNI DEL of the request
  exposed,    \* the endpoint of the request is in the endpoint manager
  byIP,       \* endpointsAux: the endpoint found under an address
  armed,      \* scale-to-zero trigger: the request it was armed for, or None
  clearFailures

ipamVars == <<subs, allocCIDR, allocated, owner, timers>>
epVars   == <<exposed, byIP>>
stzVars  == <<armed, clearFailures>>
apiVars  == <<cnCIDR, fetched>>
reqVars  == <<pc, ip, from, cleanup, del>>
vars     == <<cnCIDR, fetched, subs, allocCIDR, allocated, owner, timers, pc, ip,
              from, cleanup, del, exposed, byIP, armed, clearFailures>>

PC == {"idle", "allocated", "undo", "leased", "checked", "added", "live",
       "static", "failed"}

(***************************************************************************)
(* The managed-scope allocator.                                            *)
(***************************************************************************)
Covers(n, a) == allocCIDR[n] # None /\ a \in AddrsOf[allocCIDR[n]]

\* The positions of the sub-allocators whose CIDR contains a.
Positions(a) == {i \in 1 .. Len(subs) : Covers(subs[i], a)}

\* The first sub-allocator in list order whose CIDR contains a.
findSubForIP(a) ==
  IF Positions(a) = {} THEN None
  ELSE subs[CHOOSE i \in Positions(a) : \A j \in Positions(a) : i <= j]

\* An unknown pool, and the default pool, fall back to the primary node.
resolvePool(p) == IF p \in Node /\ allocCIDR[p] # None THEN p ELSE Primary

\* Mutant: the bitmap is not consulted.
wholeCIDR(n) == AddrsOf[allocCIDR[n]]

Free(n) == AddrsOf[allocCIDR[n]] \ allocated[n]

\* removeCIDRLocked: drop the first list entry of node n.
Without(s, n) ==
  IF \E i \in 1 .. Len(s) : s[i] = n
  THEN LET i == CHOOSE k \in 1 .. Len(s) :
                  s[k] = n /\ \A j \in 1 .. (k - 1) : s[j] # n
       IN  SubSeq(s, 1, i - 1) \o SubSeq(s, i + 1, Len(s))
  ELSE s

\* Mutant: a changed CIDR is appended and the old list entry is kept.
keepOldSub(n) == Append(subs, n)

\* The list of sub-allocators after AddCIDR(n, .) with a new CIDR.
replaceSub(n) == Append(Without(subs, n), n)

\* excludedIPs is keyed by pool:ip and filled under the default pool only.
isIPExcluded(a, p) == p = Default /\ a \in Excluded

\* Mutant: the bit is never cleared.
keepBit(a) == allocated

\* The address goes back to the bitmap of the sub-allocator found by address;
\* the pool argument is not consulted.
releaseBit(a) ==
  IF findSubForIP(a) = None THEN allocated
  ELSE [allocated EXCEPT ![findSubForIP(a)] = @ \ {a}]

(***************************************************************************)
(* The lease layer.                                                        *)
(***************************************************************************)
\* Mutant: the scale-to-zero hook is missing.
noClear(a) == UNCHANGED stzVars

\* Purge the trigger of a.  A failure of the map delete is only logged.
clearScaleToZeroState(a) ==
  \/ /\ armed' = [armed EXCEPT ![a] = None]
     /\ UNCHANGED clearFailures
  \/ /\ armed[a] # None
     /\ clearFailures < MaxClearFailures
     /\ clearFailures' = clearFailures + 1
     /\ UNCHANGED armed

\* releaseIPLocked: the bitmap, the owner, the trigger and the lease timer.
releaseIPLocked(a, p) ==
  /\ allocated' = releaseBit(a)
  /\ owner' = [owner EXCEPT ![p][a] = None]
  /\ clearScaleToZeroState(a)
  /\ timers' = [timers EXCEPT ![p][a] = None]
  /\ UNCHANGED <<subs, allocCIDR>>

\* The owner entries after allocating a for r and skipping the addresses of X.
registerIPOwner(r, p, a, X) ==
  [owner EXCEPT ![p] = [b \in IP |-> IF b \in X \cup {a} THEN r ELSE owner[p][b]]]

Init ==
  /\ \E c \in Cidr :
       /\ cnCIDR = [n \in Node |-> IF n = Primary THEN c ELSE None]
       /\ allocCIDR = [n \in Node |-> IF n = Primary THEN c ELSE None]
  /\ fetched = None
  /\ subs = <<Primary>>
  /\ allocated = [n \in Node |-> {}]
  /\ owner = [p \in Pool |-> [a \in IP |-> None]]
  /\ timers = [p \in Pool |-> [a \in IP |-> None]]
  /\ pc = [r \in Req |-> "idle"]
  /\ ip = [r \in Req |-> None]
  /\ from = [r \in Req |-> None]
  /\ cleanup = [r \in Req |-> "no"]
  /\ del = [r \in Req |-> "no"]
  /\ exposed = [r \in Req |-> FALSE]
  /\ byIP = [a \in IP |-> None]
  /\ armed = [a \in IP |-> None]
  /\ clearFailures = 0

(***************************************************************************)
(* CiliumNodes and the node-added callback.  At startup                    *)
(* newManagedScopeAllocator runs the same fetch and add for every managed  *)
(* name, before the first request.                                         *)
(***************************************************************************)
\* The operator gives a CiliumNode without a CIDR one no CiliumNode has.
AssignCIDR(n, c) ==
  /\ cnCIDR[n] = None
  /\ \A m \in Node : cnCIDR[m] # c
  /\ cnCIDR' = [cnCIDR EXCEPT ![n] = c]
  /\ UNCHANGED <<fetched, ipamVars, reqVars, epVars, stzVars>>

\* A pawn's CiliumNode is deleted and the operator releases its CIDR.
DeleteCiliumNode(n) ==
  /\ ~StableCidrs
  /\ n # Primary
  /\ cnCIDR[n] # None
  /\ cnCIDR' = [cnCIDR EXCEPT ![n] = None]
  /\ UNCHANGED <<fetched, ipamVars, reqVars, epVars, stzVars>>

\* addManagedNodeCIDR reads the CiliumNode; a missing one or one without an
\* IPv4 CIDR is skipped.
FetchCiliumNode(n) ==
  /\ fetched = None
  /\ cnCIDR[n] # None
  /\ fetched' = <<n, cnCIDR[n]>>
  /\ UNCHANGED <<cnCIDR, ipamVars, reqVars, epVars, stzVars>>

\* The sub-allocator of n for CIDR c, unless it is there already.
AddCIDR(n, c) ==
  IF allocCIDR[n] = c
  THEN UNCHANGED <<subs, allocCIDR, allocated>>
  ELSE /\ subs' = replaceSub(n)
       /\ allocCIDR' = [allocCIDR EXCEPT ![n] = c]
       /\ allocated' = [allocated EXCEPT ![n] = {}]

addManagedNodeCIDR ==
  /\ fetched # None
  /\ AddCIDR(fetched[1], fetched[2])
  /\ fetched' = None
  /\ UNCHANGED <<cnCIDR, owner, timers, reqVars, epVars, stzVars>>

(***************************************************************************)
(* POST /ipam: allocate, then start the lease timer in a second critical   *)
(* section.                                                                *)
(***************************************************************************)
AllocateNextFamily(r, p) ==
  LET n == resolvePool(p)
  IN  /\ pc[r] = "idle"
      /\ \E a \in Free(n), X \in SUBSET {b \in Free(n) : isIPExcluded(b, p)} :
           /\ ~isIPExcluded(a, p)
           /\ allocated' = [allocated EXCEPT ![n] = @ \cup X \cup {a}]
           /\ owner' = registerIPOwner(r, p, a, X)
           /\ clearScaleToZeroState(a)
           /\ ip' = [ip EXCEPT ![r] = a]
      /\ from' = [from EXCEPT ![r] = n]
      /\ pc' = [pc EXCEPT ![r] = "allocated"]
      /\ UNCHANGED <<apiVars, subs, allocCIDR, timers, cleanup, del, epVars>>

\* The pool is exhausted; excluded addresses met on the way stay allocated.
PoolExhausted(r, p) ==
  LET n == resolvePool(p)
  IN  /\ pc[r] = "idle"
      /\ \A b \in Free(n) : isIPExcluded(b, p)
      /\ allocated' = [allocated EXCEPT ![n] = @ \cup Free(n)]
      /\ owner' = [owner EXCEPT ![p] =
                     [b \in IP |-> IF b \in Free(n) THEN r ELSE owner[p][b]]]
      /\ pc' = [pc EXCEPT ![r] = "failed"]
      /\ cleanup' = [cleanup EXCEPT ![r] = "done"]
      /\ UNCHANGED <<apiVars, subs, allocCIDR, timers, ip, from, del, epVars, stzVars>>

\* Mutants: the lease timer is not registered; it is registered without a uuid.
noTimer(r) == timers
noUuid(r) == [timers EXCEPT ![from[r]][ip[r]] = ip[r]]

leaseTimer(r) == [timers EXCEPT ![from[r]][ip[r]] = r]

StartExpirationTimer(r) ==
  /\ pc[r] = "allocated"
  /\ \/ /\ timers[from[r]][ip[r]] = None
        /\ timers' = leaseTimer(r)
        /\ pc' = [pc EXCEPT ![r] = "leased"]
     \/ /\ timers[from[r]][ip[r]] # None
        /\ pc' = [pc EXCEPT ![r] = "undo"]
        /\ UNCHANGED timers
  /\ UNCHANGED <<apiVars, subs, allocCIDR, allocated, owner, ip, from, cleanup, del,
                 epVars, stzVars>>

\* AllocateNextWithExpiration gives the address back when the timer could not
\* be registered.
UndoAllocation(r) ==
  /\ pc[r] = "undo"
  /\ releaseIPLocked(ip[r], from[r])
  /\ pc' = [pc EXCEPT ![r] = "failed"]
  /\ cleanup' = [cleanup EXCEPT ![r] = "done"]
  /\ UNCHANGED <<apiVars, ip, from, del, epVars>>

\* The lease ran out and is still the one registered for the address.
Expire(r) ==
  /\ pc[r] # "idle"
  /\ ip[r] # None
  /\ timers[from[r]][ip[r]] = r
  /\ Prompt => pc[r] = "failed" /\ cleanup[r] = "done"
  /\ releaseIPLocked(ip[r], from[r])
  /\ UNCHANGED <<apiVars, reqVars, epVars>>

\* POST /ipam/{ip}, router and restored addresses: a specific address, no lease.
AllocateIP(r, a, p) ==
  LET s == findSubForIP(a)
  IN  /\ pc[r] = "idle"
      /\ ~isIPExcluded(a, p)
      /\ s # None
      /\ a \notin allocated[s]
      /\ allocated' = [allocated EXCEPT ![s] = @ \cup {a}]
      /\ owner' = registerIPOwner(r, p, a, {})
      /\ clearScaleToZeroState(a)
      /\ ip' = [ip EXCEPT ![r] = a]
      /\ from' = [from EXCEPT ![r] = p]
      /\ pc' = [pc EXCEPT ![r] = "static"]
      /\ UNCHANGED <<apiVars, subs, allocCIDR, timers, cleanup, del, epVars>>

(***************************************************************************)
(* The CNI plugin and CreateEndpoint.                                      *)
(***************************************************************************)
\* The plugin fails between the address and the endpoint.
CniFail(r) ==
  /\ pc[r] = "leased"
  /\ pc' = [pc EXCEPT ![r] = "failed"]
  /\ UNCHANGED <<apiVars, ipamVars, ip, from, cleanup, del, epVars, stzVars>>

\* The plugin dies, or never gets the answer: nobody cleans up.
CniDie(r) ==
  /\ pc[r] \in {"leased", "failed"}
  /\ cleanup[r] = "no"
  /\ pc' = [pc EXCEPT ![r] = "failed"]
  /\ cleanup' = [cleanup EXCEPT ![r] = "done"]
  /\ UNCHANGED <<apiVars, ipamVars, ip, from, del, epVars, stzVars>>

\* Mutant: CreateEndpoint does not look up the address.
addressUnchecked(r) == FALSE

addressTaken(r) == byIP[ip[r]] # None

\* CreateEndpoint refuses an address another endpoint is found under.
CheckEndpoint(r) ==
  /\ pc[r] = "leased"
  /\ pc' = [pc EXCEPT ![r] = IF addressTaken(r) THEN "failed" ELSE "checked"]
  /\ UNCHANGED <<apiVars, ipamVars, ip, from, cleanup, del, epVars, stzVars>>

AddEndpoint(r) ==
  /\ pc[r] = "checked"
  /\ exposed' = [exposed EXCEPT ![r] = TRUE]
  /\ byIP' = [byIP EXCEPT ![ip[r]] = r]
  /\ pc' = [pc EXCEPT ![r] = "added"]
  /\ UNCHANGED <<apiVars, ipamVars, ip, from, cleanup, del, stzVars>>

\* The index entry of the address goes, whichever endpoint it points to.
unexpose(r) ==
  /\ exposed' = [exposed EXCEPT ![r] = FALSE]
  /\ byIP' = [byIP EXCEPT ![ip[r]] = None]

\* AddEndpoint, the regeneration or the request context failed.
errorDuringCreation(r) ==
  /\ pc[r] \in {"checked", "added"}
  /\ unexpose(r)
  /\ pc' = [pc EXCEPT ![r] = "failed"]
  /\ UNCHANGED <<apiVars, ipamVars, ip, from, cleanup, del, stzVars>>

ownTimer(r) == timers[from[r]][ip[r]] = r

StopExpirationTimer(r) ==
  /\ pc[r] = "added"
  /\ \/ /\ ownTimer(r)
        /\ timers' = [timers EXCEPT ![from[r]][ip[r]] = None]
        /\ pc' = [pc EXCEPT ![r] = "live"]
        /\ UNCHANGED epVars
     \/ /\ ~ownTimer(r)
        /\ unexpose(r)
        /\ pc' = [pc EXCEPT ![r] = "failed"]
        /\ UNCHANGED timers
  /\ UNCHANGED <<apiVars, subs, allocCIDR, allocated, owner, ip, from, cleanup, del,
                 stzVars>>

(***************************************************************************)
(* DELETE /ipam/{ip}: look for an endpoint, then release.                  *)
(***************************************************************************)
\* Mutant: the handler does not look for an endpoint.
neverInUse(a) == FALSE

inUse(a) == byIP[a] # None

DeleteIpamCheck(r) ==
  /\ pc[r] \in {"failed", "live", "static"}
  /\ cleanup[r] = "no"
  /\ Prompt => del[r] = "no"
  /\ cleanup' = [cleanup EXCEPT ![r] = IF inUse(ip[r]) THEN "done" ELSE "checked"]
  /\ UNCHANGED <<apiVars, ipamVars, pc, ip, from, del, epVars, stzVars>>

DeleteIpamRelease(r) ==
  /\ cleanup[r] = "checked"
  /\ releaseIPLocked(ip[r], from[r])
  /\ cleanup' = [cleanup EXCEPT ![r] = "done"]
  /\ pc' = [pc EXCEPT ![r] = IF @ = "static" THEN "failed" ELSE @]
  /\ UNCHANGED <<apiVars, ip, from, del, epVars>>

(***************************************************************************)
(* CNI DEL: take the endpoint out of the manager, then release its IP.     *)
(***************************************************************************)
DeleteEndpoint(r) ==
  /\ exposed[r]
  /\ del[r] = "no"
  /\ Prompt => pc[r] = "live" /\ cleanup[r] # "checked"
  /\ unexpose(r)
  /\ del' = [del EXCEPT ![r] = "removing"]
  /\ UNCHANGED <<apiVars, ipamVars, pc, ip, from, cleanup, stzVars>>

EndpointDeleted(r) ==
  /\ del[r] = "removing"
  /\ releaseIPLocked(ip[r], from[r])
  /\ del' = [del EXCEPT ![r] = "done"]
  /\ UNCHANGED <<apiVars, pc, ip, from, cleanup, epVars>>

\* periapsis arms the trigger of a pod it has idled, at the latest while the
\* pod is being removed.
ArmTrigger(r) ==
  /\ pc[r] = "live"
  /\ del[r] # "done"
  /\ armed' = [armed EXCEPT ![ip[r]] = r]
  /\ UNCHANGED <<apiVars, ipamVars, reqVars, epVars, clearFailures>>

Next ==
  \/ \E n \in Node, c \in Cidr : AssignCIDR(n, c)
  \/ \E n \in Node : DeleteCiliumNode(n) \/ FetchCiliumNode(n)
  \/ addManagedNodeCIDR
  \/ \E r \in Req, p \in Pool : AllocateNextFamily(r, p) \/ PoolExhausted(r, p)
  \/ \E r \in Req, p \in Pool, a \in IP : AllocateIP(r, a, p)
  \/ \E r \in Req :
       \/ StartExpirationTimer(r) \/ UndoAllocation(r) \/ Expire(r)
       \/ CniFail(r) \/ CniDie(r)
       \/ CheckEndpoint(r) \/ AddEndpoint(r) \/ errorDuringCreation(r)
       \/ StopExpirationTimer(r)
       \/ DeleteIpamCheck(r) \/ DeleteIpamRelease(r)
       \/ DeleteEndpoint(r) \/ EndpointDeleted(r)
       \/ ArmTrigger(r)

Spec == Init /\ [][Next]_vars

\* Handlers of the agent that have started run on, and lease timers fire; a CNI
\* plugin may stop at any point.
FairSpec ==
  /\ Spec
  /\ \A r \in Req : /\ WF_vars(StartExpirationTimer(r))
                    /\ WF_vars(UndoAllocation(r))
                    /\ WF_vars(Expire(r))

(***************************************************************************)
(* Properties.                                                             *)
(***************************************************************************)
\* Every variable keeps its type.
TypeOK ==
  /\ cnCIDR \in [Node -> Cidr \cup {None}]
  /\ fetched \in (Node \X Cidr) \cup {None}
  /\ subs \in Seq(Node)
  /\ allocCIDR \in [Node -> Cidr \cup {None}]
  /\ allocated \in [Node -> SUBSET IP]
  /\ owner \in [Pool -> [IP -> Req \cup {None}]]
  /\ timers \in [Pool -> [IP -> Req \cup {None}]]
  /\ pc \in [Req -> PC]
  /\ ip \in [Req -> IP \cup {None}]
  /\ from \in [Req -> Pool \cup {None}]
  /\ cleanup \in [Req -> {"no", "checked", "done"}]
  /\ del \in [Req -> {"no", "removing", "done"}]
  /\ exposed \in [Req -> BOOLEAN]
  /\ byIP \in [IP -> Req \cup {None}]
  /\ armed \in [IP -> Req \cup {None}]
  /\ clearFailures \in 0 .. MaxClearFailures

\* The list subs and the map subByNode, which AddCIDR and removeCIDRLocked
\* update separately, always hold the same sub-allocators, each of them once,
\* and no bitmap has an address outside its CIDR.
SubsIndexed ==
  /\ \A i, j \in 1 .. Len(subs) : subs[i] = subs[j] => i = j
  /\ \A n \in Node : allocCIDR[n] # None <=> \E i \in 1 .. Len(subs) : subs[i] = n
  /\ \A n \in Node : \A a \in allocated[n] : Covers(n, a)

\* CreateEndpoint has returned and the endpoint is still in the manager.
Live(r) == pc[r] = "live" /\ exposed[r]

\* No two endpoints whose creation succeeded share an address: the lookup in
\* CreateEndpoint, the uuid of the lease and the bitmap together keep requests
\* apart, whatever the order of their steps.
LiveIPsDistinct ==
  \A r, q \in Req : r # q /\ Live(r) /\ Live(q) => ip[r] # ip[q]

\* The address of a live endpoint stays allocated in the sub-allocator it came
\* from: no expiration, failed creation or DELETE /ipam of any request frees it.
LiveHoldsIP ==
  \A r \in Req : Live(r) => ip[r] \in allocated[from[r]]

\* Request r is the reason why address a is taken in the bitmap of node n: it
\* is under a lease, in the hands of a handler, or in use.
Holds(r, n, a) ==
  /\ ip[r] = a
  /\ \/ from[r] = n /\ timers[n][a] = r
     \/ from[r] = n /\ pc[r] \in {"allocated", "undo"}
     \/ from[r] = n /\ pc[r] = "live" /\ (exposed[r] \/ del[r] = "removing")
     \/ pc[r] = "static"

\* No address is lost: an allocated address is excluded, or some request will
\* give it back (its lease runs out, its handler is still running, its endpoint
\* or its direct holder will be deleted).
NoOrphanedIP ==
  \A n \in Node : \A a \in allocated[n] :
    a \in Excluded \/ \E r \in Req : Holds(r, n, a)

\* An address handed to a CNI plugin comes back unless its endpoint is created,
\* even if the plugin and its cleanup disappear.
AbandonedIPReturns ==
  \A r \in Req : pc[r] = "allocated"
    ~> (pc[r] = "live" \/ \A n \in Node : ip[r] \notin allocated[n])

\* "ExcludeIP ensures that a certain IP is never allocated": no request is given
\* an excluded address.
ExcludedNeverGiven == \A r \in Req : ip[r] \notin Excluded

\* A scale-to-zero trigger never outlives the pod it was armed for: no other
\* request is given, or works with, an address that still carries it.
TriggerDiesWithItsPod ==
  \A a \in IP, r, q \in Req :
    armed[a] = r /\ q # r /\ ip[q] = a
      => pc[q] \in {"idle", "failed"} \/ del[q] = "done"

(***************************************************************************)
(* What the module promises, as an abstract specification.                 *)
(***************************************************************************)
\* Request r has an address nobody else may be given.
Owns(r) ==
  \/ pc[r] \in {"allocated", "leased", "checked", "added", "static"}
  \/ pc[r] = "failed" /\ ip[r] \in IP /\ from[r] \in Pool /\ timers[from[r]][ip[r]] = r
  \/ pc[r] = "live" /\ del[r] # "done"

\* The stage of a request as its pod sees it.
leaseState(r) ==
  IF pc[r] = "idle" THEN "new"
  ELSE IF ~Owns(r) THEN "done"
  ELSE IF pc[r] \in {"static", "live"} THEN "held"
  ELSE "leased"

leaseStates == [r \in Req |-> leaseState(r)]

Lease == INSTANCE IPLease WITH state <- leaseStates, addr <- ip

\* Bitmaps, lease timers, endpoint lookups and the order in which concurrent
\* requests run through them implement IPLease: an address is handed out only
\* while no other request has it, and changes hands only by being given back.
LeasePromise == Lease!Spec
=============================================================================
