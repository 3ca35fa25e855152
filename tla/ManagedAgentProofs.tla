------------------------- MODULE ManagedAgentProofs ------------------------
(***************************************************************************)
(* For any number of pawns, CIDRs, faults and retries, the address fan-out *)
(* never undoes what another writer put into a pawn's CiliumNode, and what *)
(* the watcher keeps of nodes, events and CIDRs has its type.              *)
(***************************************************************************)
EXTENDS ManagedAgent, FiniteSetTheorems, TLAPS

Fields == Cidr \cup {"absent", "bare"}

CopiesTyped ==
  /\ cn \in [Pawn -> Fields]
  /\ cached \in [Pawn -> [cn : Fields, pub : Nat, current : BOOLEAN]]
  /\ copy # None => copy \in [node : Pawn, cn : Fields, pub : Nat, current : BOOLEAN]
  /\ addr \in Nat /\ offer \in Nat
  /\ pub \in [Pawn -> Nat]

\* A copy that no write has outdated has the fields of others as they are, in
\* the informer's store and in the hands of the fan-out.
CopiesAgree ==
  /\ \A n \in Pawn : cached[n].current => cached[n].cn = cn[n]
  /\ copy # None /\ copy.current => copy.cn = cn[copy.node]

CopyInv == CopiesTyped /\ CopiesAgree

\* What the other writers of a CiliumNode do to its fields.
Written(n) ==
  \/ cn'[n] = cn[n]
  \/ cn'[n] = "absent"
  \/ cn[n] = "absent" /\ cn'[n] = "bare"
  \/ cn[n] = "bare" /\ cn'[n] \in Cidr

\* Nothing has been copied at first.
LEMMA InitCopies == AgentInit => CopyInv
  BY DEF AgentInit, Init, FanOut!Init, FanOut!NoCopies, CopyInv, CopiesTyped,
         CopiesAgree, Fields

\* The watcher, perigeos and the operator create and delete CiliumNodes and give
\* a CIDR to those without one.
LEMMA WatcherWrites ==
  ASSUME CopiesTyped, AgentStep \/ EnvStep
  PROVE  cn' \in [Pawn -> Fields] /\ \A n \in Pawn : Written(n)
<1> USE DEF CopiesTyped, Written, Fields
<1>1. ASSUME NEW m \in Pawn, EnsureCreate(m)
      PROVE  cn' \in [Pawn -> Fields] /\ \A n \in Pawn : Written(n)
  BY <1>1 DEF EnsureCreate, created
<1>2. ASSUME NEW m \in Pawn, DeleteCiliumNode(m)
      PROVE  cn' \in [Pawn -> Fields] /\ \A n \in Pawn : Written(n)
  BY <1>2 DEF DeleteCiliumNode
<1>3. ASSUME NEW m \in Pawn, NEW c \in Cidr, AssignCIDR(m, c)
      PROVE  cn' \in [Pawn -> Fields] /\ \A n \in Pawn : Written(n)
  BY <1>3 DEF AssignCIDR
<1>4. ASSUME cn' = cn
      PROVE  cn' \in [Pawn -> Fields] /\ \A n \in Pawn : Written(n)
  BY <1>4
<1>5. CASE AgentStep
  <2>1. CASE \/ discoverManagedNodes \/ RegisterReflectors \/ ChooseAllocator
             \/ RegisterNodeAddedCallback \/ Connect
    BY <2>1, <1>4 DEF discoverManagedNodes, RegisterReflectors, ChooseAllocator,
         RegisterNodeAddedCallback, Connect, apiVars
  <2>2. ASSUME NEW m \in Pawn,
               \/ EnsureAtStart(m) \/ FetchAtStart(m) \/ EnsureGet(m) \/ handleAdded(m)
               \/ ReflectorPanic(m) \/ handleDeleted(m) \/ fireNodeAdded(m)
               \/ ReflectorSynced(m) \/ \E c \in Cidr : AddCIDR(m, c)
        PROVE  cn' = cn
    BY <2>2 DEF EnsureAtStart, FetchAtStart, EnsureGet, handleAdded, ReflectorPanic,
         handleDeleted, fireNodeAdded, ReflectorSynced, AddCIDR, apiVars
  <2> QED
    BY <1>5, <2>1, <2>2, <1>1, <1>4 DEF AgentStep
<1>6. CASE EnvStep
  <2>1. CASE ListFails \/ DiscoveryFails \/ Disconnect
    BY <2>1, <1>4 DEF ListFails, DiscoveryFails, Disconnect, apiVars
  <2>2. ASSUME NEW m \in Pawn, CreateNode(m) \/ SetInternalIP(m) \/ DeleteNode(m)
        PROVE  cn' = cn
    BY <2>2 DEF CreateNode, SetInternalIP, DeleteNode
  <2> QED
    BY <1>6, <2>1, <2>2, <1>2, <1>3, <1>4 DEF EnvStep
<1> QED
  BY <1>5, <1>6

\* Such a write outdates every copy of what it changes.
LEMMA WatcherKeeps ==
  ASSUME CopyInv, AgentStep \/ EnvStep, FanOut!Observe
  PROVE  CopyInv'
<1>1. cn' \in [Pawn -> Fields]
  BY WatcherWrites DEF CopyInv
<1>2. CopiesTyped'
  BY <1>1 DEF CopyInv, CopiesTyped, FanOut!Observe, FanOut!Outdated
<1>3. CopiesAgree'
  BY <1>1, <1>2 DEF CopyInv, CopiesTyped, CopiesAgree, FanOut!Observe, FanOut!Outdated
<1> QED
  BY <1>2, <1>3 DEF CopyInv

\* A restart forgets all copies.
LEMMA RestartKeeps ==
  ASSUME CopyInv, Restart, FanOut!Reset
  PROVE  CopyInv' /\ cn' = cn
  BY DEF CopyInv, CopiesTyped, CopiesAgree, Fields, Restart, apiVars, FanOut!Reset,
         FanOut!NoCopies

\* A copy is of the object as it is, or of the store's copy of it.
LEMMA GetKeeps ==
  ASSUME CopyInv, NEW n \in Pawn, FanOut!SyncGet(n)
  PROVE  CopyInv' /\ cn' = cn
<1>1. FanOut!GetCiliumNode(n) \in [cn : Fields, pub : Nat, current : BOOLEAN]
  BY DEF CopyInv, CopiesTyped, FanOut!GetCiliumNode, FanOut!Current
<1>2. FanOut!GetCiliumNode(n).current => FanOut!GetCiliumNode(n).cn = cn[n]
  BY DEF CopyInv, CopiesAgree, FanOut!GetCiliumNode, FanOut!Current
<1> QED
  BY <1>1, <1>2 DEF CopyInv, CopiesTyped, CopiesAgree, FanOut!SyncGet, FanOut!Leave

\* An update that succeeds writes back the fields of others as they are.
LEMMA PutKeeps ==
  ASSUME CopyInv, NEW n \in Pawn, FanOut!SyncPut(n)
  PROVE  CopyInv' /\ cn' = cn
<1>1. cn' = cn
  BY DEF CopyInv, CopiesTyped, CopiesAgree, FanOut!SyncPut, FanOut!sameVersion
<1>2. CopiesTyped'
  <2>1. FanOut!Outdated(cached[n]) \in [cn : Fields, pub : Nat, current : BOOLEAN]
    BY DEF CopyInv, CopiesTyped, FanOut!Outdated
  <2>2. cached' \in [Pawn -> [cn : Fields, pub : Nat, current : BOOLEAN]]
    BY <2>1 DEF CopyInv, CopiesTyped, FanOut!SyncPut, FanOut!Leave
  <2>3. copy' = None
    BY DEF FanOut!SyncPut, FanOut!Leave
  <2>4. addr' \in Nat /\ offer' \in Nat /\ pub' \in [Pawn -> Nat]
    BY DEF CopyInv, CopiesTyped, FanOut!SyncPut, FanOut!Leave
  <2> QED
    BY <1>1, <2>2, <2>3, <2>4 DEF CopyInv, CopiesTyped
<1>3. CopiesAgree'
  BY <1>1 DEF CopyInv, CopiesTyped, CopiesAgree, FanOut!SyncPut, FanOut!sameVersion,
         FanOut!Leave, FanOut!Outdated
<1> QED
  BY <1>1, <1>2, <1>3 DEF CopyInv

\* The rest of the fan-out writes no CiliumNode.
LEMMA FanOutKeeps ==
  ASSUME CopyInv, FanOutStep
  PROVE  CopyInv' /\ cn' = cn
<1>1. CASE UpdateLocalNode \/ NewAddress
  BY <1>1 DEF CopyInv, CopiesTyped, CopiesAgree, UpdateLocalNode, NewAddress,
       FanOut!updateManagedCiliumInternalIPs, FanOut!ChangeAddress
<1>2. ASSUME NEW n \in Pawn, Sync(n)
      PROVE  CopyInv' /\ cn' = cn
  BY <1>2, GetKeeps, PutKeeps DEF Sync
<1>3. ASSUME NEW n \in Pawn, SyncFails(n)
      PROVE  CopyInv' /\ cn' = cn
  BY <1>3 DEF CopyInv, CopiesTyped, CopiesAgree, SyncFails, FanOut!SyncError, FanOut!Leave
<1>4. ASSUME NEW n \in Pawn, Store(n)
      PROVE  CopyInv' /\ cn' = cn
  <2>1. \A m \in Pawn : FanOut!Current(m) \in [cn : Fields, pub : Nat, current : BOOLEAN]
    BY DEF CopyInv, CopiesTyped, FanOut!Current
  <2>2. \A m \in Pawn : FanOut!Current(m).cn = cn[m]
    BY DEF FanOut!Current
  <2>3. CASE FanOut!StoreSynced
    BY <2>1, <2>2, <2>3 DEF CopyInv, CopiesTyped, CopiesAgree, FanOut!StoreSynced
  <2>4. CASE FanOut!StoreCatchesUp(n)
    BY <2>1, <2>2, <2>4 DEF CopyInv, CopiesTyped, CopiesAgree, FanOut!StoreCatchesUp
  <2> QED
    BY <1>4, <2>3, <2>4 DEF Store
<1> QED
  BY <1>1, <1>2, <1>3, <1>4 DEF FanOutStep

\* Every step keeps the copies in agreement and the fields of others intact.
LEMMA StepKeeps ==
  ASSUME CopyInv, [AgentNext]_agentVars
  PROVE  CopyInv' /\ \A n \in Pawn : Written(n)
<1>1. CASE (AgentStep \/ EnvStep) /\ FanOut!Observe
  BY <1>1, WatcherWrites, WatcherKeeps DEF CopyInv
<1>2. CASE Restart /\ FanOut!Reset
  BY <1>2, RestartKeeps DEF Written
<1>3. CASE FanOutStep
  BY <1>3, FanOutKeeps DEF Written
<1>4. CASE UNCHANGED agentVars
  BY <1>4 DEF agentVars, vars, CopyInv, CopiesTyped, CopiesAgree, Written
<1> QED
  BY <1>1, <1>2, <1>3, <1>4 DEF AgentNext, WatcherStep

\* updateManagedCiliumInternalIPs preserves the pod CIDR the operator has put
\* into a pawn's CiliumNode, and never brings back a deleted one, whatever the
\* store, the retries and the other writers do.
THEOREM FieldsOfOthersKept == AgentSpec => OthersKept
<1>1. CopyInv /\ [AgentNext]_agentVars
        => [\A n \in Pawn : cn'[n] # cn[n] =>
              \/ cn'[n] = "absent"
              \/ cn[n] = "absent" /\ cn'[n] = "bare"
              \/ cn[n] = "bare" /\ cn'[n] \in Cidr]_agentVars
  BY StepKeeps DEF Written
<1>2. CopyInv /\ [AgentNext]_agentVars => CopyInv'
  BY StepKeeps
<1> QED
  BY <1>1, <1>2, InitCopies, PTL DEF AgentSpec, OthersKept

(***************************************************************************)
(* Types of the watcher.                                                   *)
(***************************************************************************)
LEMMA EmptyQueue == <<>> \in Seq({"added", "deleted"} \X Pawn)
OBVIOUS

\* The steps of startup.
LEMMA StartupTypes ==
  ASSUME TypeOK,
         \/ discoverManagedNodes \/ RegisterReflectors \/ ChooseAllocator
         \/ RegisterNodeAddedCallback
         \/ \E n \in Pawn : EnsureAtStart(n) \/ FetchAtStart(n)
         \/ ListFails \/ DiscoveryFails \/ Restart
  PROVE  TypeOK'
<1> USE DEF apiVars, watchVars, ipamVars
<1>1. CASE discoverManagedNodes
  BY <1>1 DEF discoverManagedNodes, TypeOK
<1>2. CASE RegisterReflectors
  BY <1>2 DEF RegisterReflectors, TypeOK
<1>3. CASE ChooseAllocator
  BY <1>3 DEF ChooseAllocator, GetManagedNames, TypeOK
<1>4. CASE RegisterNodeAddedCallback
  BY <1>4 DEF RegisterNodeAddedCallback, TypeOK
<1>5. ASSUME NEW n \in Pawn, EnsureAtStart(n)
      PROVE  TypeOK'
  BY <1>5 DEF EnsureAtStart, TypeOK
<1>6. ASSUME NEW n \in Pawn, FetchAtStart(n)
      PROVE  TypeOK'
  <2>1. sub' \in [Pawn -> Cidr \cup {None}]
    BY <1>6 DEF FetchAtStart, podCIDR, TypeOK
  <2>2. errors' \in 0 .. MaxErrors
    BY <1>6, NodeAssumption DEF FetchAtStart, ApiError, TypeOK
  <2> QED BY <1>6, <2>1, <2>2 DEF FetchAtStart, TypeOK
<1>7. CASE ListFails \/ DiscoveryFails
  BY <1>7, NodeAssumption DEF ListFails, DiscoveryFails, ApiError, TypeOK
<1>8. CASE Restart
  BY <1>8, EmptyQueue DEF Restart, TypeOK
<1> QED BY <1>1, <1>2, <1>3, <1>4, <1>5, <1>6, <1>7, <1>8

\* The steps of the watch and of the goroutines it starts.
LEMMA WatchTypes ==
  ASSUME TypeOK,
         \/ Connect \/ Disconnect
         \/ \E n \in Pawn :
              \/ EnsureGet(n) \/ EnsureCreate(n) \/ handleAdded(n) \/ ReflectorPanic(n)
              \/ handleDeleted(n) \/ fireNodeAdded(n) \/ ReflectorSynced(n)
              \/ \E c \in Cidr : AddCIDR(n, c)
  PROVE  TypeOK'
<1> USE DEF apiVars, watchVars, ipamVars
<1>1. CASE Connect
  <2>1. PICK order \in SetToSeqs(nodes) : events' = [i \in DOMAIN order |-> <<"added", order[i]>>]
    BY <1>1 DEF Connect
  <2>2. IsFiniteSet(nodes) /\ Cardinality(nodes) \in Nat
    BY NodeAssumption, FS_Subset, FS_CardinalityType DEF TypeOK
  <2>3. order \in [1 .. Cardinality(nodes) -> nodes]
    BY DEF SetToSeqs
  <2>4. events' \in [1 .. Cardinality(nodes) -> {"added", "deleted"} \X Pawn]
    BY <2>1, <2>3 DEF TypeOK
  <2>5. events' \in Seq({"added", "deleted"} \X Pawn)
    BY <2>2, <2>4
  <2> QED BY <1>1, <2>5 DEF Connect, TypeOK
<1>2. CASE Disconnect
  BY <1>2, EmptyQueue DEF Disconnect, TypeOK
<1>3. ASSUME NEW n \in Pawn, NEW kind, NextEvent(kind, n)
      PROVE  events' \in Seq({"added", "deleted"} \X Pawn)
  BY <1>3 DEF NextEvent, TypeOK
<1>4. ASSUME NEW n \in Pawn, EnsureGet(n)
      PROVE  TypeOK'
  <2>1. errors' \in 0 .. MaxErrors
    BY <1>4, NodeAssumption DEF EnsureGet, ApiError, TypeOK
  <2>2. ensuring' \subseteq Pawn \X {"get", "create"}
    BY <1>4 DEF EnsureGet, TypeOK
  <2> QED BY <1>4, <2>1, <2>2 DEF EnsureGet, TypeOK
<1>5. ASSUME NEW n \in Pawn, EnsureCreate(n)
      PROVE  TypeOK'
  <2>1. errors' \in 0 .. MaxErrors
    BY <1>5, NodeAssumption DEF EnsureCreate, ApiError, TypeOK
  <2>2. cn' \in [Pawn -> Cidr \cup {"absent", "bare"}]
    BY <1>5 DEF EnsureCreate, created, TypeOK
  <2> QED BY <1>5, <2>1, <2>2 DEF EnsureCreate, TypeOK
<1>6. ASSUME NEW n \in Pawn, handleAdded(n)
      PROVE  TypeOK'
  <2>1. reflector' \in [Pawn -> {"none", "listing", "synced"}]
    BY <1>6 DEF handleAdded, withReflector, TypeOK
  <2>2. handling' \in (Pawn \X (Cidr \cup {None})) \cup {None}
    BY <1>6 DEF handleAdded, notify
  <2>3. ensuring' \subseteq Pawn \X {"get", "create"}
    BY <1>6 DEF handleAdded, TypeOK
  <2>4. events' \in Seq({"added", "deleted"} \X Pawn)
    BY <1>3, <1>6 DEF handleAdded
  <2> QED BY <1>6, <2>1, <2>2, <2>3, <2>4 DEF handleAdded, TypeOK
<1>7. ASSUME NEW n \in Pawn, ReflectorPanic(n) \/ handleDeleted(n)
      PROVE  TypeOK'
  <2>1. events' \in Seq({"added", "deleted"} \X Pawn)
    BY <1>3, <1>7 DEF ReflectorPanic, handleDeleted
  <2> QED BY <1>7, <2>1 DEF ReflectorPanic, handleDeleted, TypeOK
<1>8. ASSUME NEW n \in Pawn, fireNodeAdded(n)
      PROVE  TypeOK'
  <2>1. errors' \in 0 .. MaxErrors
    BY <1>8, NodeAssumption DEF fireNodeAdded, ApiError, TypeOK
  <2>2. handling' \in (Pawn \X (Cidr \cup {None})) \cup {None}
    BY <1>8 DEF fireNodeAdded
  <2> QED BY <1>8, <2>1, <2>2 DEF fireNodeAdded, TypeOK
<1>9. ASSUME NEW n \in Pawn, ReflectorSynced(n)
      PROVE  TypeOK'
  BY <1>9 DEF ReflectorSynced, TypeOK
<1>10. ASSUME NEW n \in Pawn, NEW c \in Cidr, AddCIDR(n, c)
       PROVE  TypeOK'
  BY <1>10 DEF AddCIDR, TypeOK
<1> QED BY <1>1, <1>2, <1>4, <1>5, <1>6, <1>7, <1>8, <1>9, <1>10

\* The API server, perigeos and the operator.
LEMMA EnvTypes ==
  ASSUME TypeOK, NEW n \in Pawn,
         \/ CreateNode(n) \/ SetInternalIP(n) \/ DeleteNode(n) \/ DeleteCiliumNode(n)
         \/ \E c \in Cidr : AssignCIDR(n, c)
  PROVE  TypeOK'
<1> USE DEF apiVars, watchVars, ipamVars
<1>1. ASSUME NEW kind \in {"added", "deleted"}, Deliver(kind, n)
      PROVE  events' \in Seq({"added", "deleted"} \X Pawn)
  BY <1>1 DEF Deliver, TypeOK
<1>2. CASE CreateNode(n)
  <2>1. events' \in Seq({"added", "deleted"} \X Pawn)
    BY <1>1, <1>2 DEF CreateNode
  <2> QED BY <1>2, <2>1 DEF CreateNode, TypeOK
<1>3. CASE SetInternalIP(n)
  BY <1>3 DEF SetInternalIP, TypeOK
<1>4. CASE DeleteNode(n)
  <2>1. events' \in Seq({"added", "deleted"} \X Pawn)
    BY <1>1, <1>4 DEF DeleteNode
  <2>2. churn' \in 0 .. MaxChurn
    BY <1>4, NodeAssumption DEF DeleteNode, TypeOK
  <2> QED BY <1>4, <2>1, <2>2 DEF DeleteNode, TypeOK
<1>5. CASE DeleteCiliumNode(n)
  BY <1>5, NodeAssumption DEF DeleteCiliumNode, TypeOK
<1>6. ASSUME NEW c \in Cidr, AssignCIDR(n, c)
      PROVE  TypeOK'
  BY <1>6 DEF AssignCIDR, TypeOK
<1> QED BY <1>2, <1>3, <1>4, <1>5, <1>6

\* Whatever the API server, the watch and the fan-out do, in any order and for
\* any number of pawns: only a pod CIDR becomes a sub-allocator, only a pawn that
\* is there has an address, and the startup loops visit pawns alone.
THEOREM TypeCorrect == AgentSpec => []TypeOK
<1> DEFINE Inv == TypeOK /\ CopyInv
<1>1. AgentInit => Inv
  <2> SUFFICES ASSUME AgentInit PROVE TypeOK
    BY InitCopies
  <2>1. churn \in 0 .. MaxChurn /\ errors \in 0 .. MaxErrors
    BY NodeAssumption DEF AgentInit, Init
  <2> QED BY <2>1, EmptyQueue DEF AgentInit, Init, Fresh, TypeOK
<1>2. Inv /\ [AgentNext]_agentVars => Inv'
  <2> SUFFICES ASSUME Inv, [AgentNext]_agentVars PROVE TypeOK'
    BY StepKeeps
  <2>1. CASE AgentStep \/ EnvStep \/ Restart
    BY <2>1, StartupTypes, WatchTypes, EnvTypes DEF AgentStep, EnvStep
  <2>2. CASE FanOutStep
    <3>1. cn' = cn
      BY <2>2, FanOutKeeps
    <3>2. churn' \in 0 .. MaxChurn /\ errors' \in 0 .. MaxErrors
      BY <2>2, NodeAssumption DEF FanOutStep, UpdateLocalNode, NewAddress, Sync, SyncFails, Store,
         ApiError, watcherRest, TypeOK
    <3>3. known' = known
      BY <2>2 DEF FanOutStep, UpdateLocalNode, NewAddress, Sync, SyncFails, Store,
         FanOut!updateManagedCiliumInternalIPs, FanOut!ChangeAddress, FanOut!SyncGet,
         FanOut!SyncPut, FanOut!SyncError, FanOut!StoreSynced, FanOut!StoreCatchesUp
    <3>4. UNCHANGED <<hostMatches, nodes, addressed, boot, todo, reflector, connected, events,
                      handling, ensuring, callback, allocator, sub>>
      BY <2>2 DEF FanOutStep, UpdateLocalNode, NewAddress, Sync, SyncFails, Store, watcherRest,
         ipamVars
    <3> QED BY <3>1, <3>2, <3>3, <3>4 DEF TypeOK
  <2>3. CASE UNCHANGED agentVars
    BY <2>3 DEF agentVars, vars, TypeOK
  <2> QED BY <2>1, <2>2, <2>3 DEF AgentNext, WatcherStep
<1>3. Inv => TypeOK
  OBVIOUS
<1> HIDE DEF Inv
<1> QED BY <1>1, <1>2, <1>3, PTL DEF AgentSpec
=============================================================================
