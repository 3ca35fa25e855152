--------------------------- MODULE ManagedAgent ----------------------------
(***************************************************************************)
(* The node watcher and the address fan-out of one agent together.  They   *)
(* share the list of managed names, which the watcher changes while the    *)
(* fan-out works on a snapshot of it, and the CiliumNodes of the pawns,    *)
(* which the agent creates, the operator gives CIDRs, and the fan-out      *)
(* writes back whole.                                                      *)
(***************************************************************************)
EXTENDS NodeWatcher

CONSTANT MaxRetry

VARIABLES addr, pub, store, cached, visit, offer, copy, retry

FanOut == INSTANCE AddressFanOut

agentVars == <<vars, addr, pub, store, cached, visit, offer, copy, retry>>

watcherRest == <<hostMatches, nodes, addressed, churn, boot, todo, reflector,
                 connected, events, handling, ensuring, ipamVars>>

AgentInit == Init /\ FanOut!Init

\* The local node is propagated once the daemon has its allocator.
Discovering == boot = "ready"

WatcherStep ==
  \/ (AgentStep \/ EnvStep) /\ FanOut!Observe
  \/ Restart /\ FanOut!Reset

UpdateLocalNode ==
  /\ Discovering
  /\ FanOut!updateManagedCiliumInternalIPs
  /\ UNCHANGED <<watcherRest, errors>>

Sync(n) ==
  /\ Discovering
  /\ FanOut!SyncGet(n) \/ FanOut!SyncPut(n)
  /\ UNCHANGED <<watcherRest, errors>>

SyncFails(n) ==
  /\ Discovering
  /\ FanOut!SyncError(n)
  /\ ApiError
  /\ UNCHANGED watcherRest

Store(n) ==
  /\ FanOut!StoreSynced \/ FanOut!StoreCatchesUp(n)
  /\ UNCHANGED <<watcherRest, errors>>

\* The bound on deletions bounds new addresses as well.
NewAddress ==
  /\ Discovering
  /\ churn < MaxChurn
  /\ churn' = churn + 1
  /\ FanOut!ChangeAddress
  /\ UNCHANGED <<hostMatches, nodes, addressed, errors, boot, todo, reflector,
                 connected, events, handling, ensuring, ipamVars>>

FanOutStep ==
  \/ UpdateLocalNode \/ NewAddress
  \/ \E n \in Pawn : Sync(n) \/ SyncFails(n) \/ Store(n)

AgentNext == WatcherStep \/ FanOutStep

AgentSpec == AgentInit /\ [][AgentNext]_agentVars

\* The fan-out runs on, and the informer brings what was written.
FairAgentSpec ==
  /\ AgentSpec
  /\ Fairness
  /\ \A n \in Pawn : WF_agentVars(Sync(n)) /\ WF_agentVars(Store(n))

(***************************************************************************)
(* Properties.                                                             *)
(***************************************************************************)
\* What others write into a pawn's CiliumNode survives the fan-out, which writes
\* a whole object back: a pod CIDR goes away only with the object, and no object
\* comes back to life.  "Other CiliumNode fields (InternalIP set by perigeos,
\* IPAM.PodCIDRs set by the operator) are preserved."
OthersKept ==
  [][\A n \in Pawn : cn'[n] # cn[n] =>
       \/ cn'[n] = "absent"
       \/ cn[n] = "absent" /\ cn'[n] = "bare"
       \/ cn[n] = "bare" /\ cn'[n] \in Cidr]_agentVars

\* As long as the local node is updated again and again, the CiliumNode of every
\* pawn that stays managed carries the agent's latest address in the end,
\* whatever conflicts, stale reads of the store and lost attempts there were.
PawnsAddressed ==
  []<><<UpdateLocalNode>>_agentVars
    => \A n \in Pawn : <>[](n \in addressed) => <>[](pub[n] = addr)
=============================================================================
