----------------------- MODULE ManagedIPAMRefinement -----------------------
(***************************************************************************)
(* ManagedIPAM implements IPLease: initial states map to initial states,   *)
(* and every step of the agent maps to a step of IPLease or to none.       *)
(*                                                                         *)
(* And no scale-to-zero trigger passes to the next holder of an address.   *)
(***************************************************************************)
EXTENDS ManagedIPAMLeases

\* A leaf is for Zenon unless it names another prover.
USE Zenon

\* The lease of one request moves, those of the others stay.
LEMMA MoveState ==
  ASSUME NEW r \in Req, NEW s, leaseState(r)' = s,
         \A q \in Req : q # r => leaseState(q)' = leaseState(q)
  PROVE  leaseStates' = [leaseStates EXCEPT ![r] = s]
BY DEF leaseStates

\* No lease moves.
LEMMA StayState ==
  ASSUME \A q \in Req : leaseState(q)' = leaseState(q)
  PROVE  leaseStates' = leaseStates
BY DEF leaseStates

\* A request none of whose own variables change keeps its lease, if the timers
\* that name it stay.
LEMMA OthersKeep ==
  ASSUME TypeOK, NEW q \in Req,
         pc'[q] = pc[q], ip'[q] = ip[q], from'[q] = from[q], del'[q] = del[q],
         \A p \in Pool, a \in IP : timers'[p][a] = q <=> timers[p][a] = q
  PROVE  leaseState(q)' = leaseState(q)
BY DEF leaseState, Owns

\* Every step maps to a step of IPLease or leaves every lease as it is.
LEMMA LeaseStep ==
  Prompt /\ StableCidrs /\ IInv /\ IInv' /\ [Next]_vars
    => [Lease!Next]_<<leaseStates, ip>>
<1> SUFFICES ASSUME Prompt, StableCidrs, IInv, IInv', [Next]_vars
             PROVE  [Lease!Next]_<<leaseStates, ip>>
  BY DEF Lease!leaseVars
<1> USE DEF ipamVars, epVars, stzVars, apiVars, reqVars
<1>0. ReqTypes /\ TypeOK
  BY SomeTypes DEF IInv
<1>1. ASSUME NEW r \in Req,
             pc[r] \in {"leased", "checked", "added"}
               \/ (pc[r] = "failed" /\ cleanup[r] # "done")
      PROVE  ip[r] \in IP /\ from[r] \in Pool /\ timers[from[r]][ip[r]] = r
  BY <1>1 DEF IInv, TimerInv
<1>2. ASSUME NEW r \in Req, NEW p \in Pool, NEW a \in IP, timers[p][a] = r
      PROVE  from[r] = p /\ ip[r] = a /\ pc[r] \in Leasing
  <2>1. r # None
    BY ConstantsAssumption
  <2> QED BY <1>2, <2>1, TimerFacts
\* A step of r that leaves timers and addresses alone and keeps its lease.
<1>3. ASSUME NEW r \in Req, UNCHANGED <<timers, ip, from>>,
             \A q \in Req : q # r => pc'[q] = pc[q] /\ del'[q] = del[q],
             leaseState(r)' = leaseState(r)
      PROVE  UNCHANGED <<leaseStates, ip>>
  <2>1. ASSUME NEW q \in Req PROVE leaseState(q)' = leaseState(q)
    BY <1>0, <1>3, OthersKeep
  <2> QED BY <1>3, <2>1, StayState
\* A step that hands out an address.
<1>4. ASSUME NEW r \in Req, NEW a \in IP, NEW s \in {"leased", "held"},
             pc[r] = "idle", leaseState(r)' = s, Owns(r)',
             UNCHANGED <<timers, del>>,
             \A q \in Req : q # r => pc'[q] = pc[q] /\ from'[q] = from[q],
             ip' = [ip EXCEPT ![r] = a]
      PROVE  Lease!Next
  <2>1. ASSUME NEW q \in Req, q # r
        PROVE  /\ ip'[q] = ip[q]
               /\ leaseState(q)' = leaseState(q)
               /\ Owns(q) => Owns(q)'
    <3>1. ip'[q] = ip[q]
      BY <1>0, <1>4, <2>1 DEF ReqTypes
    <3>2. leaseState(q)' = leaseState(q)
      BY <1>0, <1>4, <2>1, <3>1, OthersKeep
    <3>3. Owns(q) => Owns(q)'
      BY <1>4, <2>1, <3>1 DEF Owns
    <3> QED BY <3>1, <3>2, <3>3
  <2>2. ip'[r] = a
    BY <1>0, <1>4 DEF ReqTypes
  <2>3. leaseStates[r] = "new"
    BY <1>4 DEF leaseStates, leaseState
  <2>4. ASSUME NEW q \in Req, ip[q] = a, leaseStates[q] \in {"leased", "held"}
        PROVE  FALSE
    <3>1. q # r
      BY <2>3, <2>4
    <3>2. Owns(q)
      BY <2>4 DEF leaseStates, leaseState
    <3> QED BY <1>4, <2>1, <2>2, <2>4, <3>1, <3>2, SMT DEF IInv, OwnInv
  <2>5. leaseStates' = [leaseStates EXCEPT ![r] = s]
    BY <1>4, <2>1, MoveState, SMT
  <2> QED BY <1>4, <2>3, <2>4, <2>5 DEF Lease!Next, Lease!Grant, Lease!Taken
\* A step that gives an address back.
<1>5. ASSUME NEW r \in Req, Owns(r), pc[r] # "idle", releaseIPLocked(ip[r], from[r]),
             UNCHANGED <<ip, from>>, leaseState(r)' = "done",
             \A q \in Req : q # r => pc'[q] = pc[q] /\ del'[q] = del[q]
      PROVE  Lease!Next
  <2>1. \A p \in Pool, a \in IP :
          timers'[p][a] = IF p = from[r] /\ a = ip[r] THEN None ELSE timers[p][a]
    BY <1>5, ReleaseByOwner
  <2>2. ASSUME NEW q \in Req, q # r PROVE leaseState(q)' = leaseState(q)
    <3>1. ASSUME NEW p \in Pool, NEW a \in IP
          PROVE  timers'[p][a] = q <=> timers[p][a] = q
      <4>1. CASE p = from[r] /\ a = ip[r] /\ timers[p][a] = q
        <5>1. ip[q] = ip[r] /\ pc[q] \in Leasing /\ from[q] = p
          BY <1>2, <4>1, SMT
        <5>2. Owns(q)
          BY <4>1, <5>1 DEF Owns, Leasing
        <5> QED BY <1>5, <2>2, <5>1, <5>2 DEF IInv, OwnInv
      <4>2. CASE ~(p = from[r] /\ a = ip[r] /\ timers[p][a] = q)
        BY <2>1, <4>2, ConstantsAssumption, SMT
      <4> QED BY <4>1, <4>2
    <3> QED BY <1>0, <1>5, <2>2, <3>1, OthersKeep
  <2>3. leaseStates' = [leaseStates EXCEPT ![r] = "done"]
    BY <1>5, <2>2, MoveState
  <2>4. leaseStates[r] \in {"leased", "held"}
    BY <1>5 DEF leaseStates, leaseState
  <2> QED BY <1>5, <2>3, <2>4 DEF Lease!Next, Lease!Return
<1>6. ASSUME NEW r \in Req, NEW p \in Pool, AllocateNextFamily(r, p) PROVE Lease!Next
  <2>1. PICK a \in Free(resolvePool(p)) : ip' = [ip EXCEPT ![r] = a]
    BY <1>6 DEF AllocateNextFamily
  <2>2. a \in IP
    <3>1. PrimaryHasSub
      BY DEF IInv, CidrInv, PrimaryHasSub
    <3> QED BY <1>0, <2>1, <3>1, ResolveType
  <2>3. pc'[r] = "allocated" /\ pc[r] = "idle"
    BY <1>0, <1>6 DEF AllocateNextFamily, ReqTypes
  <2>4. Owns(r)' /\ leaseState(r)' = "leased"
    BY <2>3 DEF Owns, leaseState
  <2>5. /\ UNCHANGED <<timers, del>>
        /\ \A q \in Req : q # r => pc'[q] = pc[q] /\ from'[q] = from[q]
    BY <1>0, <1>6 DEF AllocateNextFamily, ReqTypes
  <2> QED BY <1>4, <2>1, <2>2, <2>3, <2>4, <2>5
<1>7. ASSUME NEW r \in Req, NEW p \in Pool, NEW a \in IP, AllocateIP(r, a, p)
      PROVE  Lease!Next
  <2>1. pc'[r] = "static" /\ pc[r] = "idle"
    BY <1>0, <1>7 DEF AllocateIP, ReqTypes
  <2>2. Owns(r)' /\ leaseState(r)' = "held"
    BY <2>1 DEF Owns, leaseState
  <2>3. /\ UNCHANGED <<timers, del>> /\ ip' = [ip EXCEPT ![r] = a]
        /\ \A q \in Req : q # r => pc'[q] = pc[q] /\ from'[q] = from[q]
    BY <1>0, <1>7 DEF AllocateIP, ReqTypes
  <2> QED BY <1>4, <2>1, <2>2, <2>3
<1>8. ASSUME NEW r \in Req, NEW p \in Pool, PoolExhausted(r, p) PROVE Lease!Next
  <2>1. /\ pc[r] = "idle" /\ pc'[r] = "failed"
        /\ UNCHANGED <<timers, ip, from, del>>
        /\ \A q \in Req : q # r => pc'[q] = pc[q]
    BY <1>0, <1>8 DEF PoolExhausted, ReqTypes
  <2>2. ~Owns(r)'
    BY <1>2, <2>1, SMT DEF Owns, Leasing
  <2>3. leaseState(r) = "new" /\ leaseState(r)' = "done"
    BY <2>1, <2>2 DEF leaseState
  <2>4. \A q \in Req : q # r => leaseState(q)' = leaseState(q)
    BY <1>0, <2>1, OthersKeep
  <2>5. leaseStates' = [leaseStates EXCEPT ![r] = "done"]
    BY <2>3, <2>4, MoveState
  <2> QED BY <2>1, <2>3, <2>5 DEF Lease!Next, Lease!Refuse, leaseStates
<1>9. ASSUME NEW r \in Req, StartExpirationTimer(r) PROVE UNCHANGED <<leaseStates, ip>>
  <2>1. pc[r] = "allocated" /\ Owns(r) /\ ip[r] \in IP /\ from[r] \in Pool
    BY <1>9 DEF StartExpirationTimer, Owns, IInv, OwnInv
  <2>2. timers[from[r]][ip[r]] = None
    BY <2>1, NoOldTimer
  <2>3. /\ timers' = [timers EXCEPT ![from[r]][ip[r]] = r]
        /\ pc' = [pc EXCEPT ![r] = "leased"]
        /\ UNCHANGED <<ip, from, del>>
    BY <1>9, <2>2 DEF StartExpirationTimer, leaseTimer
  <2>4. \A p \in Pool, a \in IP :
          timers'[p][a] = IF p = from[r] /\ a = ip[r] THEN r ELSE timers[p][a]
    BY <1>0, <2>1, <2>3 DEF TypeOK
  <2>5. ASSUME NEW q \in Req PROVE leaseState(q)' = leaseState(q)
    <3>1. CASE q = r
      <4>1. pc'[r] = "leased"
        BY <1>0, <2>3 DEF ReqTypes
      <4> QED BY <2>1, <3>1, <4>1 DEF leaseState, Owns
    <3>2. CASE q # r
      <4>1. pc'[q] = pc[q]
        BY <1>0, <2>3, <3>2 DEF ReqTypes
      <4>2. q # None
        BY ConstantsAssumption
      <4>3. \A p \in Pool, a \in IP : timers'[p][a] = q <=> timers[p][a] = q
        BY <2>2, <2>4, <3>2, <4>2
      <4> QED BY <1>0, <2>3, <4>1, <4>3, OthersKeep
    <3> QED BY <3>1, <3>2
  <2> QED BY <2>3, <2>5, StayState
<1>10. ASSUME NEW r \in Req, UndoAllocation(r) PROVE FALSE
  BY <1>10 DEF UndoAllocation, IInv, EndpointInv
<1>11. ASSUME NEW r \in Req, Expire(r) PROVE Lease!Next
  <2>1. /\ pc[r] = "failed" /\ timers[from[r]][ip[r]] = r
        /\ releaseIPLocked(ip[r], from[r]) /\ UNCHANGED <<ip, from, pc, del>>
    BY <1>11 DEF Expire
  <2>2. ip[r] \in IP /\ from[r] \in Pool
    BY <1>0, <1>11 DEF Expire, IInv, OwnInv, ReqTypes
  <2>3. Owns(r)
    BY <2>1, <2>2 DEF Owns
  <2>4. timers'[from[r]][ip[r]] = None
    BY <2>1, <2>2, <2>3, ReleaseByOwner
  <2>5. leaseState(r)' = "done"
    BY <2>1, <2>4, ConstantsAssumption DEF leaseState, Owns
  <2> QED BY <1>5, <2>1, <2>3, <2>5
<1>12. ASSUME NEW r \in Req,
              \/ CniFail(r) \/ CniDie(r) \/ CheckEndpoint(r) \/ AddEndpoint(r)
              \/ errorDuringCreation(r) \/ DeleteIpamCheck(r) \/ DeleteEndpoint(r)
              \/ ArmTrigger(r)
       PROVE  UNCHANGED <<leaseStates, ip>>
  <2>1. /\ UNCHANGED <<timers, ip, from>>
        /\ \A q \in Req : q # r => pc'[q] = pc[q] /\ del'[q] = del[q]
        /\ \/ UNCHANGED <<pc, del>>
           \/ /\ pc[r] \in {"leased", "checked", "added"}
                   \/ (pc[r] = "failed" /\ cleanup[r] # "done")
              /\ pc'[r] \in {"leased", "checked", "added", "failed"}
           \/ /\ pc[r] = "live" /\ pc'[r] = "live"
              /\ del[r] = "no" /\ del'[r] = "removing"
    BY <1>0, <1>12 DEF CniFail, CniDie, CheckEndpoint, AddEndpoint, errorDuringCreation,
                 DeleteIpamCheck, DeleteEndpoint, ArmTrigger, ReqTypes
  <2>2. leaseState(r)' = leaseState(r)
    <3>1. CASE UNCHANGED <<pc, del>>
      BY <2>1, <3>1 DEF leaseState, Owns
    <3>2. CASE /\ pc[r] \in {"leased", "checked", "added"}
                   \/ (pc[r] = "failed" /\ cleanup[r] # "done")
               /\ pc'[r] \in {"leased", "checked", "added", "failed"}
      <4>1. ip[r] \in IP /\ from[r] \in Pool /\ timers[from[r]][ip[r]] = r
        BY <1>1, <3>2
      <4>2. Owns(r) /\ Owns(r)'
        BY <2>1, <3>2, <4>1 DEF Owns
      <4> QED BY <3>2, <4>2 DEF leaseState
    <3>3. CASE /\ pc[r] = "live" /\ pc'[r] = "live"
               /\ del[r] = "no" /\ del'[r] = "removing"
      BY <3>3 DEF leaseState, Owns
    <3> QED BY <2>1, <3>1, <3>2, <3>3
  <2> QED BY <1>3, <2>1, <2>2
<1>13. ASSUME NEW r \in Req, StopExpirationTimer(r) PROVE Lease!Next
  <2>1. pc[r] = "added" /\ ip[r] \in IP /\ from[r] \in Pool /\ timers[from[r]][ip[r]] = r
    BY <1>1, <1>13 DEF StopExpirationTimer
  <2>2. /\ timers' = [timers EXCEPT ![from[r]][ip[r]] = None]
        /\ pc' = [pc EXCEPT ![r] = "live"]
        /\ UNCHANGED <<ip, from, del>>
    BY <1>13, <2>1 DEF StopExpirationTimer, ownTimer
  <2>3. \A p \in Pool, a \in IP :
          timers'[p][a] = IF p = from[r] /\ a = ip[r] THEN None ELSE timers[p][a]
    BY <1>0, <2>1, <2>2 DEF TypeOK
  <2>4. pc'[r] = "live" /\ \A q \in Req : q # r => pc'[q] = pc[q]
    BY <1>0, <2>2 DEF ReqTypes
  <2>5. ASSUME NEW q \in Req, q # r PROVE leaseState(q)' = leaseState(q)
    <3>1. q # None
      BY ConstantsAssumption
    <3>2. \A p \in Pool, a \in IP : timers'[p][a] = q <=> timers[p][a] = q
      BY <2>1, <2>3, <2>5, <3>1, SMT
    <3> QED BY <1>0, <2>2, <2>4, <2>5, <3>2, OthersKeep
  <2>6. del[r] = "no"
    BY <2>1 DEF IInv, EndpointInv
  <2>7. leaseState(r) = "leased" /\ leaseState(r)' = "held"
    BY <2>1, <2>2, <2>4, <2>6 DEF leaseState, Owns
  <2>8. leaseStates' = [leaseStates EXCEPT ![r] = "held"]
    BY <2>5, <2>7, MoveState
  <2> QED BY <2>2, <2>7, <2>8 DEF Lease!Next, Lease!Confirm, leaseStates
<1>14. ASSUME NEW r \in Req, DeleteIpamRelease(r) PROVE Lease!Next
  <2>1. /\ cleanup[r] = "checked" /\ releaseIPLocked(ip[r], from[r])
        /\ UNCHANGED <<ip, from, del>>
        /\ pc' = [pc EXCEPT ![r] = IF @ = "static" THEN "failed" ELSE @]
    BY <1>14 DEF DeleteIpamRelease
  <2>2. pc[r] \in {"failed", "static"}
    BY <2>1, CleanupFacts
  <2>3. pc'[r] = "failed" /\ \A q \in Req : q # r => pc'[q] = pc[q]
    BY <1>0, <2>1, <2>2 DEF ReqTypes
  <2>4. Owns(r)
    BY <1>1, <2>1, <2>2 DEF Owns
  <2>5. ip[r] \in IP /\ from[r] \in Pool
    BY <2>4 DEF IInv, OwnInv
  <2>6. timers'[from[r]][ip[r]] = None
    BY <2>1, <2>4, <2>5, ReleaseByOwner
  <2>7. leaseState(r)' = "done"
    BY <2>1, <2>3, <2>6, ConstantsAssumption DEF leaseState, Owns
  <2> QED BY <1>5, <2>1, <2>2, <2>3, <2>4, <2>7
<1>15. ASSUME NEW r \in Req, EndpointDeleted(r) PROVE Lease!Next
  <2>1. /\ del[r] = "removing" /\ releaseIPLocked(ip[r], from[r])
        /\ UNCHANGED <<ip, from, pc>>
        /\ del' = [del EXCEPT ![r] = "done"]
    BY <1>15 DEF EndpointDeleted
  <2>2. pc[r] = "live"
    BY <2>1 DEF IInv, EndpointInv
  <2>3. del'[r] = "done" /\ \A q \in Req : q # r => del'[q] = del[q]
    BY <1>0, <2>1 DEF ReqTypes
  <2>4. Owns(r) /\ leaseState(r)' = "done"
    BY <2>1, <2>2, <2>3 DEF Owns, leaseState
  <2> QED BY <1>5, <2>1, <2>2, <2>3, <2>4
<1>16. CASE \/ \E n \in Node, c \in Cidr : AssignCIDR(n, c)
            \/ \E n \in Node : DeleteCiliumNode(n) \/ FetchCiliumNode(n)
            \/ addManagedNodeCIDR \/ UNCHANGED vars
  <2>1. UNCHANGED <<timers, ip, from, pc, del>>
    BY <1>16 DEF AssignCIDR, DeleteCiliumNode, FetchCiliumNode, addManagedNodeCIDR, vars
  <2>2. \A q \in Req : leaseState(q)' = leaseState(q)
    BY <2>1 DEF leaseState, Owns
  <2> QED BY <2>1, <2>2, StayState
<1> QED
  BY <1>6, <1>7, <1>8, <1>9, <1>10, <1>11, <1>12, <1>13, <1>14, <1>15, <1>16 DEF Next

\* While CiliumNodes stay and no CNI ADD outlives its lease, the agent keeps the
\* promise of IPLease, whatever the number of requests, pawns and addresses: an
\* address is handed out only while no other request has it, and a request is
\* served once and gives its address back once.
THEOREM LeasePromiseKept == ASSUME Prompt, StableCidrs PROVE Spec => LeasePromise
<1>1. Init => Lease!Init
  BY SMT DEF Init, Lease!Init, leaseStates, leaseState
<1>2. IInv /\ IInv' /\ [Next]_vars => [Lease!Next]_<<leaseStates, ip>>
  BY LeaseStep
<1> QED
  BY <1>1, <1>2, IInvariant, PTL DEF Spec, LeasePromise, Lease!Spec, Lease!leaseVars

(***************************************************************************)
(* Scale-to-zero triggers, when at most one clear fails.                   *)
(***************************************************************************)
\* A trigger belongs to a pod that had the address.  If the pod is gone, a clear
\* has failed and nobody has the address.
TriggerInv ==
  \A b \in IP, x \in Req : armed[b] = x =>
    /\ ip[x] = b /\ pc[x] = "live"
    /\ del[x] = "done" => clearFailures >= 1 /\ \A q \in Req : Owns(q) => ip[q] # b

\* Nobody comes to own an address but by a request that had not begun.
LEMMA NewOwner ==
  ASSUME [Lease!Next]_<<leaseStates, ip>>, NEW q \in Req, Owns(q)', ~Owns(q)
  PROVE  pc[q] = "idle"
<1>1. SUFFICES ASSUME pc[q] # "idle" PROVE FALSE
  OBVIOUS
<1>2. leaseStates[q] = "done"
  BY <1>1 DEF leaseStates, leaseState
<1>3. leaseStates'[q] \in {"leased", "held"}
  BY DEF leaseStates, leaseState, Owns
<1>4. leaseStates = [r \in Req |-> leaseStates[r]]
  BY DEF leaseStates
<1> QED
  BY <1>2, <1>3, <1>4 DEF Lease!Next, Lease!Grant, Lease!Refuse, Lease!Confirm, Lease!Return

\* A step that arms and clears nothing, makes no owner and ends no pod.
LEMMA KeepTriggers ==
  ASSUME TriggerInv, UNCHANGED <<armed, clearFailures>>,
         \A q \in Req : Owns(q)' => Owns(q) /\ ip'[q] = ip[q],
         \A x \in Req : pc[x] = "live" =>
           /\ pc'[x] = "live" /\ ip'[x] = ip[x]
           /\ del'[x] = "done" => del[x] = "done"
  PROVE  TriggerInv'
BY SMT DEF TriggerInv

\* clearScaleToZeroState touches one address and fails only below the bound.
LEMMA ClearFacts ==
  ASSUME TypeOK, NEW a \in IP, clearScaleToZeroState(a)
  PROVE  /\ \A b \in IP : b # a => armed'[b] = armed[b]
         /\ clearFailures' >= clearFailures
         /\ \/ armed'[a] = None
            \/ /\ armed'[a] = armed[a]
               /\ clearFailures < MaxClearFailures /\ clearFailures' >= 1
BY ConstantsAssumption, SMT DEF clearScaleToZeroState, TypeOK

\* A request that gets an address finds no trigger on it.
LEMMA GrantTriggers ==
  ASSUME MaxClearFailures <= 1, TriggerInv, IInv, IInv', NEW r \in Req, NEW a \in IP,
         pc[r] = "idle", clearScaleToZeroState(a), Owns(r)',
         UNCHANGED <<timers, del>>, ip' = [ip EXCEPT ![r] = a],
         \A q \in Req : q # r => pc'[q] = pc[q] /\ from'[q] = from[q]
  PROVE  TriggerInv'
<1>0. TypeOK
  BY DEF IInv
<1>1. ip'[r] = a /\ \A q \in Req : q # r => ip'[q] = ip[q]
  BY <1>0 DEF TypeOK
<1>2. ASSUME NEW q \in Req, q # r PROVE Owns(q)' <=> Owns(q)
  BY <1>1, <1>2 DEF Owns
<1>3. SUFFICES ASSUME NEW b \in IP, NEW x \in Req, armed'[b] = x
               PROVE  /\ ip'[x] = b /\ pc'[x] = "live"
                      /\ del'[x] = "done" =>
                           clearFailures' >= 1 /\ \A q \in Req : Owns(q)' => ip'[q] # b
  BY DEF TriggerInv
<1>4. x # None /\ armed[b] = x
  BY <1>0, <1>3, ClearFacts, ConstantsAssumption
<1>5. /\ ip[x] = b /\ pc[x] = "live" /\ x # r
      /\ del[x] = "done" => clearFailures >= 1 /\ \A q \in Req : Owns(q) => ip[q] # b
  BY <1>4, SMT DEF TriggerInv
<1>6. CASE b # a
  <2>1. clearFailures' >= clearFailures
    BY <1>0, ClearFacts
  <2>2. clearFailures \in Nat /\ clearFailures' \in Nat
    BY ConstantsAssumption, SMT DEF IInv, TypeOK
  <2>3. clearFailures >= 1 => clearFailures' >= 1
    BY <2>1, <2>2, SMT
  <2>4. ASSUME \A q \in Req : Owns(q) => ip[q] # b
        PROVE  \A q \in Req : Owns(q)' => ip'[q] # b
    BY <1>1, <1>2, <1>6, <2>4
  <2> QED BY <1>1, <1>5, <2>3, <2>4
<1>7. CASE b = a
  <2>1. clearFailures < MaxClearFailures
    BY <1>0, <1>3, <1>4, <1>7, ClearFacts
  <2>2. clearFailures \in Nat
    BY <1>0, ConstantsAssumption, SMT DEF TypeOK
  <2>3. del[x] # "done"
    BY <1>5, <2>1, <2>2, ConstantsAssumption, SMT
  <2>4. Owns(x)' /\ ip'[x] = a
    BY <1>1, <1>2, <1>5, <1>7, <2>3 DEF Owns
  <2> QED BY <1>1, <1>5, <2>4, SMT DEF IInv, OwnInv
<1> QED BY <1>6, <1>7

\* An owner gives its address back; if the clear fails the trigger stays on an
\* address nobody has.
LEMMA ReturnTriggers ==
  ASSUME TriggerInv, IInv, TypeOK', [Lease!Next]_<<leaseStates, ip>>,
         NEW r \in Req, Owns(r), ~Owns(r)',
         releaseIPLocked(ip[r], from[r]), UNCHANGED <<ip, from>>,
         pc[r] = "live" => pc'[r] = "live",
         \A q \in Req : q # r => pc'[q] = pc[q] /\ del'[q] = del[q]
  PROVE  TriggerInv'
<1>0. TypeOK /\ ip[r] \in IP /\ clearScaleToZeroState(ip[r])
  BY DEF IInv, OwnInv, releaseIPLocked
<1>1. ASSUME NEW q \in Req, Owns(q)' PROVE Owns(q) /\ q # r
  <2>1. q # r
    BY <1>1
  <2>2. ASSUME ~Owns(q) PROVE FALSE
    <3>1. pc'[q] = "idle"
      BY <1>1, <2>1, <2>2, NewOwner
    <3> QED BY <1>1, <3>1 DEF Owns
  <2> QED BY <2>1, <2>2
<1>2. SUFFICES ASSUME NEW b \in IP, NEW x \in Req, armed'[b] = x
               PROVE  /\ ip'[x] = b /\ pc'[x] = "live"
                      /\ del'[x] = "done" =>
                           clearFailures' >= 1 /\ \A q \in Req : Owns(q)' => ip'[q] # b
  BY DEF TriggerInv
<1>3. x # None /\ armed[b] = x
  BY <1>0, <1>2, ClearFacts, ConstantsAssumption, SMT
<1>4. /\ ip[x] = b /\ pc[x] = "live"
      /\ del[x] = "done" => clearFailures >= 1 /\ \A q \in Req : Owns(q) => ip[q] # b
  BY <1>3, SMT DEF TriggerInv
<1>5. ip'[x] = b /\ pc'[x] = "live"
  BY <1>4
<1>6. CASE b = ip[r]
  <2>1. clearFailures' >= 1
    BY <1>0, <1>2, <1>3, <1>6, ClearFacts
  <2>2. ASSUME NEW q \in Req, Owns(q)' PROVE ip'[q] # b
    BY <1>1, <1>6, <2>2 DEF IInv, OwnInv
  <2> QED BY <1>5, <2>1, <2>2
<1>7. CASE b # ip[r]
  <2>1. x # r /\ del'[x] = del[x]
    BY <1>4, <1>7
  <2>2. clearFailures >= 1 => clearFailures' >= 1
    <3>1. clearFailures' >= clearFailures
      BY <1>0, ClearFacts
    <3>2. clearFailures \in Nat /\ clearFailures' \in Nat
      BY <1>0, ConstantsAssumption, SMT DEF TypeOK
    <3> QED BY <3>1, <3>2, SMT
  <2> QED BY <1>1, <1>4, <1>5, <2>1, <2>2
<1> QED BY <1>6, <1>7

\* Every step keeps the triggers with the pods they were armed for.
LEMMA TriggerStep ==
  Prompt /\ StableCidrs /\ MaxClearFailures <= 1 /\ IInv /\ IInv' /\ TriggerInv
    /\ [Next]_vars => TriggerInv'
<1> SUFFICES ASSUME Prompt, StableCidrs, MaxClearFailures <= 1, IInv, IInv', TriggerInv,
                    [Next]_vars
             PROVE  TriggerInv'
  OBVIOUS
<1> USE DEF ipamVars, epVars, stzVars, apiVars, reqVars
<1>0. ReqTypes /\ TypeOK /\ TypeOK'
  BY SomeTypes DEF IInv
<1>1. [Lease!Next]_<<leaseStates, ip>>
  BY LeaseStep
\* Steps that leave the triggers alone: no request begins but by failing.
<1>2. ASSUME UNCHANGED <<armed, clearFailures, ip>>,
             \A q \in Req : pc[q] = "idle" => pc'[q] = "idle" \/ ~Owns(q)',
             \A x \in Req : pc[x] = "live" =>
               pc'[x] = "live" /\ (del'[x] = "done" => del[x] = "done")
      PROVE  TriggerInv'
  <2>1. ASSUME NEW q \in Req, Owns(q)' PROVE Owns(q)
    <3>1. SUFFICES ASSUME ~Owns(q) PROVE FALSE
      OBVIOUS
    <3>2. pc[q] = "idle"
      BY <1>1, <2>1, <3>1, NewOwner
    <3> QED BY <1>2, <2>1, <3>2 DEF Owns
  <2> QED BY <1>2, <2>1, KeepTriggers
<1>3. ASSUME NEW r \in Req, NEW p \in Pool, AllocateNextFamily(r, p) PROVE TriggerInv'
  <2>1. PICK a \in Free(resolvePool(p)) :
          ip' = [ip EXCEPT ![r] = a] /\ clearScaleToZeroState(a)
    BY <1>3 DEF AllocateNextFamily
  <2>2. a \in IP
    <3>1. PrimaryHasSub
      BY DEF IInv, CidrInv, PrimaryHasSub
    <3> QED BY <1>0, <2>1, <3>1, ResolveType
  <2>3. /\ pc[r] = "idle" /\ pc'[r] = "allocated" /\ UNCHANGED <<timers, del>>
        /\ \A q \in Req : q # r => pc'[q] = pc[q] /\ from'[q] = from[q]
    BY <1>0, <1>3 DEF AllocateNextFamily, ReqTypes
  <2>4. Owns(r)'
    BY <2>3 DEF Owns
  <2> QED BY <2>1, <2>2, <2>3, <2>4, GrantTriggers
<1>4. ASSUME NEW r \in Req, NEW p \in Pool, NEW a \in IP, AllocateIP(r, a, p)
      PROVE  TriggerInv'
  <2>1. /\ pc[r] = "idle" /\ pc'[r] = "static" /\ UNCHANGED <<timers, del>>
        /\ ip' = [ip EXCEPT ![r] = a] /\ clearScaleToZeroState(a)
        /\ \A q \in Req : q # r => pc'[q] = pc[q] /\ from'[q] = from[q]
    BY <1>0, <1>4 DEF AllocateIP, ReqTypes
  <2>2. Owns(r)'
    BY <2>1 DEF Owns
  <2> QED BY <2>1, <2>2, GrantTriggers
<1>5. ASSUME NEW r \in Req, NEW p \in Pool, PoolExhausted(r, p) PROVE TriggerInv'
  <2>1. /\ pc[r] = "idle" /\ pc'[r] = "failed"
        /\ UNCHANGED <<armed, clearFailures, timers, ip, from, del>>
        /\ \A q \in Req : q # r => pc'[q] = pc[q]
    BY <1>0, <1>5 DEF PoolExhausted, ReqTypes
  <2>2. ASSUME ip[r] \in IP, from[r] \in Pool, timers[from[r]][ip[r]] = r PROVE FALSE
    BY <2>1, <2>2, TimerFacts, ConstantsAssumption, SMT DEF Leasing
  <2>3. ~Owns(r)'
    BY <2>1, <2>2 DEF Owns
  <2> QED BY <1>2, <2>1, <2>3
<1>6. ASSUME NEW r \in Req, UndoAllocation(r) PROVE FALSE
  BY <1>6 DEF UndoAllocation, IInv, EndpointInv
<1>7. ASSUME NEW r \in Req, Expire(r) PROVE TriggerInv'
  <2>1. /\ pc[r] = "failed" /\ ip[r] # None /\ timers[from[r]][ip[r]] = r
        /\ releaseIPLocked(ip[r], from[r]) /\ UNCHANGED <<ip, from, pc, del>>
    BY <1>7 DEF Expire
  <2>2. ip[r] \in IP /\ from[r] \in Pool
    BY <1>0, <2>1 DEF IInv, OwnInv, ReqTypes
  <2>3. Owns(r)
    BY <2>1, <2>2 DEF Owns
  <2>4. ~Owns(r)'
    BY <2>1, <2>3, ReleasedOwnsNothing
  <2> QED BY <1>0, <1>1, <2>1, <2>3, <2>4, ReturnTriggers
<1>8. ASSUME NEW r \in Req, DeleteIpamRelease(r) PROVE TriggerInv'
  <2>1. /\ cleanup[r] = "checked" /\ releaseIPLocked(ip[r], from[r])
        /\ UNCHANGED <<ip, from, del>>
        /\ pc' = [pc EXCEPT ![r] = IF @ = "static" THEN "failed" ELSE @]
    BY <1>8 DEF DeleteIpamRelease
  <2>2. pc[r] \in {"failed", "static"}
    BY <2>1, CleanupFacts
  <2>3. pc'[r] = "failed" /\ \A q \in Req : q # r => pc'[q] = pc[q]
    BY <1>0, <2>1, <2>2 DEF ReqTypes
  <2>4. Owns(r)
    BY <2>1, <2>2 DEF Owns, IInv, TimerInv
  <2>5. ~Owns(r)'
    BY <2>1, <2>3, <2>4, ReleasedOwnsNothing
  <2> QED BY <1>0, <1>1, <2>1, <2>2, <2>3, <2>4, <2>5, ReturnTriggers
<1>9. ASSUME NEW r \in Req, EndpointDeleted(r) PROVE TriggerInv'
  <2>1. /\ del[r] = "removing" /\ releaseIPLocked(ip[r], from[r])
        /\ UNCHANGED <<ip, from, pc>>
        /\ del'[r] = "done" /\ \A q \in Req : q # r => del'[q] = del[q]
    BY <1>0, <1>9 DEF EndpointDeleted, ReqTypes
  <2>2. pc[r] = "live"
    BY <2>1 DEF IInv, EndpointInv
  <2>3. Owns(r) /\ ~Owns(r)'
    BY <2>1, <2>2 DEF Owns
  <2> QED BY <1>0, <1>1, <2>1, <2>3, ReturnTriggers
<1>10. ASSUME NEW r \in Req, ArmTrigger(r) PROVE TriggerInv'
  <2>1. /\ pc[r] = "live" /\ del[r] # "done" /\ armed' = [armed EXCEPT ![ip[r]] = r]
        /\ UNCHANGED <<clearFailures, pc, ip, from, del, timers>>
    BY <1>10 DEF ArmTrigger
  <2>2. ip[r] \in IP
    BY <2>1 DEF IInv, OwnInv, Owns
  <2>3. \A b \in IP : armed'[b] = IF b = ip[r] THEN r ELSE armed[b]
    BY <1>0, <2>1, <2>2 DEF TypeOK
  <2>4. \A q \in Req : Owns(q)' <=> Owns(q)
    BY <2>1 DEF Owns
  <2> QED BY <2>1, <2>3, <2>4, SMT DEF TriggerInv
<1>11. ASSUME NEW r \in Req,
              \/ StartExpirationTimer(r) \/ CniFail(r) \/ CniDie(r) \/ CheckEndpoint(r)
              \/ AddEndpoint(r) \/ errorDuringCreation(r) \/ StopExpirationTimer(r)
              \/ DeleteIpamCheck(r) \/ DeleteEndpoint(r)
       PROVE  TriggerInv'
  <2>1. /\ UNCHANGED <<armed, clearFailures, ip>>
        /\ \A q \in Req : q # r => pc'[q] = pc[q] /\ del'[q] = del[q]
        /\ pc[r] # "idle"
        /\ pc[r] = "live" => pc'[r] = "live" /\ del'[r] \in {del[r], "removing"}
    <3>1. exposed[r] => pc[r] \in {"added", "live"}
      BY DEF IInv, EndpointInv
    <3>2. CASE StartExpirationTimer(r) \/ StopExpirationTimer(r)
      BY <1>0, <3>2 DEF StartExpirationTimer, StopExpirationTimer, ReqTypes
    <3>3. CASE \/ CniFail(r) \/ CniDie(r) \/ CheckEndpoint(r) \/ AddEndpoint(r)
               \/ errorDuringCreation(r)
      BY <1>0, <3>3 DEF CniFail, CniDie, CheckEndpoint, AddEndpoint, errorDuringCreation,
                        ReqTypes
    <3>4. CASE DeleteIpamCheck(r)
      BY <1>0, <3>4 DEF DeleteIpamCheck, ReqTypes
    <3>5. CASE DeleteEndpoint(r)
      BY <1>0, <3>1, <3>5 DEF DeleteEndpoint, ReqTypes
    <3> QED BY <1>11, <3>2, <3>3, <3>4, <3>5
  <2> QED BY <1>2, <2>1
<1>12. CASE \/ \E n \in Node, c \in Cidr : AssignCIDR(n, c)
            \/ \E n \in Node : DeleteCiliumNode(n) \/ FetchCiliumNode(n)
            \/ addManagedNodeCIDR \/ UNCHANGED vars
  <2>1. UNCHANGED <<armed, clearFailures, ip, pc, del>>
    BY <1>12 DEF AssignCIDR, DeleteCiliumNode, FetchCiliumNode, addManagedNodeCIDR, vars
  <2> QED BY <1>2, <2>1
<1> QED
  BY <1>3, <1>4, <1>5, <1>6, <1>7, <1>8, <1>9, <1>10, <1>11, <1>12 DEF Next

\* While CiliumNodes stay, no CNI ADD outlives its lease and at most one clear of
\* the trigger map fails, no pod meets the scale-to-zero trigger of an earlier
\* holder of its address: of the clear on release and the clear on allocation
\* one is enough.
THEOREM TriggersNotInherited ==
  ASSUME Prompt, StableCidrs, MaxClearFailures <= 1
  PROVE  Spec => []TriggerDiesWithItsPod
<1>1. Init => TriggerInv
  BY ConstantsAssumption, SMT DEF Init, TriggerInv
<1>2. IInv /\ IInv' /\ TriggerInv /\ [Next]_vars => TriggerInv'
  BY TriggerStep
<1>3. IInv /\ TriggerInv => TriggerDiesWithItsPod
  <2> SUFFICES ASSUME IInv, TriggerInv, NEW a \in IP, NEW r \in Req, NEW q \in Req,
                      armed[a] = r, q # r, ip[q] = a
               PROVE  pc[q] \in {"idle", "failed"} \/ del[q] = "done"
    BY DEF TriggerDiesWithItsPod
  <2>1. ~Owns(q)
    <3>1. ip[r] = a /\ pc[r] = "live"
      BY DEF TriggerInv
    <3>2. CASE del[r] = "done"
      BY <3>2, SMT DEF TriggerInv
    <3>3. CASE del[r] # "done"
      BY <3>1, <3>3 DEF IInv, OwnInv, Owns
    <3> QED BY <3>2, <3>3
  <2>2. pc[q] \in PC /\ pc[q] # "undo"
    BY SMT DEF IInv, TypeOK, EndpointInv
  <2> QED BY <2>1, <2>2 DEF Owns, PC
<1> QED BY <1>1, <1>2, <1>3, IInvariant, PTL DEF Spec
=============================================================================
