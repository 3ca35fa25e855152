------------------------- MODULE ManagedIPAMLeases -------------------------
(***************************************************************************)
(* Proofs about the leases of ManagedIPAM: no interleaving of prompt CNI   *)
(* requests frees the address of a live endpoint or gives it away twice,   *)
(* and no address is lost: every bit that is set is excluded or some       *)
(* request is going to clear it.                                           *)
(***************************************************************************)
EXTENDS ManagedIPAMProofs

\* A leaf is for Zenon unless it names another prover.
USE Zenon

\* An address that has just been allocated carries no timer of an older lease.
LEMMA NoOldTimer ==
  ASSUME IInv, NEW r \in Req, pc[r] = "allocated"
  PROVE  timers[from[r]][ip[r]] = None
<1>1. SUFFICES ASSUME timers[from[r]][ip[r]] # None PROVE FALSE
  OBVIOUS
<1>2. Owns(r) /\ ip[r] \in IP /\ from[r] \in Pool
  BY DEF Owns, IInv, OwnInv
<1> DEFINE q == timers[from[r]][ip[r]]
<1>3. /\ q \in Req /\ from[q] = from[r] /\ ip[q] = ip[r]
      /\ pc[q] \in {"leased", "checked", "added", "failed"}
  BY <1>1, <1>2, TimerFacts, SMT DEF Leasing
<1>4. Owns(q) /\ q # r
  BY <1>2, <1>3 DEF Owns
<1> HIDE DEF q
<1> QED BY <1>2, <1>3, <1>4 DEF IInv, OwnInv

\* The states in which it must be running.
MustHaveTimer(r) ==
  pc[r] \in {"leased", "checked", "added"} \/ (pc[r] = "failed" /\ cleanup[r] # "done")

\* Every step keeps the lease timers with the requests they name.
LEMMA TimerStep == Prompt /\ StableCidrs /\ IInv /\ TypeOK' /\ [Next]_vars => TimerInv'
<1> SUFFICES ASSUME Prompt, StableCidrs, IInv, TypeOK', [Next]_vars PROVE TimerInv'
  OBVIOUS
<1> USE DEF ipamVars, epVars, stzVars, apiVars, reqVars
<1>0. TypeOK
  BY DEF IInv
<1>1. ASSUME NEW p \in Pool, NEW a \in IP, timers[p][a] # None
      PROVE  LET r == timers[p][a]
             IN  r \in Req /\ from[r] = p /\ ip[r] = a /\ pc[r] \in Leasing
  BY <1>1, TimerFacts
<1>2. ASSUME NEW r \in Req, MustHaveTimer(r)
      PROVE  ip[r] \in IP /\ from[r] \in Pool /\ timers[from[r]][ip[r]] = r
  BY <1>2 DEF IInv, TimerInv, MustHaveTimer
\* The goal, in the same form.
<1>3. ASSUME \A p \in Pool, a \in IP : timers'[p][a] # None =>
               LET r == timers'[p][a]
               IN  from'[r] = p /\ ip'[r] = a /\ pc'[r] \in Leasing,
             \A r \in Req : MustHaveTimer(r)' =>
               ip'[r] \in IP /\ from'[r] \in Pool /\ timers'[from'[r]][ip'[r]] = r
      PROVE  TimerInv'
  BY <1>3 DEF TimerInv, MustHaveTimer, Leasing
\* A step that leaves the timers alone.
<1>4. ASSUME UNCHANGED <<timers, ip, from>>,
             \A q \in Req : /\ pc[q] \in Leasing => pc'[q] \in Leasing
                            /\ MustHaveTimer(q)' => MustHaveTimer(q)
      PROVE  TimerInv'
  BY <1>1, <1>2, <1>3, <1>4, SMT
\* A step that gives an idle request an address.
<1>5. ASSUME NEW r \in Req, pc[r] = "idle", pc'[r] \in {"allocated", "static"},
             UNCHANGED <<timers, cleanup>>,
             \A q \in Req : q # r => ip'[q] = ip[q] /\ from'[q] = from[q] /\ pc'[q] = pc[q]
      PROVE  TimerInv'
  <2>1. ASSUME NEW p \in Pool, NEW a \in IP, timers'[p][a] # None
        PROVE  LET q == timers'[p][a]
               IN  from'[q] = p /\ ip'[q] = a /\ pc'[q] \in Leasing
    <3>1. timers[p][a] # r
      BY <1>1, <1>5, <2>1, SMT DEF Leasing
    <3> QED BY <1>1, <1>5, <2>1, <3>1, SMT
  <2>2. ASSUME NEW q \in Req, MustHaveTimer(q)'
        PROVE  ip'[q] \in IP /\ from'[q] \in Pool /\ timers'[from'[q]][ip'[q]] = q
    <3>1. q # r /\ MustHaveTimer(q)
      BY <1>5, <2>2 DEF MustHaveTimer
    <3> QED BY <1>2, <1>5, <3>1
  <2> QED BY <1>3, <2>1, <2>2
\* A release by an owner.
<1>6. ASSUME NEW r \in Req, Owns(r), releaseIPLocked(ip[r], from[r]),
             UNCHANGED <<ip, from>>, ~MustHaveTimer(r)',
             \A q \in Req : q # r => pc'[q] = pc[q] /\ cleanup'[q] = cleanup[q]
      PROVE  TimerInv'
  <2>0. \A p \in Pool, a \in IP :
          timers'[p][a] = IF p = from[r] /\ a = ip[r] THEN None ELSE timers[p][a]
    BY <1>6, ReleaseByOwner
  <2>1. ASSUME NEW p \in Pool, NEW a \in IP, timers'[p][a] # None
        PROVE  LET q == timers'[p][a]
               IN  from'[q] = p /\ ip'[q] = a /\ pc'[q] \in Leasing
    <3>1. timers'[p][a] = timers[p][a] /\ ~(p = from[r] /\ a = ip[r])
      BY <2>0, <2>1
    <3>2. timers[p][a] # r
      BY <1>1, <2>1, <3>1, SMT
    <3> QED BY <1>1, <1>6, <2>1, <3>1, <3>2, SMT
  <2>2. ASSUME NEW q \in Req, MustHaveTimer(q)'
        PROVE  ip'[q] \in IP /\ from'[q] \in Pool /\ timers'[from'[q]][ip'[q]] = q
    <3>1. q # r /\ MustHaveTimer(q)
      BY <1>6, <2>2 DEF MustHaveTimer
    <3>2. ip[q] \in IP /\ from[q] \in Pool /\ timers[from[q]][ip[q]] = q
      BY <1>2, <3>1
    <3>3. Owns(q)
      BY <3>1, <3>2 DEF MustHaveTimer, Owns
    <3>4. ip[q] # ip[r]
      BY <1>6, <3>1, <3>3, ReleaseByOwner
    <3> QED BY <1>6, <2>0, <3>2, <3>4
  <2> QED BY <1>3, <2>1, <2>2
<1>7. ASSUME NEW r \in Req, NEW p \in Pool,
             AllocateNextFamily(r, p) \/ \E a \in IP : AllocateIP(r, a, p)
      PROVE  TimerInv'
  BY <1>0, <1>5, <1>7, SMT DEF AllocateNextFamily, AllocateIP, TypeOK
<1>8. ASSUME NEW r \in Req, NEW p \in Pool, PoolExhausted(r, p) PROVE TimerInv'
  BY <1>0, <1>4, <1>8 DEF PoolExhausted, TypeOK, Leasing, MustHaveTimer
<1>9. ASSUME NEW r \in Req, StartExpirationTimer(r) PROVE TimerInv'
  <2>1. pc[r] = "allocated" /\ Owns(r) /\ ip[r] \in IP /\ from[r] \in Pool
    BY <1>9 DEF StartExpirationTimer, Owns, IInv, OwnInv
  <2>2. timers[from[r]][ip[r]] = None
    BY <2>1, NoOldTimer
  <2>3. /\ timers' = [timers EXCEPT ![from[r]][ip[r]] = r]
        /\ pc' = [pc EXCEPT ![r] = "leased"]
        /\ UNCHANGED <<ip, from, cleanup>>
    BY <1>9, <2>2 DEF StartExpirationTimer, leaseTimer
  <2>4. \A p \in Pool, a \in IP :
          timers'[p][a] = IF p = from[r] /\ a = ip[r] THEN r ELSE timers[p][a]
    BY <1>0, <2>1, <2>3, SMT DEF TypeOK
  <2>5. pc'[r] = "leased" /\ \A q \in Req : q # r => pc'[q] = pc[q]
    BY <1>0, <2>3 DEF TypeOK
  <2>6. ASSUME NEW p \in Pool, NEW a \in IP, timers'[p][a] # None
        PROVE  LET q == timers'[p][a]
               IN  from'[q] = p /\ ip'[q] = a /\ pc'[q] \in Leasing
    <3>1. CASE p = from[r] /\ a = ip[r]
      BY <2>3, <2>4, <2>5, <3>1, SMT DEF Leasing
    <3>2. CASE ~(p = from[r] /\ a = ip[r])
      BY <1>1, <2>3, <2>4, <2>5, <2>6, <3>2, SMT DEF Leasing
    <3> QED BY <3>1, <3>2
  <2>7. ASSUME NEW q \in Req, MustHaveTimer(q)'
        PROVE  ip'[q] \in IP /\ from'[q] \in Pool /\ timers'[from'[q]][ip'[q]] = q
    <3>1. CASE q = r
      BY <2>1, <2>3, <2>4, <3>1
    <3>2. CASE q # r
      <4>1. MustHaveTimer(q)
        BY <2>3, <2>5, <2>7, <3>2 DEF MustHaveTimer
      <4>2. ip[q] \in IP /\ from[q] \in Pool /\ timers[from[q]][ip[q]] = q
        BY <1>2, <4>1
      <4>3. timers[from[q]][ip[q]] # None
        BY <4>2, ConstantsAssumption
      <4> QED BY <2>2, <2>3, <2>4, <4>2, <4>3, SMT
    <3> QED BY <3>1, <3>2
  <2> QED BY <1>3, <2>6, <2>7
<1>10. ASSUME NEW r \in Req, UndoAllocation(r) PROVE TimerInv'
  BY <1>10 DEF UndoAllocation, IInv, EndpointInv
<1>11. ASSUME NEW r \in Req, Expire(r) PROVE TimerInv'
  <2>1. /\ pc[r] = "failed" /\ cleanup[r] = "done" /\ timers[from[r]][ip[r]] = r
        /\ releaseIPLocked(ip[r], from[r])
        /\ UNCHANGED <<ip, from, pc, cleanup>>
    BY <1>11 DEF Expire
  <2>2. ip[r] \in IP /\ from[r] \in Pool
    BY <1>0, <1>11 DEF Expire, IInv, OwnInv, TypeOK
  <2>3. Owns(r) /\ ~MustHaveTimer(r)'
    BY <2>1, <2>2 DEF Owns, MustHaveTimer
  <2> QED BY <1>6, <2>1, <2>3
<1>12. ASSUME NEW r \in Req,
              \/ CniFail(r) \/ CniDie(r) \/ CheckEndpoint(r) \/ AddEndpoint(r)
              \/ errorDuringCreation(r) \/ DeleteIpamCheck(r) \/ DeleteEndpoint(r)
              \/ ArmTrigger(r)
       PROVE  TimerInv'
  <2>1. UNCHANGED <<timers, ip, from>>
    BY <1>12 DEF CniFail, CniDie, CheckEndpoint, AddEndpoint, errorDuringCreation,
                 DeleteIpamCheck, DeleteEndpoint, ArmTrigger
  <2>2. ASSUME NEW q \in Req
        PROVE  /\ pc[q] \in Leasing => pc'[q] \in Leasing
               /\ MustHaveTimer(q)' => MustHaveTimer(q)
    BY <1>0, <1>12, SMT DEF CniFail, CniDie, CheckEndpoint, AddEndpoint, errorDuringCreation,
                 DeleteIpamCheck, DeleteEndpoint, ArmTrigger, TypeOK, Leasing, MustHaveTimer
  <2> QED BY <1>4, <2>1, <2>2
<1>13. ASSUME NEW r \in Req, StopExpirationTimer(r) PROVE TimerInv'
  <2>1. pc[r] = "added" /\ ip[r] \in IP /\ from[r] \in Pool /\ timers[from[r]][ip[r]] = r
    BY <1>2, <1>13 DEF StopExpirationTimer, MustHaveTimer
  <2>2. /\ timers' = [timers EXCEPT ![from[r]][ip[r]] = None]
        /\ pc' = [pc EXCEPT ![r] = "live"]
        /\ UNCHANGED <<ip, from, cleanup>>
    BY <1>13, <2>1 DEF StopExpirationTimer, ownTimer
  <2>3. \A p \in Pool, a \in IP :
          timers'[p][a] = IF p = from[r] /\ a = ip[r] THEN None ELSE timers[p][a]
    BY <1>0, <2>1, <2>2, SMT DEF TypeOK
  <2>4. pc'[r] = "live" /\ \A q \in Req : q # r => pc'[q] = pc[q]
    BY <1>0, <2>2 DEF TypeOK
  <2>5. ASSUME NEW p \in Pool, NEW a \in IP, timers'[p][a] # None
        PROVE  LET q == timers'[p][a]
               IN  from'[q] = p /\ ip'[q] = a /\ pc'[q] \in Leasing
    <3>1. timers'[p][a] = timers[p][a] /\ ~(p = from[r] /\ a = ip[r])
      BY <2>3, <2>5
    <3>2. timers[p][a] # r
      BY <1>1, <2>5, <3>1, SMT
    <3> QED BY <1>1, <2>2, <2>4, <2>5, <3>1, <3>2, SMT
  <2>6. ASSUME NEW q \in Req, MustHaveTimer(q)'
        PROVE  ip'[q] \in IP /\ from'[q] \in Pool /\ timers'[from'[q]][ip'[q]] = q
    <3>1. q # r /\ MustHaveTimer(q)
      BY <2>2, <2>4, <2>6 DEF MustHaveTimer
    <3>2. ip[q] \in IP /\ from[q] \in Pool /\ timers[from[q]][ip[q]] = q
      BY <1>2, <3>1
    <3> QED BY <2>1, <2>2, <2>3, <3>1, <3>2, SMT
  <2> QED BY <1>3, <2>5, <2>6
<1>14. ASSUME NEW r \in Req, DeleteIpamRelease(r) PROVE TimerInv'
  <2>1. /\ cleanup[r] = "checked" /\ releaseIPLocked(ip[r], from[r])
        /\ UNCHANGED <<ip, from>>
        /\ pc' = [pc EXCEPT ![r] = IF @ = "static" THEN "failed" ELSE @]
        /\ cleanup' = [cleanup EXCEPT ![r] = "done"]
    BY <1>14 DEF DeleteIpamRelease
  <2>2. pc[r] \in {"failed", "static"} /\ pc'[r] = "failed" /\ cleanup'[r] = "done"
    BY <1>0, <2>1, CleanupFacts, SomeTypes DEF ReqTypes
  <2>3. Owns(r) /\ ~MustHaveTimer(r)'
    BY <1>2, <2>1, <2>2 DEF MustHaveTimer, Owns
  <2>4. \A q \in Req : q # r => pc'[q] = pc[q] /\ cleanup'[q] = cleanup[q]
    BY <1>0, <2>1 DEF TypeOK
  <2> QED BY <1>6, <2>1, <2>3, <2>4
<1>15. ASSUME NEW r \in Req, EndpointDeleted(r) PROVE TimerInv'
  <2>1. /\ del[r] = "removing" /\ releaseIPLocked(ip[r], from[r])
        /\ UNCHANGED <<ip, from, pc, cleanup>>
    BY <1>15 DEF EndpointDeleted
  <2>2. pc[r] = "live"
    BY <2>1 DEF IInv, EndpointInv
  <2>3. Owns(r) /\ ~MustHaveTimer(r)'
    BY <2>1, <2>2 DEF Owns, MustHaveTimer
  <2> QED BY <1>6, <2>1, <2>3
<1>16. CASE UNCHANGED <<timers, ip, from, pc, cleanup>>
  <2>1. \A q \in Req : MustHaveTimer(q)' => MustHaveTimer(q)
    BY <1>16 DEF MustHaveTimer
  <2> QED BY <1>4, <1>16, <2>1
<1>17. CASE \/ \E n \in Node, c \in Cidr : AssignCIDR(n, c)
            \/ \E n \in Node : DeleteCiliumNode(n) \/ FetchCiliumNode(n)
            \/ addManagedNodeCIDR \/ UNCHANGED vars
  BY <1>16, <1>17 DEF AssignCIDR, DeleteCiliumNode, FetchCiliumNode, addManagedNodeCIDR, vars
<1> QED
  BY <1>7, <1>8, <1>9, <1>10, <1>11, <1>12, <1>13, <1>14, <1>15, <1>17 DEF Next

\* An endpoint found under an address that r owns is the endpoint of r.
LEMMA FoundIsOwn ==
  ASSUME IInv, NEW r \in Req, Owns(r), byIP[ip[r]] # None
  PROVE  byIP[ip[r]] = r /\ exposed[r]
<1> DEFINE q == byIP[ip[r]]
<1>1. ip[r] \in IP
  BY DEF IInv, OwnInv
<1>2. q \in Req /\ exposed[q] /\ ip[q] = ip[r]
  BY <1>1, IndexFacts
<1>3. Owns(q)
  BY <1>2, ExposedOwns
<1> HIDE DEF q
<1>4. q = r
  BY <1>2, <1>3 DEF IInv, OwnInv
<1> QED BY <1>2, <1>4 DEF q

\* What EndpointInv says of one request, apart from the index.
RequestInv(r) ==
  /\ pc[r] = "added" => exposed[r]
  /\ pc[r] = "live" => exposed[r] \/ del[r] # "no"
  /\ del[r] # "no" => pc[r] = "live"
  /\ cleanup[r] = "checked" => pc[r] \in {"failed", "static"}
  /\ pc[r] \notin {"failed", "live", "static"} => cleanup[r] = "no"
  /\ pc[r] = "static" => cleanup[r] # "done"
  /\ pc[r] # "undo"
  /\ exposed[r] => pc[r] \in {"added", "live"} /\ del[r] = "no"

\* Every step keeps the endpoint index exact and the releases of a request apart.
LEMMA EndpointStep == Prompt /\ StableCidrs /\ IInv /\ TypeOK' /\ [Next]_vars => EndpointInv'
<1> SUFFICES ASSUME Prompt, StableCidrs, IInv, TypeOK', [Next]_vars PROVE EndpointInv'
  OBVIOUS
<1> USE DEF ipamVars, epVars, stzVars, apiVars, reqVars
<1>0. ReqTypes /\ EpTypes /\ \A r \in Req : RequestInv(r)
  <2>1. EndpointInv /\ ReqTypes /\ EpTypes
    BY SomeTypes DEF IInv
  <2> QED BY <2>1 DEF EndpointInv, RequestInv
<1>1. ASSUME NEW r \in Req, exposed[r] PROVE Owns(r) /\ ip[r] \in IP /\ byIP[ip[r]] = r
  <2>1. Owns(r) /\ byIP[ip[r]] = r
    BY <1>1, ExposedOwns
  <2> QED BY <2>1 DEF IInv, OwnInv
\* A step that leaves the index alone.
<1>2. ASSUME UNCHANGED <<exposed, byIP>>,
             \A q \in Req : RequestInv(q)' /\ (exposed[q] => ip'[q] = ip[q])
      PROVE  EndpointInv'
  <2>1. ASSUME NEW a \in IP, byIP'[a] # None
        PROVE  exposed'[byIP'[a]] /\ ip'[byIP'[a]] = a
    <3>1. byIP[a] \in Req /\ exposed[byIP[a]] /\ ip[byIP[a]] = a
      BY <1>2, <2>1, IndexFacts
    <3> QED BY <1>2, <3>1
  <2>2. ASSUME NEW q \in Req, exposed'[q] PROVE byIP'[ip'[q]] = q
    BY <1>1, <1>2, <2>2
  <2> QED BY <1>2, <2>1, <2>2 DEF EndpointInv, RequestInv
\* A step that takes the endpoint of an owner out of the manager.
<1>3. ASSUME NEW r \in Req, Owns(r), unexpose(r), UNCHANGED ip,
             \A q \in Req : RequestInv(q)'
      PROVE  EndpointInv'
  <2>1. ip[r] \in IP
    BY <1>3 DEF IInv, OwnInv
  <2>2. /\ \A q \in Req : exposed'[q] = IF q = r THEN FALSE ELSE exposed[q]
        /\ \A a \in IP : byIP'[a] = IF a = ip[r] THEN None ELSE byIP[a]
    BY <1>0, <1>3, <2>1 DEF unexpose, EpTypes
  <2>3. ASSUME NEW a \in IP, byIP'[a] # None
        PROVE  exposed'[byIP'[a]] /\ ip'[byIP'[a]] = a
    <3>1. byIP'[a] = byIP[a] /\ a # ip[r]
      BY <2>2, <2>3
    <3>2. byIP[a] \in Req /\ exposed[byIP[a]] /\ ip[byIP[a]] = a
      BY <2>3, <3>1, IndexFacts
    <3> QED BY <1>3, <2>2, <3>1, <3>2
  <2>4. ASSUME NEW q \in Req, exposed'[q] PROVE byIP'[ip'[q]] = q
    <3>1. q # r /\ exposed[q]
      BY <2>2, <2>4
    <3>2. Owns(q) /\ ip[q] \in IP /\ byIP[ip[q]] = q
      BY <1>1, <3>1
    <3>3. ip[q] # ip[r]
      BY <1>3, <3>1, <3>2 DEF IInv, OwnInv
    <3> QED BY <1>3, <2>2, <3>2, <3>3
  <2> QED BY <1>3, <2>3, <2>4 DEF EndpointInv, RequestInv
<1>4. ASSUME NEW r \in Req, NEW p \in Pool,
             \/ AllocateNextFamily(r, p) \/ PoolExhausted(r, p)
             \/ \E a \in IP : AllocateIP(r, a, p)
      PROVE  EndpointInv'
  <2>1. /\ UNCHANGED <<exposed, byIP, del>> /\ pc[r] = "idle"
        /\ pc'[r] \in {"allocated", "static", "failed"}
        /\ cleanup'[r] = cleanup[r] \/ (cleanup'[r] = "done" /\ pc'[r] = "failed")
        /\ \A q \in Req : q # r => pc'[q] = pc[q] /\ cleanup'[q] = cleanup[q] /\ ip'[q] = ip[q]
    <3>1. CASE AllocateNextFamily(r, p)
      BY <1>0, <3>1 DEF AllocateNextFamily, ReqTypes
    <3>2. CASE PoolExhausted(r, p)
      BY <1>0, <3>2 DEF PoolExhausted, ReqTypes
    <3>3. CASE \E a \in IP : AllocateIP(r, a, p)
      BY <1>0, <3>3 DEF AllocateIP, ReqTypes
    <3> QED BY <1>4, <3>1, <3>2, <3>3
  <2>2. ASSUME NEW q \in Req PROVE RequestInv(q)' /\ (exposed[q] => ip'[q] = ip[q])
    BY <1>0, <2>1 DEF RequestInv
  <2> QED BY <1>2, <2>1, <2>2
<1>5. ASSUME NEW r \in Req, StartExpirationTimer(r) PROVE EndpointInv'
  <2>1. /\ UNCHANGED <<exposed, byIP, del, cleanup, ip>> /\ pc[r] = "allocated"
        /\ pc' = [pc EXCEPT ![r] = "leased"]
    BY <1>5, NoOldTimer DEF StartExpirationTimer
  <2>2. ASSUME NEW q \in Req PROVE RequestInv(q)'
    BY <1>0, <2>1 DEF RequestInv, ReqTypes, EpTypes
  <2> QED BY <1>2, <2>1, <2>2
<1>6. ASSUME NEW r \in Req, UndoAllocation(r) PROVE EndpointInv'
  BY <1>6 DEF UndoAllocation, IInv, EndpointInv
<1>7. ASSUME NEW r \in Req, CniFail(r) \/ CniDie(r) \/ CheckEndpoint(r) PROVE EndpointInv'
  <2>1. UNCHANGED <<exposed, byIP, del, ip>>
    BY <1>7 DEF CniFail, CniDie, CheckEndpoint
  <2>2. ASSUME NEW q \in Req PROVE RequestInv(q)'
    <3>1. CASE CniFail(r)
      BY <1>0, <3>1 DEF CniFail, RequestInv, ReqTypes
    <3>2. CASE CniDie(r)
      BY <1>0, <3>2 DEF CniDie, RequestInv, ReqTypes
    <3>3. CASE CheckEndpoint(r)
      BY <1>0, <3>3 DEF CheckEndpoint, RequestInv, ReqTypes
    <3> QED BY <1>7, <3>1, <3>2, <3>3
  <2> QED BY <1>2, <2>1, <2>2
<1>8. ASSUME NEW r \in Req, AddEndpoint(r) PROVE EndpointInv'
  <2>1. /\ pc[r] = "checked" /\ UNCHANGED <<del, ip, cleanup>>
        /\ pc' = [pc EXCEPT ![r] = "added"]
        /\ exposed' = [exposed EXCEPT ![r] = TRUE]
        /\ byIP' = [byIP EXCEPT ![ip[r]] = r]
    BY <1>8 DEF AddEndpoint
  <2>2. Owns(r) /\ ip[r] \in IP
    BY <2>1 DEF Owns, IInv, OwnInv
  <2>3. byIP[ip[r]] = None
    BY <1>0, <2>1, <2>2, FoundIsOwn DEF RequestInv
  <2>4. ASSUME NEW q \in Req PROVE RequestInv(q)'
    BY <1>0, <2>1 DEF RequestInv, ReqTypes, EpTypes
  <2>5. /\ \A q \in Req : exposed'[q] = IF q = r THEN TRUE ELSE exposed[q]
        /\ \A a \in IP : byIP'[a] = IF a = ip[r] THEN r ELSE byIP[a]
    BY <1>0, <2>1, <2>2 DEF EpTypes
  <2>6. ASSUME NEW a \in IP, byIP'[a] # None
        PROVE  exposed'[byIP'[a]] /\ ip'[byIP'[a]] = a
    <3>1. CASE a = ip[r]
      BY <2>1, <2>5, <3>1
    <3>2. CASE a # ip[r]
      <4>1. byIP[a] \in Req /\ exposed[byIP[a]] /\ ip[byIP[a]] = a /\ byIP'[a] = byIP[a]
        BY <2>5, <2>6, <3>2, IndexFacts
      <4> QED BY <2>1, <2>5, <4>1
    <3> QED BY <3>1, <3>2
  <2>7. ASSUME NEW q \in Req, exposed'[q] PROVE byIP'[ip'[q]] = q
    <3>1. CASE q = r
      BY <2>1, <2>2, <2>5, <3>1
    <3>2. CASE q # r
      <4>1. ip[q] \in IP /\ byIP[ip[q]] = q
        BY <1>1, <2>5, <2>7, <3>2
      <4>2. ip[q] # ip[r]
        BY <2>3, <4>1, ConstantsAssumption
      <4> QED BY <2>1, <2>5, <4>1, <4>2
    <3> QED BY <3>1, <3>2
  <2> QED BY <2>4, <2>6, <2>7 DEF EndpointInv, RequestInv
<1>9. ASSUME NEW r \in Req, errorDuringCreation(r) PROVE EndpointInv'
  <2>1. /\ pc[r] \in {"checked", "added"} /\ unexpose(r) /\ UNCHANGED <<del, ip, cleanup>>
        /\ pc' = [pc EXCEPT ![r] = "failed"]
    BY <1>9 DEF errorDuringCreation
  <2>2. Owns(r)
    BY <2>1 DEF Owns
  <2>3. ASSUME NEW q \in Req PROVE RequestInv(q)'
    BY <1>0, <2>1 DEF RequestInv, ReqTypes, EpTypes, unexpose
  <2> QED BY <1>3, <2>1, <2>2, <2>3
<1>10. ASSUME NEW r \in Req, StopExpirationTimer(r) PROVE EndpointInv'
  <2>1. pc[r] = "added" /\ ownTimer(r)
    BY <1>10 DEF StopExpirationTimer, ownTimer, IInv, TimerInv
  <2>2. /\ UNCHANGED <<exposed, byIP, del, ip, cleanup>>
        /\ pc' = [pc EXCEPT ![r] = "live"]
    BY <1>10, <2>1 DEF StopExpirationTimer
  <2>3. ASSUME NEW q \in Req PROVE RequestInv(q)'
    BY <1>0, <2>1, <2>2 DEF RequestInv, ReqTypes, EpTypes
  <2> QED BY <1>2, <2>2, <2>3
<1>11. ASSUME NEW r \in Req, DeleteIpamCheck(r) PROVE EndpointInv'
  <2>1. /\ UNCHANGED <<exposed, byIP, del, ip, pc>>
        /\ pc[r] \in {"failed", "live", "static"} /\ del[r] = "no"
        /\ cleanup' = [cleanup EXCEPT ![r] = IF byIP[ip[r]] # None THEN "done" ELSE "checked"]
    BY <1>11 DEF DeleteIpamCheck, inUse
  <2>2. pc[r] = "live" => byIP[ip[r]] # None
    <3>1. pc[r] = "live" => exposed[r]
      BY <1>0, <2>1 DEF RequestInv
    <3> QED BY <1>1, <3>1, ConstantsAssumption
  <2>3. pc[r] = "static" => byIP[ip[r]] = None
    BY <1>0, FoundIsOwn DEF RequestInv, Owns
  <2>4. ASSUME NEW q \in Req PROVE RequestInv(q)'
    BY <1>0, <2>1, <2>2, <2>3 DEF RequestInv, ReqTypes, EpTypes
  <2> QED BY <1>2, <2>1, <2>4
<1>12. ASSUME NEW r \in Req, DeleteIpamRelease(r) PROVE EndpointInv'
  <2>1. /\ UNCHANGED <<exposed, byIP, del, ip>>
        /\ cleanup[r] = "checked"
        /\ cleanup' = [cleanup EXCEPT ![r] = "done"]
        /\ pc' = [pc EXCEPT ![r] = IF @ = "static" THEN "failed" ELSE @]
    BY <1>12 DEF DeleteIpamRelease
  <2>2. ASSUME NEW q \in Req PROVE RequestInv(q)'
    BY <1>0, <2>1 DEF RequestInv, ReqTypes, EpTypes
  <2> QED BY <1>2, <2>1, <2>2
<1>13. ASSUME NEW r \in Req, DeleteEndpoint(r) PROVE EndpointInv'
  <2>1. /\ exposed[r] /\ unexpose(r) /\ UNCHANGED <<pc, ip, cleanup>> /\ pc[r] = "live"
        /\ del' = [del EXCEPT ![r] = "removing"]
    BY <1>13 DEF DeleteEndpoint
  <2>2. Owns(r)
    BY <1>1, <2>1
  <2>3. ASSUME NEW q \in Req PROVE RequestInv(q)'
    BY <1>0, <2>1 DEF RequestInv, ReqTypes, EpTypes, unexpose
  <2> QED BY <1>3, <2>1, <2>2, <2>3
<1>14. ASSUME NEW r \in Req, EndpointDeleted(r) PROVE EndpointInv'
  <2>1. /\ UNCHANGED <<exposed, byIP, cleanup, ip, pc>> /\ del[r] = "removing"
        /\ del' = [del EXCEPT ![r] = "done"]
    BY <1>14 DEF EndpointDeleted
  <2>2. ASSUME NEW q \in Req PROVE RequestInv(q)'
    BY <1>0, <2>1 DEF RequestInv, ReqTypes, EpTypes
  <2> QED BY <1>2, <2>1, <2>2
<1>15. CASE UNCHANGED <<exposed, byIP, pc, del, cleanup, ip>>
  <2>1. \A q \in Req : RequestInv(q)'
    BY <1>0, <1>15 DEF RequestInv
  <2> QED BY <1>2, <1>15, <2>1
<1>16. ASSUME NEW r \in Req, Expire(r) \/ ArmTrigger(r) PROVE EndpointInv'
  BY <1>15, <1>16 DEF Expire, ArmTrigger
<1>17. CASE \/ \E n \in Node, c \in Cidr : AssignCIDR(n, c)
            \/ \E n \in Node : DeleteCiliumNode(n) \/ FetchCiliumNode(n)
            \/ addManagedNodeCIDR \/ UNCHANGED vars
  BY <1>15, <1>17 DEF AssignCIDR, DeleteCiliumNode, FetchCiliumNode, addManagedNodeCIDR, vars
<1> QED
  BY <1>4, <1>5, <1>6, <1>7, <1>8, <1>9, <1>10, <1>11, <1>12, <1>13, <1>14, <1>16, <1>17
  DEF Next

\* IInv is inductive.
LEMMA IInvariant == ASSUME Prompt, StableCidrs PROVE Spec => []IInv
<1>1. Init => TypeOK
  BY ConstantsAssumption, SMT DEF Init, TypeOK, Pool, PC
<1>2. Init => SubsIndexed /\ CidrInv
  <2> SUFFICES ASSUME Init PROVE SubsIndexed /\ CidrInv
    OBVIOUS
  <2>1. SubsIndexed
    BY ConstantsAssumption, SMT DEF Init, SubsIndexed
  <2>2. CidrInv
    BY ConstantsAssumption DEF Init, CidrInv
  <2> QED BY <2>1, <2>2
<1>3. Init => OwnInv /\ TimerInv /\ EndpointInv
  <2> SUFFICES ASSUME Init PROVE OwnInv /\ TimerInv /\ EndpointInv
    OBVIOUS
  <2>1. OwnInv
    BY DEF Init, OwnInv, Owns
  <2>2. TimerInv
    BY DEF Init, TimerInv
  <2>3. EndpointInv
    BY DEF Init, EndpointInv
  <2> QED BY <2>1, <2>2, <2>3
<1>4. IInv /\ [Next]_vars => IInv'
  <2>1. IInv => PrimaryHasSub
    BY DEF IInv, CidrInv, PrimaryHasSub
  <2> QED BY <2>1, TypeStep, SubsStep, CidrStep, OwnStep, TimerStep, EndpointStep DEF IInv
<1>5. Init => IInv
  BY <1>1, <1>2, <1>3 DEF IInv
<1> QED BY <1>4, <1>5, PTL DEF Spec

\* While CiliumNodes stay and no CNI ADD outlives its lease, the address of an
\* endpoint that CreateEndpoint returned stays allocated until its CNI DEL.
THEOREM LiveEndpointHoldsIP == ASSUME Prompt, StableCidrs PROVE Spec => []LiveHoldsIP
<1>1. IInv => LiveHoldsIP
  BY DEF IInv, OwnInv, EndpointInv, Owns, Live, LiveHoldsIP
<1> QED BY <1>1, IInvariant, PTL

\* Under the same conditions no two live endpoints have one address.
THEOREM LiveEndpointsDistinct == ASSUME Prompt, StableCidrs PROVE Spec => []LiveIPsDistinct
<1>1. IInv => LiveIPsDistinct
  BY DEF IInv, OwnInv, EndpointInv, Owns, Live, LiveIPsDistinct
<1> QED BY <1>1, IInvariant, PTL

(***************************************************************************)
(* No address is lost.                                                     *)
(***************************************************************************)
\* Every bit that is set belongs to an excluded address or to one that some
\* request owns.
Accounted ==
  \A n \in Node : \A a \in allocated[n] :
    a \in Excluded \/ \E r \in Req : Owns(r) /\ ip[r] = a

\* An owner holds its address in the bitmap where its bit is set.
LEMMA OwnerHolds ==
  ASSUME IInv, NEW n \in Node, NEW a \in allocated[n],
         NEW r \in Req, Owns(r), ip[r] = a
  PROVE  Holds(r, n, a)
<1>1. CASE pc[r] = "static"
  BY <1>1 DEF Holds
<1>2. CASE pc[r] # "static"
  <2>1. from[r] \in Node /\ a \in allocated[from[r]]
    BY <1>2 DEF IInv, OwnInv
  <2>2. from[r] = n
    BY <2>1, CoversOne, SMT DEF IInv, SubsIndexed
  <2>3. CASE pc[r] = "live"
    <3>1. del[r] # "done" /\ (exposed[r] \/ del[r] # "no")
      BY <2>3 DEF Owns, IInv, EndpointInv
    <3>2. del[r] \in {"no", "removing", "done"}
      BY DEF IInv, TypeOK
    <3> QED BY <2>2, <2>3, <3>1, <3>2 DEF Holds
  <2>4. CASE pc[r] \in {"leased", "checked", "added"}
    BY <2>2, <2>4 DEF Holds, IInv, TimerInv
  <2> QED BY <1>2, <2>2, <2>3, <2>4 DEF Holds, Owns
<1> QED BY <1>1, <1>2

\* A step that sets no bit and takes no address from its owner.
LEMMA KeepAccounted ==
  ASSUME Accounted,
         \A n \in Node : allocated'[n] \subseteq allocated[n],
         \A q \in Req : Owns(q) => Owns(q)' /\ ip'[q] = ip[q]
  PROVE  Accounted'
BY DEF Accounted

\* A request that had no address is given one, and the other bits the search
\* sets are those of excluded addresses.
LEMMA GrantAccounted ==
  ASSUME Accounted, TypeOK, NEW r \in Req, NEW a, pc[r] = "idle",
         \A n \in Node : allocated'[n] \subseteq allocated[n] \cup Excluded \cup {a},
         ip' = [ip EXCEPT ![r] = a], Owns(r)', UNCHANGED <<timers, del>>,
         \A q \in Req : q # r => pc'[q] = pc[q] /\ from'[q] = from[q]
  PROVE  Accounted'
<1>1. ip'[r] = a
  BY DEF TypeOK
<1>2. ASSUME NEW q \in Req, Owns(q) PROVE Owns(q)' /\ ip'[q] = ip[q]
  <2>1. q # r
    BY <1>2 DEF Owns
  <2>2. ip'[q] = ip[q]
    BY <2>1 DEF TypeOK
  <2> QED BY <1>2, <2>1, <2>2 DEF Owns
<1> QED BY <1>1, <1>2, SMT DEF Accounted

\* An owner gives its address back: its bit goes, and the other owners stay.
LEMMA ReturnAccounted ==
  ASSUME Accounted, IInv, NEW r \in Req, Owns(r), releaseIPLocked(ip[r], from[r]),
         UNCHANGED <<ip, from>>,
         \A q \in Req : q # r => pc'[q] = pc[q] /\ del'[q] = del[q]
  PROVE  Accounted'
<1>1. PICK m \in Node : ip[r] \in allocated[m]
  BY DEF IInv, OwnInv
<1>2. allocated' = [allocated EXCEPT ![m] = @ \ {ip[r]}]
  BY <1>1, ReleaseExact DEF IInv
<1>3. ASSUME NEW n \in Node, ip[r] \in allocated[n] PROVE n = m
  BY <1>1, <1>3, CoversOne DEF IInv, SubsIndexed
<1>4. ASSUME NEW n \in Node, NEW a \in allocated'[n]
      PROVE  a \in allocated[n] /\ a # ip[r]
  BY <1>2, <1>3, <1>4 DEF IInv, TypeOK
<1>5. ASSUME NEW q \in Req, q # r, Owns(q) PROVE Owns(q)'
  <2>1. ip[q] # ip[r]
    BY <1>5, ReleaseByOwner
  <2>2. ASSUME ip[q] \in IP, from[q] \in Pool
        PROVE  timers'[from[q]][ip[q]] = timers[from[q]][ip[q]]
    BY <2>1, <2>2, ReleaseByOwner, SMT
  <2> QED BY <1>5, <2>2 DEF Owns
<1> QED BY <1>4, <1>5, SMT DEF Accounted

\* Every step keeps the bits accounted for.
LEMMA AccountedStep ==
  Prompt /\ StableCidrs /\ IInv /\ Accounted /\ [Next]_vars => Accounted'
<1> SUFFICES ASSUME Prompt, StableCidrs, IInv, Accounted, [Next]_vars PROVE Accounted'
  OBVIOUS
<1> USE DEF ipamVars, epVars, stzVars, apiVars, reqVars
<1>0. ReqTypes /\ TypeOK
  BY SomeTypes DEF IInv
<1>1. PrimaryHasSub
  BY DEF IInv, CidrInv, PrimaryHasSub
<1>2. ASSUME NEW r \in Req,
             pc[r] \in {"leased", "checked", "added"}
               \/ (pc[r] = "failed" /\ cleanup[r] # "done")
      PROVE  ip[r] \in IP /\ from[r] \in Pool /\ timers[from[r]][ip[r]] = r
  BY <1>2 DEF IInv, TimerInv
<1>3. ASSUME NEW r \in Req, NEW p \in Pool, AllocateNextFamily(r, p) PROVE Accounted'
  <2> DEFINE n == resolvePool(p)
  <2>1. PICK a \in Free(n), X \in SUBSET {b \in Free(n) : isIPExcluded(b, p)} :
          /\ allocated' = [allocated EXCEPT ![n] = @ \cup X \cup {a}]
          /\ ip' = [ip EXCEPT ![r] = a]
    BY <1>3 DEF AllocateNextFamily
  <2>2. X \subseteq Excluded
    BY DEF isIPExcluded
  <2>3. n \in Node
    BY <1>0, <1>1, ResolveType
  <2> HIDE DEF n
  <2>4. \A m \in Node : allocated'[m] \subseteq allocated[m] \cup Excluded \cup {a}
    BY <1>0, <2>1, <2>2, <2>3 DEF TypeOK
  <2>5. /\ pc[r] = "idle" /\ pc'[r] = "allocated" /\ UNCHANGED <<timers, del>>
        /\ \A q \in Req : q # r => pc'[q] = pc[q] /\ from'[q] = from[q]
    BY <1>0, <1>3 DEF AllocateNextFamily, ReqTypes
  <2>6. Owns(r)'
    BY <2>5 DEF Owns
  <2> QED BY <1>0, <2>1, <2>4, <2>5, <2>6, GrantAccounted
<1>4. ASSUME NEW r \in Req, NEW p \in Pool, NEW a \in IP, AllocateIP(r, a, p)
      PROVE  Accounted'
  <2>1. \A m \in Node : allocated'[m] \subseteq allocated[m] \cup Excluded \cup {a}
    BY <1>0, <1>4 DEF AllocateIP, TypeOK
  <2>2. /\ pc[r] = "idle" /\ pc'[r] = "static" /\ UNCHANGED <<timers, del>>
        /\ ip' = [ip EXCEPT ![r] = a]
        /\ \A q \in Req : q # r => pc'[q] = pc[q] /\ from'[q] = from[q]
    BY <1>0, <1>4 DEF AllocateIP, ReqTypes
  <2>3. Owns(r)'
    BY <2>2 DEF Owns
  <2> QED BY <1>0, <2>1, <2>2, <2>3, GrantAccounted
<1>5. ASSUME NEW r \in Req, NEW p \in Pool, PoolExhausted(r, p) PROVE Accounted'
  <2> DEFINE n == resolvePool(p)
  <2>1. /\ allocated' = [allocated EXCEPT ![n] = @ \cup Free(n)]
        /\ \A b \in Free(n) : isIPExcluded(b, p)
    BY <1>5 DEF PoolExhausted
  <2>2. Free(n) \subseteq Excluded
    BY <2>1 DEF isIPExcluded
  <2>3. n \in Node
    BY <1>0, <1>1, ResolveType
  <2> HIDE DEF n
  <2>4. \A m \in Node : allocated'[m] \subseteq allocated[m] \cup Excluded
    BY <1>0, <2>1, <2>2, <2>3 DEF TypeOK
  <2>5. /\ pc[r] = "idle" /\ UNCHANGED <<timers, ip, from, del>>
        /\ \A q \in Req : q # r => pc'[q] = pc[q]
    BY <1>0, <1>5 DEF PoolExhausted, ReqTypes
  <2>6. ASSUME NEW q \in Req, Owns(q) PROVE Owns(q)' /\ ip'[q] = ip[q]
    BY <2>5, <2>6 DEF Owns
  <2> QED BY <2>4, <2>6 DEF Accounted
<1>6. ASSUME NEW r \in Req, StartExpirationTimer(r) PROVE Accounted'
  <2>1. pc[r] = "allocated" /\ ip[r] \in IP /\ from[r] \in Pool
    BY <1>6 DEF StartExpirationTimer, Owns, IInv, OwnInv
  <2>2. timers[from[r]][ip[r]] = None
    BY <2>1, NoOldTimer
  <2>3. /\ timers' = [timers EXCEPT ![from[r]][ip[r]] = r]
        /\ pc' = [pc EXCEPT ![r] = "leased"]
        /\ UNCHANGED <<ip, from, del, allocated>>
    BY <1>6, <2>2 DEF StartExpirationTimer, leaseTimer
  <2>4. \A p \in Pool, a \in IP :
          timers'[p][a] = IF p = from[r] /\ a = ip[r] THEN r ELSE timers[p][a]
    BY <1>0, <2>1, <2>3 DEF TypeOK
  <2>5. ASSUME NEW q \in Req, Owns(q) PROVE Owns(q)'
    <3>1. CASE q = r
      <4>1. pc'[r] = "leased"
        BY <1>0, <2>3 DEF ReqTypes
      <4> QED BY <3>1, <4>1 DEF Owns
    <3>2. CASE q # r
      <4>1. pc'[q] = pc[q] /\ q # None
        BY <1>0, <2>3, <3>2, ConstantsAssumption DEF ReqTypes
      <4>2. \A p \in Pool, a \in IP : timers[p][a] = q => timers'[p][a] = q
        BY <2>2, <2>4, <4>1
      <4> QED BY <2>3, <2>5, <4>1, <4>2 DEF Owns
    <3> QED BY <3>1, <3>2
  <2> QED BY <2>3, <2>5, KeepAccounted
<1>7. ASSUME NEW r \in Req, UndoAllocation(r) PROVE FALSE
  BY <1>7 DEF UndoAllocation, IInv, EndpointInv
<1>8. ASSUME NEW r \in Req, Expire(r) PROVE Accounted'
  <2>1. /\ pc[r] = "failed" /\ ip[r] # None /\ timers[from[r]][ip[r]] = r
        /\ releaseIPLocked(ip[r], from[r]) /\ UNCHANGED <<ip, from, pc, del>>
    BY <1>8 DEF Expire
  <2>2. ip[r] \in IP /\ from[r] \in Pool
    BY <1>0, <2>1 DEF IInv, OwnInv, ReqTypes
  <2>3. Owns(r)
    BY <2>1, <2>2 DEF Owns
  <2> QED BY <2>1, <2>3, ReturnAccounted
<1>9. ASSUME NEW r \in Req,
             \/ CniFail(r) \/ CniDie(r) \/ CheckEndpoint(r) \/ AddEndpoint(r)
             \/ errorDuringCreation(r) \/ DeleteIpamCheck(r) \/ DeleteEndpoint(r)
             \/ ArmTrigger(r)
      PROVE  Accounted'
  <2>1. /\ UNCHANGED <<allocated, timers, ip, from>>
        /\ \A q \in Req : q # r => pc'[q] = pc[q] /\ del'[q] = del[q]
        /\ \/ UNCHANGED <<pc, del>>
           \/ /\ pc[r] \in {"leased", "checked", "added"}
                   \/ (pc[r] = "failed" /\ cleanup[r] # "done")
              /\ pc'[r] \in {"leased", "checked", "added", "failed"}
           \/ pc'[r] = "live" /\ del'[r] = "removing"
    BY <1>0, <1>9 DEF CniFail, CniDie, CheckEndpoint, AddEndpoint, errorDuringCreation,
                 DeleteIpamCheck, DeleteEndpoint, ArmTrigger, ReqTypes
  <2>2. ASSUME Owns(r) PROVE Owns(r)'
    BY <1>2, <2>1, <2>2 DEF Owns
  <2>3. ASSUME NEW q \in Req, Owns(q) PROVE Owns(q)'
    BY <2>1, <2>2, <2>3 DEF Owns
  <2> QED BY <2>1, <2>3, KeepAccounted
<1>10. ASSUME NEW r \in Req, StopExpirationTimer(r) PROVE Accounted'
  <2>1. pc[r] = "added" /\ ip[r] \in IP /\ from[r] \in Pool /\ timers[from[r]][ip[r]] = r
    BY <1>2, <1>10 DEF StopExpirationTimer
  <2>2. /\ timers' = [timers EXCEPT ![from[r]][ip[r]] = None]
        /\ pc' = [pc EXCEPT ![r] = "live"]
        /\ UNCHANGED <<ip, from, del, allocated>>
    BY <1>10, <2>1 DEF StopExpirationTimer, ownTimer
  <2>3. \A p \in Pool, a \in IP :
          timers'[p][a] = IF p = from[r] /\ a = ip[r] THEN None ELSE timers[p][a]
    BY <1>0, <2>1, <2>2 DEF TypeOK
  <2>4. pc'[r] = "live" /\ \A q \in Req : q # r => pc'[q] = pc[q]
    BY <1>0, <2>2 DEF ReqTypes
  <2>5. del'[r] = "no"
    BY <2>1, <2>2 DEF IInv, EndpointInv
  <2>6. ASSUME NEW q \in Req, q # r, Owns(q) PROVE Owns(q)'
    <3>1. \A p \in Pool, a \in IP : timers[p][a] = q => timers'[p][a] = q
      BY <2>1, <2>3, <2>6
    <3> QED BY <2>2, <2>4, <2>6, <3>1, SMT DEF Owns
  <2>7. Owns(r)'
    BY <2>4, <2>5 DEF Owns
  <2> QED BY <2>2, <2>6, <2>7, KeepAccounted
<1>11. ASSUME NEW r \in Req, DeleteIpamRelease(r) PROVE Accounted'
  <2>1. /\ cleanup[r] = "checked" /\ releaseIPLocked(ip[r], from[r])
        /\ UNCHANGED <<ip, from, del>>
        /\ \A q \in Req : q # r => pc'[q] = pc[q]
    BY <1>0, <1>11 DEF DeleteIpamRelease, ReqTypes
  <2>2. pc[r] \in {"failed", "static"}
    BY <2>1, CleanupFacts
  <2>3. Owns(r)
    BY <1>2, <2>1, <2>2 DEF Owns
  <2> QED BY <2>1, <2>3, ReturnAccounted
<1>12. ASSUME NEW r \in Req, EndpointDeleted(r) PROVE Accounted'
  <2>1. /\ del[r] = "removing" /\ releaseIPLocked(ip[r], from[r])
        /\ UNCHANGED <<ip, from, pc>>
        /\ \A q \in Req : q # r => del'[q] = del[q]
    BY <1>0, <1>12 DEF EndpointDeleted, ReqTypes
  <2>2. pc[r] = "live"
    BY <2>1 DEF IInv, EndpointInv
  <2>3. Owns(r)
    BY <2>1, <2>2 DEF Owns
  <2> QED BY <2>1, <2>3, ReturnAccounted
<1>13. CASE \/ \E n \in Node, c \in Cidr : AssignCIDR(n, c)
            \/ \E n \in Node : DeleteCiliumNode(n) \/ FetchCiliumNode(n)
            \/ addManagedNodeCIDR \/ UNCHANGED vars
  <2>1. UNCHANGED <<timers, ip, from, pc, del>>
    BY <1>13 DEF AssignCIDR, DeleteCiliumNode, FetchCiliumNode, addManagedNodeCIDR, vars
  <2>2. \A n \in Node : allocated'[n] \subseteq allocated[n]
    BY <1>0, <1>13 DEF AssignCIDR, DeleteCiliumNode, FetchCiliumNode, addManagedNodeCIDR,
                       AddCIDR, TypeOK, vars
  <2>3. \A q \in Req : Owns(q) => Owns(q)' /\ ip'[q] = ip[q]
    BY <2>1 DEF Owns
  <2> QED BY <2>2, <2>3, KeepAccounted
<1> QED
  BY <1>3, <1>4, <1>5, <1>6, <1>7, <1>8, <1>9, <1>10, <1>11, <1>12, <1>13 DEF Next

\* While CiliumNodes stay and no CNI ADD outlives its lease, no address is lost
\* for good: what the bitmaps hold and is not excluded is always under a lease,
\* in the hands of a handler, or in use.
THEOREM NoAddressLost == ASSUME Prompt, StableCidrs PROVE Spec => []NoOrphanedIP
<1>1. Init => Accounted
  BY DEF Init, Accounted
<1>2. IInv /\ Accounted /\ [Next]_vars => Accounted'
  BY AccountedStep
<1>3. IInv /\ Accounted => NoOrphanedIP
  BY OwnerHolds DEF Accounted, NoOrphanedIP
<1> QED BY <1>1, <1>2, <1>3, IInvariant, PTL DEF Spec
=============================================================================
