------------------------- MODULE ManagedIPAMProofs -------------------------
(***************************************************************************)
(* Proofs about the sub-allocators of ManagedIPAM, for every set of nodes, *)
(* CIDRs, addresses and requests: types, the list and its index, and       *)
(* where a release finds its bitmap.  And the inductive invariant of the   *)
(* leases, with its part on who owns an address.                           *)
(***************************************************************************)
EXTENDS ManagedIPAM, TLAPS, WellFoundedInduction

\* A leaf is for Zenon unless it names another prover.
USE Zenon

\* A CIDR belongs to one CiliumNode, and no sub-allocator or pending callback
\* disagrees with the CiliumNode it was made from.
CidrInv ==
  /\ \A n, m \in Node : cnCIDR[n] # None /\ cnCIDR[n] = cnCIDR[m] => n = m
  /\ \A n \in Node : allocCIDR[n] # None => allocCIDR[n] = cnCIDR[n]
  /\ fetched # None => cnCIDR[fetched[1]] = fetched[2]
  /\ allocCIDR[Primary] # None

(***************************************************************************)
(* The list of sub-allocators.                                             *)
(***************************************************************************)
\* A non-empty set of naturals has a least element.
LEMMA LeastElement ==
  ASSUME NEW T, T \subseteq Nat, T # {}
  PROVE  \E x \in T : \A y \in T : x <= y
<1>1. PICK x \in T : \A y \in T : ~ (<<y, x>> \in OpToRel(<, Nat))
  BY NatLessThanWellFounded, WFMin
<1>2. \A y \in T : ~ (y < x)
  BY <1>1 DEF OpToRel
<1> QED BY <1>2, SMT

\* removeCIDRLocked removes one entry of the node and keeps the order of the rest.
LEMMA WithoutProperties ==
  ASSUME NEW s \in Seq(Node), NEW n
  PROVE  \/ /\ \A i \in 1 .. Len(s) : s[i] # n
            /\ Without(s, n) = s
         \/ \E i \in 1 .. Len(s) :
              /\ s[i] = n
              /\ Without(s, n) \in Seq(Node)
              /\ Len(Without(s, n)) = Len(s) - 1
              /\ \A j \in 1 .. (Len(s) - 1) :
                   Without(s, n)[j] = IF j < i THEN s[j] ELSE s[j + 1]
<1>1. CASE \A i \in 1 .. Len(s) : s[i] # n
  BY <1>1 DEF Without
<1>2. CASE \E i \in 1 .. Len(s) : s[i] = n
  <2> DEFINE P(k) == s[k] = n /\ \A j \in 1 .. (k - 1) : s[j] # n
             i == CHOOSE k \in 1 .. Len(s) : P(k)
             x == SubSeq(s, 1, i - 1)
             y == SubSeq(s, i + 1, Len(s))
  <2>1. \E k \in 1 .. Len(s) : P(k)
    <3> DEFINE T == {k \in 1 .. Len(s) : s[k] = n}
    <3>1. T \subseteq Nat /\ T # {}
      BY <1>2, SMT
    <3>2. PICK k \in T : \A j \in T : k <= j
      BY <3>1, LeastElement
    <3>3. P(k)
      BY <3>2, SMT
    <3> QED BY <3>3
  <2>2. i \in 1 .. Len(s) /\ P(i)
    BY <2>1
  <2>3. Without(s, n) = x \o y
    BY <1>2 DEF Without
  <2>4. i \in Nat /\ Len(s) \in Nat /\ 1 <= i /\ i <= Len(s) /\ s[i] = n
    BY <2>2, SMT
  <2> HIDE DEF i
  <2>5. /\ x \in Seq(Node) /\ Len(x) = i - 1
        /\ \A j \in 1 .. (i - 1) : x[j] = s[j]
    BY <2>4, SMT
  <2>6. /\ y \in Seq(Node) /\ Len(y) = Len(s) - i
        /\ \A j \in 1 .. (Len(s) - i) : y[j] = s[i + j]
    BY <2>4, SMT
  <2> HIDE DEF x, y
  <2>7. /\ x \o y \in Seq(Node) /\ Len(x \o y) = Len(x) + Len(y)
        /\ \A j \in 1 .. Len(x) + Len(y) :
             (x \o y)[j] = IF j <= Len(x) THEN x[j] ELSE y[j - Len(x)]
    <3>1. x \in Seq(Node) /\ y \in Seq(Node) /\ Len(x) \in Nat /\ Len(y) \in Nat
      BY <2>5, <2>6, SMT
    <3>2. x \o y \in Seq(Node)
      BY <3>1, SMT
    <3>3. Len(x \o y) = Len(x) + Len(y)
      BY <3>1, SMT
    <3>4. ASSUME NEW j \in 1 .. Len(x) + Len(y)
          PROVE  (x \o y)[j] = IF j <= Len(x) THEN x[j] ELSE y[j - Len(x)]
      BY <3>1, SMT
    <3> QED BY <3>2, <3>3, <3>4
  <2>8. Len(Without(s, n)) = Len(s) - 1 /\ Without(s, n) \in Seq(Node)
    BY <2>3, <2>4, <2>5, <2>6, <2>7, SMT
  <2>9. ASSUME NEW j \in 1 .. (Len(s) - 1)
        PROVE  Without(s, n)[j] = IF j < i THEN s[j] ELSE s[j + 1]
    <3>1. j \in 1 .. Len(x) + Len(y)
      BY <2>4, <2>5, <2>6, SMT
    <3>2. Without(s, n)[j] = IF j <= Len(x) THEN x[j] ELSE y[j - Len(x)]
      BY <2>3, <2>7, <3>1
    <3>3. CASE j < i
      BY <3>2, <3>3, <2>4, <2>5, SMT
    <3>4. CASE ~ (j < i)
      <4>1. j - Len(x) \in 1 .. (Len(s) - i) /\ ~ (j <= Len(x))
        BY <3>4, <2>4, <2>5, SMT
      <4>2. y[j - Len(x)] = s[i + (j - Len(x))] /\ i + (j - Len(x)) = j + 1
        BY <4>1, <2>4, <2>5, <2>6, SMT
      <4> QED BY <3>2, <3>4, <4>1, <4>2
    <3> QED BY <3>3, <3>4
  <2> QED BY <2>2, <2>8, <2>9
<1> QED BY <1>1, <1>2

(***************************************************************************)
(* Type correctness.                                                       *)
(***************************************************************************)
\* The primary node always has a sub-allocator, so the fallback of AllocateNext
\* for an unknown pool finds one.
PrimaryHasSub == allocCIDR[Primary] # None

\* releaseIPLocked keeps the types of the bitmaps, owners, timers and triggers.
LEMMA ReleaseTypes ==
  ASSUME TypeOK, NEW a, NEW p, releaseIPLocked(a, p)
  PROVE  /\ allocated' \in [Node -> SUBSET IP]
         /\ owner' \in [Pool -> [IP -> Req \cup {None}]]
         /\ timers' \in [Pool -> [IP -> Req \cup {None}]]
         /\ armed' \in [IP -> Req \cup {None}]
         /\ clearFailures' \in 0 .. MaxClearFailures
         /\ subs' = subs
         /\ allocCIDR' = allocCIDR
<1>1. allocated' \in [Node -> SUBSET IP]
  BY DEF TypeOK, releaseIPLocked, releaseBit
<1>2. owner' \in [Pool -> [IP -> Req \cup {None}]]
  <2>1. [owner[p] EXCEPT ![a] = None] \in [IP -> Req \cup {None}] \/ p \notin Pool
    BY DEF TypeOK
  <2> QED BY <2>1 DEF TypeOK, releaseIPLocked
<1>3. timers' \in [Pool -> [IP -> Req \cup {None}]]
  <2>1. [timers[p] EXCEPT ![a] = None] \in [IP -> Req \cup {None}] \/ p \notin Pool
    BY DEF TypeOK
  <2> QED BY <2>1 DEF TypeOK, releaseIPLocked
<1>4. armed' \in [IP -> Req \cup {None}] /\ clearFailures' \in 0 .. MaxClearFailures
  BY ConstantsAssumption, SMT DEF TypeOK, releaseIPLocked, clearScaleToZeroState
<1> QED BY <1>1, <1>2, <1>3, <1>4 DEF releaseIPLocked

\* clearScaleToZeroState keeps the type of the trigger map.
LEMMA ClearTypes ==
  ASSUME TypeOK, NEW a, clearScaleToZeroState(a)
  PROVE  armed' \in [IP -> Req \cup {None}] /\ clearFailures' \in 0 .. MaxClearFailures
<1>1. armed' \in [IP -> Req \cup {None}]
  BY DEF TypeOK, clearScaleToZeroState
<1>2. clearFailures' \in 0 .. MaxClearFailures
  BY ConstantsAssumption, SMT DEF TypeOK, clearScaleToZeroState
<1> QED BY <1>1, <1>2

\* resolvePool returns a node that has a sub-allocator.
LEMMA ResolveType ==
  ASSUME TypeOK, PrimaryHasSub, NEW p \in Pool
  PROVE  resolvePool(p) \in Node /\ allocCIDR[resolvePool(p)] \in Cidr
                                /\ Free(resolvePool(p)) \subseteq IP
BY ConstantsAssumption DEF TypeOK, PrimaryHasSub, resolvePool, Free

\* registerIPOwner keeps the type of the owner map.
LEMMA OwnerType ==
  ASSUME TypeOK, NEW r \in Req, NEW p \in Pool, NEW a, NEW X
  PROVE  registerIPOwner(r, p, a, X) \in [Pool -> [IP -> Req \cup {None}]]
<1>1. [b \in IP |-> IF b \in X \cup {a} THEN r ELSE owner[p][b]]
        \in [IP -> Req \cup {None}]
  BY SMT DEF TypeOK
<1> QED BY <1>1 DEF TypeOK, registerIPOwner

\* Every step keeps the types, and the primary node keeps a sub-allocator.
LEMMA TypeStep == TypeOK /\ PrimaryHasSub /\ [Next]_vars => TypeOK' /\ PrimaryHasSub'
<1> SUFFICES ASSUME TypeOK, PrimaryHasSub, [Next]_vars
             PROVE  TypeOK' /\ PrimaryHasSub'
  OBVIOUS
<1> USE DEF ipamVars, epVars, stzVars, apiVars, reqVars
<1>1. ASSUME NEW n \in Node, NEW c \in Cidr, AssignCIDR(n, c)
      PROVE  TypeOK' /\ PrimaryHasSub'
  BY <1>1 DEF TypeOK, PrimaryHasSub, AssignCIDR
<1>2. ASSUME NEW n \in Node, DeleteCiliumNode(n) PROVE TypeOK' /\ PrimaryHasSub'
  BY <1>2 DEF TypeOK, PrimaryHasSub, DeleteCiliumNode
<1>3. ASSUME NEW n \in Node, FetchCiliumNode(n) PROVE TypeOK' /\ PrimaryHasSub'
  BY <1>3 DEF TypeOK, PrimaryHasSub, FetchCiliumNode
<1>4. CASE addManagedNodeCIDR
  <2>1. fetched[1] \in Node /\ fetched[2] \in Cidr
    BY <1>4 DEF TypeOK, addManagedNodeCIDR
  <2>2. Without(subs, fetched[1]) \in Seq(Node)
    BY WithoutProperties DEF TypeOK
  <2>3. subs' \in Seq(Node)
    <3>1. replaceSub(fetched[1]) \in Seq(Node)
      BY <2>1, <2>2, SMT DEF replaceSub
    <3> QED BY <1>4, <3>1 DEF TypeOK, addManagedNodeCIDR, AddCIDR
  <2>4. allocCIDR' \in [Node -> Cidr \cup {None}] /\ allocated' \in [Node -> SUBSET IP]
    BY <1>4, <2>1 DEF TypeOK, addManagedNodeCIDR, AddCIDR
  <2>5. PrimaryHasSub'
    BY <1>4, <2>1, ConstantsAssumption, SMT
    DEF TypeOK, PrimaryHasSub, addManagedNodeCIDR, AddCIDR
  <2> QED BY <1>4, <2>3, <2>4, <2>5 DEF TypeOK, addManagedNodeCIDR
<1>5. ASSUME NEW r \in Req, NEW p \in Pool, AllocateNextFamily(r, p)
      PROVE  TypeOK' /\ PrimaryHasSub'
  <2> DEFINE n == resolvePool(p)
  <2>1. n \in Node /\ Free(n) \subseteq IP
    BY ResolveType
  <2>2. PICK a \in Free(n), X \in SUBSET {b \in Free(n) : isIPExcluded(b, p)} :
          /\ allocated' = [allocated EXCEPT ![n] = @ \cup X \cup {a}]
          /\ owner' = registerIPOwner(r, p, a, X)
          /\ clearScaleToZeroState(a)
          /\ ip' = [ip EXCEPT ![r] = a]
    BY <1>5 DEF AllocateNextFamily
  <2> HIDE DEF n
  <2>3. allocated' \in [Node -> SUBSET IP] /\ ip' \in [Req -> IP \cup {None}]
    BY <2>1, <2>2, SMT DEF TypeOK
  <2>4. owner' \in [Pool -> [IP -> Req \cup {None}]]
    BY <2>2, OwnerType
  <2>5. armed' \in [IP -> Req \cup {None}] /\ clearFailures' \in 0 .. MaxClearFailures
    BY <2>2, ClearTypes
  <2>6. from' \in [Req -> Pool \cup {None}] /\ pc' \in [Req -> PC]
    BY <1>5, <2>1 DEF TypeOK, AllocateNextFamily, Pool, PC, n
  <2> QED BY <1>5, <2>3, <2>4, <2>5, <2>6
          DEF TypeOK, PrimaryHasSub, AllocateNextFamily
<1>6. ASSUME NEW r \in Req, NEW p \in Pool, PoolExhausted(r, p)
      PROVE  TypeOK' /\ PrimaryHasSub'
  <2> DEFINE n == resolvePool(p)
  <2>1. n \in Node /\ Free(n) \subseteq IP
    BY ResolveType
  <2>2. allocated' \in [Node -> SUBSET IP]
    BY <1>6, <2>1 DEF TypeOK, PoolExhausted
  <2>3. [b \in IP |-> IF b \in Free(n) THEN r ELSE owner[p][b]] \in [IP -> Req \cup {None}]
    BY SMT DEF TypeOK
  <2>4. owner' \in [Pool -> [IP -> Req \cup {None}]]
    BY <1>6, <2>3 DEF TypeOK, PoolExhausted
  <2> QED BY <1>6, <2>2, <2>4 DEF TypeOK, PrimaryHasSub, PoolExhausted, PC
<1>7. ASSUME NEW r \in Req, NEW p \in Pool, NEW a \in IP, AllocateIP(r, a, p)
      PROVE  TypeOK' /\ PrimaryHasSub'
  <2>1. owner' \in [Pool -> [IP -> Req \cup {None}]]
    BY <1>7, OwnerType DEF AllocateIP
  <2>2. armed' \in [IP -> Req \cup {None}] /\ clearFailures' \in 0 .. MaxClearFailures
    BY <1>7, ClearTypes DEF AllocateIP
  <2>3. allocated' \in [Node -> SUBSET IP]
    BY <1>7 DEF TypeOK, AllocateIP
  <2> QED BY <1>7, <2>1, <2>2, <2>3 DEF TypeOK, PrimaryHasSub, AllocateIP, PC
<1>8. ASSUME NEW r \in Req, StartExpirationTimer(r) PROVE TypeOK' /\ PrimaryHasSub'
  <2>1. timers' \in [Pool -> [IP -> Req \cup {None}]]
    <3>1. [timers[from[r]] EXCEPT ![ip[r]] = r] \in [IP -> Req \cup {None}]
            \/ from[r] \notin Pool
      BY DEF TypeOK
    <3> QED BY <1>8, <3>1 DEF TypeOK, StartExpirationTimer, leaseTimer
  <2> QED BY <1>8, <2>1 DEF TypeOK, PrimaryHasSub, StartExpirationTimer, PC
<1>9. ASSUME NEW r \in Req, UndoAllocation(r) PROVE TypeOK' /\ PrimaryHasSub'
  BY <1>9, ReleaseTypes DEF TypeOK, PrimaryHasSub, UndoAllocation, PC
<1>10. ASSUME NEW r \in Req, Expire(r) PROVE TypeOK' /\ PrimaryHasSub'
  BY <1>10, ReleaseTypes DEF TypeOK, PrimaryHasSub, Expire
<1>11. ASSUME NEW r \in Req, CniFail(r) \/ CniDie(r) \/ CheckEndpoint(r)
       PROVE  TypeOK' /\ PrimaryHasSub'
  BY <1>11 DEF TypeOK, PrimaryHasSub, CniFail, CniDie, CheckEndpoint, PC
<1>12. ASSUME NEW r \in Req, AddEndpoint(r) PROVE TypeOK' /\ PrimaryHasSub'
  <2>1. exposed' \in [Req -> BOOLEAN] /\ byIP' \in [IP -> Req \cup {None}]
    BY <1>12 DEF TypeOK, AddEndpoint
  <2> QED BY <1>12, <2>1 DEF TypeOK, PrimaryHasSub, AddEndpoint, PC
<1>13. ASSUME NEW r \in Req, errorDuringCreation(r) PROVE TypeOK' /\ PrimaryHasSub'
  <2>1. exposed' \in [Req -> BOOLEAN] /\ byIP' \in [IP -> Req \cup {None}]
    BY <1>13 DEF TypeOK, errorDuringCreation, unexpose
  <2> QED BY <1>13, <2>1 DEF TypeOK, PrimaryHasSub, errorDuringCreation, PC
<1>14. ASSUME NEW r \in Req, StopExpirationTimer(r) PROVE TypeOK' /\ PrimaryHasSub'
  <2>1. timers' \in [Pool -> [IP -> Req \cup {None}]]
    <3>1. [timers[from[r]] EXCEPT ![ip[r]] = None] \in [IP -> Req \cup {None}]
            \/ from[r] \notin Pool
      BY DEF TypeOK
    <3> QED BY <1>14, <3>1 DEF TypeOK, StopExpirationTimer
  <2>2. exposed' \in [Req -> BOOLEAN] /\ byIP' \in [IP -> Req \cup {None}]
    BY <1>14 DEF TypeOK, StopExpirationTimer, unexpose
  <2> QED BY <1>14, <2>1, <2>2 DEF TypeOK, PrimaryHasSub, StopExpirationTimer, PC
<1>15. ASSUME NEW r \in Req, DeleteIpamCheck(r) PROVE TypeOK' /\ PrimaryHasSub'
  BY <1>15 DEF TypeOK, PrimaryHasSub, DeleteIpamCheck
<1>16. ASSUME NEW r \in Req, DeleteIpamRelease(r) PROVE TypeOK' /\ PrimaryHasSub'
  BY <1>16, ReleaseTypes DEF TypeOK, PrimaryHasSub, DeleteIpamRelease, PC
<1>17. ASSUME NEW r \in Req, DeleteEndpoint(r) PROVE TypeOK' /\ PrimaryHasSub'
  BY <1>17 DEF TypeOK, PrimaryHasSub, DeleteEndpoint, unexpose
<1>18. ASSUME NEW r \in Req, EndpointDeleted(r) PROVE TypeOK' /\ PrimaryHasSub'
  BY <1>18, ReleaseTypes DEF TypeOK, PrimaryHasSub, EndpointDeleted
<1>19. ASSUME NEW r \in Req, ArmTrigger(r) PROVE TypeOK' /\ PrimaryHasSub'
  BY <1>19 DEF TypeOK, PrimaryHasSub, ArmTrigger
<1>20. CASE UNCHANGED vars
  BY <1>20 DEF TypeOK, PrimaryHasSub, vars
<1> QED
  BY <1>1, <1>2, <1>3, <1>4, <1>5, <1>6, <1>7, <1>8, <1>9, <1>10, <1>11, <1>12, <1>13,
     <1>14, <1>15, <1>16, <1>17, <1>18, <1>19, <1>20 DEF Next

\* TypeOK holds in every reachable state of the allocator and its clients.
THEOREM TypeCorrect == Spec => []TypeOK
<1>1. Init => TypeOK /\ PrimaryHasSub
  BY ConstantsAssumption, SMT DEF Init, TypeOK, PrimaryHasSub, Pool, PC
<1> QED BY <1>1, TypeStep, PTL DEF Spec

(***************************************************************************)
(* The list and the map of sub-allocators.                                 *)
(***************************************************************************)
\* findSubForIP returns a sub-allocator whose CIDR contains the address.
LEMMA FindSub ==
  ASSUME TypeOK, NEW a, findSubForIP(a) # None
  PROVE  findSubForIP(a) \in Node /\ Covers(findSubForIP(a), a)
<1> DEFINE i == CHOOSE k \in Positions(a) : \A j \in Positions(a) : k <= j
<1>1. Positions(a) # {} /\ Positions(a) \subseteq Nat
  BY SMT DEF findSubForIP, Positions, TypeOK
<1>2. \E k \in Positions(a) : \A j \in Positions(a) : k <= j
  BY <1>1, LeastElement
<1>3. i \in Positions(a)
  BY <1>2
<1>4. findSubForIP(a) = subs[i]
  BY <1>1 DEF findSubForIP
<1> HIDE DEF i
<1> QED BY <1>3, <1>4, SMT DEF Positions, TypeOK

\* A release takes at most one address out of one bitmap.
LEMMA ReleaseShrinks ==
  ASSUME TypeOK, NEW a, NEW p, releaseIPLocked(a, p)
  PROVE  \A n \in Node : /\ allocated'[n] \subseteq allocated[n]
                         /\ allocated[n] \subseteq allocated'[n] \cup {a}
BY DEF TypeOK, releaseIPLocked, releaseBit

\* AddCIDR keeps the list and the index of sub-allocators in agreement.
LEMMA SubsAdd ==
  ASSUME TypeOK, SubsIndexed, NEW n \in Node, NEW c \in Cidr, AddCIDR(n, c)
  PROVE  SubsIndexed'
<1>1. CASE allocCIDR[n] = c
  BY <1>1 DEF AddCIDR, SubsIndexed, Covers
<1>2. CASE allocCIDR[n] # c
  <2> DEFINE w == Without(subs, n)
  <2>1. /\ subs' = Append(w, n)
        /\ allocCIDR' = [allocCIDR EXCEPT ![n] = c]
        /\ allocated' = [allocated EXCEPT ![n] = {}]
    BY <1>2 DEF AddCIDR, replaceSub
  <2>2. /\ w \in Seq(Node)
        /\ \A i \in 1 .. Len(w) : w[i] # n
        /\ \A i, j \in 1 .. Len(w) : w[i] = w[j] => i = j
        /\ \A m \in Node \ {n} : (\E i \in 1 .. Len(subs) : subs[i] = m)
                               <=> (\E i \in 1 .. Len(w) : w[i] = m)
    <3>1. CASE (\A i \in 1 .. Len(subs) : subs[i] # n) /\ w = subs
      BY <3>1 DEF TypeOK, SubsIndexed
    <3>2. ASSUME NEW i \in 1 .. Len(subs), subs[i] = n, w \in Seq(Node),
                 Len(w) = Len(subs) - 1,
                 \A j \in 1 .. (Len(subs) - 1) : w[j] = IF j < i THEN subs[j] ELSE subs[j + 1]
          PROVE  /\ \A k \in 1 .. Len(w) : w[k] # n
                 /\ \A k, j \in 1 .. Len(w) : w[k] = w[j] => k = j
                 /\ \A m \in Node \ {n} : (\E k \in 1 .. Len(subs) : subs[k] = m)
                                        <=> (\E k \in 1 .. Len(w) : w[k] = m)
      <4> HIDE DEF w
      <4>0. Len(subs) \in Nat /\ \A k \in 1 .. Len(subs) : subs[k] = n => k = i
        BY <3>2, SMT DEF TypeOK, SubsIndexed
      <4>1. ASSUME NEW k \in 1 .. Len(w) PROVE w[k] # n
        BY <3>2, <4>0, <4>1, SMT
      <4>2. ASSUME NEW k \in 1 .. Len(w), NEW j \in 1 .. Len(w), w[k] = w[j] PROVE k = j
        BY <3>2, <4>0, <4>2, SMT DEF SubsIndexed
      <4>3. ASSUME NEW m \in Node \ {n}, NEW k \in 1 .. Len(subs), subs[k] = m
            PROVE  \E j \in 1 .. Len(w) : w[j] = m
        <5>1. k # i
          BY <3>2, <4>3
        <5>2. CASE k < i
          <6>1. k \in 1 .. Len(w) /\ w[k] = m
            BY <5>2, <3>2, <4>0, <4>3, SMT
          <6> QED BY <6>1
        <5>3. CASE k > i
          <6>1. k - 1 \in 1 .. Len(w) /\ w[k - 1] = m
            BY <5>3, <3>2, <4>0, <4>3, SMT
          <6> QED BY <6>1
        <5> QED BY <5>1, <5>2, <5>3, <3>2, <4>0, SMT
      <4>4. ASSUME NEW m \in Node \ {n}, NEW k \in 1 .. Len(w), w[k] = m
            PROVE  \E j \in 1 .. Len(subs) : subs[j] = m
        <5>1. k \in 1 .. Len(subs) /\ k + 1 \in 1 .. Len(subs)
          BY <3>2, <4>0, SMT
        <5> QED BY <5>1, <3>2, <4>0, <4>4
      <4> QED BY <4>1, <4>2, <4>3, <4>4
    <3>3. \/ (\A i \in 1 .. Len(subs) : subs[i] # n) /\ w = subs
          \/ \E i \in 1 .. Len(subs) :
               /\ subs[i] = n /\ w \in Seq(Node) /\ Len(w) = Len(subs) - 1
               /\ \A j \in 1 .. (Len(subs) - 1) :
                    w[j] = IF j < i THEN subs[j] ELSE subs[j + 1]
      BY WithoutProperties, SMT DEF TypeOK
    <3> HIDE DEF w
    <3> QED BY <3>1, <3>2, <3>3
  <2> HIDE DEF w
  <2>3. /\ Len(subs') = Len(w) + 1 /\ Len(w) \in Nat
        /\ subs'[Len(w) + 1] = n
        /\ \A i \in 1 .. Len(w) : subs'[i] = w[i]
    BY <2>1, <2>2, SMT
  <2>4. \A i, j \in 1 .. Len(subs') : subs'[i] = subs'[j] => i = j
    BY <2>2, <2>3, SMT
  <2>5. ASSUME NEW m \in Node
        PROVE  allocCIDR'[m] # None <=> \E i \in 1 .. Len(subs') : subs'[i] = m
    <3>1. CASE m = n
      <4>1. allocCIDR'[m] # None
        BY <3>1, <2>1, ConstantsAssumption DEF TypeOK
      <4>2. Len(w) + 1 \in 1 .. Len(subs') /\ subs'[Len(w) + 1] = m
        BY <3>1, <2>3, SMT
      <4> QED BY <4>1, <4>2
    <3>2. CASE m # n
      <4>1. allocCIDR'[m] = allocCIDR[m]
        BY <3>2, <2>1 DEF TypeOK
      <4>2. (\E i \in 1 .. Len(subs') : subs'[i] = m) <=> (\E i \in 1 .. Len(w) : w[i] = m)
        BY <3>2, <2>3, SMT
      <4> QED BY <3>2, <4>1, <4>2, <2>2 DEF SubsIndexed
    <3> QED BY <3>1, <3>2
  <2>6. \A m \in Node : \A a \in allocated'[m] : Covers(m, a)'
    BY <2>1, SMT DEF SubsIndexed, Covers, TypeOK
  <2> QED BY <2>4, <2>5, <2>6 DEF SubsIndexed
<1> QED BY <1>1, <1>2

\* Every step does.
LEMMA SubsStep ==
  TypeOK /\ PrimaryHasSub /\ SubsIndexed /\ [Next]_vars => SubsIndexed'
<1> SUFFICES ASSUME TypeOK, PrimaryHasSub, SubsIndexed, [Next]_vars PROVE SubsIndexed'
  OBVIOUS
<1> USE DEF ipamVars, epVars, stzVars, apiVars, reqVars
<1>1. CASE UNCHANGED <<subs, allocCIDR, allocated>>
  BY <1>1 DEF SubsIndexed, Covers
<1>2. ASSUME NEW a, NEW p, releaseIPLocked(a, p) PROVE SubsIndexed'
  <2>1. \A n \in Node : allocated'[n] \subseteq allocated[n]
    BY <1>2, ReleaseShrinks
  <2> QED BY <1>2, <2>1 DEF SubsIndexed, Covers, releaseIPLocked
<1>3. ASSUME NEW n \in Node, NEW X, \A a \in X : Covers(n, a),
             allocated' = [allocated EXCEPT ![n] = @ \cup X],
             UNCHANGED <<subs, allocCIDR>>
      PROVE  SubsIndexed'
  BY <1>3, SMT DEF SubsIndexed, Covers, TypeOK
<1>4. CASE addManagedNodeCIDR
  <2>1. fetched[1] \in Node /\ fetched[2] \in Cidr
    BY <1>4 DEF TypeOK, addManagedNodeCIDR
  <2> QED BY <1>4, <2>1, SubsAdd DEF addManagedNodeCIDR
<1>5. ASSUME NEW p \in Pool PROVE \A a \in Free(resolvePool(p)) : Covers(resolvePool(p), a)
  BY ConstantsAssumption DEF Free, Covers, resolvePool, PrimaryHasSub
<1>6. ASSUME NEW r \in Req, NEW p \in Pool, AllocateNextFamily(r, p) PROVE SubsIndexed'
  <2> DEFINE n == resolvePool(p)
  <2>1. PICK a \in Free(n), X \in SUBSET {b \in Free(n) : isIPExcluded(b, p)} :
          allocated' = [allocated EXCEPT ![n] = @ \cup X \cup {a}]
    BY <1>6 DEF AllocateNextFamily
  <2>2. n \in Node /\ \A b \in X \cup {a} : Covers(n, b)
    BY <1>5, ResolveType
  <2> HIDE DEF n
  <2>3. allocated' = [allocated EXCEPT ![n] = @ \cup (X \cup {a})]
    BY <2>1
  <2> QED BY <1>3, <1>6, <2>2, <2>3 DEF AllocateNextFamily
<1>7. ASSUME NEW r \in Req, NEW p \in Pool, PoolExhausted(r, p) PROVE SubsIndexed'
  <2> DEFINE n == resolvePool(p)
  <2>1. allocated' = [allocated EXCEPT ![n] = @ \cup Free(n)]
    BY <1>7 DEF PoolExhausted
  <2>2. n \in Node /\ \A b \in Free(n) : Covers(n, b)
    BY <1>5, ResolveType
  <2> HIDE DEF n
  <2> QED BY <1>3, <1>7, <2>1, <2>2 DEF PoolExhausted
<1>8. ASSUME NEW r \in Req, NEW p \in Pool, NEW a \in IP, AllocateIP(r, a, p)
      PROVE  SubsIndexed'
  <2> DEFINE n == findSubForIP(a)
  <2>1. n \in Node /\ Covers(n, a)
    BY <1>8, FindSub DEF AllocateIP
  <2>2. allocated' = [allocated EXCEPT ![n] = @ \cup {a}]
    BY <1>8 DEF AllocateIP
  <2> HIDE DEF n
  <2> QED BY <1>3, <1>8, <2>1, <2>2 DEF AllocateIP
<1>9. ASSUME NEW r \in Req,
             \/ StartExpirationTimer(r) \/ CniFail(r) \/ CniDie(r) \/ CheckEndpoint(r)
             \/ AddEndpoint(r) \/ errorDuringCreation(r) \/ StopExpirationTimer(r)
             \/ DeleteIpamCheck(r) \/ DeleteEndpoint(r) \/ ArmTrigger(r)
      PROVE  SubsIndexed'
  BY <1>1, <1>9 DEF StartExpirationTimer, CniFail, CniDie, CheckEndpoint, AddEndpoint,
       errorDuringCreation, StopExpirationTimer, DeleteIpamCheck, DeleteEndpoint, ArmTrigger
<1>10. ASSUME NEW r \in Req,
              \/ UndoAllocation(r) \/ Expire(r) \/ DeleteIpamRelease(r) \/ EndpointDeleted(r)
       PROVE  SubsIndexed'
  BY <1>2, <1>10 DEF UndoAllocation, Expire, DeleteIpamRelease, EndpointDeleted
<1>11. ASSUME NEW n \in Node,
              \/ \E c \in Cidr : AssignCIDR(n, c)
              \/ DeleteCiliumNode(n) \/ FetchCiliumNode(n)
       PROVE  SubsIndexed'
  BY <1>1, <1>11 DEF AssignCIDR, DeleteCiliumNode, FetchCiliumNode
<1>12. CASE UNCHANGED vars
  BY <1>1, <1>12 DEF vars
<1> QED
  BY <1>4, <1>6, <1>7, <1>8, <1>9, <1>10, <1>11, <1>12 DEF Next

\* The list and the map of sub-allocators agree in every reachable state, also
\* when pawns' CiliumNodes are deleted and their CIDRs change hands.
THEOREM SubsAlwaysIndexed == Spec => []SubsIndexed
<1>1. Init => TypeOK /\ PrimaryHasSub
  BY ConstantsAssumption, SMT DEF Init, TypeOK, PrimaryHasSub, Pool, PC
<1>2. Init => SubsIndexed
  BY ConstantsAssumption, SMT DEF Init, SubsIndexed
<1> QED BY <1>1, <1>2, TypeStep, SubsStep, PTL DEF Spec

(***************************************************************************)
(* The addresses of live endpoints, when no CiliumNode is deleted and no   *)
(* CNI ADD outlives its lease.                                             *)
(***************************************************************************)
\* No address is covered by two sub-allocators.
LEMMA CoversOne ==
  ASSUME TypeOK, CidrInv, NEW n \in Node, NEW m \in Node, NEW a,
         Covers(n, a), Covers(m, a)
  PROVE  n = m
<1>1. allocCIDR[n] \in Cidr /\ allocCIDR[m] \in Cidr
  BY DEF TypeOK, Covers
<1>2. allocCIDR[n] = allocCIDR[m]
  BY <1>1, CidrsDisjoint DEF Covers
<1> QED BY <1>2, SMT DEF Covers, CidrInv

\* An allocated address is found in the bitmap it was allocated from.
LEMMA FindAllocated ==
  ASSUME TypeOK, CidrInv, SubsIndexed, NEW n \in Node, NEW a \in allocated[n]
  PROVE  findSubForIP(a) = n
<1>1. Covers(n, a)
  BY DEF SubsIndexed
<1>2. \E i \in 1 .. Len(subs) : subs[i] = n
  BY <1>1 DEF SubsIndexed, Covers
<1>3. Positions(a) # {}
  BY <1>1, <1>2 DEF Positions
<1>4. findSubForIP(a) # None
  <2> DEFINE i == CHOOSE k \in Positions(a) : \A j \in Positions(a) : k <= j
  <2>1. Positions(a) \subseteq 1 .. Len(subs) /\ Positions(a) \subseteq Nat
    BY SMT DEF Positions, TypeOK
  <2>2. i \in Positions(a)
    BY <1>3, <2>1, LeastElement
  <2>3. findSubForIP(a) = subs[i]
    BY <1>3 DEF findSubForIP
  <2> HIDE DEF i
  <2> QED BY <2>1, <2>2, <2>3, ConstantsAssumption, SMT DEF TypeOK, Pool
<1> QED BY <1>1, <1>4, FindSub, CoversOne

\* A release clears the bit of its address and no other.
LEMMA ReleaseExact ==
  ASSUME TypeOK, CidrInv, SubsIndexed, NEW n \in Node, NEW a \in allocated[n], NEW p,
         releaseIPLocked(a, p)
  PROVE  allocated' = [allocated EXCEPT ![n] = @ \ {a}]
BY FindAllocated, ConstantsAssumption DEF releaseIPLocked, releaseBit, Pool

\* Without deleted CiliumNodes no CIDR gets into two sub-allocators.
LEMMA CidrStep == StableCidrs /\ TypeOK /\ CidrInv /\ [Next]_vars => CidrInv'
<1> SUFFICES ASSUME StableCidrs, TypeOK, CidrInv, [Next]_vars PROVE CidrInv'
  OBVIOUS
<1> USE DEF ipamVars, epVars, stzVars, apiVars, reqVars
<1>1. CASE UNCHANGED <<cnCIDR, fetched, allocCIDR>>
  BY <1>1 DEF CidrInv
<1>2. ASSUME NEW n \in Node, NEW c \in Cidr, AssignCIDR(n, c) PROVE CidrInv'
  <2>1. fetched # None => fetched[1] \in Node /\ fetched[2] \in Cidr
    BY DEF TypeOK
  <2> QED BY <1>2, <2>1, ConstantsAssumption, SMT DEF CidrInv, AssignCIDR, TypeOK
<1>3. ASSUME NEW n \in Node, DeleteCiliumNode(n) PROVE CidrInv'
  BY <1>3 DEF DeleteCiliumNode
<1>4. ASSUME NEW n \in Node, FetchCiliumNode(n) PROVE CidrInv'
  BY <1>4 DEF CidrInv, FetchCiliumNode
<1>5. CASE addManagedNodeCIDR
  <2>1. fetched[1] \in Node /\ fetched[2] \in Cidr
    BY <1>5 DEF TypeOK, addManagedNodeCIDR
  <2> QED BY <1>5, <2>1, ConstantsAssumption, SMT DEF CidrInv, addManagedNodeCIDR, AddCIDR, TypeOK
<1>6. ASSUME NEW r \in Req, NEW p \in Pool,
             \/ AllocateNextFamily(r, p) \/ PoolExhausted(r, p)
             \/ \E a \in IP : AllocateIP(r, a, p)
      PROVE  CidrInv'
  BY <1>1, <1>6 DEF AllocateNextFamily, PoolExhausted, AllocateIP
<1>7. ASSUME NEW r \in Req,
             \/ StartExpirationTimer(r) \/ CniFail(r) \/ CniDie(r) \/ CheckEndpoint(r)
             \/ AddEndpoint(r) \/ errorDuringCreation(r) \/ StopExpirationTimer(r)
             \/ DeleteIpamCheck(r) \/ DeleteEndpoint(r) \/ ArmTrigger(r)
      PROVE  CidrInv'
  BY <1>1, <1>7 DEF StartExpirationTimer, CniFail, CniDie, CheckEndpoint, AddEndpoint,
       errorDuringCreation, StopExpirationTimer, DeleteIpamCheck, DeleteEndpoint, ArmTrigger
<1>8. ASSUME NEW r \in Req,
             \/ UndoAllocation(r) \/ Expire(r) \/ DeleteIpamRelease(r) \/ EndpointDeleted(r)
      PROVE  CidrInv'
  BY <1>1, <1>8 DEF UndoAllocation, Expire, DeleteIpamRelease, EndpointDeleted,
                    releaseIPLocked
<1>9. CASE UNCHANGED vars
  BY <1>1, <1>9 DEF vars
<1> QED
  BY <1>2, <1>3, <1>4, <1>5, <1>6, <1>7, <1>8, <1>9 DEF Next

(***************************************************************************)
(* Who owns an address.                                                    *)
(***************************************************************************)
\* The bit of an owned address is set, in the one bitmap that covers it, and
\* no two requests own one address.
OwnInv ==
  /\ \A r \in Req : ip[r] # None => from[r] # None
  /\ \A r \in Req : Owns(r) =>
       /\ ip[r] \in IP
       /\ from[r] \in Pool
       /\ \E n \in Node : ip[r] \in allocated[n]
       /\ pc[r] # "static" => from[r] \in Node /\ ip[r] \in allocated[from[r]]
  /\ \A r, q \in Req : r # q /\ Owns(r) /\ Owns(q) => ip[r] # ip[q]

\* A lease timer belongs to the request it names, from the moment it is
\* started until the endpoint is created or the lease is given up.
TimerInv ==
  /\ \A p \in Pool, a \in IP : timers[p][a] # None =>
       LET r == timers[p][a]
       IN  from[r] = p /\ ip[r] = a /\ pc[r] \in {"leased", "checked", "added", "failed"}
  /\ \A r \in Req :
       (pc[r] \in {"leased", "checked", "added"}
         \/ (pc[r] = "failed" /\ cleanup[r] # "done"))
       => ip[r] \in IP /\ from[r] \in Pool /\ timers[from[r]][ip[r]] = r

\* The endpoint index finds exactly the exposed endpoints, and a request is
\* cleaned up or deleted in one place only.
EndpointInv ==
  /\ \A a \in IP : byIP[a] # None => exposed[byIP[a]] /\ ip[byIP[a]] = a
  /\ \A r \in Req : exposed[r] =>
       pc[r] \in {"added", "live"} /\ byIP[ip[r]] = r /\ del[r] = "no"
  /\ \A r \in Req : pc[r] = "added" => exposed[r]
  /\ \A r \in Req : pc[r] = "live" => exposed[r] \/ del[r] # "no"
  /\ \A r \in Req : del[r] # "no" => pc[r] = "live"
  /\ \A r \in Req : cleanup[r] = "checked" => pc[r] \in {"failed", "static"}
  /\ \A r \in Req : pc[r] \notin {"failed", "live", "static"} => cleanup[r] = "no"
  /\ \A r \in Req : pc[r] = "static" => cleanup[r] # "done"
  /\ \A r \in Req : pc[r] # "undo"

IInv == TypeOK /\ SubsIndexed /\ CidrInv /\ OwnInv /\ TimerInv /\ EndpointInv

\* One entry of the timer table changes.
LEMMA SetTimer ==
  ASSUME TypeOK, NEW p \in Pool, NEW a \in IP, NEW v,
         timers' = [timers EXCEPT ![p][a] = v]
  PROVE  \A x \in Pool, y \in IP :
           timers'[x][y] = IF x = p /\ y = a THEN v ELSE timers[x][y]
BY DEF TypeOK

\* What the owner of an address releases touches no other owner.
LEMMA ReleaseByOwner ==
  ASSUME IInv, NEW r \in Req, Owns(r), releaseIPLocked(ip[r], from[r])
  PROVE  /\ \A q \in Req : q # r /\ Owns(q) =>
              /\ ip[q] # ip[r]
              /\ \A n \in Node : ip[q] \in allocated[n] => ip[q] \in allocated'[n]
         /\ \A p \in Pool, a \in IP :
              timers'[p][a] = IF p = from[r] /\ a = ip[r] THEN None ELSE timers[p][a]
<1>1. PICK n \in Node : ip[r] \in allocated[n]
  BY DEF IInv, OwnInv
<1>2. allocated' = [allocated EXCEPT ![n] = @ \ {ip[r]}]
  BY <1>1, ReleaseExact DEF IInv
<1>3. ip[r] \in IP /\ from[r] \in Pool
  BY DEF IInv, OwnInv
<1>4. timers' = [timers EXCEPT ![from[r]][ip[r]] = None]
  BY DEF releaseIPLocked
<1>5. ASSUME NEW p \in Pool, NEW a \in IP
      PROVE  timers'[p][a] = IF p = from[r] /\ a = ip[r] THEN None ELSE timers[p][a]
  BY <1>3, <1>4 DEF IInv, TypeOK
<1>6. ASSUME NEW q \in Req, q # r, Owns(q)
      PROVE  /\ ip[q] # ip[r]
             /\ \A m \in Node : ip[q] \in allocated[m] => ip[q] \in allocated'[m]
  <2>1. ip[q] # ip[r]
    BY <1>6 DEF IInv, OwnInv
  <2> QED BY <2>1, <1>2 DEF IInv, TypeOK
<1> QED BY <1>5, <1>6

\* The types of the variables of the requests and of the endpoint manager.
ReqTypes ==
  /\ pc \in [Req -> PC]
  /\ ip \in [Req -> IP \cup {None}]
  /\ from \in [Req -> Pool \cup {None}]
  /\ cleanup \in [Req -> {"no", "checked", "done"}]
  /\ del \in [Req -> {"no", "removing", "done"}]

EpTypes ==
  /\ exposed \in [Req -> BOOLEAN]
  /\ byIP \in [IP -> Req \cup {None}]

\* The same, as they follow from the invariant.
LEMMA SomeTypes == TypeOK => ReqTypes /\ EpTypes
BY DEF TypeOK, ReqTypes, EpTypes

\* The states of a request whose lease timer may be running.
Leasing == {"leased", "checked", "added", "failed"}

\* The request that a lease timer names.
LEMMA TimerFacts ==
  ASSUME IInv, NEW p \in Pool, NEW a \in IP, timers[p][a] # None
  PROVE  LET r == timers[p][a]
         IN  r \in Req /\ from[r] = p /\ ip[r] = a /\ pc[r] \in Leasing
<1>1. timers[p][a] \in Req
  <2>1. timers \in [Pool -> [IP -> Req \cup {None}]]
    BY DEF IInv, TypeOK
  <2> QED BY <2>1
<1>2. TimerInv
  BY DEF IInv
<1> QED BY <1>1, <1>2 DEF TimerInv, Leasing

\* The endpoint that the index finds under an address.
LEMMA IndexFacts ==
  ASSUME IInv, NEW a \in IP, byIP[a] # None
  PROVE  byIP[a] \in Req /\ exposed[byIP[a]] /\ ip[byIP[a]] = a
<1>1. EndpointInv /\ EpTypes
  BY SomeTypes DEF IInv
<1>2. byIP[a] \in Req
  BY <1>1 DEF EpTypes
<1> QED BY <1>1, <1>2 DEF EndpointInv

\* DELETE /ipam only releases for requests that failed or have no endpoint.
LEMMA CleanupFacts ==
  ASSUME IInv, NEW r \in Req, cleanup[r] = "checked"
  PROVE  pc[r] \in {"failed", "static"}
<1>1. EndpointInv
  BY DEF IInv
<1> QED BY <1>1 DEF EndpointInv

\* An endpoint in the manager owns its address.
LEMMA ExposedOwns ==
  ASSUME IInv, NEW r \in Req, exposed[r]
  PROVE  Owns(r) /\ byIP[ip[r]] = r
<1>1. EndpointInv
  BY DEF IInv
<1>2. pc[r] \in {"added", "live"} /\ byIP[ip[r]] = r /\ del[r] = "no"
  BY <1>1 DEF EndpointInv
<1> QED BY <1>2 DEF Owns

\* After a release the timer of the address is gone: a failed request that
\* released it owns nothing.
LEMMA ReleasedOwnsNothing ==
  ASSUME IInv, NEW r \in Req, Owns(r), releaseIPLocked(ip[r], from[r]),
         UNCHANGED <<ip, from>>, pc'[r] = "failed"
  PROVE  ~Owns(r)'
<1>1. ip[r] \in IP /\ from[r] \in Pool
  BY DEF IInv, OwnInv
<1>2. timers'[from[r]][ip[r]] = None
  BY <1>1, ReleaseByOwner
<1>3. r # None
  BY ConstantsAssumption
<1> QED BY <1>2, <1>3 DEF Owns

\* No step takes an address from its owner or gives it a second one.
LEMMA OwnStep == Prompt /\ StableCidrs /\ IInv /\ TypeOK' /\ [Next]_vars => OwnInv'
<1> SUFFICES ASSUME Prompt, StableCidrs, IInv, TypeOK', [Next]_vars PROVE OwnInv'
  OBVIOUS
<1> USE DEF ipamVars, epVars, stzVars, apiVars, reqVars
<1>0. TypeOK /\ PrimaryHasSub
  BY DEF IInv, CidrInv, PrimaryHasSub
\* A step that makes no new owner and clears no owner's bit.
<1>1. ASSUME UNCHANGED <<ip, from>>,
             \A q \in Req : Owns(q)' =>
               /\ Owns(q)
               /\ pc[q] = "static" => pc'[q] = "static"
               /\ \A n \in Node : ip[q] \in allocated[n] => ip[q] \in allocated'[n]
      PROVE  OwnInv'
  <2>1. ASSUME NEW q \in Req, Owns(q)'
        PROVE  /\ ip'[q] \in IP /\ from'[q] \in Pool
               /\ \E n \in Node : ip'[q] \in allocated'[n]
               /\ pc'[q] # "static" => from'[q] \in Node /\ ip'[q] \in allocated'[from'[q]]
    BY <1>1, <2>1 DEF IInv, OwnInv
  <2>2. ASSUME NEW q \in Req, NEW s \in Req, q # s, Owns(q)', Owns(s)' PROVE ip'[q] # ip'[s]
    BY <1>1, <2>2 DEF IInv, OwnInv
  <2> QED BY <1>1, <2>1, <2>2 DEF IInv, OwnInv
\* A step that gives r a free address.
<1>2. ASSUME NEW r \in Req, NEW n \in Node, NEW a \in IP, NEW p \in Pool, NEW X,
             Covers(n, a), a \notin allocated[n],
             allocated' = [allocated EXCEPT ![n] = @ \cup X \cup {a}],
             ip' = [ip EXCEPT ![r] = a], from' = [from EXCEPT ![r] = p],
             \/ pc' = [pc EXCEPT ![r] = "allocated"] /\ p = n
             \/ pc' = [pc EXCEPT ![r] = "static"],
             UNCHANGED <<timers, del>>
      PROVE  OwnInv'
  <2>1. \A m \in Node : allocated[m] \subseteq allocated'[m]
    BY <1>0, <1>2 DEF TypeOK
  <2>2. a \in allocated'[n]
    BY <1>0, <1>2 DEF TypeOK
  <2>3. ASSUME NEW q \in Req, q # r, Owns(q)'
        PROVE  /\ Owns(q)
               /\ ip'[q] = ip[q] /\ from'[q] = from[q] /\ pc'[q] = pc[q]
    BY <1>0, <1>2, <2>3, SMT DEF TypeOK, Owns
  <2>4. ASSUME NEW q \in Req, Owns(q) PROVE ip[q] # a
    <3>1. PICK m \in Node : ip[q] \in allocated[m]
      BY <2>4 DEF IInv, OwnInv
    <3>2. Covers(m, ip[q])
      BY <3>1 DEF IInv, SubsIndexed
    <3> QED BY <1>0, <1>2, <3>1, <3>2, CoversOne DEF IInv
  <2>5. ip'[r] = a /\ from'[r] = p /\ pc'[r] \in {"allocated", "static"}
    BY <1>0, <1>2, SMT DEF TypeOK
  <2>6. pc'[r] = "allocated" => p = n
    BY <1>0, <1>2 DEF TypeOK
  <2>7. ASSUME NEW q \in Req, Owns(q)'
        PROVE  /\ ip'[q] \in IP /\ from'[q] \in Pool
               /\ \E m \in Node : ip'[q] \in allocated'[m]
               /\ pc'[q] # "static" => from'[q] \in Node /\ ip'[q] \in allocated'[from'[q]]
    <3>1. CASE q = r
      BY <3>1, <1>2, <2>2, <2>5, <2>6
    <3>2. CASE q # r
      BY <3>2, <2>1, <2>3, <2>7 DEF IInv, OwnInv
    <3> QED BY <3>1, <3>2
  <2>8. ASSUME NEW q \in Req, NEW s \in Req, q # s, Owns(q)', Owns(s)' PROVE ip'[q] # ip'[s]
    BY <2>3, <2>4, <2>5, <2>8 DEF IInv, OwnInv
  <2>9. \A q \in Req : ip'[q] # None => from'[q] # None
    BY <1>0, <1>2, ConstantsAssumption, SMT DEF IInv, OwnInv, TypeOK
  <2> QED BY <2>7, <2>8, <2>9 DEF OwnInv
\* A release by an owner that gives up its address.
<1>3. ASSUME NEW r \in Req, Owns(r), releaseIPLocked(ip[r], from[r]), ~Owns(r)',
             UNCHANGED <<ip, from>>,
             \A q \in Req : q # r => pc'[q] = pc[q] /\ del'[q] = del[q]
      PROVE  OwnInv'
  <2>1. ASSUME NEW q \in Req, Owns(q)'
        PROVE  /\ Owns(q)
               /\ pc[q] = "static" => pc'[q] = "static"
               /\ \A n \in Node : ip[q] \in allocated[n] => ip[q] \in allocated'[n]
    <3>1. q # r /\ pc'[q] = pc[q] /\ del'[q] = del[q]
      BY <1>3, <2>1
    <3>2. Owns(q)
      <4>1. \A p \in Pool, a \in IP :
              timers'[p][a] = IF p = from[r] /\ a = ip[r] THEN None ELSE timers[p][a]
        BY <1>3, ReleaseByOwner
      <4>2. \A p \in Pool, a \in IP : timers'[p][a] = q => timers[p][a] = q
        BY <4>1, ConstantsAssumption, SMT
      <4> QED BY <1>3, <2>1, <3>1, <4>2 DEF Owns
    <3> QED BY <1>3, <3>1, <3>2, ReleaseByOwner
  <2>2. UNCHANGED <<ip, from>>
    BY <1>3
  <2> QED BY <1>1, <2>1, <2>2
<1>4. ASSUME NEW r \in Req, NEW p \in Pool, AllocateNextFamily(r, p) PROVE OwnInv'
  <2> DEFINE n == resolvePool(p)
  <2>1. PICK a \in Free(n), X \in SUBSET {b \in Free(n) : isIPExcluded(b, p)} :
          /\ allocated' = [allocated EXCEPT ![n] = @ \cup X \cup {a}]
          /\ ip' = [ip EXCEPT ![r] = a]
    BY <1>4 DEF AllocateNextFamily
  <2>2. n \in Node /\ a \in IP /\ n \in Pool
    BY <1>0, <2>1, ResolveType DEF Pool
  <2>3. Covers(n, a) /\ a \notin allocated[n]
    BY <1>0, <2>1, ConstantsAssumption DEF Free, Covers, resolvePool, PrimaryHasSub
  <2>4. /\ from' = [from EXCEPT ![r] = n]
        /\ pc' = [pc EXCEPT ![r] = "allocated"]
        /\ UNCHANGED <<timers, del>>
    BY <1>4 DEF AllocateNextFamily
  <2> HIDE DEF n
  <2> QED BY <1>2, <2>1, <2>2, <2>3, <2>4
<1>5. ASSUME NEW r \in Req, NEW p \in Pool, NEW a \in IP, AllocateIP(r, a, p) PROVE OwnInv'
  <2> DEFINE n == findSubForIP(a)
  <2>1. n \in Node /\ Covers(n, a)
    BY <1>0, <1>5, FindSub DEF AllocateIP
  <2>2. /\ a \notin allocated[n]
        /\ allocated' = [allocated EXCEPT ![n] = @ \cup {a}]
        /\ ip' = [ip EXCEPT ![r] = a]
        /\ from' = [from EXCEPT ![r] = p]
        /\ pc' = [pc EXCEPT ![r] = "static"]
        /\ UNCHANGED <<timers, del>>
    BY <1>5 DEF AllocateIP
  <2> HIDE DEF n
  <2>3. allocated' = [allocated EXCEPT ![n] = @ \cup {} \cup {a}]
    BY <2>2
  <2> QED BY <1>2, <2>1, <2>2, <2>3
<1>6. ASSUME NEW r \in Req, NEW p \in Pool, PoolExhausted(r, p) PROVE OwnInv'
  <2>1. \A m \in Node : allocated[m] \subseteq allocated'[m]
    BY <1>0, <1>6 DEF TypeOK, PoolExhausted
  <2>2. pc[r] = "idle" /\ pc' = [pc EXCEPT ![r] = "failed"] /\ UNCHANGED <<ip, from, timers, del>>
    BY <1>6 DEF PoolExhausted
  <2>3. ASSUME NEW q \in Req, Owns(q)' PROVE Owns(q) /\ pc'[q] = pc[q]
    <3>1. CASE q = r
      <4>1. pc'[r] = "failed" /\ ip[r] \in IP /\ from[r] \in Pool /\ timers[from[r]][ip[r]] = r
        BY <1>0, <2>2, <2>3, <3>1 DEF Owns, TypeOK
      <4>2. pc[r] # "idle"
        BY <4>1, ConstantsAssumption, SMT DEF IInv, TimerInv
      <4> QED BY <2>2, <4>2
    <3>2. CASE q # r
      BY <1>0, <2>2, <2>3, <3>2 DEF Owns, TypeOK
    <3> QED BY <3>1, <3>2
  <2> QED BY <1>1, <2>1, <2>2, <2>3
<1>7. ASSUME NEW r \in Req, StartExpirationTimer(r) PROVE OwnInv'
  <2>1. /\ pc[r] = "allocated" /\ UNCHANGED <<ip, from, allocated, del>>
        /\ pc' \in {[pc EXCEPT ![r] = "leased"], [pc EXCEPT ![r] = "undo"]}
        /\ timers' \in {timers, leaseTimer(r)}
    BY <1>7 DEF StartExpirationTimer
  <2>2. ASSUME NEW q \in Req, Owns(q)' PROVE Owns(q) /\ (pc[q] = "static" => pc'[q] = "static")
    <3>1. CASE q = r
      BY <2>1, <3>1 DEF Owns
    <3>2. CASE q # r
      <4>1. \A p \in Pool, a \in IP : timers'[p][a] = q => timers[p][a] = q
        <5>1. from[r] \in Pool /\ ip[r] \in IP
          BY <2>1 DEF IInv, OwnInv, Owns
        <5>2. CASE timers' = [timers EXCEPT ![from[r]][ip[r]] = r]
          BY <1>0, <3>2, <5>1, <5>2, SetTimer, SMT
        <5> QED BY <2>1, <5>2 DEF leaseTimer
      <4>2. pc'[q] = pc[q]
        BY <1>0, <2>1, <3>2 DEF TypeOK
      <4> QED BY <2>1, <2>2, <4>1, <4>2 DEF Owns
    <3> QED BY <3>1, <3>2
  <2> QED BY <1>1, <2>1, <2>2
<1>8. ASSUME NEW r \in Req, UndoAllocation(r) PROVE OwnInv'
  BY <1>8 DEF UndoAllocation, IInv, EndpointInv
<1>9. ASSUME NEW r \in Req, Expire(r) PROVE OwnInv'
  <2>1. /\ pc[r] = "failed" /\ timers[from[r]][ip[r]] = r
        /\ releaseIPLocked(ip[r], from[r])
        /\ UNCHANGED <<ip, from, pc, del>>
    BY <1>9 DEF Expire
  <2>2. ip[r] \in IP /\ from[r] \in Pool
    BY <1>0, <1>9 DEF Expire, IInv, OwnInv, TypeOK
  <2>3. Owns(r)
    BY <2>1, <2>2 DEF Owns
  <2>4. ~Owns(r)'
    BY <2>1, <2>3, ReleasedOwnsNothing
  <2> QED BY <1>3, <2>1, <2>3, <2>4
<1>10. ASSUME NEW r \in Req,
              \/ CniFail(r) \/ CniDie(r) \/ CheckEndpoint(r) \/ AddEndpoint(r)
              \/ errorDuringCreation(r) \/ DeleteIpamCheck(r) \/ DeleteEndpoint(r)
              \/ ArmTrigger(r)
       PROVE  OwnInv'
  <2>1. UNCHANGED <<ip, from, allocated, timers>>
    BY <1>10 DEF CniFail, CniDie, CheckEndpoint, AddEndpoint, errorDuringCreation,
                 DeleteIpamCheck, DeleteEndpoint, ArmTrigger
  <2>2. \A q \in Req :
          /\ pc'[q] = pc[q] \/ pc[q] \in {"leased", "checked", "added"}
          /\ del'[q] = del[q] \/ del[q] = "no"
    BY <1>0, <1>10 DEF CniFail, CniDie, CheckEndpoint, AddEndpoint, errorDuringCreation,
                       DeleteIpamCheck, DeleteEndpoint, ArmTrigger, TypeOK
  <2>3. \A q \in Req : Owns(q)' => Owns(q) /\ (pc[q] = "static" => pc'[q] = "static")
    BY <2>1, <2>2 DEF Owns
  <2> QED BY <1>1, <2>1, <2>3
<1>11. ASSUME NEW r \in Req, StopExpirationTimer(r) PROVE OwnInv'
  <2>1. /\ pc[r] = "added" /\ UNCHANGED <<ip, from, allocated, del>>
        /\ \A q \in Req : q # r => pc'[q] = pc[q]
        /\ timers' \in {timers, [timers EXCEPT ![from[r]][ip[r]] = None]}
    BY <1>0, <1>11 DEF StopExpirationTimer, TypeOK
  <2>2. ASSUME NEW q \in Req, Owns(q)' PROVE Owns(q) /\ (pc[q] = "static" => pc'[q] = "static")
    <3>1. CASE q = r
      BY <2>1, <3>1 DEF Owns
    <3>2. CASE q # r
      <4>1. \A p \in Pool, a \in IP : timers'[p][a] = q => timers[p][a] = q
        <5>1. from[r] \in Pool /\ ip[r] \in IP
          BY <2>1 DEF IInv, OwnInv, Owns
        <5>2. CASE timers' = [timers EXCEPT ![from[r]][ip[r]] = None]
          BY <1>0, <5>1, <5>2, SetTimer, ConstantsAssumption, SMT
        <5> QED BY <2>1, <5>2
      <4> QED BY <2>1, <2>2, <3>2, <4>1 DEF Owns
    <3> QED BY <3>1, <3>2
  <2> QED BY <1>1, <2>1, <2>2
<1>12. ASSUME NEW r \in Req, DeleteIpamRelease(r) PROVE OwnInv'
  <2>1. /\ cleanup[r] = "checked" /\ releaseIPLocked(ip[r], from[r])
        /\ UNCHANGED <<ip, from, del>>
        /\ pc' = [pc EXCEPT ![r] = IF @ = "static" THEN "failed" ELSE @]
    BY <1>12 DEF DeleteIpamRelease
  <2>2. pc[r] \in {"failed", "static"} /\ pc'[r] = "failed"
    BY <1>0, <2>1, CleanupFacts, SomeTypes DEF ReqTypes
  <2>3. Owns(r)
    BY <2>1, <2>2 DEF IInv, TimerInv, Owns
  <2>4. ~Owns(r)'
    BY <2>1, <2>2, <2>3, ReleasedOwnsNothing
  <2>5. \A q \in Req : q # r => pc'[q] = pc[q]
    BY <1>0, <2>1 DEF TypeOK
  <2> QED BY <1>3, <2>1, <2>3, <2>4, <2>5
<1>13. ASSUME NEW r \in Req, EndpointDeleted(r) PROVE OwnInv'
  <2>1. /\ del[r] = "removing" /\ releaseIPLocked(ip[r], from[r])
        /\ UNCHANGED <<ip, from, pc>>
        /\ del' = [del EXCEPT ![r] = "done"]
    BY <1>13 DEF EndpointDeleted
  <2>2. pc[r] = "live"
    BY <2>1 DEF IInv, EndpointInv
  <2>3. Owns(r)
    BY <2>1, <2>2 DEF Owns
  <2>4. ~Owns(r)'
    BY <1>0, <2>1, <2>2 DEF Owns, TypeOK
  <2>5. \A q \in Req : q # r => del'[q] = del[q]
    BY <1>0, <2>1 DEF TypeOK
  <2> QED BY <1>3, <2>1, <2>3, <2>4, <2>5
<1>14. CASE UNCHANGED <<pc, ip, from, del, timers, allocated>>
  <2>1. \A q \in Req : Owns(q)' => Owns(q)
    BY <1>14 DEF Owns
  <2> QED BY <1>1, <1>14, <2>1
<1>15. CASE addManagedNodeCIDR
  <2>1. /\ fetched[1] \in Node /\ fetched[2] \in Cidr /\ fetched # None
        /\ AddCIDR(fetched[1], fetched[2])
        /\ UNCHANGED <<pc, ip, from, del, timers>>
    BY <1>0, <1>15 DEF TypeOK, addManagedNodeCIDR
  <2>2. allocCIDR[fetched[1]] # fetched[2] => allocated[fetched[1]] = {}
    BY <2>1 DEF IInv, CidrInv, SubsIndexed, Covers
  <2>3. \A m \in Node : allocated[m] \subseteq allocated'[m]
    BY <1>0, <2>1, <2>2 DEF AddCIDR, TypeOK
  <2>4. \A q \in Req : Owns(q)' => Owns(q)
    BY <2>1 DEF Owns
  <2> QED BY <1>1, <2>1, <2>3, <2>4
<1>16. ASSUME NEW n \in Node,
              \/ \E c \in Cidr : AssignCIDR(n, c)
              \/ DeleteCiliumNode(n) \/ FetchCiliumNode(n)
       PROVE  OwnInv'
  BY <1>14, <1>16 DEF AssignCIDR, DeleteCiliumNode, FetchCiliumNode
<1>17. CASE UNCHANGED vars
  BY <1>14, <1>17 DEF vars
<1> QED
  BY <1>4, <1>5, <1>6, <1>7, <1>8, <1>9, <1>10, <1>11, <1>12, <1>13, <1>15, <1>16, <1>17
  DEF Next
=============================================================================
