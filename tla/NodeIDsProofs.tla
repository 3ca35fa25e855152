--------------------------- MODULE NodeIDsProofs ---------------------------
(***************************************************************************)
(* Proofs about NodeIDs: the two maps and the pool always agree; with       *)
(* addresses that stay with their machine no two machines share an ID; and  *)
(* nodes keep their ID when the pawns carry the address of their host.      *)
(*                                                                          *)
(* The argument is about the pair of maps m that the helpers pass on:       *)
(* MapsOK(m) says that byID is the inverse of byIP.  Each helper keeps it,  *)
(* mapNodeID because allocateIDForNode has made the addresses consistent    *)
(* first; NotPooled adds that an ID in use is not in the pool.              *)
(***************************************************************************)
EXTENDS NodeIDs, TLAPS

\* A leaf is for Zenon unless it names another prover.
USE Zenon

MapPair == [byIP : [IP -> ID], byID : [ID -> SUBSET IP]]

MapsOK(m) ==
    /\ m \in MapPair
    /\ \A a \in IP, i \in ID : a \in m.byID[i] <=> (i # NoID /\ m.byIP[a] = i)

NotPooled(m, free) == \A a \in IP : m.byIP[a] # NoID => m.byIP[a] \notin free

IInv == TypeOK /\ MapsOK(Maps) /\ NotPooled(Maps, pool)

\* NoID is an ID of the maps, different from the IDs 1 .. MaxID.
LEMMA IDFacts == NoID \in ID /\ 1 .. MaxID = ID \ {NoID}
BY NodeIDsAssumption, SMT DEF NoID, ID

\* unmapNodeID keeps the maps inverse to each other and only clears entries.
LEMMA UnmapOK ==
    ASSUME NEW m, MapsOK(m), NEW addrs
    PROVE  /\ MapsOK(unmapNodeID(addrs, m))
           /\ \A a \in IP : unmapNodeID(addrs, m).byIP[a] =
                                IF a \in addrs THEN NoID ELSE m.byIP[a]
<1> DEFINE u == unmapNodeID(addrs, m)
<1>1. u.byIP = [a \in IP |-> IF a \in addrs THEN NoID ELSE m.byIP[a]]
  BY DEF unmapNodeID
<1>2. u.byID = [i \in ID |-> m.byID[i] \ {a \in addrs : m.byIP[a] = i}]
  BY DEF unmapNodeID
<1>3. u = [byIP |-> u.byIP, byID |-> u.byID]
  BY DEF unmapNodeID
<1>4. m.byIP \in [IP -> ID] /\ m.byID \in [ID -> SUBSET IP]
  BY DEF MapsOK, MapPair
<1>5. u.byIP \in [IP -> ID]
  BY <1>1, <1>4, IDFacts
<1>6. u.byID \in [ID -> SUBSET IP]
  BY <1>2, <1>4
<1>7. u \in MapPair
  BY <1>3, <1>5, <1>6 DEF MapPair
<1>8. ASSUME NEW a \in IP, NEW i \in ID
      PROVE  a \in u.byID[i] <=> (i # NoID /\ u.byIP[a] = i)
  <2>1. u.byIP[a] = IF a \in addrs THEN NoID ELSE m.byIP[a]
    BY <1>1
  <2>2. u.byID[i] = m.byID[i] \ {b \in addrs : m.byIP[b] = i}
    BY <1>2
  <2>3. a \in m.byID[i] <=> (i # NoID /\ m.byIP[a] = i)
    BY DEF MapsOK
  <2> QED BY <2>1, <2>2, <2>3
<1> HIDE DEF u
<1>9. MapsOK(u)
  BY <1>7, <1>8 DEF MapsOK
<1> QED BY <1>1, <1>9 DEF u

\* mapNodeID keeps the maps inverse to each other when every address it maps
\* is free or already has the ID.
LEMMA MapOK ==
    ASSUME NEW m, MapsOK(m), NEW addrs \in SUBSET IP, NEW id \in ID \ {NoID},
           \A a \in addrs : m.byIP[a] \in {NoID, id}
    PROVE  /\ MapsOK(mapNodeID(addrs, id, m))
           /\ \A a \in IP : mapNodeID(addrs, id, m).byIP[a] =
                                IF a \in addrs THEN id ELSE m.byIP[a]
<1> DEFINE u == mapNodeID(addrs, id, m)
<1>1. u.byIP = [a \in IP |-> IF a \in addrs THEN id ELSE m.byIP[a]]
  BY DEF mapNodeID
<1>2. u.byID = [m.byID EXCEPT ![id] = @ \cup addrs]
  BY DEF mapNodeID
<1>3. u = [byIP |-> u.byIP, byID |-> u.byID]
  BY DEF mapNodeID
<1>4. m.byIP \in [IP -> ID] /\ m.byID \in [ID -> SUBSET IP]
  BY DEF MapsOK, MapPair
<1>5. u.byIP \in [IP -> ID]
  BY <1>1, <1>4, SMT
<1>6. u.byID \in [ID -> SUBSET IP]
  BY <1>2, <1>4, SMT
<1>7. u \in MapPair
  BY <1>3, <1>5, <1>6 DEF MapPair
<1>8. ASSUME NEW a \in IP, NEW i \in ID
      PROVE  a \in u.byID[i] <=> (i # NoID /\ u.byIP[a] = i)
  <2>1. u.byIP[a] = IF a \in addrs THEN id ELSE m.byIP[a]
    BY <1>1
  <2>2. u.byID[i] = IF i = id THEN m.byID[i] \cup addrs ELSE m.byID[i]
    BY <1>2, <1>4
  <2>3. a \in m.byID[i] <=> (i # NoID /\ m.byIP[a] = i)
    BY DEF MapsOK
  <2> QED BY <2>1, <2>2, <2>3
<1> HIDE DEF u
<1>9. MapsOK(u)
  BY <1>7, <1>8 DEF MapsOK
<1> QED BY <1>1, <1>9 DEF u

\* consistent leaves the node's addresses with at most one ID.
LEMMA ConsistentOK ==
    ASSUME NEW m, MapsOK(m), NEW addrs \in SUBSET IP
    PROVE  LET c == consistent(addrs, m) IN
           /\ MapsOK(c)
           /\ \A a \in IP : c.byIP[a] \in {NoID, m.byIP[a]}
           /\ \A i, j \in IDsOf(addrs, c) : i = j
<1>1. CASE \E i, j \in IDsOf(addrs, m) : i # j
  <2>1. consistent(addrs, m) = unmapNodeID(addrs, m)
    BY <1>1 DEF consistent
  <2>2. IDsOf(addrs, unmapNodeID(addrs, m)) = {}
    BY UnmapOK, SMT DEF IDsOf
  <2> QED BY <2>1, <2>2, UnmapOK, SMT
<1>2. CASE ~ \E i, j \in IDsOf(addrs, m) : i # j
  BY <1>2 DEF consistent
<1> QED BY <1>1, <1>2

\* What nodeUpdate does to the maps and the pool: it maps the written addresses
\* to one ID, fresh from the pool or that of some address of the node, and
\* clears others.
LEMMA NodeUpdateMaps ==
    ASSUME IInv, NEW n \in Node, NEW old \in SUBSET IP, NEW new \in SUBSET IP,
           nodeUpdate(n, old, new)
    PROVE  /\ MapsOK(Maps)' /\ NotPooled(Maps, pool)' /\ pool' \subseteq pool
           /\ \E id \in ID : \A a \in IP :
                /\ \/ nodeIDsByIPs'[a] = NoID
                   \/ nodeIDsByIPs'[a] = nodeIDsByIPs[a]
                   \/ a \in new /\ id # NoID /\ nodeIDsByIPs'[a] = id
                /\ \/ id \in pool
                   \/ id = NoID
                   \/ \E b \in new : nodeIDsByIPs[b] = id
<1> DEFINE m == consistent(new, Maps)
<1>1. /\ MapsOK(m)
      /\ \A a \in IP : m.byIP[a] \in {NoID, nodeIDsByIPs[a]}
      /\ \A i, j \in IDsOf(new, m) : i = j
  BY ConsistentOK DEF IInv, Maps
<1>2. PICK id \in idChoices(new, m), lost \in SUBSET new :
         LET allocated == IF id = NoID THEN m ELSE mapNodeID(new \ lost, id, m)
             done == diffAndUnmapNodeIPs(old, new, allocated)
         IN /\ nodeIDsByIPs' = done.byIP
            /\ nodeIPsByIDs' = done.byID
            /\ pool' = IF IDsOf(new, m) = {} THEN pool \ {id} ELSE pool
  BY DEF nodeUpdate
<1> DEFINE allocated == IF id = NoID THEN m ELSE mapNodeID(new \ lost, id, m)
           done == unmapNodeID(old \ new, allocated)
<1>3. /\ nodeIDsByIPs' = done.byIP
      /\ nodeIPsByIDs' = done.byID
      /\ pool' = IF IDsOf(new, m) = {} THEN pool \ {id} ELSE pool
  BY <1>2 DEF diffAndUnmapNodeIPs
<1> HIDE DEF m
<1>4. m.byIP \in [IP -> ID]
  BY <1>1 DEF MapsOK, MapPair
<1>5. id \in ID
  <2>1. IDsOf(new, m) \subseteq ID
    BY <1>4 DEF IDsOf
  <2> QED BY <2>1, IDFacts DEF idChoices, IInv, TypeOK
<1>6. \A a \in new : id # NoID => m.byIP[a] \in {NoID, id}
  <2> SUFFICES ASSUME NEW a \in new, id # NoID, m.byIP[a] # NoID PROVE m.byIP[a] = id
    OBVIOUS
  <2>1. m.byIP[a] \in IDsOf(new, m)
    BY DEF IDsOf
  <2>2. id \in IDsOf(new, m)
    BY <2>1 DEF idChoices
  <2> QED BY <1>1, <2>1, <2>2
<1>7. /\ MapsOK(allocated)
      /\ \A a \in IP : allocated.byIP[a] =
           IF id # NoID /\ a \in new \ lost THEN id ELSE m.byIP[a]
  <2>1. CASE id = NoID
    BY <1>1, <2>1
  <2>2. CASE id # NoID
    <3>1. new \ lost \in SUBSET IP /\ id \in ID \ {NoID}
      BY <1>5, <2>2
    <3>2. \A a \in new \ lost : m.byIP[a] \in {NoID, id}
      BY <1>6, <2>2
    <3> QED BY <1>1, <2>2, <3>1, <3>2, MapOK, SMT
  <2> QED BY <2>1, <2>2
<1> HIDE DEF allocated
<1>8. /\ MapsOK(done)
      /\ \A a \in IP : done.byIP[a] =
           IF a \in old \ new THEN NoID ELSE allocated.byIP[a]
  BY <1>7, UnmapOK, SMT
<1>9. done = [byIP |-> done.byIP, byID |-> done.byID]
  BY DEF unmapNodeID
<1> HIDE DEF done
<1>10. Maps' = done
  BY <1>3, <1>9 DEF Maps
<1>11. MapsOK(Maps)'
  <2>1. MapsOK(Maps') 
    BY <1>8, <1>10
  <2> QED BY <2>1 DEF MapsOK, MapPair, Maps, ID, NoID
<1>12. \A a \in IP : \/ nodeIDsByIPs'[a] = NoID
                     \/ nodeIDsByIPs'[a] = nodeIDsByIPs[a]
                     \/ a \in new /\ id # NoID /\ nodeIDsByIPs'[a] = id
  BY <1>1, <1>3, <1>7, <1>8
<1>13. id \in pool \/ id = NoID \/ \E b \in new : nodeIDsByIPs[b] = id
  <2>1. ASSUME id \in IDsOf(new, m) PROVE \E b \in new : nodeIDsByIPs[b] = id
    BY <1>1, <2>1 DEF IDsOf
  <2> QED BY <2>1 DEF idChoices
<1>14. pool' \subseteq pool
  BY <1>3
<1>15. NotPooled(Maps, pool)'
  <2> SUFFICES ASSUME NEW a \in IP, nodeIDsByIPs'[a] # NoID
               PROVE  nodeIDsByIPs'[a] \notin pool'
    BY DEF NotPooled, Maps, NoID
  <2>1. \A b \in IP : nodeIDsByIPs[b] # NoID => nodeIDsByIPs[b] \notin pool
    BY DEF IInv, NotPooled, Maps
  <2>2. CASE nodeIDsByIPs'[a] = nodeIDsByIPs[a]
    BY <1>14, <2>1, <2>2
  <2>3. CASE a \in new /\ id # NoID /\ nodeIDsByIPs'[a] = id
    <3>1. CASE IDsOf(new, m) = {}
      BY <1>3, <2>3, <3>1
    <3>2. CASE IDsOf(new, m) # {}
      <4>1. id \in IDsOf(new, m)
        BY <3>2 DEF idChoices
      <4>2. \E b \in new : nodeIDsByIPs[b] = id
        BY <1>1, <4>1 DEF IDsOf
      <4> QED BY <1>14, <2>1, <2>3, <4>2
    <3> QED BY <3>1, <3>2
  <2> QED BY <1>12, <2>2, <2>3
<1> QED BY <1>5, <1>11, <1>12, <1>13, <1>14, <1>15

\* What deallocateIDForNode does: it unmaps every address of the ID it frees.
LEMMA DeallocateMaps ==
    ASSUME IInv, NEW addrs \in SUBSET IP, deallocateIDForNode(addrs)
    PROVE  /\ MapsOK(Maps)' /\ NotPooled(Maps, pool)' /\ pool' \subseteq ID
           /\ \A a \in IP : nodeIDsByIPs'[a] \in {NoID, nodeIDsByIPs[a]}
           /\ \A a \in IP : nodeIDsByIPs'[a] # nodeIDsByIPs[a]
                 => \E b \in addrs : nodeIDsByIPs[b] = nodeIDsByIPs[a]
<1>1. PICK id \in IF IDsOf(addrs, Maps) = {} THEN {NoID} ELSE IDsOf(addrs, Maps) :
         LET m == unmapNodeID(nodeIPsByIDs[id], Maps)
         IN /\ nodeIDsByIPs' = m.byIP
            /\ nodeIPsByIDs' = m.byID
            /\ pool' = pool \cup {id}
  BY DEF deallocateIDForNode
<1>2. id \in ID
  <2>1. IDsOf(addrs, Maps) \subseteq ID
    BY SMT DEF IDsOf, Maps, IInv, TypeOK
  <2> QED BY <1>1, <2>1, IDFacts
<1> DEFINE m == unmapNodeID(nodeIPsByIDs[id], Maps)
<1>3. /\ nodeIDsByIPs' = m.byIP
      /\ nodeIPsByIDs' = m.byID
      /\ pool' = pool \cup {id}
  BY <1>1
<1>4. m = [byIP |-> m.byIP, byID |-> m.byID]
  BY DEF unmapNodeID
<1>5. /\ MapsOK(m)
      /\ \A a \in IP : m.byIP[a] =
           IF a \in nodeIPsByIDs[id] THEN NoID ELSE nodeIDsByIPs[a]
  BY UnmapOK, SMT DEF IInv, Maps
<1> HIDE DEF m
<1>6. MapsOK(Maps)'
  <2>1. Maps' = m
    BY <1>3, <1>4 DEF Maps
  <2>2. MapsOK(Maps')
    BY <1>5, <2>1
  <2> QED BY <2>2 DEF MapsOK, MapPair, Maps, ID, NoID
<1>7. \A a \in IP : nodeIDsByIPs'[a] \in {NoID, nodeIDsByIPs[a]}
  BY <1>3, <1>5
<1>8. pool' \subseteq ID
  BY <1>2, <1>3 DEF IInv, TypeOK
<1>9. NotPooled(Maps, pool)'
  <2> SUFFICES ASSUME NEW a \in IP, nodeIDsByIPs'[a] # NoID
               PROVE  nodeIDsByIPs'[a] \notin pool'
    BY DEF NotPooled, Maps, NoID
  <2>1. nodeIDsByIPs'[a] = nodeIDsByIPs[a] /\ a \notin nodeIPsByIDs[id]
    BY <1>3, <1>5
  <2>2. nodeIDsByIPs[a] # id
    BY <1>2, <2>1 DEF IInv, MapsOK, Maps
  <2>3. nodeIDsByIPs[a] \notin pool
    BY <2>1 DEF IInv, NotPooled, Maps
  <2> QED BY <1>3, <2>1, <2>2, <2>3
<1>10. ASSUME NEW a \in IP, nodeIDsByIPs'[a] # nodeIDsByIPs[a]
       PROVE  \E b \in addrs : nodeIDsByIPs[b] = nodeIDsByIPs[a]
  <2>1. a \in nodeIPsByIDs[id]
    BY <1>3, <1>5, <1>10
  <2>2. id # NoID /\ nodeIDsByIPs[a] = id
    BY <1>2, <2>1 DEF IInv, MapsOK, Maps
  <2>3. id \in IDsOf(addrs, Maps)
    BY <1>1, <2>2
  <2> QED BY <2>2, <2>3 DEF IDsOf, Maps
<1> QED BY <1>6, <1>7, <1>8, <1>9, <1>10

\* nodeDelete frees the ID or leaves maps and pool alone.
LEMMA NodeDeleteMaps ==
    ASSUME IInv, NEW n \in Node, NEW addrs \in SUBSET IP, nodeDelete(n, addrs)
    PROVE  /\ MapsOK(Maps)' /\ NotPooled(Maps, pool)' /\ pool' \subseteq ID
           /\ \A a \in IP : nodeIDsByIPs'[a] \in {NoID, nodeIDsByIPs[a]}
           /\ \A a \in IP : nodeIDsByIPs'[a] # nodeIDsByIPs[a]
                 => \E b \in addrs : nodeIDsByIPs[b] = nodeIDsByIPs[a]
<1>1. CASE deallocateIDForNode(addrs)
  BY <1>1, DeallocateMaps
<1>2. CASE UNCHANGED <<nodeIDsByIPs, nodeIPsByIDs, pool>>
  BY <1>2 DEF IInv, TypeOK, MapsOK, MapPair, NotPooled, Maps, ID, NoID
<1> QED BY <1>1, <1>2 DEF nodeDelete

\* The maps are not touched: what holds of them and of the pool still holds.
LEMMA MapsUnchanged ==
    ASSUME IInv, UNCHANGED <<nodeIDsByIPs, nodeIPsByIDs, pool>>
    PROVE  MapsOK(Maps)' /\ NotPooled(Maps, pool)' /\ pool' \subseteq ID
BY DEF IInv, TypeOK, MapsOK, MapPair, NotPooled, Maps, ID, NoID

\* The type of the two maps follows from MapsOK.
LEMMA MapsTyped ==
    ASSUME MapsOK(Maps)'
    PROVE  nodeIDsByIPs' \in [IP -> ID] /\ nodeIPsByIDs' \in [ID -> SUBSET IP]
BY DEF MapsOK, MapPair, Maps, ID, NoID

\* nodeUpdate keeps the types of errors and failed.
LEMMA NodeUpdateCounts ==
    ASSUME TypeOK, NEW n \in Node, NEW old, NEW new, nodeUpdate(n, old, new)
    PROVE  errors' \in 0 .. MaxMapErrors /\ failed' \subseteq Node
<1>1. PICK id \in idChoices(new, consistent(new, Maps)), lost \in SUBSET new :
         /\ lost # {} => id # NoID /\ errors < MaxMapErrors
         /\ errors' = IF lost = {} THEN errors ELSE errors + 1
         /\ failed' = IF id = NoID \/ lost # {} THEN failed \cup {n}
                      ELSE failed \ {n}
  BY DEF nodeUpdate
<1>2. errors' \in 0 .. MaxMapErrors
  BY <1>1, NodeIDsAssumption, SMT DEF TypeOK
<1>3. failed' \subseteq Node
  BY <1>1 DEF TypeOK
<1> QED BY <1>2, <1>3

\* The inductive step: every action keeps the maps inverse to each other and
\* the IDs in use out of the pool.
LEMMA StepKeepsIInv == IInv /\ [Next]_vars => IInv'
<1> SUFFICES ASSUME IInv, [Next]_vars PROVE IInv'
  OBVIOUS
<1>1. ASSUME NEW n \in Node, NEW addrs \in AddrSets[n], NodeAdd(n, addrs)
      PROVE  IInv'
  <2>1. addrs \in SUBSET IP /\ {} \in SUBSET IP
    BY <1>1, NodeIDsAssumption DEF NodeAdd, Known, IInv, TypeOK
  <2>2. /\ MapsOK(Maps)' /\ NotPooled(Maps, pool)' /\ pool' \subseteq ID
        /\ errors' \in 0 .. MaxMapErrors /\ failed' \subseteq Node
    <3>1. CASE initialized /\ nodeUpdate(n, {}, addrs)
      BY <2>1, <3>1, NodeUpdateMaps, NodeUpdateCounts DEF IInv, TypeOK
    <3>2. CASE UNCHANGED <<nodeIDsByIPs, nodeIPsByIDs, pool, errors, failed>>
      BY <3>2, MapsUnchanged DEF IInv, TypeOK
    <3> QED BY <1>1, <3>1, <3>2 DEF NodeAdd
  <2>3. nodes' \in [Node -> {None} \cup SUBSET IP] /\ syncing' = {}
    BY <1>1, <2>1 DEF NodeAdd, IInv, TypeOK
  <2>4. TypeOK'
    BY <1>1, <2>2, <2>3, MapsTyped DEF NodeAdd, IInv, TypeOK, ID, NoID
  <2> QED BY <2>2, <2>4 DEF IInv
<1>2. ASSUME NEW n \in Node, NEW addrs \in AddrSets[n], NodeUpdate(n, addrs)
      PROVE  IInv'
  <2>1. addrs \in SUBSET IP /\ nodes[n] \in SUBSET IP
    BY <1>2, NodeIDsAssumption DEF NodeUpdate, Known, IInv, TypeOK
  <2>2. /\ MapsOK(Maps)' /\ NotPooled(Maps, pool)' /\ pool' \subseteq ID
        /\ errors' \in 0 .. MaxMapErrors /\ failed' \subseteq Node
    <3>1. CASE initialized /\ nodeUpdate(n, nodes[n], addrs)
      BY <2>1, <3>1, NodeUpdateMaps, NodeUpdateCounts DEF IInv, TypeOK
    <3>2. CASE UNCHANGED <<nodeIDsByIPs, nodeIPsByIDs, pool, errors, failed>>
      BY <3>2, MapsUnchanged DEF IInv, TypeOK
    <3> QED BY <1>2, <3>1, <3>2 DEF NodeUpdate
  <2>3. nodes' \in [Node -> {None} \cup SUBSET IP] /\ syncing' = {}
    BY <1>2, <2>1 DEF NodeUpdate, IInv, TypeOK
  <2>4. TypeOK'
    BY <1>2, <2>2, <2>3, MapsTyped DEF NodeUpdate, IInv, TypeOK, ID, NoID
  <2> QED BY <2>2, <2>4 DEF IInv
<1>3. ASSUME NEW n \in Node, NodeDelete(n)
      PROVE  IInv'
  <2>1. nodes[n] \in SUBSET IP
    BY <1>3 DEF NodeDelete, Known, IInv, TypeOK
  <2>2. MapsOK(Maps)' /\ NotPooled(Maps, pool)' /\ pool' \subseteq ID
    BY <1>3, <2>1, NodeDeleteMaps DEF NodeDelete
  <2>3. /\ nodes' \in [Node -> {None} \cup SUBSET IP]
        /\ restored' \in [Node -> {None} \cup SUBSET IP]
        /\ syncing' = {} /\ failed' \subseteq Node
    BY <1>3 DEF NodeDelete, IInv, TypeOK
  <2>4. TypeOK'
    BY <1>3, <2>2, <2>3, MapsTyped DEF NodeDelete, IInv, TypeOK, ID, NoID
  <2> QED BY <2>2, <2>4 DEF IInv
<1>4. ASSUME NEW n \in Node, NodeValidateImplementation(n)
      PROVE  IInv'
  <2>1. nodes[n] \in SUBSET IP
    BY <1>4 DEF NodeValidateImplementation, Known, IInv, TypeOK
  <2>2. /\ MapsOK(Maps)' /\ NotPooled(Maps, pool)' /\ pool' \subseteq ID
        /\ errors' \in 0 .. MaxMapErrors /\ failed' \subseteq Node
    BY <1>4, <2>1, NodeUpdateMaps, NodeUpdateCounts
    DEF NodeValidateImplementation, IInv, TypeOK
  <2>3. syncing' \subseteq Known'
    BY <1>4 DEF NodeValidateImplementation, Known, IInv, TypeOK
  <2>4. TypeOK'
    BY <1>4, <2>2, <2>3, MapsTyped DEF NodeValidateImplementation, IInv, TypeOK, ID, NoID
  <2> QED BY <2>2, <2>4 DEF IInv
<1>5. ASSUME NEW n \in Node, SyncNode(n)
      PROVE  IInv'
  <2>1. nodes[n] \in SUBSET IP
    BY <1>5 DEF SyncNode, Known, IInv, TypeOK
  <2>2. /\ MapsOK(Maps)' /\ NotPooled(Maps, pool)' /\ pool' \subseteq ID
        /\ errors' \in 0 .. MaxMapErrors /\ failed' \subseteq Node
    BY <1>5, <2>1, NodeUpdateMaps, NodeUpdateCounts DEF SyncNode, IInv, TypeOK
  <2>3. syncing' \subseteq Known'
    BY <1>5 DEF SyncNode, Known, IInv, TypeOK
  <2>4. TypeOK'
    BY <1>5, <2>2, <2>3, MapsTyped DEF SyncNode, IInv, TypeOK, ID, NoID
  <2> QED BY <2>2, <2>4 DEF IInv
<1>6. ASSUME NEW n \in Node, Manage(n)
      PROVE  IInv'
  <2>1. MapsOK(Maps)' /\ NotPooled(Maps, pool)' /\ pool' \subseteq ID
    BY <1>6, MapsUnchanged DEF Manage
  <2>2. TypeOK'
    BY <1>6, <2>1, MapsTyped DEF Manage, IInv, TypeOK, Known, ID, NoID, Pawns
  <2> QED BY <2>1, <2>2 DEF IInv
<1>7. ASSUME NEW n \in Node, Unmanage(n)
      PROVE  IInv'
  <2>1. MapsOK(Maps)' /\ NotPooled(Maps, pool)' /\ pool' \subseteq ID
    BY <1>7, MapsUnchanged DEF Unmanage
  <2>2. TypeOK'
    BY <1>7, <2>1, MapsTyped DEF Unmanage, IInv, TypeOK, Known, ID, NoID
  <2> QED BY <2>1, <2>2 DEF IInv
<1>8. ASSUME NEW n \in Node, pruneClusterNode(n)
      PROVE  IInv'
  <2>1. restored[n] \in SUBSET IP
    BY <1>8 DEF pruneClusterNode, Known, IInv, TypeOK
  <2>2. MapsOK(Maps)' /\ NotPooled(Maps, pool)' /\ pool' \subseteq ID
    BY <1>8, <2>1, NodeDeleteMaps DEF pruneClusterNode
  <2>3. /\ nodes' \in [Node -> {None} \cup SUBSET IP]
        /\ restored' \in [Node -> {None} \cup SUBSET IP]
        /\ syncing' = {} /\ failed' \subseteq Node
    BY <1>8 DEF pruneClusterNode, IInv, TypeOK
  <2>4. TypeOK'
    BY <1>8, <2>2, <2>3, MapsTyped DEF pruneClusterNode, IInv, TypeOK, ID, NoID
  <2> QED BY <2>2, <2>4 DEF IInv
<1>9. CASE NodeConfigurationChanged
  <2>1. MapsOK(Maps)' /\ NotPooled(Maps, pool)' /\ pool' \subseteq ID
    BY <1>9, MapsUnchanged DEF NodeConfigurationChanged
  <2>2. TypeOK'
    BY <1>9, <2>1, MapsTyped DEF NodeConfigurationChanged, IInv, TypeOK, Known, ID, NoID
  <2> QED BY <2>1, <2>2 DEF IInv
<1>10. CASE AllNodeValidateImplementation
  <2>1. MapsOK(Maps)' /\ NotPooled(Maps, pool)' /\ pool' \subseteq ID
    BY <1>10, MapsUnchanged DEF AllNodeValidateImplementation
  <2>2. TypeOK'
    BY <1>10, <2>1, MapsTyped DEF AllNodeValidateImplementation, IInv, TypeOK, Known, ID, NoID
  <2> QED BY <2>1, <2>2 DEF IInv
<1>11. CASE Checkpoint
  <2>1. MapsOK(Maps)' /\ NotPooled(Maps, pool)' /\ pool' \subseteq ID
    BY <1>11, MapsUnchanged DEF Checkpoint
  <2>2. TypeOK'
    BY <1>11, <2>1, MapsTyped DEF Checkpoint, IInv, TypeOK, Known, ID, NoID, remoteNodes
  <2> QED BY <2>1, <2>2 DEF IInv
<1>12. CASE Restart
  <2>1. nodeIDsByIPs \in [IP -> ID] /\ UNCHANGED nodeIDsByIPs
    BY <1>12 DEF Restart, IInv, TypeOK
  <2>2. /\ nodeIPsByIDs' = reverse(nodeIDsByIPs)
        /\ pool' = registerNodeIDAllocations(nodeIDsByIPs)
    BY <1>12 DEF Restart
  <2>3. reverse(nodeIDsByIPs) \in [ID -> SUBSET IP]
    BY DEF reverse
  <2>4. MapsOK(Maps)'
    BY <2>1, <2>2, <2>3 DEF reverse, MapsOK, MapPair, Maps, ID, NoID
  <2>5. NotPooled(Maps, pool)'
    BY <2>1, <2>2 DEF registerNodeIDAllocations, NotPooled, Maps
  <2>6. pool' \subseteq ID
    BY <2>2, IDFacts DEF registerNodeIDAllocations
  <2>7. /\ nodes' \in [Node -> {None} \cup SUBSET IP]
        /\ restored' \in [Node -> {None} \cup SUBSET IP]
        /\ managed' \subseteq Node /\ restarts' \in 0 .. MaxRestarts
    <3>1. nodes' \in [Node -> {None} \cup SUBSET IP]
      BY <1>12 DEF Restart
    <3>2. restored' \in [Node -> {None} \cup SUBSET IP]
      BY <1>12 DEF Restart, IInv, TypeOK
    <3>3. managed' \subseteq Node
      BY <1>12, NodeIDsAssumption DEF Restart, Pawns
    <3>4. restarts' \in 0 .. MaxRestarts
      BY <1>12, NodeIDsAssumption, SMT DEF Restart, IInv, TypeOK
    <3> QED BY <3>1, <3>2, <3>3, <3>4
  <2>8. TypeOK'
    BY <1>12, <2>4, <2>6, <2>7, MapsTyped DEF Restart, IInv, TypeOK, ID, NoID
  <2> QED BY <2>4, <2>5, <2>8 DEF IInv
<1>13. CASE NodeSync
  <2>1. MapsOK(Maps)' /\ NotPooled(Maps, pool)' /\ pool' \subseteq ID
    BY <1>13, MapsUnchanged DEF NodeSync
  <2>2. TypeOK'
    BY <1>13, <2>1, MapsTyped DEF NodeSync, IInv, TypeOK, Known, ID, NoID
  <2> QED BY <2>1, <2>2 DEF IInv
<1>14. CASE UNCHANGED vars
  BY <1>14 DEF vars, IInv, TypeOK, MapsOK, MapPair, NotPooled, Maps, Known, ID, NoID
<1> QED
  BY <1>1, <1>2, <1>3, <1>4, <1>5, <1>6, <1>7, <1>8, <1>9, <1>10, <1>11,
     <1>12, <1>13, <1>14 DEF Next

\* In the initial state no address has an ID and all IDs are in the pool.
LEMMA InitIInv == Init => IInv
<1> SUFFICES ASSUME Init PROVE IInv
  OBVIOUS
<1>1. TypeOK
  <2>1. /\ nodes \in [Node -> {None} \cup SUBSET IP]
        /\ checkpoint \in [Node -> {None} \cup SUBSET IP]
        /\ restored \in [Node -> {None} \cup SUBSET IP]
        /\ syncing \subseteq Known
    BY DEF Init
  <2>2. nodeIDsByIPs \in [IP -> ID] /\ nodeIPsByIDs \in [ID -> SUBSET IP]
    BY IDFacts DEF Init
  <2>3. pool \subseteq ID /\ managed \subseteq Node /\ failed \subseteq Node
    BY NodeIDsAssumption, IDFacts DEF Init
  <2>4. restarts \in 0 .. MaxRestarts /\ errors \in 0 .. MaxMapErrors
    BY NodeIDsAssumption, SMT DEF Init
  <2>5. initialized \in BOOLEAN /\ synced \in BOOLEAN
    BY DEF Init
  <2> QED BY <2>1, <2>2, <2>3, <2>4, <2>5 DEF TypeOK
<1>2. MapsOK(Maps)
  BY IDFacts DEF Init, MapsOK, MapPair, Maps
<1>3. NotPooled(Maps, pool)
  BY DEF Init, NotPooled, Maps
<1> QED BY <1>1, <1>2, <1>3 DEF IInv

\* IInv holds in every reachable state.
LEMMA AlwaysIInv == Spec => []IInv
BY InitIInv, StepKeepsIInv, PTL DEF Spec

\* Every map, set and flag of the handler and of the manager keeps its type.
THEOREM TypeCorrect == Spec => []TypeOK
<1>1. IInv => TypeOK
  BY DEF IInv
<1> QED BY <1>1, AlwaysIInv, PTL

\* Across updates, deletions, failing map writes and restarts, nodeIPsByIDs
\* stays the inverse of nodeIDsByIPs and no ID in use is in the pool.
THEOREM IDsAlwaysAccounted == Spec => []IDsAccounted
<1>1. IInv => IDsAccounted
  <2> SUFFICES ASSUME IInv, NEW i \in 1 .. MaxID
               PROVE  /\ nodeIPsByIDs[i] = {a \in IP : nodeIDsByIPs[a] = i}
                      /\ nodeIPsByIDs[i] # {} => i \notin pool
    BY DEF IDsAccounted
  <2>1. i \in ID /\ i # NoID
    BY IDFacts
  <2>2. \A a \in IP : a \in nodeIPsByIDs[i] <=> nodeIDsByIPs[a] = i
    BY <2>1 DEF IInv, MapsOK, Maps
  <2>3. nodeIPsByIDs[i] \subseteq IP
    BY <2>1 DEF IInv, TypeOK
  <2> QED BY <2>1, <2>2, <2>3 DEF IInv, NotPooled, Maps
<1> QED BY <1>1, AlwaysIInv, PTL

----------------------------------------------------------------------------
(* Machines that keep their addresses.                                      *)

Lists(n, a) == \E addrs \in AddrSets[n] : a \in addrs

\* C[n] is the class of node n, such as its machine.  No address is ever listed
\* by nodes of two classes.
Apart(C) ==
    \A k, n \in Node : C[k] # C[n] =>
        \A a \in IP : ~(Lists(k, a) /\ Lists(n, a))

FixedAddresses == Apart(Host)

Together(C, a, b) ==
    \A k, n \in Node : Lists(k, a) /\ Lists(n, b) => C[k] = C[n]

\* Addresses with the same ID belong to one class.
IDsApart(C) ==
    /\ \A n \in Known : nodes[n] \in AddrSets[n]
    /\ \A a, b \in IP :
          nodeIDsByIPs[a] = nodeIDsByIPs[b] /\ nodeIDsByIPs[a] # NoID
              => Together(C, a, b)

\* nodeUpdate gives an ID to addresses of one machine only: the ID was free,
\* or an address of the same machine has it.
LEMMA NodeUpdateHosts ==
    ASSUME NEW C, Apart(C), IInv, IDsApart(C), NEW n \in Node, NEW old \in SUBSET IP,
           NEW new \in AddrSets[n], nodeUpdate(n, old, new)
    PROVE  \A a, b \in IP :
              nodeIDsByIPs'[a] = nodeIDsByIPs'[b] /\ nodeIDsByIPs'[a] # NoID
                  => Together(C, a, b)
<1>1. new \in SUBSET IP
  BY NodeIDsAssumption
<1>2. PICK id \in ID : \A a \in IP :
         /\ \/ nodeIDsByIPs'[a] = NoID
            \/ nodeIDsByIPs'[a] = nodeIDsByIPs[a]
            \/ a \in new /\ id # NoID /\ nodeIDsByIPs'[a] = id
         /\ \/ id \in pool
            \/ id = NoID
            \/ \E b \in new : nodeIDsByIPs[b] = id
  BY <1>1, NodeUpdateMaps
<1>3. \A a, b \in new : Together(C, a, b)
  BY <1>1 DEF Apart, Together, Lists
<1>4. ASSUME NEW a \in new, NEW b \in IP, id # NoID, nodeIDsByIPs[b] = id
      PROVE  Together(C, a, b) /\ Together(C, b, a)
  <2>1. id \notin pool
    BY <1>4 DEF IInv, NotPooled, Maps
  <2>2. PICK c \in new : nodeIDsByIPs[c] = id
    BY <1>1, <1>2, <1>4, <2>1
  <2>3. Together(C, c, b) /\ Together(C, b, c)
    BY <1>1, <1>4, <2>2 DEF IDsApart
  <2>4. Lists(n, a) /\ Lists(n, c)
    BY <2>2 DEF Lists
  <2>5. \A k \in Node : Lists(k, a) => C[k] = C[n]
    BY <1>1, <2>4 DEF Apart
  <2> QED BY <2>3, <2>4, <2>5 DEF Together
<1> SUFFICES ASSUME NEW a \in IP, NEW b \in IP,
                    nodeIDsByIPs'[a] = nodeIDsByIPs'[b], nodeIDsByIPs'[a] # NoID
             PROVE  Together(C, a, b)
  OBVIOUS
<1>5. CASE nodeIDsByIPs'[a] = nodeIDsByIPs[a] /\ nodeIDsByIPs'[b] = nodeIDsByIPs[b]
  BY <1>5 DEF IDsApart
<1>6. CASE a \in new /\ id # NoID /\ nodeIDsByIPs'[a] = id
  BY <1>2, <1>3, <1>4, <1>6
<1>7. CASE b \in new /\ id # NoID /\ nodeIDsByIPs'[b] = id
  BY <1>2, <1>3, <1>4, <1>7
<1> QED BY <1>2, <1>5, <1>6, <1>7

\* A step that only clears entries of nodeIDsByIPs gives no address an ID.
LEMMA ClearingKeepsHosts ==
    ASSUME NEW C, IDsApart(C),
           \A a \in IP : nodeIDsByIPs'[a] \in {NoID, nodeIDsByIPs[a]}
    PROVE  \A a, b \in IP :
              nodeIDsByIPs'[a] = nodeIDsByIPs'[b] /\ nodeIDsByIPs'[a] # NoID
                  => Together(C, a, b)
BY DEF IDsApart

\* IDsApart with its constants: what has to be shown of a step.
LEMMA HostInvPrime ==
    ASSUME NEW C,
           \A n \in Known' : nodes'[n] \in AddrSets[n],
           \A a, b \in IP :
              nodeIDsByIPs'[a] = nodeIDsByIPs'[b] /\ nodeIDsByIPs'[a] # NoID
                  => Together(C, a, b)
    PROVE  IDsApart(C)'
BY DEF IDsApart, Together, Lists, NoID

\* Every step keeps the IDs of different machines apart.
LEMMA StepKeepsHostInv ==
    ASSUME NEW C, Apart(C), IInv, IDsApart(C), [Next]_vars PROVE IDsApart(C)'
<1>1. ASSUME NEW n \in Node, NEW addrs \in AddrSets[n],
             NodeAdd(n, addrs) \/ NodeUpdate(n, addrs)
      PROVE  IDsApart(C)'
  <2>1. \A k \in Known' : nodes'[k] \in AddrSets[k]
    BY <1>1 DEF NodeAdd, NodeUpdate, Known, IDsApart, IInv, TypeOK
  <2>2. {} \in SUBSET IP /\ (n \in Known => nodes[n] \in SUBSET IP)
    BY DEF Known, IInv, TypeOK
  <2>3. CASE nodeUpdate(n, {}, addrs) \/ (n \in Known /\ nodeUpdate(n, nodes[n], addrs))
    BY <2>1, <2>2, <2>3, NodeUpdateHosts, HostInvPrime
  <2>4. CASE UNCHANGED nodeIDsByIPs
    BY <2>1, <2>4, ClearingKeepsHosts, HostInvPrime
  <2> QED BY <1>1, <2>3, <2>4 DEF NodeAdd, NodeUpdate
<1>2. ASSUME NEW n \in Node, NodeDelete(n) \/ pruneClusterNode(n)
      PROVE  IDsApart(C)'
  <2>1. \A k \in Known' : nodes'[k] \in AddrSets[k]
    BY <1>2 DEF NodeDelete, pruneClusterNode, Known, IDsApart, IInv, TypeOK
  <2>2. \A a \in IP : nodeIDsByIPs'[a] \in {NoID, nodeIDsByIPs[a]}
    <3>1. CASE NodeDelete(n)
      <4>1. nodes[n] \in SUBSET IP /\ nodeDelete(n, nodes[n])
        BY <3>1 DEF NodeDelete, Known, IInv, TypeOK
      <4> QED BY <4>1, NodeDeleteMaps
    <3>2. CASE pruneClusterNode(n)
      <4>1. restored[n] \in SUBSET IP /\ nodeDelete(n, restored[n])
        BY <3>2 DEF pruneClusterNode, IInv, TypeOK
      <4> QED BY <4>1, NodeDeleteMaps
    <3> QED BY <1>2, <3>1, <3>2
  <2> QED BY <2>1, <2>2, ClearingKeepsHosts, HostInvPrime
<1>3. ASSUME NEW n \in Node, NodeValidateImplementation(n) \/ SyncNode(n)
      PROVE  IDsApart(C)'
  <2>1. n \in Known /\ nodeUpdate(n, {}, nodes[n]) /\ UNCHANGED nodes
    BY <1>3 DEF NodeValidateImplementation, SyncNode, IInv, TypeOK
  <2>2. nodes[n] \in AddrSets[n] /\ \A k \in Known' : nodes'[k] \in AddrSets[k]
    BY <2>1 DEF Known, IDsApart
  <2> QED BY <2>1, <2>2, NodeUpdateHosts, HostInvPrime
<1>4. CASE UNCHANGED <<nodes, nodeIDsByIPs>>
  <2>1. \A k \in Known' : nodes'[k] \in AddrSets[k]
    BY <1>4 DEF Known, IDsApart
  <2> QED BY <1>4, <2>1, ClearingKeepsHosts, HostInvPrime
<1>5. CASE Restart
  <2>1. \A k \in Known' : nodes'[k] \in AddrSets[k]
    BY <1>5 DEF Restart, Known
  <2>2. UNCHANGED nodeIDsByIPs
    BY <1>5 DEF Restart
  <2> QED BY <2>1, <2>2, ClearingKeepsHosts, HostInvPrime
<1>6. ASSUME NEW n \in Node, Manage(n) \/ Unmanage(n)
      PROVE  UNCHANGED <<nodes, nodeIDsByIPs>>
  BY <1>6 DEF Manage, Unmanage
<1>7. ASSUME \/ NodeConfigurationChanged \/ AllNodeValidateImplementation
             \/ Checkpoint \/ NodeSync \/ UNCHANGED vars
      PROVE  UNCHANGED <<nodes, nodeIDsByIPs>>
  BY <1>7 DEF NodeConfigurationChanged, AllNodeValidateImplementation,
              Checkpoint, NodeSync, vars
<1> QED BY <1>1, <1>2, <1>3, <1>4, <1>5, <1>6, <1>7 DEF Next

\* If no address is ever listed by CiliumNodes of two machines, nodes of two
\* machines never share an ID: allocateIDForNode takes a free ID or the ID of
\* an address of the same node, and a restart takes the IDs in the BPF map out
\* of the pool.
THEOREM HostsKeepOwnIDs == FixedAddresses => (Spec => []HostsHaveOwnIDs)
<1> SUFFICES ASSUME FixedAddresses PROVE Spec => []HostsHaveOwnIDs
  OBVIOUS
<1>1. Init => IDsApart(Host)
  BY DEF Init, IDsApart, Known
<1>2. IInv /\ IDsApart(Host) /\ [Next]_vars => IDsApart(Host)'
  BY StepKeepsHostInv DEF FixedAddresses
<1>3. IInv /\ IDsApart(Host) => HostsHaveOwnIDs
  <2> SUFFICES ASSUME IInv, IDsApart(Host), NEW k \in Known, NEW n \in Known,
                      NEW i \in IDsOf(nodes[k], Maps),
                      i \in IDsOf(nodes[n], Maps)
               PROVE  Host[k] = Host[n]
    BY DEF HostsHaveOwnIDs
  <2>1. PICK a \in nodes[k] : nodeIDsByIPs[a] = i /\ i # NoID
    BY DEF IDsOf, Maps
  <2>2. PICK b \in nodes[n] : nodeIDsByIPs[b] = i
    BY DEF IDsOf, Maps
  <2>3. a \in IP /\ b \in IP
    BY NodeIDsAssumption DEF IDsApart, Known
  <2>4. Together(Host, a, b)
    BY <2>1, <2>2, <2>3 DEF IDsApart
  <2>5. k \in Node /\ n \in Node /\ Lists(k, a) /\ Lists(n, b)
    BY DEF Lists, IDsApart, Known
  <2> QED BY <2>4, <2>5 DEF Together
<1> QED BY <1>1, <1>2, <1>3, AlwaysIInv, PTL DEF Spec

----------------------------------------------------------------------------
(* The known nodes keep their IDs.                                          *)

\* The machine of the agent is one class, every other node one of its own.
Class == [n \in Node |-> IF Host[n] = Host[Local] THEN Local ELSE n]

\* The nodes of this machine have the addresses shared in common, always, and
\* no two nodes have any other address in common: every pawn carries the
\* CiliumInternalIP of its host besides the addresses of its own.
Sharing(shared) ==
    /\ shared \subseteq IP /\ shared # {}
    /\ \A n \in Node : Host[n] = Host[Local] =>
          \A addrs \in AddrSets[n] : shared \subseteq addrs
    /\ \A k, n \in Node, a \in IP :
          k # n /\ Lists(k, a) /\ Lists(n, a) =>
              a \in shared /\ Host[k] = Host[Local]

PawnsShareAddress == \E shared \in SUBSET IP : Sharing(shared)

\* Every address list the manager holds came from the node's CiliumNode.
Listed ==
    \A n \in Node :
        /\ nodes[n] # None => nodes[n] \in AddrSets[n]
        /\ checkpoint[n] # None => checkpoint[n] \in AddrSets[n]
        /\ restored[n] # None => restored[n] \in AddrSets[n]

\* A node of this machine that can still be deleted is managed.
Guarded ==
    /\ Local \in managed
    /\ \A n \in Pawns :
          nodes[n] # None \/ checkpoint[n] # None \/ restored[n] # None
              => n \in managed

\* An address of this machine that has an ID has that of the shared addresses.
OneIDHere(shared) ==
    \A n \in Node, a \in IP :
        Host[n] = Host[Local] /\ Lists(n, a) /\ nodeIDsByIPs[a] # NoID =>
            \A s \in shared : nodeIDsByIPs[s] = nodeIDsByIPs[a]

UpdatedMapped == initialized => \A n \in Known \ (failed \cup syncing) : Mapped(n)

MappedInv(shared) ==
    Listed /\ Guarded /\ IDsApart(Class) /\ OneIDHere(shared) /\ UpdatedMapped

\* What nodeUpdate writes when no write of the BPF map fails and id is the ID
\* it ends up with: all addresses the node lists get the ID, that of any of
\* them that has one, or the update fails.
Writes(n, old, new, id) ==
    /\ failed' = IF id = NoID THEN failed \cup {n} ELSE failed \ {n}
    /\ \A a \in IP \ (old \cup new) : nodeIDsByIPs'[a] = nodeIDsByIPs[a]
    /\ \A a \in old \ new : nodeIDsByIPs'[a] = NoID
    /\ id # NoID => \A a \in new : nodeIDsByIPs'[a] = id
    /\ (\A a, b \in new : nodeIDsByIPs[a] # NoID /\ nodeIDsByIPs[b] # NoID
                             => nodeIDsByIPs[a] = nodeIDsByIPs[b]) =>
          \A a \in new :
             /\ id = NoID => nodeIDsByIPs'[a] = nodeIDsByIPs[a]
             /\ nodeIDsByIPs[a] # NoID => id = nodeIDsByIPs[a]

\* Without failing writes nodeUpdate does what Writes says.
LEMMA NodeUpdateWrites ==
    ASSUME IInv, MaxMapErrors = 0, NEW n \in Node, NEW old \in SUBSET IP,
           NEW new \in SUBSET IP, nodeUpdate(n, old, new)
    PROVE  \E id \in ID : Writes(n, old, new, id)
<1> DEFINE m == consistent(new, Maps)
<1>1. PICK id \in idChoices(new, m), lost \in SUBSET new :
         /\ lost # {} => id # NoID /\ errors < MaxMapErrors
         /\ LET allocated == IF id = NoID THEN m ELSE mapNodeID(new \ lost, id, m)
                done == diffAndUnmapNodeIPs(old, new, allocated)
            IN nodeIDsByIPs' = done.byIP
         /\ failed' = IF id = NoID \/ lost # {} THEN failed \cup {n}
                      ELSE failed \ {n}
  BY DEF nodeUpdate
<1>2. lost = {}
  BY <1>1, SMT DEF IInv, TypeOK
<1>3. /\ \A a \in IP \ new : m.byIP[a] = nodeIDsByIPs[a]
      /\ \/ m = Maps
         \/ \E i, j \in IDsOf(new, Maps) : i # j
  <2>1. \A a \in IP \ new : unmapNodeID(new, Maps).byIP[a] = nodeIDsByIPs[a]
    BY DEF unmapNodeID, Maps
  <2> QED BY <2>1 DEF consistent, Maps
<1>4. m.byIP \in [IP -> ID]
  BY ConsistentOK DEF IInv, MapsOK, MapPair
<1> HIDE DEF m
<1> DEFINE allocated == IF id = NoID THEN m ELSE mapNodeID(new, id, m)
<1>5. nodeIDsByIPs' = unmapNodeID(old \ new, allocated).byIP
  BY <1>1, <1>2 DEF diffAndUnmapNodeIPs
<1>6. \A a \in IP : allocated.byIP[a] =
         IF id # NoID /\ a \in new THEN id ELSE m.byIP[a]
  BY DEF mapNodeID
<1> HIDE DEF allocated
<1>7. \A a \in IP : nodeIDsByIPs'[a] =
         IF a \in old \ new THEN NoID ELSE allocated.byIP[a]
  BY <1>5 DEF unmapNodeID
<1>8. id \in ID
  <2>1. IDsOf(new, m) \subseteq ID
    BY <1>4 DEF IDsOf
  <2> QED BY <2>1, IDFacts DEF idChoices, IInv, TypeOK
<1>9. ASSUME \A a, b \in new : nodeIDsByIPs[a] # NoID /\ nodeIDsByIPs[b] # NoID
                                  => nodeIDsByIPs[a] = nodeIDsByIPs[b],
             NEW a \in new
      PROVE  /\ id = NoID => nodeIDsByIPs'[a] = nodeIDsByIPs[a]
             /\ nodeIDsByIPs[a] # NoID => id = nodeIDsByIPs[a]
  <2>1. \A i, j \in IDsOf(new, Maps) : i = j
    BY <1>9 DEF IDsOf, Maps
  <2>2. m = Maps
    BY <1>3, <2>1
  <2>3. nodeIDsByIPs[a] # NoID => nodeIDsByIPs[a] \in IDsOf(new, Maps)
    BY DEF IDsOf, Maps
  <2>4. nodeIDsByIPs[a] # NoID => id \in IDsOf(new, Maps)
    BY <1>1, <2>2, <2>3 DEF idChoices
  <2>5. Maps.byIP[a] = nodeIDsByIPs[a]
    BY DEF Maps
  <2>6. id = NoID => nodeIDsByIPs'[a] = nodeIDsByIPs[a]
    BY <1>6, <1>7, <2>2, <2>5
  <2> QED BY <2>1, <2>3, <2>4, <2>6
<1>10. failed' = IF id = NoID THEN failed \cup {n} ELSE failed \ {n}
  BY <1>1, <1>2
<1>11. \A a \in IP \ (old \cup new) : nodeIDsByIPs'[a] = nodeIDsByIPs[a]
  BY <1>3, <1>6, <1>7
<1>12. \A a \in old \ new : nodeIDsByIPs'[a] = NoID
  BY <1>7
<1>13. id # NoID => \A a \in new : nodeIDsByIPs'[a] = id
  BY <1>6, <1>7
<1>14. Writes(n, old, new, id)
  BY <1>9, <1>10, <1>11, <1>12, <1>13 DEF Writes
<1> QED BY <1>8, <1>14

\* The addresses of this machine are apart from those of any other node.
LEMMA ClassesApart ==
    ASSUME NEW shared, Sharing(shared) PROVE Apart(Class)
<1> SUFFICES ASSUME NEW k \in Node, NEW n \in Node, Class[k] # Class[n],
                    NEW a \in IP, Lists(k, a), Lists(n, a)
             PROVE  FALSE
  BY DEF Apart
<1>1. Host[k] = Host[Local] /\ Host[n] = Host[Local]
  BY DEF Sharing
<1> QED BY <1>1 DEF Class

\* An update of one node keeps the IDs of this machine one, takes no ID from
\* another node and, when it succeeds, leaves the node with an ID.
LEMMA UpdateKeepsIDs ==
    ASSUME NEW shared, Sharing(shared), MaxMapErrors = 0, IInv, OneIDHere(shared),
           NEW n \in Node, NEW old \in SUBSET IP, \A a \in old : Lists(n, a),
           NEW new \in AddrSets[n], nodeUpdate(n, old, new)
    PROVE  /\ OneIDHere(shared)'
           /\ n \notin failed' =>
                 \E i \in 1 .. MaxID : \A a \in new : nodeIDsByIPs'[a] = i
           /\ \A k \in Node \ {n} :
                 /\ k \in failed' <=> k \in failed
                 /\ \A addrs \in AddrSets[k], i \in 1 .. MaxID :
                       (\A a \in addrs : nodeIDsByIPs[a] = i) =>
                           \A a \in addrs : nodeIDsByIPs'[a] = i
<1>1. new \in SUBSET IP /\ \A a \in new : Lists(n, a)
  BY NodeIDsAssumption DEF Lists
<1>2. PICK id \in ID : Writes(n, old, new, id)
  BY <1>1, NodeUpdateWrites
<1>3. PICK s \in shared : s \in IP
  BY DEF Sharing
<1>4. ASSUME Host[n] = Host[Local]
      PROVE  /\ shared \subseteq new
             /\ \A a \in new :
                  /\ id = NoID => nodeIDsByIPs'[a] = nodeIDsByIPs[a]
                  /\ nodeIDsByIPs[a] # NoID => id = nodeIDsByIPs[a]
  <2>1. shared \subseteq new
    BY <1>4 DEF Sharing
  <2>2. \A a \in new : nodeIDsByIPs[a] # NoID => nodeIDsByIPs[s] = nodeIDsByIPs[a]
    BY <1>1, <1>3, <1>4 DEF OneIDHere
  <2> QED BY <1>2, <2>1, <2>2 DEF Writes
<1>5. ASSUME NEW k \in Node, NEW a \in IP, Lists(k, a), Host[n] # Host[Local], k # n
      PROVE  nodeIDsByIPs'[a] = nodeIDsByIPs[a]
  BY <1>1, <1>2, <1>5 DEF Sharing, Writes
<1>6. OneIDHere(shared)'
  <2> SUFFICES ASSUME NEW k \in Node, NEW a \in IP, NEW t \in shared,
                      Host[k] = Host[Local], Lists(k, a), nodeIDsByIPs'[a] # NoID
               PROVE  nodeIDsByIPs'[t] = nodeIDsByIPs'[a]
    BY SMT DEF OneIDHere, Lists, NoID
  <2>1. Lists(k, t) /\ t \in IP
    BY DEF Sharing, Lists
  <2>2. CASE Host[n] # Host[Local]
    BY <1>5, <2>1, <2>2 DEF OneIDHere
  <2>3. CASE Host[n] = Host[Local]
    <3>1. t \in new /\ a \notin old \ new
      BY <1>2, <1>4, <2>3 DEF Writes
    <3>2. CASE id # NoID
      BY <1>2, <1>4, <2>3, <3>1, <3>2, SMT DEF OneIDHere, Writes
    <3>3. CASE id = NoID
      BY <1>2, <1>4, <2>3, <3>1, <3>3, SMT DEF OneIDHere, Writes
    <3> QED BY <3>2, <3>3
  <2> QED BY <2>2, <2>3
<1>7. ASSUME n \notin failed'
      PROVE  \E i \in 1 .. MaxID : \A a \in new : nodeIDsByIPs'[a] = i
  BY <1>2, <1>7, IDFacts DEF Writes
<1>8. ASSUME NEW k \in Node \ {n}, NEW addrs \in AddrSets[k], NEW i \in 1 .. MaxID,
             \A a \in addrs : nodeIDsByIPs[a] = i, NEW a \in addrs
      PROVE  nodeIDsByIPs'[a] = i
  <2>1. a \in IP /\ Lists(k, a) /\ nodeIDsByIPs[a] = i /\ i # NoID
    BY <1>8, NodeIDsAssumption, IDFacts DEF Lists
  <2>2. CASE a \notin old \cup new
    BY <1>2, <2>1, <2>2 DEF Writes
  <2>3. CASE a \in old \cup new
    <3>1. Lists(n, a)
      BY <1>1, <2>3
    <3>2. a \in shared /\ Host[n] = Host[Local]
      BY <2>1, <3>1 DEF Sharing
    <3>3. a \in new /\ id = i
      BY <1>4, <2>1, <3>2
    <3> QED BY <1>2, <2>1, <3>3 DEF Writes
  <2> QED BY <2>2, <2>3
<1>9. \A k \in Node \ {n} : k \in failed' <=> k \in failed
  BY <1>2 DEF Writes
<1> QED BY <1>6, <1>7, <1>8, <1>9

\* The deletion of a node that is managed or of another machine takes no ID
\* from a node that stays.
LEMMA DeleteKeepsIDs ==
    ASSUME NEW shared, Sharing(shared), IInv, IDsApart(Class), OneIDHere(shared),
           NEW n \in Node, NEW gone \in AddrSets[n], nodeDelete(n, gone),
           Host[n] = Host[Local] => n \in managed
    PROVE  /\ OneIDHere(shared)'
           /\ \A k \in Node \ {n} : \A addrs \in AddrSets[k] : \A a \in addrs :
                 nodeIDsByIPs'[a] = nodeIDsByIPs[a]
<1>1. ASSUME NEW k \in Node, NEW a \in IP, Lists(k, a),
             k # n \/ Host[k] = Host[Local]
      PROVE  nodeIDsByIPs'[a] = nodeIDsByIPs[a]
  <2>1. CASE n \in managed
    BY <2>1 DEF nodeDelete, IsManaged
  <2>2. CASE n \notin managed
    <3> SUFFICES ASSUME nodeIDsByIPs'[a] # nodeIDsByIPs[a] PROVE FALSE
      OBVIOUS
    <3>1. gone \in SUBSET IP
      BY NodeIDsAssumption
    <3>2. PICK b \in gone : nodeIDsByIPs[b] = nodeIDsByIPs[a]
      BY <3>1, NodeDeleteMaps
    <3>3. nodeIDsByIPs[a] # NoID
      BY <3>1, NodeDeleteMaps
    <3>4. Lists(n, b) /\ b \in IP
      BY <3>1 DEF Lists
    <3>5. Class[n] = Class[k]
      BY <1>1, <3>2, <3>3, <3>4, SMT DEF IDsApart, Together
    <3> QED BY <1>1, <2>2, <3>5 DEF Class
  <2> QED BY <2>1, <2>2
<1>2. OneIDHere(shared)'
  <2> SUFFICES ASSUME NEW k \in Node, NEW a \in IP, NEW t \in shared,
                      Host[k] = Host[Local], Lists(k, a), nodeIDsByIPs'[a] # NoID
               PROVE  nodeIDsByIPs'[t] = nodeIDsByIPs'[a]
    BY SMT DEF OneIDHere, Lists, NoID
  <2>1. Lists(k, t) /\ t \in IP
    BY DEF Sharing, Lists
  <2> QED BY <1>1, <2>1 DEF OneIDHere
<1>3. ASSUME NEW k \in Node \ {n}, NEW addrs \in AddrSets[k], NEW a \in addrs
      PROVE  nodeIDsByIPs'[a] = nodeIDsByIPs[a]
  <2>1. a \in IP /\ Lists(k, a)
    BY NodeIDsAssumption DEF Lists
  <2> QED BY <1>1, <2>1
<1> QED BY <1>2, <1>3

\* An update of one node keeps the nodes updated before it mapped.
LEMMA UpdateKeepsMapped ==
    ASSUME NEW shared, Sharing(shared), MaxMapErrors = 0, IInv, MappedInv(shared),
           NEW n \in Node, NEW old \in SUBSET IP, \A a \in old : Lists(n, a),
           NEW new \in AddrSets[n], nodeUpdate(n, old, new), UNCHANGED initialized,
           nodes' = [nodes EXCEPT ![n] = new], syncing' = syncing \ {n}
    PROVE  OneIDHere(shared)' /\ UpdatedMapped'
<1>1. /\ OneIDHere(shared)'
      /\ n \notin failed' =>
            \E i \in 1 .. MaxID : \A a \in new : nodeIDsByIPs'[a] = i
      /\ \A k \in Node \ {n} :
            /\ k \in failed' <=> k \in failed
            /\ \A addrs \in AddrSets[k], i \in 1 .. MaxID :
                  (\A a \in addrs : nodeIDsByIPs[a] = i) =>
                      \A a \in addrs : nodeIDsByIPs'[a] = i
  BY UpdateKeepsIDs DEF MappedInv
<1>2. ASSUME initialized, NEW k \in Known' \ (failed' \cup syncing') PROVE Mapped(k)'
  <2>1. CASE k = n
    <3>1. nodes'[k] = new
      BY <2>1 DEF IInv, TypeOK
    <3> QED BY <1>1, <1>2, <2>1, <3>1 DEF Mapped
  <2>2. CASE k # n
    <3>1. k \in Node /\ nodes'[k] = nodes[k]
      BY <2>2 DEF IInv, TypeOK, Known
    <3>2. k \in Known \ (failed \cup syncing)
      BY <1>1, <1>2, <2>2, <3>1 DEF Known
    <3>3. nodes[k] \in AddrSets[k]
      BY <3>1, <3>2 DEF MappedInv, Listed, Known
    <3>4. PICK i \in 1 .. MaxID : \A a \in nodes[k] : nodeIDsByIPs[a] = i
      BY <1>2, <3>2 DEF MappedInv, UpdatedMapped, Mapped
    <3>5. \A a \in nodes[k] : nodeIDsByIPs'[a] = i
      BY <1>1, <2>2, <3>1, <3>3, <3>4
    <3> QED BY <3>1, <3>5 DEF Mapped
  <2> QED BY <2>1, <2>2
<1> QED BY <1>1, <1>2 DEF UpdatedMapped

\* A deletion keeps the other nodes mapped.
LEMMA DeleteKeepsMapped ==
    ASSUME NEW shared, Sharing(shared), IInv, MappedInv(shared),
           NEW n \in Node, NEW gone \in AddrSets[n], nodeDelete(n, gone),
           Host[n] = Host[Local] => n \in managed,
           nodes' = [nodes EXCEPT ![n] = None], failed' = failed \ {n},
           UNCHANGED <<initialized, syncing>>
    PROVE  OneIDHere(shared)' /\ UpdatedMapped'
<1>1. /\ OneIDHere(shared)'
      /\ \A k \in Node \ {n} : \A addrs \in AddrSets[k] : \A a \in addrs :
            nodeIDsByIPs'[a] = nodeIDsByIPs[a]
  BY DeleteKeepsIDs DEF MappedInv
<1>2. ASSUME initialized, NEW k \in Known' \ (failed' \cup syncing') PROVE Mapped(k)'
  <2>1. k \in Node \ {n} /\ nodes'[k] = nodes[k]
    BY DEF IInv, TypeOK, Known
  <2>2. k \in Known \ (failed \cup syncing)
    BY <2>1 DEF Known
  <2>3. nodes[k] \in AddrSets[k]
    BY <2>1, <2>2 DEF MappedInv, Listed, Known
  <2>4. PICK i \in 1 .. MaxID : \A a \in nodes[k] : nodeIDsByIPs[a] = i
    BY <1>2, <2>2 DEF MappedInv, UpdatedMapped, Mapped
  <2>5. \A a \in nodes[k] : nodeIDsByIPs'[a] = i
    BY <1>1, <2>1, <2>3, <2>4
  <2> QED BY <2>1, <2>5 DEF Mapped
<1> QED BY <1>1, <1>2 DEF UpdatedMapped

\* A step that leaves the IDs and the nodes alone keeps the nodes mapped.
LEMMA IdleKeepsMapped ==
    ASSUME NEW shared, MappedInv(shared),
           UNCHANGED <<nodes, nodeIDsByIPs, failed>>,
           \/ UNCHANGED <<initialized, syncing>>
           \/ syncing' = Known
           \/ ~initialized'
    PROVE  OneIDHere(shared)' /\ UpdatedMapped'
<1>1. OneIDHere(shared)'
  BY DEF MappedInv, OneIDHere, Lists, NoID
<1>2. UpdatedMapped'
  BY DEF MappedInv, UpdatedMapped, Known, Mapped
<1> QED BY <1>1, <1>2

\* The address lists the manager holds, its checkpoint's included, stay lists
\* of the CiliumNode, and an orderly pawn stays managed while it can be deleted.
LEMMA StepKeepsGuarded ==
    ASSUME Orderly, IInv, Listed, Guarded, [Next]_vars PROVE Listed' /\ Guarded'
<1> USE DEF Listed, Guarded, Pawns
<1>1. ASSUME NEW n \in Node, NEW addrs \in AddrSets[n], NodeAdd(n, addrs)
      PROVE  Listed' /\ Guarded'
  BY <1>1 DEF NodeAdd, IInv, TypeOK
<1>2. ASSUME NEW n \in Node, NEW addrs \in AddrSets[n], NodeUpdate(n, addrs)
      PROVE  Listed' /\ Guarded'
  BY <1>2 DEF NodeUpdate, Known, IInv, TypeOK
<1>3. ASSUME NEW n \in Node, NodeDelete(n) PROVE Listed' /\ Guarded'
  BY <1>3 DEF NodeDelete, IInv, TypeOK
<1>4. ASSUME NEW n \in Node, pruneClusterNode(n) PROVE Listed' /\ Guarded'
  BY <1>4 DEF pruneClusterNode, IInv, TypeOK
<1>5. ASSUME NEW n \in Node, Manage(n) PROVE Listed' /\ Guarded'
  BY <1>5 DEF Manage
<1>6. ASSUME NEW n \in Node, Unmanage(n) PROVE Listed' /\ Guarded'
  BY <1>6 DEF Unmanage
<1>7. CASE Checkpoint
  <2>1. \A n \in Node : checkpoint'[n] = IF n = Local THEN None ELSE nodes[n]
    BY <1>7 DEF Checkpoint, remoteNodes, IInv, TypeOK
  <2>2. UNCHANGED <<nodes, restored, managed>>
    BY <1>7 DEF Checkpoint
  <2> QED BY <2>1, <2>2
<1>8. CASE Restart
  <2>1. \A n \in Node : restored'[n] = IF n = Local THEN None ELSE checkpoint[n]
    BY <1>8 DEF Restart, IInv, TypeOK
  <2>2. UNCHANGED checkpoint /\ \A n \in Node : nodes'[n] = None
    BY <1>8 DEF Restart
  <2>3. Local \in managed' /\ \A n \in Pawns : checkpoint[n] # None => n \in managed'
    BY <1>8 DEF Restart
  <2> QED BY <2>1, <2>2, <2>3
<1>9. CASE NodeSync
  <2>1. \A n \in Node : restored'[n] \in {None, restored[n]}
    BY <1>9 DEF NodeSync
  <2>2. UNCHANGED <<nodes, checkpoint, managed>>
    BY <1>9 DEF NodeSync
  <2> QED BY <2>1, <2>2
<1>10. CASE UNCHANGED <<nodes, checkpoint, restored, managed>>
  BY <1>10
<1>11. ASSUME NEW n \in Node, NodeValidateImplementation(n) \/ SyncNode(n)
       PROVE  UNCHANGED <<nodes, checkpoint, restored, managed>>
  BY <1>11 DEF NodeValidateImplementation, SyncNode
<1>12. ASSUME \/ NodeConfigurationChanged \/ AllNodeValidateImplementation
              \/ UNCHANGED vars
       PROVE  UNCHANGED <<nodes, checkpoint, restored, managed>>
  BY <1>12 DEF NodeConfigurationChanged, AllNodeValidateImplementation, vars
<1> QED BY <1>1, <1>2, <1>3, <1>4, <1>5, <1>6, <1>7, <1>8, <1>9, <1>10, <1>11,
           <1>12 DEF Next

\* The inductive step for the nodes that stay mapped.
LEMMA StepKeepsMapped ==
    ASSUME NEW shared, Sharing(shared), MaxMapErrors = 0, Orderly, IInv,
           MappedInv(shared), [Next]_vars
    PROVE  MappedInv(shared)'
<1>1. OneIDHere(shared)' /\ UpdatedMapped'
  <2>1. ASSUME NEW n \in Node, NEW addrs \in AddrSets[n], NodeAdd(n, addrs)
        PROVE  OneIDHere(shared)' /\ UpdatedMapped'
    <3>1. CASE initialized
      <4>1. /\ nodeUpdate(n, {}, addrs) /\ syncing' = syncing \ {n}
            /\ UNCHANGED initialized /\ nodes' = [nodes EXCEPT ![n] = addrs]
        BY <2>1, <3>1 DEF NodeAdd
      <4>2. {} \in SUBSET IP /\ \A a \in {} : Lists(n, a)
        OBVIOUS
      <4> QED BY <4>1, <4>2, UpdateKeepsMapped
    <3>2. CASE ~initialized
      <4>1. UNCHANGED nodeIDsByIPs /\ ~initialized'
        BY <2>1, <3>2 DEF NodeAdd
      <4>2. OneIDHere(shared)'
        BY <4>1 DEF MappedInv, OneIDHere, Lists, NoID
      <4> QED BY <4>1, <4>2 DEF UpdatedMapped
    <3> QED BY <3>1, <3>2
  <2>2. ASSUME NEW n \in Node, NEW addrs \in AddrSets[n], NodeUpdate(n, addrs)
        PROVE  OneIDHere(shared)' /\ UpdatedMapped'
    <3>1. CASE initialized
      <4>1. /\ nodeUpdate(n, nodes[n], addrs) /\ syncing' = syncing \ {n}
            /\ UNCHANGED initialized /\ nodes' = [nodes EXCEPT ![n] = addrs] /\ n \in Known
        BY <2>2, <3>1 DEF NodeUpdate
      <4>2. nodes[n] \in AddrSets[n]
        BY <4>1 DEF MappedInv, Listed, Known
      <4>3. nodes[n] \in SUBSET IP /\ \A a \in nodes[n] : Lists(n, a)
        BY <4>2, NodeIDsAssumption DEF Lists
      <4> QED BY <4>1, <4>3, UpdateKeepsMapped
    <3>2. CASE ~initialized
      <4>1. UNCHANGED nodeIDsByIPs /\ ~initialized'
        BY <2>2, <3>2 DEF NodeUpdate
      <4>2. OneIDHere(shared)'
        BY <4>1 DEF MappedInv, OneIDHere, Lists, NoID
      <4> QED BY <4>1, <4>2 DEF UpdatedMapped
    <3> QED BY <3>1, <3>2
  <2>3. ASSUME NEW n \in Node, NodeValidateImplementation(n) \/ SyncNode(n)
        PROVE  OneIDHere(shared)' /\ UpdatedMapped'
    <3>1. /\ n \in Known /\ nodeUpdate(n, {}, nodes[n])
          /\ UNCHANGED <<nodes, initialized>> /\ syncing' = syncing \ {n}
      BY <2>3 DEF NodeValidateImplementation, SyncNode, IInv, TypeOK
    <3>2. nodes[n] \in AddrSets[n] /\ nodes' = [nodes EXCEPT ![n] = nodes[n]]
      BY <3>1 DEF MappedInv, Listed, Known, IInv, TypeOK
    <3>3. {} \in SUBSET IP /\ \A a \in {} : Lists(n, a)
      OBVIOUS
    <3> QED BY <3>1, <3>2, <3>3, UpdateKeepsMapped
  <2>4. ASSUME NEW n \in Node, NodeDelete(n) \/ pruneClusterNode(n)
        PROVE  OneIDHere(shared)' /\ UpdatedMapped'
    <3>1. PICK gone \in AddrSets[n] :
             /\ nodeDelete(n, gone)
             /\ gone \in {nodes[n], restored[n]} /\ gone # None
      BY <2>4 DEF NodeDelete, pruneClusterNode, MappedInv, Listed, Known
    <3>2. Host[n] = Host[Local] => n \in managed
      BY <3>1 DEF MappedInv, Guarded, Pawns
    <3>3. /\ nodes' = [nodes EXCEPT ![n] = None] /\ failed' = failed \ {n}
          /\ UNCHANGED <<initialized, syncing>>
      BY <2>4 DEF NodeDelete, pruneClusterNode
    <3> QED BY <3>1, <3>2, <3>3, DeleteKeepsMapped
  <2>5. ASSUME NEW n \in Node, Manage(n) \/ Unmanage(n)
        PROVE  OneIDHere(shared)' /\ UpdatedMapped'
    BY <2>5, IdleKeepsMapped DEF Manage, Unmanage
  <2>6. CASE NodeConfigurationChanged \/ AllNodeValidateImplementation
    BY <2>6, IdleKeepsMapped DEF NodeConfigurationChanged, AllNodeValidateImplementation
  <2>7. CASE Checkpoint \/ NodeSync \/ UNCHANGED vars
    BY <2>7, IdleKeepsMapped DEF Checkpoint, NodeSync, vars
  <2>8. CASE Restart
    <3>1. UNCHANGED nodeIDsByIPs /\ ~initialized'
      BY <2>8 DEF Restart
    <3>2. OneIDHere(shared)'
      BY <3>1 DEF MappedInv, OneIDHere, Lists, NoID
    <3> QED BY <3>1, <3>2 DEF UpdatedMapped
  <2> QED BY <2>1, <2>2, <2>3, <2>4, <2>5, <2>6, <2>7, <2>8 DEF Next
<1>2. IDsApart(Class)'
  BY ClassesApart, StepKeepsHostInv DEF MappedInv
<1>3. Listed' /\ Guarded'
  BY StepKeepsGuarded DEF MappedInv
<1> QED BY <1>1, <1>2, <1>3 DEF MappedInv

\* If the pawns of this machine carry its address, are managed while their
\* CiliumNodes exist, and no write of the BPF map fails, then every known node
\* whose latest update succeeded keeps an ID for all its addresses, whatever
\* nodes are added, updated, deleted or pruned after a restart.
THEOREM NodesStayMapped ==
    Orderly /\ MaxMapErrors = 0 /\ PawnsShareAddress => (Spec => []KnownNodesMapped)
<1> SUFFICES ASSUME Orderly, MaxMapErrors = 0, PawnsShareAddress
             PROVE  Spec => []KnownNodesMapped
  OBVIOUS
<1> PICK shared \in SUBSET IP : Sharing(shared)
  BY DEF PawnsShareAddress
<1>1. Init => MappedInv(shared)
  <2> SUFFICES ASSUME Init PROVE MappedInv(shared)
    OBVIOUS
  <2>1. Listed /\ Guarded /\ UpdatedMapped
    BY DEF Init, Listed, Guarded, UpdatedMapped, Pawns
  <2>2. IDsApart(Class) /\ OneIDHere(shared)
    BY DEF Init, IDsApart, OneIDHere, Known
  <2> QED BY <2>1, <2>2 DEF MappedInv
<1>2. IInv /\ MappedInv(shared) /\ [Next]_vars => MappedInv(shared)'
  BY StepKeepsMapped
<1>3. MappedInv(shared) => KnownNodesMapped
  BY DEF MappedInv, UpdatedMapped, KnownNodesMapped
<1> QED BY <1>1, <1>2, <1>3, AlwaysIInv, PTL DEF Spec

=============================================================================
