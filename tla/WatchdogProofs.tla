--------------------------- MODULE WatchdogProofs ---------------------------
(***************************************************************************)
(* Proofs about Watchdog, for every set of pods, grace period and floor.   *)
(***************************************************************************)
EXTENDS Watchdog, FiniteSetTheorems, TLAPS

(***************************************************************************)
(* The watchdog deletes only pods it has condemned.                        *)
(***************************************************************************)
\* The pods of a running scan are condemned, and no host-network pod is.
CondemnedInv ==
  /\ due \subseteq condemned
  /\ condemned \subseteq (Name \ HostNetwork) \X (1 .. MaxGen)
  /\ killed \subseteq condemned
  /\ table \in [Name -> Row] /\ api \in [Name -> Row]
  /\ \A n \in Name : table[n].phase = "running" => table[n].gen \in 1 .. MaxGen
  /\ \A n \in Name : api[n].phase = "running" => api[n].gen \in 1 .. MaxGen
  /\ \A n \in Name : api[n].phase = "starting" => api[n].gen \in 1 .. MaxGen

\* Every step keeps the pods that are due condemned, and the deleted ones too.
LEMMA CondemnedStep == CondemnedInv /\ [Next]_vars => CondemnedInv'
<1> SUFFICES ASSUME CondemnedInv, [Next]_vars PROVE CondemnedInv'
  OBVIOUS
<1> USE DEF podVars, gateVars, history
<1>1. ASSUME NEW n \in Name,
             \/ CreatePod(n) \/ RunPod(n) \/ DeletePod(n) \/ RemovePod(n) \/ Reflect(n)
             \/ AddEndpoint(n)
      PROVE  CondemnedInv'
  <2>1. UNCHANGED <<due, condemned, killed>>
    BY <1>1 DEF CreatePod, RunPod, DeletePod, RemovePod, Reflect, AddEndpoint
  <2>2. CASE CreatePod(n)
    BY <2>1, <2>2, ConstantsAssumption DEF CreatePod, CondemnedInv, Row, Phase
  <2>3. CASE RunPod(n)
    BY <2>1, <2>3 DEF RunPod, CondemnedInv, Row, Phase
  <2>4. CASE DeletePod(n)
    BY <2>1, <2>4 DEF DeletePod, CondemnedInv, Row, Phase
  <2>5. CASE RemovePod(n)
    BY <2>1, <2>5 DEF RemovePod, CondemnedInv, Row, Phase
  <2>6. CASE Reflect(n)
    BY <2>1, <2>6 DEF Reflect, CondemnedInv
  <2>7. CASE AddEndpoint(n)
    BY <2>1, <2>7 DEF AddEndpoint, CondemnedInv
  <2> QED BY <1>1, <2>2, <2>3, <2>4, <2>5, <2>6, <2>7
<1>2. ASSUME NEW u \in UID, heal(u) PROVE CondemnedInv'
  <2>1. u \in condemned /\ due' \subseteq due /\ UNCHANGED <<condemned, table>>
    BY <1>2 DEF heal, CondemnedInv
  <2>2. u[1] \in Name /\ u = <<u[1], u[2]>>
    BY DEF UID
  <2>3. killed' \subseteq condemned
    BY <1>2, <2>1, <2>2 DEF heal, samePod, CondemnedInv
  <2>4. /\ api' \in [Name -> Row]
        /\ \A n \in Name : api'[n].phase \in {"starting", "running"} =>
             api'[n].phase = api[n].phase /\ api'[n].gen = api[n].gen
    <3>1. CASE api' = api
      BY <3>1 DEF CondemnedInv
    <3>2. CASE api' = [api EXCEPT ![u[1]].phase = "terminating"]
      BY <2>2, <3>2 DEF CondemnedInv, Row, Phase
    <3> QED BY <1>2, <3>1, <3>2 DEF heal
  <2> QED BY <2>1, <2>3, <2>4 DEF CondemnedInv
<1>3. CASE Check
  <2>1. overdue \subseteq (Name \ HostNetwork) \X (1 .. MaxGen)
    BY DEF overdue, missing, eligible, CondemnedInv
  <2> QED BY <1>3, <2>1 DEF Check, CondemnedInv
<1>4. CASE StandDown \/ RefuseToAct \/ EndCheck \/ Tick
  BY <1>4 DEF StandDown, RefuseToAct, EndCheck, Tick, CondemnedInv
<1>5. ASSUME NEW u \in UID, LoseEndpoint(u) PROVE CondemnedInv'
  BY <1>5 DEF LoseEndpoint, CondemnedInv
<1>6. ASSUME NEW l, NEW c, MoveGate(l, c) PROVE CondemnedInv'
  BY <1>6 DEF MoveGate, CondemnedInv
<1>7. CASE UNCHANGED vars
  BY <1>7 DEF vars, CondemnedInv
<1> QED BY <1>1, <1>2, <1>3, <1>4, <1>5, <1>6, <1>7 DEF Next

\* Whatever the pod table's lag and the state of the gate, a deleted pod was
\* found overdue by a scan and is not on the host network.
THEOREM KillsOnlyCondemned == Spec => []OnlyCondemnedKilled
<1>1. Init => CondemnedInv
  BY ConstantsAssumption DEF Init, CondemnedInv, Row, Phase
<1>2. CondemnedInv => OnlyCondemnedKilled
  BY DEF CondemnedInv, OnlyCondemnedKilled
<1> QED BY <1>1, <1>2, CondemnedStep, PTL DEF Spec

(***************************************************************************)
(* Types, on top of the generations CondemnedInv bounds.                   *)
(***************************************************************************)
LEMMA TypeStep ==
  ASSUME TypeOK, CondemnedInv, CondemnedInv', [Next]_vars
  PROVE  TypeOK'
<1> USE DEF podVars, gateVars, history
<1>0. api' \in [Name -> Row] /\ table' \in [Name -> Row]
  BY DEF CondemnedInv
<1>1. CASE UNCHANGED <<ep, label, conf, moves, pending, due, seen, scanning, errors, since,
                       condemned, killed>>
  BY <1>0, <1>1 DEF TypeOK
<1>2. ASSUME NEW n \in Name, CreatePod(n) \/ RunPod(n) \/ DeletePod(n) \/ Reflect(n)
      PROVE  TypeOK'
  BY <1>1, <1>2 DEF CreatePod, RunPod, DeletePod, Reflect
<1>3. ASSUME NEW n \in Name, AddEndpoint(n)
      PROVE  TypeOK'
  <2>1. <<n, api[n].gen>> \in UID
    BY <1>3 DEF AddEndpoint, CondemnedInv, UID
  <2> QED BY <1>0, <1>3, <2>1 DEF AddEndpoint, TypeOK
<1>4. ASSUME ep' \subseteq ep,
             UNCHANGED <<label, conf, moves, pending, due, seen, scanning, errors, history>>
      PROVE  TypeOK'
  BY <1>0, <1>4 DEF TypeOK
<1>5. (\E n \in Name : RemovePod(n)) \/ (\E u \in UID : LoseEndpoint(u)) => TypeOK'
  BY <1>4 DEF RemovePod, LoseEndpoint
<1>6. ASSUME NEW u \in UID, heal(u)
      PROVE  TypeOK'
  <2>1. due' \subseteq due /\ UNCHANGED <<ep, label, conf, moves, pending, seen, scanning, since, condemned>>
    BY <1>6 DEF heal
  <2>2. errors' \in 0 .. MaxApiErrors
    BY <1>6, ConstantsAssumption DEF heal, TypeOK
  <2>3. killed' \subseteq UID
    BY <2>1 DEF CondemnedInv, TypeOK
  <2> QED BY <1>0, <2>1, <2>2, <2>3 DEF TypeOK
<1>7. ASSUME NEW l \in {"constellation", "other"}, NEW c \in {"cilium", "none"}, MoveGate(l, c)
      PROVE  TypeOK'
  BY <1>0, <1>7, ConstantsAssumption DEF MoveGate, TypeOK
<1>8. /\ pended \in [UID -> (0 .. Grace) \cup {None}]
      /\ observed \in [UID -> (0 .. Grace) \cup {None}]
  BY ConstantsAssumption DEF pended, observed, TypeOK
<1>9. CASE StandDown
  BY <1>0, <1>8, <1>9 DEF StandDown, TypeOK
<1>10. CASE RefuseToAct
  BY <1>0, <1>8, <1>10 DEF RefuseToAct, TypeOK
<1>11. CASE Check
  <2>1. overdue \subseteq missing /\ missing \subseteq UID
    BY DEF overdue, missing, eligible, CondemnedInv, UID
  <2>2. condemned' \subseteq UID
    BY <1>11, <2>1 DEF Check, TypeOK
  <2> QED BY <1>0, <1>8, <1>11, <2>1, <2>2 DEF Check, TypeOK
<1>12. CASE EndCheck
  <2>1. forget \in [UID -> (0 .. Grace) \cup {None}]
    BY DEF forget, TypeOK
  <2> QED BY <1>0, <1>12, <2>1 DEF EndCheck, TypeOK
<1>13. CASE Tick
  <2>1. ASSUME NEW age \in [UID -> (0 .. Grace) \cup {None}]
        PROVE  older(age) \in [UID -> (0 .. Grace) \cup {None}]
    BY ConstantsAssumption DEF older
  <2>2. older(pending) \in [UID -> (0 .. Grace) \cup {None}]
        /\ older(since) \in [UID -> (0 .. Grace) \cup {None}]
    BY <2>1 DEF TypeOK
  <2> QED BY <1>0, <1>13, <2>2 DEF Tick, TypeOK
<1>14. CASE UNCHANGED vars
  BY <1>1, <1>14 DEF vars
<1> QED
  BY <1>2, <1>3, <1>5, <1>6, <1>7, <1>9, <1>10, <1>11, <1>12, <1>13, <1>14 DEF Next

\* Every variable keeps its type, for any pods, grace period and floor; a check
\* deletes only pods it found missing itself, and leaves nothing due behind.
THEOREM TypeCorrect == Spec => []TypeOK
<1> DEFINE Inv == CondemnedInv /\ TypeOK
<1>1. Init => Inv
  <2> SUFFICES ASSUME Init PROVE Inv
    OBVIOUS
  <2>1. CondemnedInv
    BY ConstantsAssumption DEF Init, CondemnedInv, Row, Phase
  <2>2. moves \in 0 .. GateMoves /\ errors \in 0 .. MaxApiErrors
    BY ConstantsAssumption DEF Init
  <2>3. pending \in [UID -> (0 .. Grace) \cup {None}] /\ since \in [UID -> (0 .. Grace) \cup {None}]
    BY Zenon DEF Init
  <2> QED BY <2>1, <2>2, <2>3 DEF Init, CondemnedInv, TypeOK
<1>2. Inv /\ [Next]_vars => Inv'
  BY CondemnedStep, TypeStep
<1>3. Inv => TypeOK
  OBVIOUS
<1> HIDE DEF Inv
<1> QED BY <1>1, <1>2, <1>3, PTL DEF Spec

(***************************************************************************)
(* The grace period, while the gate stays open and the guard cannot trip.  *)
(***************************************************************************)
\* pending and the true age of the absence agree, except that entries of pods
\* which are there again go only at the end of a scan.
AgeInv ==
  /\ cniOwned
  /\ table \in [Name -> Row]
  /\ due \subseteq seen
  /\ \A u \in due : since[u] = Grace
  /\ pending \in [UID -> (0 .. Grace) \cup {None}]
  /\ since \in [UID -> (0 .. Grace) \cup {None}]
  /\ \A u \in UID : since[u] = IF scanning /\ u \notin seen THEN None ELSE pending[u]

\* With at most Floor pods the blast-radius guard cannot trip.
LEMMA GuardNeverTrips ==
  ASSUME AgeInv, Cardinality(Name) <= Floor
  PROVE  ~RefuseToAct
<1> DEFINE f == [u \in overdue |-> u[1]]
<1>1. \A u \in overdue : u[1] \in Name /\ u = <<u[1], table[u[1]].gen>>
  BY DEF overdue, missing, eligible
<1>2. f \in Injection(overdue, Name)
  BY <1>1 DEF Injection, IsInjective
<1>3. Cardinality(overdue) <= Cardinality(Name) /\ IsFiniteSet(overdue)
  BY <1>2, FS_Injection, ConstantsAssumption
<1>4. Cardinality(overdue) \in Nat /\ Cardinality(Name) \in Nat
  BY <1>3, FS_CardinalityType, ConstantsAssumption
<1> DEFINE g == [u \in eligible |-> u[1]]
<1>5. \A u \in eligible : u[1] \in Name /\ u = <<u[1], table[u[1]].gen>>
  BY DEF eligible
<1>6. g \in Injection(eligible, Name)
  BY <1>5 DEF Injection, IsInjective
<1>7. Cardinality(eligible) \in Nat
  BY <1>6, FS_Injection, FS_CardinalityType, ConstantsAssumption
<1>8. blastRadiusLimit(Cardinality(eligible)) >= Floor
      /\ blastRadiusLimit(Cardinality(eligible)) \in Nat
  BY <1>7, ConstantsAssumption DEF blastRadiusLimit
<1> QED BY <1>3, <1>4, <1>8, ConstantsAssumption DEF RefuseToAct

\* No step lets a pending entry get older than the absence of its pod.
LEMMA AgeStep ==
  ASSUME GateMoves = 0, Cardinality(Name) <= Floor,
         CondemnedInv, moves \in Nat, AgeInv, [Next]_vars
  PROVE  AgeInv'
<1> USE DEF podVars, gateVars, history
<1>0. ~RefuseToAct
  BY GuardNeverTrips
<1>1. CASE UNCHANGED <<label, conf, table, due, seen, scanning, pending, since>>
  BY <1>1 DEF AgeInv, cniOwned, nodeLabelSaysCilium, nodeUsesCiliumCNI
<1>2. ASSUME NEW n \in Name,
             \/ CreatePod(n) \/ RunPod(n) \/ DeletePod(n) \/ RemovePod(n)
             \/ AddEndpoint(n)
      PROVE  AgeInv'
  BY <1>1, <1>2 DEF CreatePod, RunPod, DeletePod, RemovePod, AddEndpoint
<1>3. ASSUME NEW u \in UID, LoseEndpoint(u) PROVE AgeInv'
  BY <1>1, <1>3 DEF LoseEndpoint
<1>4. ASSUME NEW l, NEW c, MoveGate(l, c) PROVE AgeInv'
  BY <1>4 DEF MoveGate
<1>5. CASE StandDown
  BY <1>5 DEF StandDown, AgeInv
<1>6. ASSUME NEW u \in UID, heal(u) PROVE AgeInv'
  BY <1>6 DEF heal, AgeInv, cniOwned, nodeLabelSaysCilium, nodeUsesCiliumCNI
<1>7. CASE Check
  <2>1. /\ pending' = pended /\ since' = observed /\ scanning' = TRUE /\ scanning = FALSE
        /\ due' = overdue /\ seen' = missing /\ UNCHANGED <<label, conf, table>>
    BY <1>7 DEF Check, AgeInv
  <2>2. \A u \in UID : pending'[u] = IF u \in missing /\ pending[u] = None THEN 0 ELSE pending[u]
    BY <2>1 DEF pended
  <2>3. \A u \in UID : since'[u] = IF u \notin missing THEN None
                                   ELSE IF since[u] = None THEN 0 ELSE since[u]
    BY <2>1 DEF observed
  <2>4. \A u \in UID : since[u] = pending[u]
    BY <2>1 DEF AgeInv
  <2>5. pending' \in [UID -> (0 .. Grace) \cup {None}]
        /\ since' \in [UID -> (0 .. Grace) \cup {None}]
    BY <2>1, ConstantsAssumption DEF AgeInv, pended, observed
  <2>6. \A u \in due' : u \in UID /\ u \in missing /\ pending[u] = Grace
    BY <2>1 DEF overdue, missing, eligible, CondemnedInv, UID
  <2>7. due' \subseteq seen'
    BY <2>1 DEF overdue
  <2>8. \A u \in due' : since'[u] = Grace
    BY <2>3, <2>4, <2>6, ConstantsAssumption
  <2>9. \A u \in UID : since'[u] = IF scanning' /\ u \notin seen' THEN None ELSE pending'[u]
    BY <2>1, <2>2, <2>3, <2>4
  <2> QED BY <2>1, <2>5, <2>7, <2>8, <2>9
          DEF AgeInv, cniOwned, nodeLabelSaysCilium, nodeUsesCiliumCNI
<1>8. CASE EndCheck
  <2>1. /\ pending' = forget /\ since' = since /\ scanning' = FALSE /\ scanning = TRUE
        /\ due = {} /\ due' = {} /\ seen' = {} /\ UNCHANGED <<label, conf, table>>
    BY <1>8 DEF EndCheck, AgeInv
  <2>2. \A u \in UID : pending'[u] = IF u \in seen THEN pending[u] ELSE None
    BY <2>1 DEF forget
  <2>3. pending' \in [UID -> (0 .. Grace) \cup {None}]
    BY <2>1 DEF AgeInv, forget
  <2> QED BY <2>1, <2>2, <2>3 DEF AgeInv, cniOwned, nodeLabelSaysCilium, nodeUsesCiliumCNI
<1>9. CASE Tick
  <2>1. /\ pending' = older(pending) /\ since' = older(since)
        /\ UNCHANGED <<due, seen, scanning, label, conf, table>>
    BY <1>9 DEF Tick
  <2>2. /\ \A u \in UID : pending'[u] = IF pending[u] \in {None, Grace} THEN pending[u]
                                        ELSE pending[u] + 1
        /\ \A u \in UID : since'[u] = IF since[u] \in {None, Grace} THEN since[u]
                                      ELSE since[u] + 1
    BY <2>1 DEF older
  <2>3. pending' \in [UID -> (0 .. Grace) \cup {None}]
        /\ since' \in [UID -> (0 .. Grace) \cup {None}]
    BY <2>1, ConstantsAssumption DEF AgeInv, older
  <2>4. \A u \in due : u \in UID
    BY DEF CondemnedInv, UID
  <2>5. \A u \in due' : since'[u] = Grace
    BY <2>1, <2>2, <2>4 DEF AgeInv
  <2>6. \A u \in UID : since'[u] = IF scanning' /\ u \notin seen' THEN None ELSE pending'[u]
    BY <2>1, <2>2 DEF AgeInv
  <2> QED BY <2>1, <2>3, <2>5, <2>6 DEF AgeInv, cniOwned, nodeLabelSaysCilium, nodeUsesCiliumCNI
<1>10. ASSUME NEW n \in Name, Reflect(n) PROVE AgeInv'
  BY <1>10 DEF Reflect, AgeInv, CondemnedInv, cniOwned, nodeLabelSaysCilium, nodeUsesCiliumCNI
<1>11. CASE UNCHANGED vars
  BY <1>1, <1>11 DEF vars
<1> QED
  BY <1>0, <1>2, <1>3, <1>4, <1>5, <1>6, <1>7, <1>8, <1>9, <1>10, <1>11 DEF Next

\* The number of changes of the gate is a natural number.
LEMMA MovesStep == moves \in Nat /\ [Next]_vars => moves' \in Nat
<1> SUFFICES ASSUME moves \in Nat, [Next]_vars PROVE moves' \in Nat
  OBVIOUS
<1>1. UNCHANGED moves \/ moves' = moves + 1
  BY DEF Next, vars, gateVars, CreatePod, RunPod, DeletePod, RemovePod, AddEndpoint, Reflect,
         LoseEndpoint, heal, MoveGate, StandDown, RefuseToAct, Check, EndCheck, Tick
<1> QED BY <1>1

\* While the node keeps its CNI and has no more pods than the floor of the
\* guard, no pod is deleted before the checks have found it missing for the
\* whole grace period without a break.
THEOREM GraceRespected ==
  ASSUME GateMoves = 0, Cardinality(Name) <= Floor
  PROVE  Spec => []ContinuouslyMissing
<1> DEFINE Inv == CondemnedInv /\ moves \in Nat /\ AgeInv
<1>1. Init => Inv
  BY ConstantsAssumption DEF Init, CondemnedInv, Row, Phase, AgeInv, cniOwned,
       nodeLabelSaysCilium, nodeUsesCiliumCNI
<1>2. Inv /\ [Next]_vars => Inv'
  BY CondemnedStep, MovesStep, AgeStep
<1>3. Inv => ContinuouslyMissing
  BY DEF AgeInv, ContinuouslyMissing
<1> HIDE DEF Inv
<1> QED BY <1>1, <1>2, <1>3, PTL DEF Spec
=============================================================================
