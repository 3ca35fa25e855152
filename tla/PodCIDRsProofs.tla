--------------------------- MODULE PodCIDRsProofs ---------------------------
(***************************************************************************)
(* Proofs about PodCIDRs, for every set of nodes and CIDRs and any number  *)
(* of crashes, writes of others and failed calls: the bitmaps and the      *)
(* table of nodes always agree, whatever the CiliumNodes ask for; and when *)
(* the first CiliumNodes are whole and distinct, and names are used again  *)
(* only after their deletion was handled, no CIDR is given twice and none  *)
(* is taken away.                                                          *)
(*                                                                         *)
(* The second part is about all copies of an object at once: OwnInv says   *)
(* that each node has one set of CIDRs, its own, such that every copy of   *)
(* its CiliumNode has them or is bare.                                     *)
(***************************************************************************)
EXTENDS PodCIDRs, TLAPS

\* A leaf is for Zenon unless it names another prover.
USE Zenon

\* None is no CIDRs, copy, event or queued write.
LEMMA NoneApart ==
  /\ None \notin CIDRs
  /\ None \notin Copies
  /\ None \notin Events
  /\ None \notin Writes
BY PodCIDRsAssumption

\* What an attempt returns is free, in the pool, and for a family that the node
\* has no CIDR of.
LEMMA AttemptFacts ==
  ASSUME TypeOK, NEW n \in Node, NEW c \in CIDRs, NEW got \in Attempts(n, c)
  PROVE  /\ got \in [Family -> Cidr \cup {None, "fail", "dup"}]
         /\ \A f \in Family : got[f] \in attempt(n, c, f)
         /\ \A f \in Family : got[f] \in Cidr =>
              /\ got[f] \in Pool[f] \ used[f]
              /\ nodes[n] = None \/ nodes[n][f] = None
<1>1. ASSUME NEW f \in Family
      PROVE  /\ attempt(n, c, f) \subseteq Cidr \cup {None, "fail", "dup"}
             /\ \A r \in attempt(n, c, f) : r \in Cidr =>
                  /\ r \in Pool[f] \ used[f]
                  /\ nodes[n] = None \/ nodes[n][f] = None
  BY <1>1, PodCIDRsAssumption DEF attempt, allocateIPNet, allocateFirstFreeCIDR, mayAllocate
<1>2. \A f \in Family : got[f] \in attempt(n, c, f)
  BY DEF Attempts
<1>3. got \in [Family -> UNION {attempt(n, c, f) : f \in Family}]
  BY DEF Attempts
<1>4. UNION {attempt(n, c, f) : f \in Family} \subseteq Cidr \cup {None, "fail", "dup"}
  BY <1>1
<1>5. got \in [Family -> Cidr \cup {None, "fail", "dup"}]
  BY <1>2, <1>3, <1>4
<1> QED BY <1>1, <1>2, <1>5

\* The CIDRs a node gets.
Taken(n, got) ==
  /\ got \in [Family -> Cidr \cup {None, "fail", "dup"}]
  /\ \A f \in Family : got[f] \in Cidr =>
       /\ got[f] \in Pool[f] \ used[f]
       /\ nodes[n] = None \/ nodes[n][f] = None
  /\ take(n, got)

\* What the handler of a CiliumNode may do to the tables of the manager.
UpsertEffect(n, o) ==
  /\ \/ UNCHANGED <<nodes, used>>
     \/ \E got : Taken(n, got)
  /\ \/ UNCHANGED toK8s
     \/ \E w \in Writes : toK8s' = [toK8s EXCEPT ![n] = w]
  /\ \/ UNCHANGED nodesToAllocate
     \/ nodesToAllocate' = [nodesToAllocate EXCEPT ![n] = o]
     \/ nodesToAllocate' = [nodesToAllocate EXCEPT ![n] = None]

\* The entry of a node has CIDRs of the right type after an attempt.
LEMMA EntryType ==
  ASSUME TypeOK, NEW n \in Node, NEW got \in [Family -> Cidr \cup {None, "fail", "dup"}]
  PROVE  entry(n, got) \in CIDRs
<1>1. nodes[n] # None => nodes[n] \in [Family -> Cidr \cup {None}]
  BY DEF TypeOK, CIDRs
<1>2. ASSUME NEW f \in Family
      PROVE  (IF got[f] \in Cidr THEN got[f]
              ELSE IF nodes[n] = None THEN None ELSE nodes[n][f]) \in Cidr \cup {None}
  BY <1>1
<1> QED BY <1>2 DEF entry, CIDRs

\* A queued write, whichever its kind.
LEMMA WriteType ==
  ASSUME NEW n, NEW o \in Copies, NEW c \in CIDRs, NEW e \in BOOLEAN,
         NEW op \in {"update", "status"}, syncNode(n, op, c, e, o)
  PROVE  \E w \in Writes : toK8s' = [toK8s EXCEPT ![n] = w]
<1>1. [op |-> op, cidrs |-> c, err |-> e, current |-> o.current] \in Writes
  BY DEF Writes, Copies
<1> QED BY <1>1 DEF syncNode

\* What upsertLocked may do to the table, the bitmaps and the queue.
LEMMA UpsertHasEffect ==
  ASSUME TypeOK, NEW n \in Node, NEW o \in Copies, upsertLocked(n, o)
  PROVE  UpsertEffect(n, o)
<1>0. o.cidrs \in CIDRs /\ NoCIDRs \in CIDRs
  BY DEF Copies, CIDRs, NoCIDRs
<1>1. ASSUME settle(n)
      PROVE  \/ UNCHANGED nodesToAllocate
             \/ nodesToAllocate' = [nodesToAllocate EXCEPT ![n] = None]
  BY <1>1 DEF settle
<1>2. ASSUME NEW c \in CIDRs, report(n, c, o)
      PROVE  \E w \in Writes : toK8s' = [toK8s EXCEPT ![n] = w]
  BY <1>2, WriteType DEF report
<1>3. CASE postpone(n, o)
  BY <1>3 DEF postpone, UpsertEffect
<1>4. CASE allocateNext(n, o)
  <2>1. settle(n)
    BY <1>4 DEF allocateNext
  <2>2. CASE nodes[n] # None /\ syncNode(n, "update", nodes[n], FALSE, o) /\ UNCHANGED <<nodes, used>>
    <3>1. nodes[n] \in CIDRs
      BY <2>2 DEF TypeOK
    <3> QED BY <1>1, <2>1, <2>2, <3>1, WriteType DEF UpsertEffect
  <2>3. ASSUME NEW got \in Attempts(n, NoCIDRs),
               report(n, o.cidrs, o) /\ UNCHANGED <<nodes, used>>
        PROVE  UpsertEffect(n, o)
    BY <1>0, <1>1, <1>2, <2>1, <2>3 DEF UpsertEffect
  <2>4. ASSUME NEW got \in Attempts(n, NoCIDRs),
               take(n, got), syncNode(n, "update", entry(n, got), FALSE, o)
        PROVE  UpsertEffect(n, o)
    <3>1. Taken(n, got)
      BY <1>0, <2>4, AttemptFacts DEF Taken
    <3>2. entry(n, got) \in CIDRs
      BY <3>1, EntryType DEF Taken
    <3> QED BY <1>1, <2>1, <2>4, <3>1, <3>2, WriteType DEF UpsertEffect
  <2> QED BY <1>4, <2>2, <2>3, <2>4 DEF allocateNext
<1>5. CASE reuseIPNets(n, o)
  <2>1. PICK got \in Attempts(n, o.cidrs) :
          \/ /\ report(n, IF nodes[n] = None THEN o.cidrs ELSE nodes[n], o)
             /\ settle(n)
             /\ UNCHANGED <<nodes, used>>
          \/ take(n, got) /\ report(n, entry(n, got), o) /\ settle(n)
          \/ take(n, got) /\ syncNode(n, "update", entry(n, got), FALSE, o) /\ settle(n)
          \/ postpone(n, o)
          \/ /\ syncNode(n, "status", o.cidrs, FALSE, o) \/ UNCHANGED toK8s
             /\ settle(n)
             /\ UNCHANGED <<nodes, used>>
    BY <1>5 DEF reuseIPNets
  <2>2. got \in [Family -> Cidr \cup {None, "fail", "dup"}]
    BY <1>0, AttemptFacts
  <2>3. entry(n, got) \in CIDRs
    BY <2>2, EntryType
  <2>4. (IF nodes[n] = None THEN o.cidrs ELSE nodes[n]) \in CIDRs
    BY <1>0 DEF TypeOK
  <2>5. take(n, got) => Taken(n, got)
    BY <1>0, AttemptFacts DEF Taken
  <2>6. CASE report(n, IF nodes[n] = None THEN o.cidrs ELSE nodes[n], o) /\ settle(n)
               /\ UNCHANGED <<nodes, used>>
    BY <1>1, <1>2, <2>4, <2>6 DEF UpsertEffect
  <2>7. CASE take(n, got) /\ report(n, entry(n, got), o) /\ settle(n)
    BY <1>1, <1>2, <2>3, <2>5, <2>7 DEF UpsertEffect
  <2>8. CASE take(n, got) /\ syncNode(n, "update", entry(n, got), FALSE, o) /\ settle(n)
    BY <1>1, <2>3, <2>5, <2>8, WriteType DEF UpsertEffect
  <2>9. CASE (syncNode(n, "status", o.cidrs, FALSE, o) \/ UNCHANGED toK8s) /\ settle(n)
               /\ UNCHANGED <<nodes, used>>
    BY <1>0, <1>1, <2>9, WriteType DEF UpsertEffect
  <2> QED BY <1>3, <2>1, <2>6, <2>7, <2>8, <2>9
<1> QED BY <1>3, <1>4, <1>5 DEF upsertLocked

(***************************************************************************)
(* Types.                                                                  *)
(***************************************************************************)
LEMMA CopyType ==
  ASSUME NEW o \in Object \cup {None}
  PROVE  Copy(o) \in Copies \cup {None}
BY DEF Copy, Object, Copies

\* An outdated copy is a copy.
LEMMA OutdatedType ==
  ASSUME NEW o \in Copies \cup {None}
  PROVE  Outdated(o) \in Copies \cup {None}
BY DEF Outdated, Copies

\* A copy of an object is there if the object is, and has its CIDRs.
LEMMA CopyFacts ==
  ASSUME NEW o \in Object \cup {None}
  PROVE  /\ Copy(o) = None <=> o = None
         /\ o # None => Copy(o).cidrs = o.cidrs
<1>1. o # None => Copy(o) \in Copies /\ Copy(o).cidrs = o.cidrs
  BY DEF Copy, Object, Copies
<1>2. o = None => Copy(o) = None
  BY DEF Copy
<1> QED BY <1>1, <1>2, NoneApart

\* The copies that a write of the object touches.
WrittenTypes ==
  /\ cn' \in [Node -> Object \cup {None}]
  /\ store' \in [Node -> Copies \cup {None}]
  /\ event' \in Events \cup {None}
  /\ nodesToAllocate' \in [Node -> Copies \cup {None}]

\* A write to the API server keeps the types of all copies.
LEMMA WriteTypes ==
  ASSUME TypeOK, NEW n \in Node, NEW o \in Object \cup {None}, Write(n, o)
  PROVE  WrittenTypes
<1>1. cn' \in [Node -> Object \cup {None}]
  BY DEF TypeOK, Write
<1>2. Outdated(store[n]) \in Copies \cup {None} /\ Outdated(nodesToAllocate[n]) \in Copies \cup {None}
  BY OutdatedType DEF TypeOK
<1>3. store' \in [Node -> Copies \cup {None}] /\ nodesToAllocate' \in [Node -> Copies \cup {None}]
  BY <1>2 DEF TypeOK, Write
<1>4. event' \in Events \cup {None}
  <2>1. CASE event # None /\ event.node = n
    <3>1. event \in Events
      BY <2>1 DEF TypeOK
    <3>2. Outdated(event.obj) \in Copies \cup {None}
      BY <3>1, OutdatedType DEF Events
    <3>3. event' = [event EXCEPT !.obj = Outdated(event.obj)]
      BY <2>1 DEF Write
    <3> QED BY <3>1, <3>2, <3>3 DEF Events
  <2> QED BY <2>1 DEF Write, TypeOK
<1> QED BY <1>1, <1>3, <1>4 DEF WrittenTypes

\* upsertLocked keeps the types of what it changes.
LEMMA UpsertTypes ==
  ASSUME TypeOK, NEW n \in Node, NEW o \in Copies, UpsertEffect(n, o)
  PROVE  /\ nodes' \in [Node -> CIDRs \cup {None}]
         /\ used' \in [Family -> SUBSET Cidr]
         /\ toK8s' \in [Node -> Writes \cup {None}]
         /\ {m \in Node : toK8s[m] # None} \subseteq {m \in Node : toK8s'[m] # None}
         /\ nodesToAllocate' \in [Node -> Copies \cup {None}]
<1>1. nodes' \in [Node -> CIDRs \cup {None}] /\ used' \in [Family -> SUBSET Cidr]
  <2>1. CASE UNCHANGED <<nodes, used>>
    BY <2>1 DEF TypeOK
  <2>2. ASSUME NEW got, Taken(n, got)
        PROVE  nodes' \in [Node -> CIDRs \cup {None}] /\ used' \in [Family -> SUBSET Cidr]
    <3>1. entry(n, got) \in CIDRs
      BY <2>2, EntryType DEF Taken
    <3>2. nodes' = [nodes EXCEPT ![n] = entry(n, got)]
      BY <2>2 DEF Taken, take
    <3>3. used' = [f \in Family |-> used[f] \cup ({got[f]} \cap Cidr)]
      BY <2>2 DEF Taken, take
    <3> QED BY <3>1, <3>2, <3>3 DEF TypeOK
  <2> QED BY <2>1, <2>2 DEF UpsertEffect
<1>2. /\ toK8s' \in [Node -> Writes \cup {None}]
      /\ {m \in Node : toK8s[m] # None} \subseteq {m \in Node : toK8s'[m] # None}
  BY NoneApart, SMT DEF UpsertEffect, TypeOK
<1>3. nodesToAllocate' \in [Node -> Copies \cup {None}]
  BY SMT DEF UpsertEffect, TypeOK
<1> QED BY <1>1, <1>2, <1>3

\* The queued write with another op, or brought up to date.
LEMMA QueuedTypes ==
  ASSUME TypeOK, NEW n \in Node, toK8s[n] # None,
         NEW op \in {"update", "written", "status", "delete"}, NEW b \in BOOLEAN
  PROVE  /\ [toK8s[n] EXCEPT !.op = op] \in Writes
         /\ [toK8s[n] EXCEPT !.current = b, !.op = op] \in Writes
         /\ retried(op) \in {"update", "written", "status", "delete"}
         /\ toK8s[n].op \in {"update", "written", "status", "delete"}
BY DEF TypeOK, Writes, retried

\* The first state is well typed.
LEMMA TypeInit == Init => TypeOK
<1> SUFFICES ASSUME Init PROVE TypeOK
  OBVIOUS
<1>1. PICK o \in Start :
        /\ cn = [n \in Node |-> IF o[n] = None THEN None ELSE [cidrs |-> o[n], err |-> FALSE]]
        /\ sane = Sane(o)
  BY DEF Init
<1>2. o \in [Node -> CIDRs \cup {None}]
  BY PodCIDRsAssumption
<1>3. cn \in [Node -> Object \cup {None}]
  BY <1>1, <1>2 DEF Object
<1>4. store \in [Node -> Copies \cup {None}]
  BY <1>3, CopyType DEF Init
<1>5. sane \in BOOLEAN
  BY <1>1 DEF Sane
<1>6. /\ event \in Events \cup {None}
      /\ canAllocatePodCIDRs \in BOOLEAN
      /\ nodesToAllocate \in [Node -> Copies \cup {None}]
      /\ nodes \in [Node -> CIDRs \cup {None}]
      /\ used \in [Family -> SUBSET Cidr]
      /\ toK8s \in [Node -> Writes \cup {None}]
      /\ syncing = {}
  BY DEF Init, Fresh
<1>7. dirty \subseteq Node /\ initial \subseteq dirty
  BY DEF Init, Exists
<1>8. crashes \in 0 .. MaxCrashes /\ churn \in 0 .. MaxChurn /\ errors \in 0 .. MaxErrors
  BY PodCIDRsAssumption, SMT DEF Init
<1> QED BY <1>3, <1>4, <1>5, <1>6, <1>7, <1>8 DEF TypeOK

\* One turn of syncToK8s.
LEMMA SyncTypes ==
  ASSUME TypeOK, NEW n \in Node, syncToK8s(n)
  PROVE  /\ WrittenTypes
         /\ toK8s' \in [Node -> Writes \cup {None}]
         /\ syncing' \subseteq {m \in Node : toK8s'[m] # None}
         /\ errors' \in 0 .. MaxErrors
<1>1. n \in syncing /\ toK8s[n] \in Writes /\ toK8s[n] # None
  BY DEF syncToK8s, TypeOK
<1>2. syncing \subseteq {m \in Node : toK8s[m] # None}
  BY DEF TypeOK
<1>3. ASSUME NEW o \in Object, put(n, o)
      PROVE  WrittenTypes
  BY <1>3, WriteTypes DEF put, TypeOK, WrittenTypes
<1>4. UNCHANGED <<cn, store, event, nodesToAllocate>> => WrittenTypes
  BY DEF TypeOK, WrittenTypes
<1>5. ASSUME done(n)
      PROVE  /\ toK8s' \in [Node -> Writes \cup {None}]
             /\ syncing \ {n} \subseteq {m \in Node : toK8s'[m] # None}
  BY <1>2, <1>5 DEF done, TypeOK
<1>6. ASSUME NEW w \in Writes, toK8s' = [toK8s EXCEPT ![n] = w]
      PROVE  /\ toK8s' \in [Node -> Writes \cup {None}]
             /\ syncing \subseteq {m \in Node : toK8s'[m] # None}
  BY <1>2, <1>6, NoneApart DEF TypeOK
<1>7. ASSUME NEW op \in {"update", "written", "status", "delete"}, conflict(n, op)
      PROVE  /\ toK8s' \in [Node -> Writes \cup {None}]
             /\ syncing \subseteq {m \in Node : toK8s'[m] # None}
  <2>1. toK8s' = [toK8s EXCEPT ![n] = [toK8s[n] EXCEPT !.current = TRUE, !.op = op]]
    BY <1>7 DEF conflict, TypeOK
  <2>2. [toK8s[n] EXCEPT !.current = TRUE, !.op = op] \in Writes
    BY <1>1, QueuedTypes
  <2> QED BY <1>6, <2>1, <2>2
<1>8. ASSUME NEW op \in {"update", "written", "status", "delete"},
             toK8s' = [toK8s EXCEPT ![n].op = op]
      PROVE  /\ toK8s' \in [Node -> Writes \cup {None}]
             /\ syncing \subseteq {m \in Node : toK8s'[m] # None}
  <2>1. [toK8s[n] EXCEPT !.op = op] \in Writes
    BY <1>1, QueuedTypes
  <2> QED BY <1>6, <1>8, <2>1
<1>9. cn[n] # None => /\ [cn[n] EXCEPT !.cidrs = toK8s[n].cidrs] \in Object
                      /\ [cn[n] EXCEPT !.err = toK8s[n].err] \in Object
  BY <1>1, SMT DEF TypeOK, Object, Writes
<1>10. /\ toK8s[n].op \in {"update", "written", "status", "delete"}
       /\ retried(toK8s[n].op) \in {"update", "written", "status", "delete"}
  BY <1>1 DEF Writes, retried
<1>11. CASE UpdateSpec(n) /\ UNCHANGED errors
  <2>1. CASE done(n) /\ syncing' = syncing \ {n} /\ UNCHANGED <<cn, store, event, nodesToAllocate>>
    BY <1>4, <1>5, <1>11, <2>1 DEF TypeOK
  <2>2. CASE /\ conflict(n, "update") /\ syncing' = syncing \ {n}
             /\ UNCHANGED <<cn, store, event, nodesToAllocate>>
    BY <1>4, <1>7, <1>11, <2>2 DEF TypeOK
  <2>3. CASE /\ cn[n] # None /\ put(n, [cn[n] EXCEPT !.cidrs = toK8s[n].cidrs])
             /\ toK8s' = [toK8s EXCEPT ![n].op = "written"] /\ UNCHANGED syncing
    BY <1>3, <1>8, <1>9, <1>11, <2>3 DEF TypeOK
  <2> QED BY <1>11, <2>1, <2>2, <2>3 DEF UpdateSpec
<1>12. CASE UpdateStatus(n) /\ UNCHANGED errors
  <2>1. syncing' = syncing \ {n}
    BY <1>12 DEF UpdateStatus
  <2>2. CASE done(n) /\ UNCHANGED <<cn, store, event, nodesToAllocate>>
    BY <1>4, <1>5, <1>12, <2>1, <2>2 DEF TypeOK
  <2>3. CASE conflict(n, retried(toK8s[n].op)) /\ UNCHANGED <<cn, store, event, nodesToAllocate>>
    BY <1>4, <1>7, <1>10, <1>12, <2>1, <2>3 DEF TypeOK
  <2>4. CASE cn[n] # None /\ put(n, [cn[n] EXCEPT !.err = toK8s[n].err]) /\ done(n)
    BY <1>3, <1>5, <1>9, <1>12, <2>1, <2>4 DEF TypeOK
  <2> QED BY <1>12, <2>2, <2>3, <2>4 DEF UpdateStatus
<1>13. CASE CheckDeleted(n) /\ UNCHANGED errors
  BY <1>4, <1>5, <1>13 DEF CheckDeleted, TypeOK
<1>14. CASE SyncFails(n)
  <2>1. toK8s' = [toK8s EXCEPT ![n].op = retried(toK8s[n].op)]
    BY <1>14 DEF SyncFails, TypeOK
  <2>2. errors' \in 0 .. MaxErrors
    BY <1>14, PodCIDRsAssumption, SMT DEF SyncFails, TypeOK
  <2> QED BY <1>4, <1>8, <1>10, <1>14, <2>1, <2>2 DEF SyncFails
<1> QED BY <1>11, <1>12, <1>13, <1>14 DEF syncToK8s

\* Every step keeps the types.
LEMMA TypeStep == TypeOK /\ [Next]_vars => TypeOK'
<1> SUFFICES ASSUME TypeOK, [Next]_vars PROVE TypeOK'
  OBVIOUS
<1>1. ASSUME NEW n \in Node, toK8s' = [toK8s EXCEPT ![n] = Outdated(@)]
      PROVE  /\ toK8s' \in [Node -> Writes \cup {None}]
             /\ syncing \subseteq {m \in Node : toK8s'[m] # None}
  <2>1. toK8s[n] # None => /\ Outdated(toK8s[n]) = [toK8s[n] EXCEPT !.current = FALSE]
                           /\ [toK8s[n] EXCEPT !.current = FALSE] \in Writes
    BY DEF Outdated, TypeOK, Writes
  <2>2. toK8s[n] = None => Outdated(toK8s[n]) = None
    BY DEF Outdated
  <2>3. toK8s' = [toK8s EXCEPT ![n] = Outdated(toK8s[n])]
    BY <1>1 DEF TypeOK
  <2> HIDE DEF Writes
  <2> QED BY <2>1, <2>2, <2>3, PodCIDRsAssumption DEF TypeOK
<1>2. ASSUME NEW n \in Node, CreateCiliumNode(n)
      PROVE  TypeOK'
  <2>1. [cidrs |-> NoCIDRs, err |-> FALSE] \in Object
    BY DEF Object, CIDRs, NoCIDRs
  <2>2. WrittenTypes
    BY <1>2, <2>1, WriteTypes DEF CreateCiliumNode
  <2>3. toK8s' \in [Node -> Writes \cup {None}] /\ syncing \subseteq {m \in Node : toK8s'[m] # None}
    BY <1>1, <1>2 DEF CreateCiliumNode
  <2> QED BY <1>2, <2>2, <2>3 DEF CreateCiliumNode, bounds, WrittenTypes, TypeOK
<1>3. ASSUME NEW n \in Node, DeleteCiliumNode(n)
      PROVE  TypeOK'
  <2>1. WrittenTypes
    BY <1>3, WriteTypes DEF DeleteCiliumNode
  <2>2. toK8s' \in [Node -> Writes \cup {None}] /\ syncing \subseteq {m \in Node : toK8s'[m] # None}
    BY <1>1, <1>3 DEF DeleteCiliumNode
  <2>3. churn' \in 0 .. MaxChurn
    BY <1>3, PodCIDRsAssumption, SMT DEF DeleteCiliumNode, TypeOK
  <2> QED BY <1>3, <2>1, <2>2, <2>3 DEF DeleteCiliumNode, WrittenTypes, TypeOK
<1>4. ASSUME NEW n \in Node, Touch(n)
      PROVE  TypeOK'
  <2>1. WrittenTypes
    BY <1>4, WriteTypes DEF Touch, TypeOK
  <2>2. toK8s' \in [Node -> Writes \cup {None}] /\ syncing \subseteq {m \in Node : toK8s'[m] # None}
    BY <1>1, <1>4 DEF Touch
  <2>3. churn' \in 0 .. MaxChurn
    BY <1>4, PodCIDRsAssumption, SMT DEF Touch, TypeOK
  <2> QED BY <1>4, <2>1, <2>2, <2>3 DEF Touch, WrittenTypes, TypeOK
<1>5. ASSUME NEW n \in Node, Reflect(n)
      PROVE  TypeOK'
  <2>1. Copy(cn[n]) \in Copies \cup {None}
    BY CopyType DEF TypeOK
  <2> QED BY <1>5, <2>1 DEF Reflect, mgrVars, bounds, TypeOK
<1>6. ASSUME NEW n \in Node, Dispatch(n)
      PROVE  TypeOK'
  <2>1. [node |-> n, obj |-> store[n]] \in Events
    BY DEF Events, TypeOK
  <2> QED BY <1>6, <2>1 DEF Dispatch, mgrVars, bounds, TypeOK
<1>7. ASSUME NEW n \in Node, Upsert(n)
      PROVE  TypeOK'
  <2>1. event.obj \in Copies
    BY <1>7 DEF Upsert, TypeOK, Events
  <2>2. UpsertEffect(n, event.obj)
    BY <1>7, <2>1, UpsertHasEffect DEF Upsert
  <2> QED BY <1>7, <2>1, <2>2, UpsertTypes DEF Upsert, bounds, TypeOK
<1>8. ASSUME NEW n \in Node, Delete(n)
      PROVE  TypeOK'
  <2>1. syncing = {}
    BY <1>8 DEF Delete, Unlocked
  <2>2. [op |-> "delete", cidrs |-> NoCIDRs, err |-> FALSE, current |-> FALSE] \in Writes
    BY DEF Writes, CIDRs, NoCIDRs
  <2>3. toK8s' \in [Node -> Writes \cup {None}]
    BY <1>8, <2>2 DEF Delete, TypeOK
  <2>4. nodes' \in [Node -> CIDRs \cup {None}] /\ used' \in [Family -> SUBSET Cidr]
    BY <1>8, SMT DEF Delete, releaseIPNets, TypeOK
  <2> QED BY <1>8, <2>1, <2>3, <2>4 DEF Delete, bounds, TypeOK
<1>9. ASSUME NEW n \in Node, ResyncNode(n)
      PROVE  TypeOK'
  <2>1. nodesToAllocate[n] \in Copies
    BY <1>9 DEF ResyncNode, TypeOK
  <2>2. UpsertEffect(n, nodesToAllocate[n])
    BY <1>9, <2>1, UpsertHasEffect DEF ResyncNode
  <2> QED BY <1>9, <2>1, <2>2, UpsertTypes DEF ResyncNode, apiVars, bounds, TypeOK
<1>10. ASSUME NEW n \in Node, syncToK8s(n)
       PROVE  TypeOK'
  <2>1. UNCHANGED <<dirty, initial, canAllocatePodCIDRs, nodes, used, crashes, churn, sane>>
    BY <1>10 DEF syncToK8s
  <2> QED BY <1>10, <2>1, SyncTypes DEF WrittenTypes, TypeOK
<1>11. CASE Resync
  BY <1>11 DEF Resync, apiVars, bounds, TypeOK
<1>12. CASE StartSync
  BY <1>12 DEF StartSync, apiVars, mgrVars, bounds, TypeOK
<1>13. CASE Crash
  <2>1. store' \in [Node -> Copies \cup {None}]
    BY <1>13, CopyType DEF Crash, TypeOK
  <2>2. crashes' \in 0 .. MaxCrashes
    BY <1>13, PodCIDRsAssumption, SMT DEF Crash, TypeOK
  <2> QED BY <1>13, <2>1, <2>2 DEF Crash, Exists, TypeOK
<1>14. CASE UNCHANGED vars
  BY <1>14 DEF vars, TypeOK
<1> QED BY <1>2, <1>3, <1>4, <1>5, <1>6, <1>7, <1>8, <1>9, <1>10, <1>11, <1>12, <1>13, <1>14 DEF Next

\* Type correctness of the pod CIDR manager, whatever the CiliumNodes ask for.
THEOREM TypeCorrect == Spec => []TypeOK
<1> QED BY TypeInit, TypeStep, PTL DEF Spec

(***************************************************************************)
(* Accounting.                                                             *)
(***************************************************************************)
\* PoolAccounted, element by element.
LEMMA AccountedFacts ==
  PoolAccounted <=>
    \A f \in Family :
      /\ \A c : c \in used[f] <=> c # None /\ \E n \in Node : nodes[n] # None /\ nodes[n][f] = c
      /\ \A n, m \in Node : n # m /\ nodes[n] # None /\ nodes[m] # None
                              => nodes[n][f] = None \/ nodes[n][f] # nodes[m][f]
BY SMT DEF PoolAccounted

\* Taking the CIDRs of an attempt keeps bitmaps and table in agreement.
LEMMA TakeAccounted ==
  ASSUME TypeOK, PoolAccounted, NEW n \in Node, NEW got, Taken(n, got)
  PROVE  PoolAccounted'
<1>1. nodes' = [nodes EXCEPT ![n] = entry(n, got)]
  BY DEF Taken, take
<1>2. nodes'[n] = entry(n, got) /\ \A m \in Node \ {n} : nodes'[m] = nodes[m]
  BY <1>1 DEF TypeOK
<1>3. entry(n, got) \in CIDRs /\ entry(n, got) # None
  BY EntryType, PodCIDRsAssumption, SMT DEF Taken
<1> SUFFICES ASSUME NEW f \in Family
             PROVE  /\ \A c : c \in used'[f] <=>
                         c # None /\ \E m \in Node : nodes'[m] # None /\ nodes'[m][f] = c
                    /\ \A k, m \in Node : k # m /\ nodes'[k] # None /\ nodes'[m] # None
                         => nodes'[k][f] = None \/ nodes'[k][f] # nodes'[m][f]
  BY AccountedFacts, SMT DEF PoolAccounted
<1>4. used'[f] = used[f] \cup ({got[f]} \cap Cidr)
  BY DEF Taken, take
<1>5. entry(n, got)[f] = IF got[f] \in Cidr THEN got[f]
                         ELSE IF nodes[n] = None THEN None ELSE nodes[n][f]
  BY DEF entry
<1>6. /\ \A c : c \in used[f] <=> c # None /\ \E m \in Node : nodes[m] # None /\ nodes[m][f] = c
      /\ \A k, m \in Node : k # m /\ nodes[k] # None /\ nodes[m] # None
                              => nodes[k][f] = None \/ nodes[k][f] # nodes[m][f]
  BY AccountedFacts
<1>7. CASE got[f] \in Cidr
  <2>1. got[f] \notin used[f] /\ got[f] # None /\ (nodes[n] = None \/ nodes[n][f] = None)
    BY <1>7, PodCIDRsAssumption DEF Taken
  <2> QED BY <1>2, <1>3, <1>4, <1>5, <1>6, <1>7, <2>1, SMT
<1>8. CASE got[f] \notin Cidr
  BY <1>2, <1>3, <1>4, <1>5, <1>6, <1>8, SMT
<1> QED BY <1>7, <1>8

\* Releasing the CIDRs of a node does so, too.
LEMMA ReleaseAccounted ==
  ASSUME TypeOK, PoolAccounted, NEW n \in Node, nodes[n] # None, releaseIPNets(n)
  PROVE  PoolAccounted'
<1>1. nodes'[n] = None /\ \A m \in Node \ {n} : nodes'[m] = nodes[m]
  BY DEF releaseIPNets, TypeOK
<1> SUFFICES ASSUME NEW f \in Family
             PROVE  /\ \A c : c \in used'[f] <=>
                         c # None /\ \E m \in Node : nodes'[m] # None /\ nodes'[m][f] = c
                    /\ \A k, m \in Node : k # m /\ nodes'[k] # None /\ nodes'[m] # None
                         => nodes'[k][f] = None \/ nodes'[k][f] # nodes'[m][f]
  BY AccountedFacts, SMT DEF PoolAccounted
<1>2. used'[f] = used[f] \ {nodes[n][f]}
  BY DEF releaseIPNets
<1> QED BY <1>1, <1>2, AccountedFacts, SMT

\* Every step keeps bitmaps and table in agreement.
LEMMA AccountedStep == TypeOK /\ PoolAccounted /\ [Next]_vars => PoolAccounted'
<1> SUFFICES ASSUME TypeOK, PoolAccounted, [Next]_vars PROVE PoolAccounted'
  OBVIOUS
<1>1. UNCHANGED <<nodes, used>> => PoolAccounted'
  BY SMT DEF PoolAccounted
<1>2. ASSUME NEW n \in Node, Upsert(n)
      PROVE  PoolAccounted'
  <2>1. event.obj \in Copies
    BY <1>2 DEF Upsert, TypeOK, Events
  <2>2. UpsertEffect(n, event.obj)
    BY <1>2, <2>1, UpsertHasEffect DEF Upsert
  <2> QED BY <1>1, <2>2, TakeAccounted DEF UpsertEffect
<1>3. ASSUME NEW n \in Node, ResyncNode(n)
      PROVE  PoolAccounted'
  <2>1. nodesToAllocate[n] \in Copies
    BY <1>3 DEF ResyncNode, TypeOK
  <2>2. UpsertEffect(n, nodesToAllocate[n])
    BY <1>3, <2>1, UpsertHasEffect DEF ResyncNode
  <2> QED BY <1>1, <2>2, TakeAccounted DEF UpsertEffect
<1>4. ASSUME NEW n \in Node, Delete(n)
      PROVE  PoolAccounted'
  BY <1>1, <1>4, ReleaseAccounted DEF Delete
<1>5. CASE Crash
  BY <1>5 DEF Crash, PoolAccounted
<1>6. ASSUME NEW n \in Node,
             CreateCiliumNode(n) \/ DeleteCiliumNode(n) \/ Touch(n) \/ Reflect(n) \/ Dispatch(n)
               \/ syncToK8s(n)
      PROVE  PoolAccounted'
  BY <1>1, <1>6 DEF CreateCiliumNode, DeleteCiliumNode, Touch, Reflect, Dispatch, syncToK8s, mgrVars
<1>7. CASE Resync \/ StartSync \/ UNCHANGED vars
  BY <1>1, <1>7 DEF Resync, StartSync, mgrVars, vars
<1> QED BY <1>2, <1>3, <1>4, <1>5, <1>6, <1>7 DEF Next

\* The bitmaps hold exactly the CIDRs in the table of nodes, and no CIDR is there
\* twice: allocateIPNet and AllocateNext return free CIDRs only, for families the
\* node had none of, a failed attempt is undone, and Delete releases what the
\* node had.  This holds from any CiliumNodes, and however names are used again.
THEOREM PoolsAccounted == Spec => []PoolAccounted
<1>1. Init => PoolAccounted
  BY SMT DEF Init, Fresh, PoolAccounted
<1> QED BY <1>1, AccountedStep, TypeCorrect, PTL DEF Spec

(***************************************************************************)
(* No CIDR twice, and none taken away.                                     *)
(***************************************************************************)
\* CIDRs of the pools, of all families.
Full(k) == Whole(k) /\ \A f \in Enabled : k[f] \in Pool[f]

\* A copy of a CiliumNode is bare or has the CIDRs k; it has them.
Of(o, k) == o # None => o.cidrs \in {NoCIDRs, k}
Is(o, k) == o # None => o.cidrs = k

EventOf(n) == event # None /\ event.node = n

\* The CIDRs of node n are k, here and in the API server.  If the manager does not
\* know of them, it has yet to come to the node in the initial list.
Owns(n, k) ==
  /\ k # NoCIDRs => Full(k)
  /\ Of(cn[n], k) /\ Of(store[n], k) /\ Of(nodesToAllocate[n], k)
  /\ EventOf(n) => Of(event.obj, k)
  /\ nodes[n] # None => nodes[n] = k /\ k # NoCIDRs
  /\ toK8s[n] # None /\ toK8s[n].op \in {"update", "written"}
       => nodes[n] # None /\ toK8s[n].cidrs = k
  /\ k # NoCIDRs /\ nodes[n] = None =>
       /\ ~canAllocatePodCIDRs
       /\ nodesToAllocate[n] = None
       /\ Is(cn[n], k) /\ Is(store[n], k)
       /\ EventOf(n) => Is(event.obj, k)
       /\ n \in initial \/ EventOf(n)

Apart(own) ==
  \A n, m \in Node, f \in Enabled : n # m /\ own[n][f] # None => own[n][f] # own[m][f]

Owned(own) == Apart(own) /\ \A n \in Node : Owns(n, own[n])

\* The object of a deletion event is gone, in the API server and in the store.
Gone ==
  /\ event # None /\ event.obj = None => cn[event.node] = None /\ store[event.node] = None
  /\ \A n \in dirty : store[n] = None => cn[n] = None

OwnInv == Gone /\ \E own \in [Node -> CIDRs] : Owned(own)

\* A node with all its CIDRs has one of each enabled family.
LEMMA FullFacts ==
  ASSUME NEW k, Full(k)
  PROVE  /\ k # NoCIDRs
         /\ \A f \in Family : f \in Enabled => k[f] \in Pool[f] /\ k[f] \in Cidr /\ k[f] # None
         /\ \A f \in Family : f \notin Enabled => k[f] = None
<1>1. Enabled \subseteq Family /\ Enabled # {}
  BY PodCIDRsAssumption DEF Enabled
<1>2. \A f \in Family : f \in Enabled => k[f] \in Pool[f] /\ k[f] \in Cidr /\ k[f] # None
  BY PodCIDRsAssumption DEF Full
<1>3. \A f \in Family : f \notin Enabled => k[f] = None
  BY DEF Full, Whole
<1> QED BY <1>1, <1>2, <1>3 DEF NoCIDRs

\* The manager and the node agree already, or only a status is to be written.
Agreed(n, k) ==
  /\ nodes' = nodes
  /\ nodes[n] = None => k = NoCIDRs
  /\ \/ toK8s' = toK8s
     \/ \E w \in Writes : /\ toK8s' = [toK8s EXCEPT ![n] = w]
                          /\ w.op = "status" \/ (w.op = "update" /\ nodes[n] # None /\ w.cidrs = k)

\* The node gets the CIDRs k in the tables of the manager.
Given(n, k) ==
  /\ nodes[n] = None
  /\ Full(k) /\ k \in CIDRs
  /\ nodes' = [nodes EXCEPT ![n] = k]
  /\ \E w \in Writes : /\ toK8s' = [toK8s EXCEPT ![n] = w]
                       /\ w.op = "update" /\ w.cidrs = k

Waiting(n, o, k) ==
  \/ UNCHANGED nodesToAllocate
  \/ nodesToAllocate' = [nodesToAllocate EXCEPT ![n] = None]
  \/ /\ nodesToAllocate' = [nodesToAllocate EXCEPT ![n] = o]
     /\ nodes' = nodes
     /\ nodes[n] # None \/ k = NoCIDRs

\* A bare CiliumNode: CIDRs that are new are those of no other node.
LEMMA BareUpsert ==
  ASSUME TypeOK, PoolAccounted, NEW own \in [Node -> CIDRs], Owned(own),
         NEW n \in Node, NEW o \in Copies, o.cidrs = NoCIDRs,
         nodes[n] # None \/ own[n] = NoCIDRs,
         postpone(n, o) \/ allocateNext(n, o)
  PROVE  /\ Waiting(n, o, own[n])
         /\ \/ Agreed(n, own[n])
            \/ /\ own[n] = NoCIDRs
               /\ \E k : /\ Given(n, k)
                         /\ \A m \in Node \ {n}, f \in Enabled : own[m][f] # k[f]
<1>1. CASE postpone(n, o)
  BY <1>1 DEF postpone, Waiting, Agreed
<1>2. CASE allocateNext(n, o)
  <2>1. Waiting(n, o, own[n]) /\ canAllocatePodCIDRs
    BY <1>2 DEF allocateNext, allowed, settle, Waiting
  <2>2. CASE /\ nodes[n] # None
             /\ syncNode(n, "update", nodes[n], FALSE, o)
             /\ UNCHANGED <<nodes, used>>
    <3>1. nodes[n] = own[n]
      BY <2>2 DEF Owned, Owns
    <3>2. [op |-> "update", cidrs |-> nodes[n], err |-> FALSE, current |-> o.current] \in Writes
      BY <2>2 DEF Writes, Copies, TypeOK
    <3>3. Agreed(n, own[n])
      BY <2>2, <3>1, <3>2 DEF Agreed, syncNode
    <3> QED BY <2>1, <3>3
  <2>3. CASE nodes[n] = None
    <3>1. PICK got \in Attempts(n, NoCIDRs) :
            IF \E f \in Family : got[f] = "fail"
            THEN report(n, o.cidrs, o) /\ UNCHANGED <<nodes, used>>
            ELSE take(n, got) /\ syncNode(n, "update", entry(n, got), FALSE, o)
      BY <1>2, <2>3 DEF allocateNext
    <3>2. CASE \E f \in Family : got[f] = "fail"
      <4>1. [op |-> "status", cidrs |-> o.cidrs, err |-> TRUE, current |-> o.current] \in Writes
        BY DEF Writes, Copies
      <4>2. Agreed(n, own[n])
        BY <2>3, <3>1, <3>2, <4>1 DEF Agreed, report, syncNode
      <4> QED BY <2>1, <4>2
    <3>3. CASE ~ \E f \in Family : got[f] = "fail"
      <4> DEFINE k == entry(n, got)
      <4>1. take(n, got) /\ syncNode(n, "update", k, FALSE, o)
        BY <3>1, <3>3
      <4>2. NoCIDRs \in CIDRs
        BY DEF CIDRs, NoCIDRs
      <4>3. /\ got \in [Family -> Cidr \cup {None, "fail", "dup"}]
            /\ \A f \in Family : got[f] \in attempt(n, NoCIDRs, f)
        BY <4>2, AttemptFacts
      <4>4. k \in CIDRs
        BY <4>3, EntryType
      <4>5. ASSUME NEW f \in Family
            PROVE  IF f \in Enabled THEN k[f] \in Pool[f] \ used[f] /\ k[f] # None ELSE k[f] = None
        <5>1. got[f] \in attempt(n, NoCIDRs, f) /\ got[f] # "fail"
          BY <3>3, <4>3
        <5>2. NoCIDRs[f] = None
          BY DEF NoCIDRs
        <5>3. k[f] = IF got[f] \in Cidr THEN got[f] ELSE None
          BY <2>3 DEF entry
        <5>4. CASE f \in Enabled
          <6>1. got[f] \in Pool[f] \ used[f]
            BY <2>3, <5>1, <5>2, <5>4 DEF attempt, mayAllocate, allocateFirstFreeCIDR
          <6> QED BY <5>3, <5>4, <6>1, PodCIDRsAssumption
        <5>5. CASE f \notin Enabled
          <6>1. got[f] = None
            BY <5>1, <5>5 DEF attempt, mayAllocate
          <6> QED BY <5>3, <5>5, <6>1, PodCIDRsAssumption
        <5> QED BY <5>4, <5>5
      <4>6. nodes' = [nodes EXCEPT ![n] = k]
        BY <4>1 DEF take
      <4>7. [op |-> "update", cidrs |-> k, err |-> FALSE, current |-> o.current] \in Writes
        BY <4>4 DEF Writes, Copies
      <4>8. \E w \in Writes : toK8s' = [toK8s EXCEPT ![n] = w] /\ w.op = "update" /\ w.cidrs = k
        BY <4>1, <4>7 DEF syncNode
      <4> HIDE DEF k
      <4>9. Full(k)
        BY <4>5, PodCIDRsAssumption DEF Full, Whole, Enabled
      <4>10. ASSUME NEW m \in Node \ {n}, NEW f \in Enabled, own[m][f] = k[f]
             PROVE  FALSE
        <5>1. f \in Family /\ k[f] \notin used[f] /\ k[f] # None
          BY <4>5 DEF Enabled
        <5>2. own[m] # NoCIDRs
          BY <4>10, <5>1 DEF NoCIDRs
        <5>3. nodes[m] = own[m] /\ nodes[m] # None
          BY <2>1, <5>2 DEF Owned, Owns
        <5> QED BY <4>10, <5>1, <5>3, AccountedFacts
      <4>11. Given(n, k)
        BY <2>3, <4>4, <4>6, <4>8, <4>9 DEF Given
      <4> QED BY <2>1, <2>3, <4>10, <4>11
    <3> QED BY <3>2, <3>3
  <2> QED BY <1>2, <2>2, <2>3 DEF allocateNext
<1> QED BY <1>1, <1>2

\* A CiliumNode with its CIDRs: they are free, or the node has them already.
LEMMA FullUpsert ==
  ASSUME TypeOK, PoolAccounted, NEW own \in [Node -> CIDRs], Owned(own),
         NEW n \in Node, NEW o \in Copies, o.cidrs = own[n], own[n] # NoCIDRs,
         reuseIPNets(n, o)
  PROVE  /\ Waiting(n, o, own[n])
         /\ Agreed(n, own[n]) \/ Given(n, own[n])
<1> DEFINE c == own[n]
<1>1. Full(c) /\ c \in CIDRs
  BY DEF Owned, Owns
<1>2. /\ \A f \in Family : f \in Enabled => c[f] \in Pool[f] /\ c[f] \in Cidr /\ c[f] # None
      /\ \A f \in Family : f \notin Enabled => c[f] = None
  BY <1>1, FullFacts
<1>3. PICK got \in Attempts(n, c) :
        IF rejected(n, c, got)
        THEN /\ report(n, IF nodes[n] = None THEN c ELSE nodes[n], o)
             /\ settle(n)
             /\ UNCHANGED <<nodes, used>>
        ELSE IF \E f \in Family : got[f] = "dup"
        THEN /\ take(n, got)
             /\ report(n, entry(n, got), o)
             /\ settle(n)
        ELSE IF \E f \in Family : got[f] \in Cidr
        THEN /\ take(n, got)
             /\ syncNode(n, "update", entry(n, got), FALSE, o)
             /\ settle(n)
        ELSE \/ postpone(n, o)
             \/ /\ canAllocatePodCIDRs
                /\ IF o.err THEN syncNode(n, "status", o.cidrs, FALSE, o) ELSE UNCHANGED toK8s
                /\ settle(n)
                /\ UNCHANGED <<nodes, used>>
  BY DEF reuseIPNets
<1>4. /\ got \in [Family -> Cidr \cup {None, "fail", "dup"}]
      /\ \A f \in Family : got[f] \in attempt(n, c, f)
  BY <1>1, AttemptFacts
<1>5. Enabled \subseteq Family /\ Enabled # {}
  BY PodCIDRsAssumption DEF Enabled
<1>6. settle(n) => Waiting(n, o, c)
  BY DEF settle, Waiting
<1> HIDE DEF c
<1>7. CASE nodes[n] # None
  <2>1. nodes[n] = c
    BY <1>7 DEF Owned, Owns, c
  <2>2. \A f \in Family : got[f] = None
    BY <1>2, <1>4, <1>7, <2>1 DEF attempt, mayAllocate
  <2>3. ~rejected(n, c, got)
    <3>1. ~changes(n, c)
      BY <2>1 DEF changes
    <3> QED BY <1>2, <1>5, <2>2, <3>1, PodCIDRsAssumption DEF rejected
  <2>4. \/ postpone(n, o)
        \/ /\ syncNode(n, "status", o.cidrs, FALSE, o) \/ UNCHANGED toK8s
           /\ settle(n)
           /\ UNCHANGED <<nodes, used>>
    BY <1>3, <2>2, <2>3, PodCIDRsAssumption
  <2>5. [op |-> "status", cidrs |-> o.cidrs, err |-> FALSE, current |-> o.current] \in Writes
    BY DEF Writes, Copies
  <2>6. Agreed(n, c)
    BY <1>7, <2>4, <2>5 DEF postpone, syncNode, Agreed
  <2>7. Waiting(n, o, c)
    BY <1>6, <1>7, <2>4 DEF postpone, Waiting
  <2> QED BY <2>6, <2>7 DEF c
<1>8. CASE nodes[n] = None
  <2>1. ASSUME NEW f \in Enabled
        PROVE  got[f] = c[f]
    <3>1. f \in Family /\ c[f] \in Pool[f] /\ c[f] # None
      BY <1>2, <1>5
    <3>2. c[f] \notin used[f]
      <4> SUFFICES ASSUME c[f] \in used[f] PROVE FALSE
        OBVIOUS
      <4>1. PICK m \in Node : nodes[m] # None /\ nodes[m][f] = c[f]
        BY <3>1, AccountedFacts
      <4>2. m # n /\ nodes[m] = own[m]
        BY <1>8, <4>1 DEF Owned, Owns
      <4> QED BY <3>1, <4>1, <4>2 DEF Owned, Apart, c
    <3>3. attempt(n, c, f) = {c[f]}
      BY <1>8, <3>1, <3>2 DEF attempt, mayAllocate, allocateIPNet
    <3> QED BY <1>4, <3>1, <3>3
  <2>2. \A f \in Family : f \notin Enabled => got[f] = None
    BY <1>4 DEF attempt, mayAllocate
  <2>3. \A f \in Family : got[f] = c[f] /\ got[f] \notin {"fail", "dup"}
    BY <1>2, <2>1, <2>2, PodCIDRsAssumption
  <2>4. ~rejected(n, c, got)
    BY <1>2, <1>5, <1>8, <2>3 DEF rejected, changes
  <2>5. \E f \in Family : got[f] \in Cidr
    BY <1>2, <1>5, <2>3
  <2>6. take(n, got) /\ syncNode(n, "update", entry(n, got), FALSE, o) /\ settle(n)
    BY <1>3, <2>3, <2>4, <2>5
  <2>7. entry(n, got) = c
    <3>1. c = [f \in Family |-> c[f]]
      BY <1>1 DEF CIDRs, c
    <3>2. \A f \in Family : (IF got[f] \in Cidr THEN got[f]
                              ELSE IF nodes[n] = None THEN None ELSE nodes[n][f]) = c[f]
      BY <1>2, <1>8, <2>3
    <3> QED BY <3>1, <3>2 DEF entry
  <2>8. [op |-> "update", cidrs |-> c, err |-> FALSE, current |-> o.current] \in Writes
    BY <1>1 DEF Writes, Copies, c
  <2>9. Given(n, c)
    BY <1>1, <1>8, <2>6, <2>7, <2>8 DEF Given, take, syncNode, c
  <2> QED BY <1>6, <2>6, <2>9 DEF c
<1> QED BY <1>7, <1>8

\* The same for any CiliumNode the manager is called with.
LEMMA OwnUpsert ==
  ASSUME TypeOK, PoolAccounted, NEW own \in [Node -> CIDRs], Owned(own),
         NEW n \in Node, NEW o \in Copies, o.cidrs \in {NoCIDRs, own[n]},
         nodes[n] = None => o.cidrs = own[n],
         upsertLocked(n, o)
  PROVE  \E k \in CIDRs :
           /\ k = own[n] \/ own[n] = NoCIDRs
           /\ k # own[n] => \A m \in Node \ {n}, f \in Enabled : own[m][f] # k[f]
           /\ Waiting(n, o, own[n])
           /\ (Agreed(n, own[n]) /\ k = own[n]) \/ Given(n, k)
<1>1. CASE o.cidrs = NoCIDRs
  <2>1. postpone(n, o) \/ allocateNext(n, o)
    BY <1>1 DEF upsertLocked
  <2>2. nodes[n] # None \/ own[n] = NoCIDRs
    BY <1>1
  <2>3. /\ Waiting(n, o, own[n])
        /\ \/ Agreed(n, own[n])
           \/ /\ own[n] = NoCIDRs
              /\ \E k : /\ Given(n, k)
                        /\ \A m \in Node \ {n}, f \in Enabled : own[m][f] # k[f]
    BY <1>1, <2>1, <2>2, BareUpsert
  <2> QED BY <2>3 DEF Given
<1>2. CASE o.cidrs # NoCIDRs
  <2>1. reuseIPNets(n, o) /\ o.cidrs = own[n] /\ own[n] # NoCIDRs
    BY <1>2 DEF upsertLocked
  <2>2. Waiting(n, o, own[n]) /\ (Agreed(n, own[n]) \/ Given(n, own[n]))
    BY <2>1, FullUpsert
  <2> QED BY <2>2
<1> QED BY <1>1, <1>2

\* An upsert that leaves node n with the CIDRs k, its own or new ones, keeps the
\* CIDRs of all nodes apart and in agreement.
LEMMA UpsertOwned ==
  ASSUME TypeOK, NEW own \in [Node -> CIDRs], Owned(own), NEW n \in Node, NEW o \in Copies,
         o.cidrs \in {NoCIDRs, own[n]},
         NEW k \in CIDRs,
         k = own[n] \/ own[n] = NoCIDRs,
         k # own[n] => \A m \in Node \ {n}, f \in Enabled : own[m][f] # k[f],
         Waiting(n, o, own[n]),
         (Agreed(n, own[n]) /\ k = own[n]) \/ Given(n, k),
         UNCHANGED <<cn, store, initial, canAllocatePodCIDRs>>,
         event' = event \/ (event' = None /\ EventOf(n))
  PROVE  \E new \in [Node -> CIDRs] : Owned(new)'
<1> DEFINE new == [own EXCEPT ![n] = k]
<1>1. new \in [Node -> CIDRs] /\ new[n] = k /\ \A m \in Node \ {n} : new[m] = own[m]
  OBVIOUS
<1> HIDE DEF new
<1>2. Apart(new)
  <2>1. \A i, j \in Node, f \in Enabled : i # j /\ own[i][f] # None => own[i][f] # own[j][f]
    BY DEF Owned, Apart
  <2>2. CASE k = own[n]
    BY <1>1, <2>1, <2>2, SMT DEF Apart
  <2>3. CASE k # own[n]
    BY <1>1, <2>1, <2>3, SMT DEF Apart
  <2> QED BY <2>2, <2>3
<1>3. ASSUME NEW m \in Node \ {n}
      PROVE  Owns(m, own[m])'
  <2>1. Owns(m, own[m])
    BY DEF Owned
  <2>2. nodes'[m] = nodes[m] /\ toK8s'[m] = toK8s[m] /\ nodesToAllocate'[m] = nodesToAllocate[m]
    BY DEF Agreed, Given, Waiting, TypeOK
  <2>3. EventOf(m)' <=> EventOf(m) /\ event' = event
    BY DEF EventOf
  <2>4. EventOf(m) => event' = event
    BY DEF EventOf
  <2> QED BY <2>1, <2>2, <2>3, <2>4 DEF Owns, Of, Is
<1>4. Owns(n, k)'
  <2>1. Owns(n, own[n])
    BY DEF Owned
  <2>2. k # NoCIDRs => Full(k)
    BY <2>1 DEF Owns, Given
  <2>3. Of(cn[n], k)' /\ Of(store[n], k)' /\ Of(nodesToAllocate[n], k)
    BY <2>1 DEF Owns, Of
  <2>4. Of(nodesToAllocate'[n], k)
    BY <2>3 DEF Waiting, Of, TypeOK
  <2>5. EventOf(n)' => Of(event.obj, k)'
    BY <2>1 DEF Owns, Of, EventOf
  <2>6. nodes'[n] # None => nodes'[n] = k /\ k # NoCIDRs
    BY <2>1, FullFacts, SMT DEF Agreed, Given, Owns, TypeOK
  <2>7. nodes'[n] = None => k = NoCIDRs
    BY NoneApart DEF Agreed, Given, TypeOK
  <2>8. toK8s'[n] # None /\ toK8s'[n].op \in {"update", "written"}
          => nodes'[n] # None /\ toK8s'[n].cidrs = k
    <3>1. CASE Agreed(n, own[n]) /\ k = own[n]
      BY <2>1, <3>1 DEF Agreed, Owns, TypeOK
    <3>2. CASE Given(n, k)
      <4>1. nodes'[n] = k
        BY <3>2 DEF Given, TypeOK
      <4>2. toK8s'[n].cidrs = k
        BY <3>2 DEF Given, TypeOK
      <4> QED BY <4>1, <4>2, NoneApart
    <3> QED BY <3>1, <3>2
  <2> QED BY <2>2, <2>3, <2>4, <2>5, <2>6, <2>7, <2>8 DEF Owns, Full, Whole, Of
<1>5. \A m \in Node : Owns(m, new[m])'
  BY <1>1, <1>3, <1>4
<1> QED BY <1>1, <1>2, <1>5 DEF Owned, Apart

\* No write is queued that was not.
QueueShrinks ==
  \A m \in Node : toK8s'[m] # None /\ toK8s'[m].op \in {"update", "written"} =>
    /\ toK8s[m] # None /\ toK8s[m].op \in {"update", "written"}
    /\ toK8s'[m].cidrs = toK8s[m].cidrs

\* Outdating a copy changes neither its CIDRs nor whether it is there.
LEMMA OutdatedFacts ==
  ASSUME NEW o \in Copies \cup {None}
  PROVE  /\ Outdated(o) = None <=> o = None
         /\ o # None => Outdated(o).cidrs = o.cidrs
<1>1. CASE o = None
  BY <1>1 DEF Outdated
<1>2. CASE o # None
  <2>1. Outdated(o) = [o EXCEPT !.current = FALSE] /\ o \in Copies
    BY <1>2 DEF Outdated
  <2>2. [o EXCEPT !.current = FALSE] \in Copies /\ [o EXCEPT !.current = FALSE].cidrs = o.cidrs
    BY <2>1 DEF Copies
  <2> QED BY <1>2, <2>1, <2>2, NoneApart
<1> QED BY <1>1, <1>2

\* Writing a CiliumNode that has its own CIDRs, or none yet.
LEMMA WriteOwned ==
  ASSUME TypeOK, Gone, NEW own \in [Node -> CIDRs], Owned(own), NEW n \in Node,
         NEW w \in Object \cup {None}, Write(n, w),
         Of(w, own[n]), nodes[n] = None /\ own[n] # NoCIDRs => Is(w, own[n]),
         w = None \/ cn[n] # None \/ (event = None /\ n \notin dirty),
         QueueShrinks,
         UNCHANGED <<dirty, initial, canAllocatePodCIDRs, nodes>>
  PROVE  Gone' /\ Owned(own)'
<1>1. cn'[n] = w /\ \A m \in Node \ {n} : cn'[m] = cn[m]
  BY DEF Write, TypeOK
<1>2. ASSUME NEW m \in Node
      PROVE  /\ store'[m] = None <=> store[m] = None
             /\ store[m] # None => store'[m].cidrs = store[m].cidrs
             /\ nodesToAllocate'[m] = None <=> nodesToAllocate[m] = None
             /\ nodesToAllocate[m] # None => nodesToAllocate'[m].cidrs = nodesToAllocate[m].cidrs
  <2>1. store[m] \in Copies \cup {None} /\ nodesToAllocate[m] \in Copies \cup {None}
    BY DEF TypeOK
  <2>2. /\ store'[m] = IF m = n THEN Outdated(store[m]) ELSE store[m]
        /\ nodesToAllocate'[m] = IF m = n THEN Outdated(nodesToAllocate[m]) ELSE nodesToAllocate[m]
    BY DEF Write, TypeOK
  <2> QED BY <2>1, <2>2, OutdatedFacts
<1>3. /\ event' = None <=> event = None
      /\ event # None => /\ event'.node = event.node
                         /\ event'.obj = None <=> event.obj = None
                         /\ event.obj # None => event'.obj.cidrs = event.obj.cidrs
  <2>1. CASE event # None /\ event.node = n
    <3>1. event \in Events /\ event.obj \in Copies \cup {None}
      BY <2>1 DEF TypeOK, Events
    <3>2. event' = [event EXCEPT !.obj = Outdated(event.obj)]
      BY <2>1 DEF Write
    <3>3. Outdated(event.obj) \in Copies \cup {None}
      BY <3>1, OutdatedType
    <3>4. event' \in Events /\ event'.node = event.node /\ event'.obj = Outdated(event.obj)
      BY <3>1, <3>2, <3>3 DEF Events
    <3> QED BY <2>1, <3>1, <3>4, OutdatedFacts, NoneApart
  <2>2. CASE ~(event # None /\ event.node = n)
    BY <2>2 DEF Write
  <2> QED BY <2>1, <2>2
<1>4. Gone'
  <2>1. ASSUME event' # None, event'.obj = None
        PROVE  cn'[event'.node] = None /\ store'[event'.node] = None
    <3>1. event \in Events /\ event.node \in Node
      BY <1>3, <2>1 DEF TypeOK, Events
    <3>2. cn[event.node] = None /\ store[event.node] = None
      BY <1>3, <2>1 DEF Gone
    <3> QED BY <1>1, <1>2, <1>3, <2>1, <3>1, <3>2
  <2>2. ASSUME NEW m \in dirty', store'[m] = None
        PROVE  cn'[m] = None
    <3>1. m \in Node /\ m \in dirty /\ cn[m] = None
      BY <1>2, <2>2 DEF Gone, TypeOK
    <3> QED BY <1>1, <3>1
  <2> QED BY <2>1, <2>2 DEF Gone
<1>5. ASSUME NEW m \in Node
      PROVE  Owns(m, own[m])'
  <2>1. Owns(m, own[m])
    BY DEF Owned
  <2>2. Of(cn'[m], own[m]) /\ (nodes[m] = None /\ own[m] # NoCIDRs => Is(cn'[m], own[m]))
    BY <1>1, <2>1 DEF Owns
  <2>3. Of(store'[m], own[m]) /\ Of(nodesToAllocate'[m], own[m])
    BY <1>2, <2>1 DEF Owns, Of
  <2>4. EventOf(m)' <=> EventOf(m)
    BY <1>3 DEF EventOf
  <2>5. EventOf(m)' => Of(event'.obj, own[m])
    BY <1>3, <2>1, <2>4 DEF Owns, Of, EventOf
  <2>6. own[m] # NoCIDRs /\ nodes[m] = None =>
          /\ nodesToAllocate'[m] = None
          /\ Is(store'[m], own[m])
          /\ EventOf(m)' => Is(event'.obj, own[m])
    BY <1>2, <1>3, <2>1, <2>4 DEF Owns, Is, EventOf
  <2>7. toK8s'[m] # None /\ toK8s'[m].op \in {"update", "written"}
          => nodes[m] # None /\ toK8s'[m].cidrs = own[m]
    BY <2>1 DEF QueueShrinks, Owns
  <2> QED BY <2>1, <2>2, <2>3, <2>4, <2>5, <2>6, <2>7 DEF Owns, Of, Is
<1> QED BY <1>4, <1>5 DEF Owned, Apart

\* A queued write that is brought up to date, or outdated, is not another one.
LEMMA OutdatedQueue ==
  ASSUME TypeOK, NEW n \in Node, toK8s' = [toK8s EXCEPT ![n] = Outdated(@)]
  PROVE  QueueShrinks
<1>1. toK8s' = [toK8s EXCEPT ![n] = Outdated(toK8s[n])]
  BY DEF TypeOK
<1>2. toK8s[n] = None => Outdated(toK8s[n]) = None
  BY DEF Outdated
<1>3. toK8s[n] # None => /\ Outdated(toK8s[n]).op = toK8s[n].op
                         /\ Outdated(toK8s[n]).cidrs = toK8s[n].cidrs
  BY DEF Outdated, TypeOK, Writes
<1> QED BY <1>1, <1>2, <1>3 DEF QueueShrinks, TypeOK

\* One turn of syncToK8s writes the CIDRs of the node, if any.
LEMMA SyncOwned ==
  ASSUME TypeOK, Gone, NEW own \in [Node -> CIDRs], Owned(own), NEW n \in Node, syncToK8s(n)
  PROVE  Gone' /\ Owned(own)'
<1>1. n \in syncing /\ toK8s[n] \in Writes /\ toK8s[n] # None
  BY DEF syncToK8s, TypeOK
<1>2. UNCHANGED <<dirty, initial, canAllocatePodCIDRs, nodes>>
  BY DEF syncToK8s
<1>3. QueueShrinks
  <2>1. done(n) => QueueShrinks
    BY DEF done, QueueShrinks, TypeOK
  <2>2. ASSUME NEW op \in {"update", "written", "status", "delete"},
               op \in {"update", "written"} => toK8s[n].op \in {"update", "written"},
               toK8s' = [toK8s EXCEPT ![n].op = op] \/ conflict(n, op)
        PROVE  QueueShrinks
    <3>1. \A m \in Node \ {n} : toK8s'[m] = toK8s[m]
      BY <2>2 DEF conflict, TypeOK
    <3>2. toK8s'[n].cidrs = toK8s[n].cidrs /\ toK8s'[n].op = op
      BY <1>1, <2>2, SMT DEF conflict, TypeOK, Writes
    <3> QED BY <1>1, <2>2, <3>1, <3>2 DEF QueueShrinks
  <2>3. toK8s[n].op \in {"update", "written", "status", "delete"}
    BY <1>1 DEF Writes
  <2>4. UpdateSpec(n) => QueueShrinks
    BY <2>1, <2>2 DEF UpdateSpec
  <2>5. UpdateStatus(n) => QueueShrinks
    BY <2>1, <2>2, <2>3 DEF UpdateStatus, retried
  <2>6. CheckDeleted(n) => QueueShrinks
    BY <2>1 DEF CheckDeleted
  <2>7. ASSUME SyncFails(n) PROVE QueueShrinks
    <3>1. toK8s' = [toK8s EXCEPT ![n].op = retried(toK8s[n].op)]
      BY <2>7 DEF SyncFails, TypeOK
    <3> QED BY <2>2, <2>3, <3>1 DEF retried
  <2> QED BY <2>4, <2>5, <2>6, <2>7 DEF syncToK8s
<1>4. CASE UNCHANGED <<cn, store, event, nodesToAllocate>>
  <2>1. Gone'
    BY <1>2, <1>4 DEF Gone
  <2>2. ASSUME NEW m \in Node PROVE Owns(m, own[m])'
    <3>1. Owns(m, own[m])
      BY DEF Owned
    <3>2. toK8s'[m] # None /\ toK8s'[m].op \in {"update", "written"}
            => nodes[m] # None /\ toK8s'[m].cidrs = own[m]
      BY <1>3, <3>1 DEF QueueShrinks, Owns
    <3> QED BY <1>2, <1>4, <3>1, <3>2, SMT DEF Owns, Of, Is, EventOf
  <2> QED BY <2>1, <2>2 DEF Owned, Apart
<1>5. ASSUME NEW w \in Object, Write(n, w), cn[n] # None,
             w.cidrs = cn[n].cidrs \/ (toK8s[n].op = "update" /\ w.cidrs = toK8s[n].cidrs)
      PROVE  Gone' /\ Owned(own)'
  <2>1. Owns(n, own[n])
    BY DEF Owned
  <2>2. Of(w, own[n]) /\ (nodes[n] = None /\ own[n] # NoCIDRs => Is(w, own[n]))
    BY <1>1, <1>5, <2>1 DEF Owns, Of, Is
  <2> QED BY <1>2, <1>3, <1>5, <2>2, WriteOwned
<1>6. ASSUME cn[n] # None, put(n, [cn[n] EXCEPT !.err = toK8s[n].err])
      PROVE  Gone' /\ Owned(own)'
  <2> DEFINE w == [cn[n] EXCEPT !.err = toK8s[n].err]
  <2>1. w \in Object /\ w.cidrs = cn[n].cidrs
    BY <1>1, <1>6, SMT DEF TypeOK, Object, Writes
  <2> QED BY <1>4, <1>5, <1>6, <2>1 DEF put
<1>7. ASSUME cn[n] # None, toK8s[n].op = "update", put(n, [cn[n] EXCEPT !.cidrs = toK8s[n].cidrs])
      PROVE  Gone' /\ Owned(own)'
  <2> DEFINE w == [cn[n] EXCEPT !.cidrs = toK8s[n].cidrs]
  <2>1. w \in Object /\ w.cidrs = toK8s[n].cidrs
    BY <1>1, <1>7, SMT DEF TypeOK, Object, Writes
  <2> QED BY <1>4, <1>5, <1>7, <2>1 DEF put
<1> QED BY <1>4, <1>6, <1>7 DEF syncToK8s, UpdateSpec, UpdateStatus, CheckDeleted, SyncFails

\* OwnInv holds of the first state if the CiliumNodes are sane.
LEMMA OwnInit == Init /\ sane => OwnInv
<1> SUFFICES ASSUME Init, sane PROVE OwnInv
  OBVIOUS
<1>1. PICK o \in Start :
        /\ cn = [n \in Node |-> IF o[n] = None THEN None ELSE [cidrs |-> o[n], err |-> FALSE]]
        /\ sane = Sane(o)
  BY DEF Init
<1>2. o \in [Node -> CIDRs \cup {None}] /\ NoCIDRs \in CIDRs
  BY PodCIDRsAssumption DEF NoCIDRs, CIDRs
<1> DEFINE own == [n \in Node |-> IF o[n] = None THEN NoCIDRs ELSE o[n]]
<1>3. own \in [Node -> CIDRs]
  BY <1>2
<1>4. Apart(own)
  <2> SUFFICES ASSUME NEW n \in Node, NEW m \in Node, NEW f \in Enabled, n # m,
                      own[n][f] # None, own[n][f] = own[m][f]
               PROVE  FALSE
    BY DEF Apart
  <2>1. f \in Family
    BY DEF Enabled
  <2>2. o[n] # None /\ o[m] # None
    BY <2>1 DEF NoCIDRs
  <2> QED BY <1>1, <2>2 DEF Sane
<1>5. ASSUME NEW n \in Node PROVE Owns(n, own[n])
  <2>1. own[n] # NoCIDRs => Full(own[n]) /\ cn[n] # None
    <3> SUFFICES ASSUME own[n] # NoCIDRs PROVE Full(own[n]) /\ cn[n] # None
      OBVIOUS
    <3>1. o[n] # None /\ o[n] \in CIDRs
      BY <1>2
    <3>2. [cidrs |-> o[n], err |-> FALSE] \in Object
      BY <3>1 DEF Object
    <3> QED BY <1>1, <3>1, <3>2, PodCIDRsAssumption DEF Sane, Full
  <2>2. Is(cn[n], own[n])
    BY <1>1 DEF Is
  <2>3. Is(store[n], own[n])
    BY <2>2 DEF Init, Copy, Is
  <2>4. own[n] # NoCIDRs => n \in initial
    BY <2>1 DEF Init, Exists
  <2>5. nodes[n] = None /\ toK8s[n] = None /\ nodesToAllocate[n] = None /\ event = None
          /\ ~canAllocatePodCIDRs
    BY DEF Init, Fresh
  <2> HIDE DEF own
  <2> QED BY <2>1, <2>2, <2>3, <2>4, <2>5 DEF Owns, Of, Is, EventOf
<1>6. Gone
  <2>1. event = None
    BY DEF Init, Fresh
  <2>2. ASSUME NEW n \in dirty, store[n] = None PROVE cn[n] = None
    BY <2>2, TypeInit, CopyFacts DEF Init, Exists, TypeOK
  <2> QED BY <2>1, <2>2 DEF Gone
<1> QED BY <1>3, <1>4, <1>5, <1>6 DEF OwnInv, Owned

\* What the handler of a deletion does to the tables of the manager.
LEMMA DeleteFacts ==
  ASSUME TypeOK, NEW n \in Node, Delete(n)
  PROVE  /\ nodes'[n] = None /\ nodesToAllocate'[n] = None
         /\ nodes[n] = None => toK8s' = toK8s
         /\ nodes[n] # None => toK8s'[n].op = "delete"
         /\ \A m \in Node \ {n} : /\ nodes'[m] = nodes[m] /\ toK8s'[m] = toK8s[m]
                                  /\ nodesToAllocate'[m] = nodesToAllocate[m]
<1> DEFINE w == [op |-> "delete", cidrs |-> NoCIDRs, err |-> FALSE, current |-> FALSE]
<1>1. w.op = "delete"
  OBVIOUS
<1>2. /\ nodesToAllocate' = [nodesToAllocate EXCEPT ![n] = None]
      /\ nodes[n] # None => nodes' = [nodes EXCEPT ![n] = None] /\ toK8s' = [toK8s EXCEPT ![n] = w]
      /\ nodes[n] = None => nodes' = nodes /\ toK8s' = toK8s
  BY DEF Delete, releaseIPNets
<1> HIDE DEF w
<1> QED BY <1>1, <1>2 DEF TypeOK

\* Every step keeps OwnInv.
LEMMA OwnStep ==
  ASSUME Orderly, TypeOK, PoolAccounted, OwnInv, [Next]_vars
  PROVE  OwnInv'
<1>1. PICK own \in [Node -> CIDRs] : Owned(own)
  BY DEF OwnInv
<1>2. Gone
  BY DEF OwnInv
<1>3. \A m \in Node : Owns(m, own[m])
  BY <1>1 DEF Owned
<1>4. ASSUME NEW n \in Node, CreateCiliumNode(n)
      PROVE  OwnInv'
  <2>1. store[n] = None /\ n \notin dirty /\ nodes[n] = None /\ event = None
    BY <1>4 DEF CreateCiliumNode
  <2>2. n \notin initial
    BY <2>1 DEF TypeOK
  <2>3. own[n] = NoCIDRs
    BY <1>3, <2>1, <2>2 DEF Owns, EventOf
  <2> DEFINE w == [cidrs |-> NoCIDRs, err |-> FALSE]
  <2>4. w \in Object /\ w.cidrs = NoCIDRs
    BY DEF Object, CIDRs, NoCIDRs
  <2>5. Write(n, w) /\ UNCHANGED <<dirty, initial, canAllocatePodCIDRs, nodes>>
    BY <1>4 DEF CreateCiliumNode
  <2>6. QueueShrinks
    BY <1>4, OutdatedQueue DEF CreateCiliumNode
  <2> HIDE DEF w
  <2>7. Of(w, own[n])
    BY <2>4 DEF Of
  <2> QED BY <1>1, <1>2, <2>1, <2>3, <2>4, <2>5, <2>6, <2>7, WriteOwned DEF OwnInv
<1>5. ASSUME NEW n \in Node, DeleteCiliumNode(n)
      PROVE  OwnInv'
  <2>1. Write(n, None) /\ UNCHANGED <<dirty, initial, canAllocatePodCIDRs, nodes>>
    BY <1>5 DEF DeleteCiliumNode
  <2>2. QueueShrinks
    BY <1>5, OutdatedQueue DEF DeleteCiliumNode
  <2>3. Of(None, own[n]) /\ Is(None, own[n])
    BY DEF Of, Is
  <2> QED BY <1>1, <1>2, <2>1, <2>2, <2>3, WriteOwned DEF OwnInv
<1>6. ASSUME NEW n \in Node, Touch(n)
      PROVE  OwnInv'
  <2>1. /\ Write(n, cn[n]) /\ cn[n] # None
        /\ UNCHANGED <<dirty, initial, canAllocatePodCIDRs, nodes>>
    BY <1>6 DEF Touch
  <2>2. QueueShrinks
    BY <1>6, OutdatedQueue DEF Touch
  <2>3. Of(cn[n], own[n]) /\ (nodes[n] = None /\ own[n] # NoCIDRs => Is(cn[n], own[n]))
    BY <1>3 DEF Owns
  <2>4. cn[n] \in Object \cup {None}
    BY DEF TypeOK
  <2> QED BY <1>1, <1>2, <2>1, <2>2, <2>3, <2>4, WriteOwned DEF OwnInv
<1>7. ASSUME NEW n \in Node, Reflect(n)
      PROVE  OwnInv'
  <2>1. /\ store'[n] = Copy(cn[n])
        /\ \A m \in Node \ {n} : store'[m] = store[m]
        /\ dirty' = dirty \cup {n}
        /\ UNCHANGED <<cn, initial, event, canAllocatePodCIDRs, nodesToAllocate, nodes, toK8s>>
    BY <1>7 DEF Reflect, mgrVars, TypeOK
  <2>2. /\ Copy(cn[n]) = None <=> cn[n] = None
        /\ cn[n] # None => Copy(cn[n]).cidrs = cn[n].cidrs
    BY CopyFacts DEF TypeOK
  <2>3. Gone'
    BY <1>2, <2>1, <2>2 DEF Gone, TypeOK, Events
  <2>4. ASSUME NEW m \in Node PROVE Owns(m, own[m])'
    BY <1>3, <2>1, <2>2 DEF Owns, Of, Is, EventOf
  <2> QED BY <1>1, <2>3, <2>4 DEF OwnInv, Owned, Apart
<1>8. ASSUME NEW n \in Node, Dispatch(n)
      PROVE  OwnInv'
  <2>1. /\ event = None /\ n \in dirty
        /\ dirty' = dirty \ {n} /\ initial' = initial \ {n}
        /\ event' = [node |-> n, obj |-> store[n]]
        /\ UNCHANGED <<cn, store, canAllocatePodCIDRs, nodesToAllocate, nodes, toK8s>>
    BY <1>8 DEF Dispatch, mgrVars
  <2>2. event' \in Events /\ event' # None
    BY <2>1, NoneApart, SMT DEF Events, TypeOK
  <2>3. event'.node = n /\ event'.obj = store[n]
    BY <2>1
  <2>4. Gone'
    BY <1>2, <2>1, <2>3 DEF Gone
  <2>5. ASSUME NEW m \in Node PROVE Owns(m, own[m])'
    BY <1>3, <2>1, <2>2, <2>3 DEF Owns, Of, Is, EventOf
  <2> QED BY <1>1, <2>4, <2>5 DEF OwnInv, Owned, Apart
<1>9. ASSUME NEW n \in Node, Upsert(n)
      PROVE  OwnInv'
  <2>1. /\ event.obj \in Copies /\ EventOf(n) /\ event' = None /\ upsertLocked(n, event.obj)
        /\ UNCHANGED <<cn, store, dirty, initial, canAllocatePodCIDRs>>
    BY <1>9 DEF Upsert, TypeOK, Events, EventOf
  <2>2. event.obj # None
    BY <1>9 DEF Upsert
  <2>3. event.obj.cidrs \in {NoCIDRs, own[n]} /\ (nodes[n] = None => event.obj.cidrs = own[n])
    BY <1>3, <2>1, <2>2 DEF Owns, Of, Is
  <2>4. PICK k \in CIDRs :
          /\ k = own[n] \/ own[n] = NoCIDRs
          /\ k # own[n] => \A m \in Node \ {n}, f \in Enabled : own[m][f] # k[f]
          /\ Waiting(n, event.obj, own[n])
          /\ (Agreed(n, own[n]) /\ k = own[n]) \/ Given(n, k)
    BY <1>1, <2>1, <2>3, OwnUpsert
  <2>5. \E new \in [Node -> CIDRs] : Owned(new)'
    BY <1>1, <2>1, <2>3, <2>4, UpsertOwned
  <2>6. Gone'
    BY <1>2, <2>1 DEF Gone
  <2> QED BY <2>5, <2>6 DEF OwnInv
<1>10. ASSUME NEW n \in Node, ResyncNode(n)
       PROVE  OwnInv'
  <2> DEFINE o == nodesToAllocate[n]
  <2>1. /\ o \in Copies /\ o # None /\ upsertLocked(n, o) /\ canAllocatePodCIDRs
        /\ UNCHANGED <<cn, store, dirty, initial, event, canAllocatePodCIDRs>>
    BY <1>10 DEF ResyncNode, Resyncing, apiVars, TypeOK
  <2>2. o.cidrs \in {NoCIDRs, own[n]} /\ (nodes[n] = None => o.cidrs = own[n])
    BY <1>3, <2>1 DEF Owns, Of
  <2>3. PICK k \in CIDRs :
          /\ k = own[n] \/ own[n] = NoCIDRs
          /\ k # own[n] => \A m \in Node \ {n}, f \in Enabled : own[m][f] # k[f]
          /\ Waiting(n, o, own[n])
          /\ (Agreed(n, own[n]) /\ k = own[n]) \/ Given(n, k)
    BY <1>1, <2>1, <2>2, OwnUpsert
  <2>4. \E new \in [Node -> CIDRs] : Owned(new)'
    BY <1>1, <2>1, <2>2, <2>3, UpsertOwned
  <2>5. Gone'
    BY <1>2, <2>1 DEF Gone
  <2> QED BY <2>4, <2>5 DEF OwnInv
<1>11. ASSUME NEW n \in Node, Delete(n)
       PROVE  OwnInv'
  <2>1. /\ EventOf(n) /\ event.obj = None /\ event' = None
        /\ UNCHANGED <<cn, store, dirty, initial, canAllocatePodCIDRs>>
    BY <1>11 DEF Delete, EventOf
  <2>2. cn[n] = None /\ store[n] = None
    BY <1>2, <2>1 DEF Gone, EventOf
  <2>3. nodes'[n] = None /\ nodesToAllocate'[n] = None
    BY <1>11, DeleteFacts
  <2>4. toK8s'[n] # None => toK8s'[n].op \notin {"update", "written"}
    BY <1>3, <1>11, DeleteFacts DEF Owns
  <2>5. \A m \in Node \ {n} : /\ nodes'[m] = nodes[m] /\ nodesToAllocate'[m] = nodesToAllocate[m]
                              /\ toK8s'[m] = toK8s[m] /\ ~EventOf(m)
    BY <1>11, <2>1, DeleteFacts DEF EventOf
  <2> DEFINE new == [own EXCEPT ![n] = NoCIDRs]
  <2>6. NoCIDRs \in CIDRs
    BY DEF NoCIDRs, CIDRs
  <2>7. new \in [Node -> CIDRs] /\ new[n] = NoCIDRs /\ \A m \in Node \ {n} : new[m] = own[m]
    BY <2>6
  <2> HIDE DEF new
  <2>8. Apart(new)
    <3>1. \A f \in Enabled : NoCIDRs[f] = None
      BY DEF NoCIDRs, Enabled
    <3> QED BY <1>1, <2>7, <3>1, SMT DEF Owned, Apart
  <2>9. Owns(n, NoCIDRs)'
    BY <2>1, <2>2, <2>3, <2>4 DEF Owns, Of, EventOf
  <2>10. ASSUME NEW m \in Node \ {n} PROVE Owns(m, own[m])'
    BY <1>3, <2>1, <2>5, SMT DEF Owns, Of, Is, EventOf
  <2>11. \A m \in Node : Owns(m, new[m])'
    BY <2>7, <2>9, <2>10
  <2>12. Gone'
    BY <1>2, <2>1 DEF Gone
  <2> QED BY <2>7, <2>8, <2>11, <2>12 DEF OwnInv, Owned, Apart
<1>12. ASSUME NEW n \in Node, syncToK8s(n)
       PROVE  OwnInv'
  BY <1>1, <1>2, <1>12, SyncOwned DEF OwnInv
<1>13. CASE Resync
  <2>1. /\ initial = {} /\ event = None
        /\ UNCHANGED <<cn, store, dirty, initial, event, nodesToAllocate, nodes, toK8s>>
    BY <1>13 DEF Resync, apiVars
  <2>2. ASSUME NEW m \in Node PROVE Owns(m, own[m])'
    BY <1>3, <2>1 DEF Owns, Of, Is, EventOf
  <2>3. Gone'
    BY <1>2, <2>1 DEF Gone
  <2> QED BY <1>1, <2>2, <2>3 DEF OwnInv, Owned, Apart
<1>14. CASE StartSync \/ UNCHANGED vars
  <2>1. UNCHANGED <<cn, store, dirty, initial, event, canAllocatePodCIDRs, nodesToAllocate, nodes, toK8s>>
    BY <1>14 DEF StartSync, apiVars, mgrVars, vars
  <2>2. ASSUME NEW m \in Node PROVE Owns(m, own[m])'
    BY <1>3, <2>1 DEF Owns, Of, Is, EventOf
  <2>3. Gone'
    BY <1>2, <2>1 DEF Gone
  <2> QED BY <1>1, <2>2, <2>3 DEF OwnInv, Owned, Apart
<1>15. CASE Crash
  <2>1. /\ store' = [m \in Node |-> Copy(cn[m])] /\ dirty' = Exists /\ initial' = Exists
        /\ event' = None /\ canAllocatePodCIDRs' = FALSE /\ cn' = cn
        /\ nodesToAllocate' = [m \in Node |-> None] /\ nodes' = [m \in Node |-> None]
        /\ toK8s' = [m \in Node |-> None]
    BY <1>15 DEF Crash
  <2>2. PICK new \in [Node -> CIDRs] :
          \A m \in Node : new[m] = IF cn[m] = None THEN NoCIDRs ELSE cn[m].cidrs
    <3>1. [m \in Node |-> IF cn[m] = None THEN NoCIDRs ELSE cn[m].cidrs] \in [Node -> CIDRs]
      BY DEF TypeOK, Object, NoCIDRs, CIDRs
    <3> QED BY <3>1
  <2>3. \A m \in Node : new[m] \in {NoCIDRs, own[m]}
    BY <1>3, <2>2 DEF Owns, Of
  <2>4. \A m \in Node : /\ cn[m] # None => new[m] = cn[m].cidrs
                        /\ new[m] # NoCIDRs => cn[m] # None
    BY <2>2
  <2>5. Apart(new)
    <3>1. \A f \in Enabled : NoCIDRs[f] = None
      BY DEF NoCIDRs, Enabled
    <3> QED BY <1>1, <2>3, <3>1, SMT DEF Owned, Apart
  <2>6. ASSUME NEW m \in Node PROVE Owns(m, new[m])'
    <3>1. new[m] # NoCIDRs => Full(new[m]) /\ m \in Exists
      BY <1>3, <2>3, <2>4 DEF Owns, Exists
    <3>2. Is(cn[m], new[m]) /\ Is(Copy(cn[m]), new[m])
      BY <2>4, CopyFacts DEF Is, TypeOK
    <3> QED BY <2>1, <3>1, <3>2 DEF Owns, Of, Is, EventOf, Full, Whole
  <2>7. Gone'
    BY <2>1, CopyFacts DEF Gone, Exists, TypeOK
  <2> QED BY <2>5, <2>6, <2>7 DEF OwnInv, Owned, Apart
<1> QED BY <1>4, <1>5, <1>6, <1>7, <1>8, <1>9, <1>10, <1>11, <1>12, <1>13, <1>14, <1>15 DEF Next

IInv == TypeOK /\ PoolAccounted /\ (sane => OwnInv)

\* The inductive invariant holds throughout.
LEMMA AlwaysIInv == Orderly => (Spec => []IInv)
<1> SUFFICES ASSUME Orderly PROVE Spec => []IInv
  OBVIOUS
<1>1. Init => IInv
  <2>1. Init => PoolAccounted
    BY SMT DEF Init, Fresh, PoolAccounted
  <2> QED BY <2>1, TypeInit, OwnInit DEF IInv
<1>2. IInv /\ [Next]_vars => IInv'
  <2> SUFFICES ASSUME IInv, [Next]_vars PROVE IInv'
    OBVIOUS
  <2>1. sane' = sane
    BY DEF Next, vars, CreateCiliumNode, DeleteCiliumNode, Touch, Reflect, Dispatch, Upsert, Delete,
        Resync, ResyncNode, StartSync, syncToK8s, Crash
  <2> QED BY <2>1, TypeStep, AccountedStep, OwnStep DEF IInv
<1> QED BY <1>1, <1>2, PTL DEF Spec

\* No two CiliumNodes ever have a CIDR in common, for any number of nodes, CIDRs,
\* crashes of the operator, writes of others and failed calls, if the first had
\* none and names are used again only after their deletion was handled: a new
\* CIDR is given only once every CIDR in the cluster is in the bitmaps, and what
\* is queued, retried or read from a stale copy is never another node's.
THEOREM NoCIDRTwice == Orderly => (Spec => []CIDRsDistinct)
<1> SUFFICES ASSUME Orderly PROVE Spec => []CIDRsDistinct
  OBVIOUS
<1>1. IInv => CIDRsDistinct
  <2> SUFFICES ASSUME IInv, sane, NEW n \in Exists, NEW m \in Exists, NEW f \in Family, n # m,
                      cn[n].cidrs[f] # None, cn[n].cidrs[f] = cn[m].cidrs[f]
               PROVE  FALSE
    BY DEF CIDRsDistinct
  <2>1. PICK own \in [Node -> CIDRs] : Owned(own)
    BY DEF IInv, OwnInv
  <2>2. n \in Node /\ m \in Node /\ cn[n] # None /\ cn[m] # None
    BY DEF Exists
  <2>3. /\ cn[n].cidrs \in {NoCIDRs, own[n]} /\ (own[n] # NoCIDRs => Full(own[n]))
        /\ cn[m].cidrs \in {NoCIDRs, own[m]}
    BY <2>1, <2>2 DEF Owned, Owns, Of
  <2>4. cn[n].cidrs = own[n] /\ cn[m].cidrs = own[m] /\ own[n] # NoCIDRs
    BY <2>3 DEF NoCIDRs
  <2>5. f \in Enabled
    BY <2>3, <2>4, FullFacts
  <2> QED BY <2>1, <2>2, <2>4, <2>5 DEF Owned, Apart
<1> QED BY <1>1, AlwaysIInv, PTL

\* A CIDR that a CiliumNode has been given stays with it until it is deleted,
\* under the same conditions: every write the manager has queued for a node has
\* the CIDRs that any other copy of the CiliumNode has, unless it is bare.
THEOREM CIDRsNotTaken == Orderly => (Spec => CIDRsKept)
<1> SUFFICES ASSUME Orderly PROVE Spec => CIDRsKept
  OBVIOUS
<1> DEFINE Kept == sane => \A n \in Node, f \in Family :
                     cn[n] # None /\ cn'[n] # None /\ cn[n].cidrs[f] # None
                       => cn'[n].cidrs[f] = cn[n].cidrs[f]
<1>1. IInv /\ [Next]_vars => [Kept]_vars
  <2> SUFFICES ASSUME IInv, Next, sane, NEW n \in Node, NEW f \in Family,
                      cn[n] # None, cn'[n] # None, cn[n].cidrs[f] # None
               PROVE  cn'[n].cidrs[f] = cn[n].cidrs[f]
    OBVIOUS
  <2>1. PICK own \in [Node -> CIDRs] : Owned(own)
    BY DEF IInv, OwnInv
  <2>2. TypeOK
    BY DEF IInv
  <2>3. cn[n].cidrs = own[n]
    BY <2>1 DEF Owned, Owns, Of, NoCIDRs
  <2>4. ASSUME NEW m \in Node, CreateCiliumNode(m) \/ DeleteCiliumNode(m) \/ Touch(m)
        PROVE  cn'[n] = cn[n]
    <3>1. PICK w : /\ cn' = [cn EXCEPT ![m] = w]
                   /\ cn[m] = None \/ w = None \/ w = cn[m]
      BY <2>4 DEF CreateCiliumNode, DeleteCiliumNode, Touch, Write
    <3> QED BY <2>2, <3>1 DEF TypeOK
  <2>5. ASSUME NEW m \in Node, syncToK8s(m)
        PROVE  cn'[n].cidrs = own[n]
    <3>1. toK8s[m] \in Writes
      BY <2>2, <2>5 DEF syncToK8s, TypeOK
    <3>2. CASE UNCHANGED cn
      BY <2>3, <3>2
    <3>3. CASE cn[m] # None /\ cn' = [cn EXCEPT ![m] = [cn[m] EXCEPT !.err = toK8s[m].err]]
      <4>1. [cn[m] EXCEPT !.err = toK8s[m].err].cidrs = cn[m].cidrs
        BY <2>2, <3>3 DEF TypeOK, Object
      <4> QED BY <2>2, <2>3, <3>3, <4>1 DEF TypeOK
    <3>4. CASE /\ cn[m] # None /\ toK8s[m].op = "update"
               /\ cn' = [cn EXCEPT ![m] = [cn[m] EXCEPT !.cidrs = toK8s[m].cidrs]]
      <4>1. [cn[m] EXCEPT !.cidrs = toK8s[m].cidrs].cidrs = toK8s[m].cidrs
        BY <2>2, <3>4 DEF TypeOK, Object
      <4>2. toK8s[m].cidrs = own[m]
        BY <2>1, <3>1, <3>4, NoneApart DEF Owned, Owns
      <4> QED BY <2>2, <2>3, <3>4, <4>1, <4>2 DEF TypeOK
    <3> QED BY <2>5, <3>2, <3>3, <3>4
          DEF syncToK8s, UpdateSpec, UpdateStatus, CheckDeleted, SyncFails, put, Write
  <2>6. Resync \/ StartSync \/ Crash => cn' = cn
    BY DEF Resync, StartSync, Crash, apiVars
  <2>7. ASSUME NEW m \in Node, Reflect(m) \/ Dispatch(m) \/ Upsert(m) \/ Delete(m) \/ ResyncNode(m)
        PROVE  cn' = cn
    BY <2>7 DEF Reflect, Dispatch, Upsert, Delete, ResyncNode, apiVars
  <2> QED BY <2>3, <2>4, <2>5, <2>6, <2>7 DEF Next
<1>2. Spec => [][Kept]_vars
  BY <1>1, AlwaysIInv, PTL DEF Spec
<1> QED BY <1>2 DEF CIDRsKept

=============================================================================
