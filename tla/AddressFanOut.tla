--------------------------- MODULE AddressFanOut ---------------------------
(***************************************************************************)
(* The agent writes its CiliumInternalIP (with the health and ingress      *)
(* addresses, which go along with it) onto the CiliumNode of every pawn it *)
(* manages (pkg/nodediscovery/managed.go).  It does so after each update   *)
(* of its own CiliumNode, with a snapshot of the managed names, one pawn   *)
(* after the other: read the CiliumNode, from the informer's store once    *)
(* there is one, change the addresses, and update it under optimistic      *)
(* concurrency.                                                            *)
(*                                                                         *)
(* resourceVersions are not counted: a copy of a CiliumNode is current as  *)
(* long as nobody has written the object since the copy was taken.         *)
(***************************************************************************)
EXTENDS Naturals

CONSTANTS
  Pawn, Local,
  None,
  MaxRetry    \* maxRetryCount

VARIABLES
  known,      \* the managed names
  cn,         \* what others write into a pawn's CiliumNode; "absent" if none
  addr,       \* the agent's CiliumInternalIP: 1, 2 ...
  pub,        \* the CiliumInternalIP in each pawn's CiliumNode, 0 if none
  store,      \* the informer's store of CiliumNodes is there
  cached,     \* its copy of each pawn's CiliumNode
  visit,      \* the pawns the running loop has yet to visit
  offer,      \* the address it publishes, from the local node it was given; else 0
  copy,       \* the CiliumNode it has read and will write, or None
  retry       \* attempts at the current pawn so far

fanVars == <<addr, pub, store, cached, visit, offer, copy, retry>>

\* A copy of pawn n's CiliumNode as it is now.
Current(n) == [cn |-> cn[n], pub |-> pub[n], current |-> TRUE]

Outdated(c) == [c EXCEPT !.current = FALSE]

NoCopies == [n \in Pawn |-> [cn |-> "absent", pub |-> 0, current |-> FALSE]]

Idle == visit = {} /\ copy = None

\* Nothing is cached and nothing runs in a process that has just started.
Init ==
  /\ addr = 1
  /\ pub = [n \in Pawn |-> 0]
  /\ store = FALSE
  /\ cached = NoCopies
  /\ visit = {}
  /\ offer = 0
  /\ copy = None
  /\ retry = 0

\* The effect, here, of writes of others: a new object carries no
\* CiliumInternalIP, and every copy of an object that changed is outdated.
Observe ==
  LET written == {n \in Pawn : cn'[n] # cn[n]}
  IN  /\ pub' = [n \in Pawn |-> IF n \in written /\ "absent" \in {cn[n], cn'[n]}
                                THEN 0 ELSE pub[n]]
      /\ cached' = [n \in Pawn |-> IF n \in written THEN Outdated(cached[n]) ELSE cached[n]]
      /\ copy' = IF copy # None /\ copy.node \in written THEN Outdated(copy) ELSE copy
      /\ UNCHANGED <<addr, store, visit, offer, retry>>

\* The process is gone; the objects at the API server stay.
Reset ==
  /\ store' = FALSE
  /\ visit' = {}
  /\ copy' = None
  /\ retry' = 0
  /\ offer' = 0
  /\ cached' = NoCopies
  /\ UNCHANGED <<addr, pub>>

\* The agent gets another router address; its own CiliumNode is updated next.
ChangeAddress ==
  /\ addr' = addr + 1
  /\ UNCHANGED <<cn, known, pub, store, cached, visit, offer, copy, retry>>

\* The informer's store is filled, or brings one object up to date.
StoreSynced ==
  /\ ~store
  /\ store' = TRUE
  /\ cached' = [n \in Pawn |-> Current(n)]
  /\ UNCHANGED <<cn, known, addr, pub, visit, offer, copy, retry>>

StoreCatchesUp(n) ==
  /\ store
  /\ cached[n] # Current(n)
  /\ cached' = [cached EXCEPT ![n] = Current(n)]
  /\ UNCHANGED <<cn, known, addr, pub, store, visit, offer, copy, retry>>

\* updateCiliumNodeResource has written the agent's own CiliumNode.  One name
\* or none means that there are no pawns to go to.
updateManagedCiliumInternalIPs ==
  /\ Idle
  /\ \E n, m \in known : n # m
  /\ visit' = known \ {Local}
  /\ offer' = addr
  /\ retry' = 0
  /\ UNCHANGED <<cn, known, addr, pub, store, cached, copy>>

\* Leave pawn n, whatever came of it: an error is only logged.
Leave(n) ==
  /\ visit' = visit \ {n}
  /\ offer' = IF visit = {n} THEN 0 ELSE offer
  /\ copy' = None
  /\ retry' = 0

\* What GetCiliumNode returns.
GetCiliumNode(n) == IF store THEN cached[n] ELSE Current(n)

\* Mutant: an address that is already there is never replaced.
present(c) == c.pub # 0

\* upsert changes nothing.
upToDate(c) == c.pub = offer

\* The upper half of the retry loop: a missing CiliumNode is an error, and one
\* with the right addresses needs no update.
SyncGet(n) ==
  LET c == GetCiliumNode(n)
  IN  /\ n \in visit
      /\ copy = None
      /\ IF c.cn = "absent" \/ upToDate(c)
         THEN Leave(n)
         ELSE /\ copy' = [node |-> n, cn |-> c.cn, pub |-> offer, current |-> c.current]
              /\ UNCHANGED <<visit, offer, retry>>
      /\ UNCHANGED <<cn, known, addr, pub, store, cached>>

\* Mutant: the write is not conditional on the version that was read.
unconditional == TRUE

\* Update succeeds only on the version that was read.
sameVersion == copy.current

\* The lower half: the update, a conflict that starts the next attempt, the
\* last conflict, or an error.
SyncPut(n) ==
  /\ copy # None
  /\ copy.node = n
  /\ IF cn[n] = "absent" THEN Leave(n) /\ UNCHANGED <<cn, pub, cached>>
     ELSE IF sameVersion
     THEN /\ cn' = [cn EXCEPT ![n] = copy.cn]
          /\ pub' = [pub EXCEPT ![n] = copy.pub]
          /\ cached' = [cached EXCEPT ![n] = Outdated(@)]
          /\ Leave(n)
     ELSE IF retry + 1 < MaxRetry
     THEN /\ copy' = None
          /\ retry' = retry + 1
          /\ UNCHANGED <<cn, pub, cached, visit, offer>>
     ELSE Leave(n) /\ UNCHANGED <<cn, pub, cached>>
  /\ UNCHANGED <<known, addr, store>>

\* The update fails for another reason.
SyncError(n) ==
  /\ copy # None
  /\ copy.node = n
  /\ Leave(n)
  /\ UNCHANGED <<cn, known, addr, pub, store, cached>>
=============================================================================
