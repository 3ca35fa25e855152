------------------------------ MODULE Watchdog ------------------------------
(***************************************************************************)
(* The pod-endpoint watchdog (pkg/podendpointwatchdog): a periodic scan    *)
(* that deletes Running pods whose local Cilium endpoint has been missing  *)
(* for a grace period, so that a fresh CNI ADD recreates it.               *)
(*                                                                         *)
(* A pod is <<name, gen>>: a pod deleted and recreated under its name gets *)
(* a new UID.  The agent's pod table lags behind the API server.  A scan   *)
(* decides in one step, then deletes the pods it found one at a time.      *)
(***************************************************************************)
EXTENDS Naturals, FiniteSets

CONSTANTS
  Name,          \* pod names on this node
  HostNetwork,   \* the names whose pods use the host network
  Grace,         \* the grace period, in ticks
  Floor,         \* blastRadiusFloor
  GateMoves,     \* how often the node's CNI provider label may change
  MaxGen,        \* how many pods a name gets
  MaxApiErrors,  \* how many deletes the API server refuses
  None

UID == Name \X (1 .. MaxGen)

ASSUME ConstantsAssumption ==
  /\ IsFiniteSet(Name)
  /\ HostNetwork \subseteq Name
  /\ Grace \in Nat /\ Floor \in Nat /\ MaxGen \in Nat
  /\ GateMoves \in Nat /\ MaxApiErrors \in Nat
  /\ None \notin Nat

VARIABLES
  api,        \* the newest pod of each name at the API server: gen and phase
  table,      \* the same, as the agent's pod table has it
  ep,         \* the pods with an endpoint in the endpoint manager
  label,      \* the node's CNI provider label
  conf,       \* what the CNI configuration directory declares
  moves,      \* changes of label and conf so far
  pending,    \* the age of each pod's pending entry up to Grace, or None
  due, seen,  \* the pods a running scan deletes, and found missing
  scanning,   \* a scan is between its decision and its end
  errors,     \* refused deletes so far
  since,      \* history: for how long every check has found the pod missing
  condemned, killed  \* history: pods found due, pods deleted by the watchdog

podVars  == <<api, table, ep>>
gateVars == <<label, conf, moves>>
history  == <<since, condemned, killed>>
vars     == <<api, table, ep, label, conf, moves, pending, due, seen, scanning, errors,
              since, condemned, killed>>

Phase == {"none", "starting", "running", "terminating"}
Row   == [gen : 0 .. MaxGen, phase : Phase]

Init ==
  /\ api = [n \in Name |-> [gen |-> 0, phase |-> "none"]]
  /\ table = api
  /\ ep = {}
  /\ label = "constellation" /\ conf = "cilium" /\ moves = 0
  /\ pending = [u \in UID |-> None]
  /\ due = {} /\ seen = {} /\ scanning = FALSE
  /\ errors = 0
  /\ since = [u \in UID |-> None]
  /\ condemned = {} /\ killed = {}

(***************************************************************************)
(* The pods, the kubelet and the CNI.                                      *)
(***************************************************************************)
CreatePod(n) ==
  /\ api[n].phase = "none"
  /\ api[n].gen < MaxGen
  /\ api' = [api EXCEPT ![n] = [gen |-> @.gen + 1, phase |-> "starting"]]
  /\ UNCHANGED <<table, ep, gateVars, pending, due, seen, scanning, errors, history>>

\* The pod is Running with an address, before or after its endpoint appears.
RunPod(n) ==
  /\ api[n].phase = "starting"
  /\ api' = [api EXCEPT ![n].phase = "running"]
  /\ UNCHANGED <<table, ep, gateVars, pending, due, seen, scanning, errors, history>>

\* A user or a controller deletes the pod.
DeletePod(n) ==
  /\ api[n].phase \in {"starting", "running"}
  /\ api' = [api EXCEPT ![n].phase = "terminating"]
  /\ UNCHANGED <<table, ep, gateVars, pending, due, seen, scanning, errors, history>>

\* The pod is gone, and its endpoint with it.
RemovePod(n) ==
  /\ api[n].phase = "terminating"
  /\ api' = [api EXCEPT ![n].phase = "none"]
  /\ ep' = ep \ {<<n, api[n].gen>>}
  /\ UNCHANGED <<table, gateVars, pending, due, seen, scanning, errors, history>>

AddEndpoint(n) ==
  /\ api[n].phase \in {"starting", "running"}
  /\ n \notin HostNetwork
  /\ <<n, api[n].gen>> \notin ep
  /\ ep' = ep \cup {<<n, api[n].gen>>}
  /\ UNCHANGED <<api, table, gateVars, pending, due, seen, scanning, errors, history>>

\* An endpoint is lost, as after a failed restore.
LoseEndpoint(u) ==
  /\ u \in ep
  /\ ep' = ep \ {u}
  /\ UNCHANGED <<api, table, gateVars, pending, due, seen, scanning, errors, history>>

\* The pod reflector brings one row of the pod table up to date.
Reflect(n) ==
  /\ table[n] # api[n]
  /\ table' = [table EXCEPT ![n] = api[n]]
  /\ UNCHANGED <<api, ep, gateVars, pending, due, seen, scanning, errors, history>>

\* perigeos publishes another CNI provider, or the configuration changes.
MoveGate(l, c) ==
  /\ moves < GateMoves
  /\ <<l, c>> # <<label, conf>>
  /\ label' = l /\ conf' = c
  /\ moves' = moves + 1
  /\ UNCHANGED <<podVars, pending, due, seen, scanning, errors, history>>

(***************************************************************************)
(* The watchdog.                                                           *)
(***************************************************************************)
nodeLabelSaysCilium == label = "constellation"

nodeUsesCiliumCNI == conf = "cilium"

cniOwned == nodeLabelSaysCilium /\ nodeUsesCiliumCNI

\* max(blastRadiusFloor, 20% of the eligible pods)
blastRadiusLimit(n) == IF n \div 5 > Floor THEN n \div 5 ELSE Floor

\* The Running pods of the table with an address of their own.
eligible ==
  {<<n, table[n].gen>> : n \in {m \in Name \ HostNetwork : table[m].phase = "running"}}

missing == eligible \ ep

\* Mutant: the pods to delete are taken from the pending entries.
overduePending == {u \in UID : pending[u] = Grace}

\* The missing pods whose pending entry is as old as the grace period.
overdue == {u \in missing : pending[u] = Grace}

\* A missing pod is entered in pending with age 0 and keeps its first entry.
pended == [u \in UID |-> IF u \in missing /\ pending[u] = None THEN 0 ELSE pending[u]]

\* History: what a check, however it ends, finds out about each pod.
observed ==
  [u \in UID |-> IF u \notin missing THEN None ELSE IF since[u] = None THEN 0 ELSE since[u]]

StandDown ==
  /\ ~scanning
  /\ ~cniOwned
  /\ since' = observed
  /\ UNCHANGED <<podVars, gateVars, pending, due, seen, scanning, errors, condemned, killed>>

\* Too many pods are due: nothing is deleted, and no pending entry is dropped.
RefuseToAct ==
  /\ ~scanning
  /\ cniOwned
  /\ Cardinality(overdue) > blastRadiusLimit(Cardinality(eligible))
  /\ pending' = pended
  /\ since' = observed
  /\ UNCHANGED <<podVars, gateVars, due, seen, scanning, errors, condemned, killed>>

Check ==
  /\ ~scanning
  /\ cniOwned
  /\ Cardinality(overdue) <= blastRadiusLimit(Cardinality(eligible))
  /\ pending' = pended
  /\ due' = overdue
  /\ seen' = missing
  /\ scanning' = TRUE
  /\ since' = observed
  /\ condemned' = condemned \cup overdue
  /\ UNCHANGED <<podVars, gateVars, errors, killed>>

\* The UID precondition of the delete.
samePod(u) == api[u[1]].gen = u[2]

\* Mutant: every pod the scan found missing is deleted.
healSeen(u) ==
  /\ u \in seen
  /\ due' = due \ {u}
  /\ samePod(u)
  /\ api[u[1]].phase \in {"starting", "running"}
  /\ api' = [api EXCEPT ![u[1]].phase = "terminating"]
  /\ killed' = killed \cup {<<u[1], api[u[1]].gen>>}
  /\ UNCHANGED <<table, ep, gateVars, pending, seen, scanning, errors, since, condemned>>

heal(u) ==
  /\ u \in due
  /\ due' = due \ {u}
  /\ \/ /\ samePod(u)
        /\ api[u[1]].phase \in {"starting", "running"}
        /\ api' = [api EXCEPT ![u[1]].phase = "terminating"]
        /\ killed' = killed \cup {<<u[1], api[u[1]].gen>>}
        /\ UNCHANGED errors
     \/ /\ ~samePod(u) \/ api[u[1]].phase \in {"none", "terminating"}
        /\ UNCHANGED <<api, killed, errors>>
     \/ /\ errors < MaxApiErrors
        /\ errors' = errors + 1
        /\ UNCHANGED <<api, killed>>
  /\ UNCHANGED <<table, ep, gateVars, pending, seen, scanning, since, condemned>>

\* Mutant: every entry is forgotten.
forgetAll == [u \in UID |-> None]

\* The pending entries of the pods this scan found missing.
forget == [u \in UID |-> IF u \in seen THEN pending[u] ELSE None]

EndCheck ==
  /\ scanning
  /\ due = {}
  /\ pending' = forget
  /\ seen' = {}
  /\ scanning' = FALSE
  /\ UNCHANGED <<podVars, gateVars, due, errors, history>>

\* Time passes; ages beyond the grace period are not told apart.
older(age) == [u \in UID |-> IF age[u] \in {None, Grace} THEN age[u] ELSE age[u] + 1]

Tick ==
  /\ <<older(pending), older(since)>> # <<pending, since>>
  /\ pending' = older(pending)
  /\ since' = older(since)
  /\ UNCHANGED <<podVars, gateVars, due, seen, scanning, errors, condemned, killed>>

Next ==
  \/ \E n \in Name : \/ CreatePod(n) \/ RunPod(n) \/ DeletePod(n) \/ RemovePod(n)
                     \/ AddEndpoint(n) \/ Reflect(n)
  \/ \E u \in UID : LoseEndpoint(u) \/ heal(u)
  \/ \E l \in {"constellation", "other"}, c \in {"cilium", "none"} : MoveGate(l, c)
  \/ StandDown \/ RefuseToAct \/ Check \/ EndCheck
  \/ Tick

Spec == Init /\ [][Next]_vars

\* The job timer runs the check again and again, a running check ends, the
\* reflector catches up and time passes.  Pods, endpoints and the gate move at
\* will.
FairSpec ==
  /\ Spec
  /\ WF_vars(Check) /\ WF_vars(EndCheck) /\ WF_vars(Tick)
  /\ \A u \in UID : WF_vars(heal(u))
  /\ \A n \in Name : WF_vars(Reflect(n))

(***************************************************************************)
(* Properties.                                                             *)
(***************************************************************************)
\* Every variable keeps its type, and a scan that is over leaves nothing due.
TypeOK ==
  /\ api \in [Name -> Row] /\ table \in [Name -> Row]
  /\ ep \subseteq UID
  /\ label \in {"constellation", "other"} /\ conf \in {"cilium", "none"}
  /\ moves \in 0 .. GateMoves /\ errors \in 0 .. MaxApiErrors
  /\ pending \in [UID -> (0 .. Grace) \cup {None}]
  /\ due \subseteq seen /\ seen \subseteq UID /\ scanning \in BOOLEAN
  /\ ~scanning => seen = {}
  /\ since \in [UID -> (0 .. Grace) \cup {None}]
  /\ condemned \subseteq UID /\ killed \subseteq UID

\* "Minimum duration a pod must continuously observe as missing its Cilium
\* endpoint": the checks have found a pod that is due missing, without a break,
\* for the whole grace period.
ContinuouslyMissing == \A u \in due : since[u] = Grace

\* The watchdog deletes exactly the pods a scan found overdue, which are never
\* on the host network: not a pod that came back under the same name while the
\* scan was running, however stale the pod table was.
OnlyCondemnedKilled == killed \subseteq condemned \ (HostNetwork \X (1 .. MaxGen))

Broken(u) == api[u[1]] = [gen |-> u[2], phase |-> "running"] /\ u \notin ep

GuardAdmits == Cardinality(overdue) <= blastRadiusLimit(Cardinality(eligible))

\* Once the gate stays open and the guard admits the pods that are due, a Running
\* pod without its endpoint is deleted or gets its endpoint, although deletes
\* may fail, the pod table is stale, and checks stood down or refused before.
BrokenPodsHealed ==
  <>[](cniOwned /\ GuardAdmits) =>
    \A u \in (Name \ HostNetwork) \X (1 .. MaxGen) : Broken(u) ~> ~Broken(u)
=============================================================================
