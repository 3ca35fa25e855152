------------------------------ MODULE IPLease ------------------------------
(***************************************************************************)
(* What the address management of the agent promises to the pods of all    *)
(* pawns, with nothing said of bitmaps, pools, timers or endpoints: an     *)
(* address belongs to at most one request at a time, from the moment it is *)
(* handed out until it is given back, and a request is served at most      *)
(* once.  ManagedIPAM implements this specification.                       *)
(***************************************************************************)
CONSTANTS Req, IP, None

VARIABLES
  state,  \* "new", "leased" (for the lease timeout), "held" or "done"
  addr    \* the address the request was given, or None

leaseVars == <<state, addr>>

Taken(a) == \E q \in Req : addr[q] = a /\ state[q] \in {"leased", "held"}

Init ==
  /\ state = [r \in Req |-> "new"]
  /\ addr = [r \in Req |-> None]

\* An address nobody has is handed to a request, under a lease or for good.
Grant(r) ==
  /\ state[r] = "new"
  /\ \E a \in IP :
       /\ addr' = [addr EXCEPT ![r] = a]
       /\ ~Taken(a)
  /\ \E s \in {"leased", "held"} : state' = [state EXCEPT ![r] = s]

\* No address is free, or the request was refused.
Refuse(r) ==
  /\ state[r] = "new"
  /\ state' = [state EXCEPT ![r] = "done"]
  /\ UNCHANGED addr

\* The endpoint exists: the lease is over and the address stays.
Confirm(r) ==
  /\ state[r] = "leased"
  /\ state' = [state EXCEPT ![r] = "held"]
  /\ UNCHANGED addr

\* The lease ran out, the creation failed or the endpoint was deleted.
Return(r) ==
  /\ state[r] \in {"leased", "held"}
  /\ state' = [state EXCEPT ![r] = "done"]
  /\ UNCHANGED addr

Next == \E r \in Req : Grant(r) \/ Refuse(r) \/ Confirm(r) \/ Return(r)

Spec == Init /\ [][Next]_leaseVars
=============================================================================
