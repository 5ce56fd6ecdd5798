----------------------------- MODULE LeaseProofs ----------------------------
(***************************************************************************)
(* Without a stall one node at the most runs a singleton, for any number   *)
(* of nodes and faults.                                                    *)
(***************************************************************************)
EXTENDS Lease, TLAPS

\* Whoever believes that it owns the key has its name in the entry.
OwnerIsNamed == ~stalled => \A n \in Nodes : Owning(n) => lease = n

IInv == TypeOK /\ OwnerIsNamed

\* Faults stay within their bound.
LEMMA FaultsBounded ==
    ASSUME TypeOK, faults' = faults \/ Fault PROVE faults' \in 0..MaxFaults
  BY LeaseAssumption DEF TypeOK, Fault

\* A step that moves no node into ownership and leaves the entry keeps it.
LEMMA KeepsEntry ==
    ASSUME IInv, stalled' = stalled, lease' = lease,
           \A n \in Nodes : Owning(n)' => Owning(n)
    PROVE  OwnerIsNamed'
  BY DEF IInv, OwnerIsNamed

\* Every step of a node, of its threads and of the bucket keeps the invariant.
LEMMA StepInv == IInv /\ [Next]_vars => IInv'
  <1> SUFFICES ASSUME IInv, [Next]_vars PROVE IInv'
    OBVIOUS
  <1> USE DEF IInv, TypeOK, Goto
  <1>1. ASSUME NEW n \in Nodes, Attempt(n) \/ AttemptUnleased(n) PROVE IInv'
    <2>1. TypeOK'
      <3>1. (/\ lease \in Nodes \cup {NoNode} /\ fresh \in Nodes \cup {NoNode}
             /\ pc \in [Nodes -> Steps])'
        BY <1>1 DEF Attempt, AttemptUnleased, Steps
      <3>2. (/\ running \in [Nodes -> BOOLEAN] /\ renewing \in [Nodes -> BOOLEAN]
             /\ ghost \in [Nodes -> BOOLEAN] /\ stop \in [Nodes -> BOOLEAN]
             /\ late \in BOOLEAN /\ stalled \in BOOLEAN)'
        BY <1>1, Zenon DEF Attempt, AttemptUnleased
      <3>3. faults' = faults \/ Fault
        BY <1>1 DEF Attempt, AttemptUnleased
      <3>4. (\A m \in Nodes : renewing[m] => Owning(m))'
        BY <1>1 DEF Attempt, AttemptUnleased, Owning
      <3> QED BY <3>1, <3>2, <3>3, <3>4, FaultsBounded
    <2>2. OwnerIsNamed'
      BY <1>1, KeepsEntry DEF Attempt, AttemptUnleased, Owning
    <2> QED BY <2>1, <2>2
  <1>2. ASSUME NEW n \in Nodes, Sidecar(n) \/ GhostClears(n) \/ Stop(n) PROVE IInv'
    <2>1. TypeOK'
      <3>1. (/\ lease \in Nodes \cup {NoNode} /\ fresh \in Nodes \cup {NoNode}
             /\ pc \in [Nodes -> Steps])'
        BY <1>2 DEF Sidecar, GhostClears, Stop, Steps
      <3>2. (/\ running \in [Nodes -> BOOLEAN] /\ renewing \in [Nodes -> BOOLEAN]
             /\ ghost \in [Nodes -> BOOLEAN] /\ stop \in [Nodes -> BOOLEAN]
             /\ late \in BOOLEAN /\ stalled \in BOOLEAN)'
        BY <1>2, Zenon DEF Sidecar, GhostClears, Stop
      <3>3. faults' = faults \/ Fault
        BY <1>2 DEF Sidecar, GhostClears, Stop
      <3>4. (\A m \in Nodes : renewing[m] => Owning(m))'
        BY <1>2 DEF Sidecar, GhostClears, Stop, Owning
      <3> QED BY <3>1, <3>2, <3>3, <3>4, FaultsBounded
    <2>2. OwnerIsNamed'
      BY <1>2, KeepsEntry DEF Sidecar, GhostClears, Stop, Owning
    <2> QED BY <2>1, <2>2
  <1>3. ASSUME NEW n \in Nodes, DriverReturns(n) \/ SeeStop(n) PROVE IInv'
    <2>1. TypeOK'
      <3>1. (/\ lease \in Nodes \cup {NoNode} /\ fresh \in Nodes \cup {NoNode}
             /\ pc \in [Nodes -> Steps])'
        BY <1>3, Zenon DEF DriverReturns, SeeStop, Steps
      <3>2. (/\ running \in [Nodes -> BOOLEAN] /\ renewing \in [Nodes -> BOOLEAN]
             /\ ghost \in [Nodes -> BOOLEAN] /\ stop \in [Nodes -> BOOLEAN]
             /\ late \in BOOLEAN /\ stalled \in BOOLEAN)'
        BY <1>3, Zenon DEF DriverReturns, SeeStop
      <3>3. faults' = faults \/ Fault
        BY <1>3, Zenon DEF DriverReturns, SeeStop
      <3>4. (\A m \in Nodes : renewing[m] => Owning(m))'
        BY <1>3, Zenon DEF DriverReturns, SeeStop, Owning
      <3> QED BY <3>1, <3>2, <3>3, <3>4, FaultsBounded
    <2>2. OwnerIsNamed'
      BY <1>3, KeepsEntry, Zenon DEF DriverReturns, SeeStop, Owning
    <2> QED BY <2>1, <2>2
  <1>4. ASSUME NEW n \in Nodes, RenewRefused(n) \/ RenewFails(n) PROVE IInv'
    <2>1. TypeOK'
      <3>1. (/\ lease \in Nodes \cup {NoNode} /\ fresh \in Nodes \cup {NoNode}
             /\ pc \in [Nodes -> Steps])'
        BY <1>4 DEF RenewRefused, RenewFails, Steps
      <3>2. (/\ running \in [Nodes -> BOOLEAN] /\ renewing \in [Nodes -> BOOLEAN]
             /\ ghost \in [Nodes -> BOOLEAN] /\ stop \in [Nodes -> BOOLEAN]
             /\ late \in BOOLEAN /\ stalled \in BOOLEAN)'
        BY <1>4, Zenon DEF RenewRefused, RenewFails
      <3>3. faults' = faults \/ Fault
        BY <1>4 DEF RenewRefused, RenewFails
      <3>4. (\A m \in Nodes : renewing[m] => Owning(m))'
        BY <1>4 DEF RenewRefused, RenewFails, Owning
      <3> QED BY <3>1, <3>2, <3>3, <3>4, FaultsBounded
    <2>2. OwnerIsNamed'
      BY <1>4, KeepsEntry DEF RenewRefused, RenewFails, Owning
    <2> QED BY <2>1, <2>2
  <1>5. ASSUME NEW n \in Nodes, Acquire(n) \/ CreateLost(n) PROVE IInv'
    <2>1. TypeOK'
      <3>1. (/\ lease \in Nodes \cup {NoNode} /\ fresh \in Nodes \cup {NoNode}
             /\ pc \in [Nodes -> Steps])'
        BY <1>5 DEF Acquire, CreateLost, Steps
      <3>2. (/\ running \in [Nodes -> BOOLEAN] /\ renewing \in [Nodes -> BOOLEAN]
             /\ ghost \in [Nodes -> BOOLEAN] /\ stop \in [Nodes -> BOOLEAN]
             /\ late \in BOOLEAN /\ stalled \in BOOLEAN)'
        BY <1>5, Zenon DEF Acquire, CreateLost
      <3>3. faults' = faults \/ Fault
        BY <1>5 DEF Acquire, CreateLost
      <3>4. (\A m \in Nodes : renewing[m] => Owning(m))'
        BY <1>5 DEF Acquire, CreateLost, Owning
      <3> QED BY <3>1, <3>2, <3>3, <3>4, FaultsBounded
    <2>2. OwnerIsNamed'
      BY <1>5, LeaseAssumption DEF Acquire, CreateLost, OwnerIsNamed, Owning
    <2> QED BY <2>1, <2>2
  <1>6. ASSUME NEW n \in Nodes, Release(n) PROVE IInv'
    <2>1. TypeOK'
      <3>1. (/\ lease \in Nodes \cup {NoNode} /\ fresh \in Nodes \cup {NoNode}
             /\ pc \in [Nodes -> Steps])'
        BY <1>6, Zenon DEF Release, Steps
      <3>2. (/\ running \in [Nodes -> BOOLEAN] /\ renewing \in [Nodes -> BOOLEAN]
             /\ ghost \in [Nodes -> BOOLEAN] /\ stop \in [Nodes -> BOOLEAN]
             /\ late \in BOOLEAN /\ stalled \in BOOLEAN)'
        BY <1>6, Zenon DEF Release
      <3>3. faults' = faults \/ Fault
        BY <1>6, Zenon DEF Release
      <3>4. (\A m \in Nodes : renewing[m] => Owning(m))'
        BY <1>6 DEF Release, Owning
      <3> QED BY <3>1, <3>2, <3>3, <3>4, FaultsBounded
    <2>2. ~Owning(n)' /\ stalled' = stalled /\ Owning(n)
      BY <1>6 DEF Release, Owning
    <2>3. \A m \in Nodes \ {n} : Owning(m)' => Owning(m)
      BY <1>6 DEF Release, Owning
    <2> QED BY <2>1, <2>2, <2>3 DEF OwnerIsNamed
  <1>7. ASSUME NEW n \in Nodes, Crash(n) PROVE IInv'
    <2>1. TypeOK'
      <3>1. (/\ lease \in Nodes \cup {NoNode} /\ fresh \in Nodes \cup {NoNode}
             /\ pc \in [Nodes -> Steps])'
        BY <1>7 DEF Crash, Steps
      <3>2. (/\ running \in [Nodes -> BOOLEAN] /\ renewing \in [Nodes -> BOOLEAN]
             /\ ghost \in [Nodes -> BOOLEAN] /\ stop \in [Nodes -> BOOLEAN]
             /\ late \in BOOLEAN /\ stalled \in BOOLEAN)'
        BY <1>7 DEF Crash
      <3>3. faults' = faults \/ Fault
        BY <1>7 DEF Crash
      <3>4. (\A m \in Nodes : renewing[m] => Owning(m))'
        BY <1>7 DEF Crash, Owning
      <3> QED BY <3>1, <3>2, <3>3, <3>4, FaultsBounded
    <2>2. OwnerIsNamed'
      BY <1>7, KeepsEntry DEF Crash, Owning
    <2> QED BY <2>1, <2>2
  <1>8. CASE Expire
    <2>1. TypeOK'
      <3>1. (/\ lease \in Nodes \cup {NoNode} /\ fresh \in Nodes \cup {NoNode}
             /\ pc \in [Nodes -> Steps])'
        BY <1>8 DEF Expire, Steps
      <3>2. (/\ running \in [Nodes -> BOOLEAN] /\ renewing \in [Nodes -> BOOLEAN]
             /\ ghost \in [Nodes -> BOOLEAN] /\ stop \in [Nodes -> BOOLEAN]
             /\ late \in BOOLEAN /\ stalled \in BOOLEAN)'
        BY <1>8, Zenon DEF Expire
      <3>3. faults' = faults \/ Fault
        BY <1>8 DEF Expire
      <3>4. (\A m \in Nodes : renewing[m] => Owning(m))'
        BY <1>8 DEF Expire, Owning
      <3> QED BY <3>1, <3>2, <3>3, <3>4, FaultsBounded
    <2>2. stalled' \/ (stalled' = stalled /\ lease \in Nodes /\ ~Owning(lease))
      BY <1>8 DEF Expire
    <2>3. pc' = pc
      BY <1>8 DEF Expire
    <2> QED BY <2>1, <2>2, <2>3 DEF OwnerIsNamed, Owning
  <1>9. CASE LateDelete
    <2>1. TypeOK'
      <3>1. (/\ lease \in Nodes \cup {NoNode} /\ fresh \in Nodes \cup {NoNode}
             /\ pc \in [Nodes -> Steps])'
        BY <1>9 DEF LateDelete, Steps
      <3>2. (/\ running \in [Nodes -> BOOLEAN] /\ renewing \in [Nodes -> BOOLEAN]
             /\ ghost \in [Nodes -> BOOLEAN] /\ stop \in [Nodes -> BOOLEAN]
             /\ late \in BOOLEAN /\ stalled \in BOOLEAN)'
        BY <1>9, Zenon DEF LateDelete
      <3>3. faults' = faults \/ Fault
        BY <1>9 DEF LateDelete
      <3>4. (\A m \in Nodes : renewing[m] => Owning(m))'
        BY <1>9 DEF LateDelete, Owning
      <3> QED BY <3>1, <3>2, <3>3, <3>4, FaultsBounded
    <2>2. pc' = pc /\ (stalled' <=> (stalled \/ (lease # NoNode /\ Owning(lease))))
      BY <1>9, Zenon DEF LateDelete
    <2> QED BY <2>1, <2>2, LeaseAssumption DEF OwnerIsNamed, Owning
  <1>10. CASE UNCHANGED vars
    BY <1>10 DEF vars, OwnerIsNamed, Owning
  <1> QED BY <1>1, <1>2, <1>3, <1>4, <1>5, <1>6, <1>7, <1>8, <1>9, <1>10 DEF Next, Thread

\* A singleton source runs on one node at a time, on any cluster, as long as no
\* entry is lost under an owner whose driver still runs.
THEOREM OneLeaderHolds == Spec => [](TypeOK /\ OneLeader)
  <1>1. Init => IInv
    <2> SUFFICES ASSUME Init PROVE IInv
      OBVIOUS
    <2>1. faults \in 0..MaxFaults
      BY LeaseAssumption DEF Init
    <2>2. OwnerIsNamed /\ \A n \in Nodes : renewing[n] => Owning(n)
      BY DEF Init, OwnerIsNamed, Owning
    <2> QED BY <2>1, <2>2, Zenon DEF Init, IInv, TypeOK, Steps
  <1>2. IInv => TypeOK /\ OneLeader
    BY DEF IInv, OwnerIsNamed, OneLeader
  <1> QED BY <1>1, <1>2, StepInv, PTL DEF Spec
=============================================================================
