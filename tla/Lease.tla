-------------------------------- MODULE Lease -------------------------------
(***************************************************************************)
(* The singleton lease (core/src/cluster.rs) under supervise_connector     *)
(* (core/src/main.rs), for one connector and one key of the bucket.  The   *)
(* broker bridges carry the same code (connectors/{amqp,mq}/src/lease.rs). *)
(*                                                                         *)
(* create, update and delete of the JetStream KV bucket are external.  A   *)
(* revision matters only in one way: whether it is still the key's latest. *)
(* So the model keeps the owner of the entry, and the one node, if any,    *)
(* whose renewal thread knows the latest revision.                         *)
(***************************************************************************)
EXTENDS Naturals, FiniteSets

CONSTANTS
    Nodes,       \* runtimes that run the connector
    NoNode,
    MaxFaults    \* bound: stalls, crashes, stops, failed calls and drivers

ASSUME LeaseAssumption == NoNode \notin Nodes /\ MaxFaults \in Nat

VARIABLES
    lease,     \* who created the entry, or NoNode when the key is absent
    fresh,     \* whose revision is the key's latest, or NoNode
    late,      \* a delete that timed out is still on its way to the server
    pc,        \* where each node's supervisor is
    running,   \* ctx.running, one flag for all attempts of a supervisor
    renewing,  \* the attempt's renewal thread is there
    ghost,     \* a thread of an earlier attempt is about to clear `running'
    stop,      \* handle.stop
    stalled,   \* an entry was lost under an owner whose driver still ran
    faults

vars == <<lease, fresh, late, pc, running, renewing, ghost, stop, stalled, faults>>

Goto(n, step) == pc' = [pc EXCEPT ![n] = step]

Fault == faults < MaxFaults /\ faults' = faults + 1

\* Between create and the guard's drop the node believes that it owns the key.
Owning(n) == pc[n] \in {"leader", "leaving"}

Init ==
    /\ lease = NoNode
    /\ fresh = NoNode
    /\ late = FALSE
    /\ pc = [n \in Nodes |-> "between"]
    /\ running = [n \in Nodes |-> TRUE]
    /\ renewing = [n \in Nodes |-> FALSE]
    /\ ghost = [n \in Nodes |-> FALSE]
    /\ stop = [n \in Nodes |-> FALSE]
    /\ stalled = FALSE
    /\ faults = 0

-----------------------------------------------------------------------------
(* supervise_connector.                                                    *)

\* An attempt begins: `running' is raised, and the node stands by.
Attempt(n) ==
    /\ pc[n] = "between"
    /\ ~stop[n]
    /\ running' = [running EXCEPT ![n] = TRUE]
    /\ Goto(n, "standby")
    /\ UNCHANGED <<lease, fresh, late, renewing, ghost, stop, stalled, faults>>

\* The bucket cannot be opened: the driver runs without a lease.
AttemptUnleased(n) ==
    /\ pc[n] = "between"
    /\ ~stop[n]
    /\ Fault
    /\ running' = [running EXCEPT ![n] = TRUE]
    /\ Goto(n, "unleased")
    /\ UNCHANGED <<lease, fresh, late, renewing, ghost, stop, stalled>>

\* The sidecar thread carries handle.stop over to `running'.
Sidecar(n) ==
    /\ stop[n]
    /\ running[n]
    /\ running' = [running EXCEPT ![n] = FALSE]
    /\ UNCHANGED <<lease, fresh, late, pc, renewing, ghost, stop, stalled, faults>>

\* A renewal or sidecar thread that outlived its attempt clears the flag it
\* shares with the attempt of now.
GhostClears(n) ==
    /\ ghost[n]
    /\ ghost' = [ghost EXCEPT ![n] = FALSE]
    /\ running' = [running EXCEPT ![n] = FALSE]
    /\ UNCHANGED <<lease, fresh, late, pc, renewing, stop, stalled, faults>>

\* driver.run returns: it saw `running' down, or it failed.
DriverReturns(n) ==
    /\ pc[n] \in {"leader", "unleased"}
    /\ \/ ~running[n] /\ UNCHANGED faults
       \/ running[n] /\ Fault
    /\ Goto(n, IF pc[n] = "leader" THEN "leaving" ELSE "between")
    /\ running' = [running EXCEPT ![n] = IF pc[n] = "leader" THEN @ ELSE FALSE]
    /\ UNCHANGED <<lease, fresh, late, renewing, ghost, stop, stalled>>

\* The loop, or acquire_blocking in standby, sees that it is to stop.
SeeStop(n) ==
    /\ stop[n]
    /\ pc[n] \in {"between", "standby"}
    /\ Goto(n, "stopped")
    /\ running' = [running EXCEPT ![n] = FALSE]
    /\ UNCHANGED <<lease, fresh, late, renewing, ghost, stop, stalled, faults>>

-----------------------------------------------------------------------------
(* cluster.rs.                                                             *)

\* Mutant: a plain put instead of the atomic create.
AcquirePuts(n) ==
    /\ pc[n] = "standby"
    /\ lease' = n
    /\ fresh' = n
    /\ renewing' = [renewing EXCEPT ![n] = TRUE]
    /\ Goto(n, "leader")
    /\ UNCHANGED <<late, running, ghost, stop, stalled, faults>>

\* Mutant: the lease is taken without a renewal thread.
AcquireNoRenewal(n) ==
    /\ pc[n] = "standby"
    /\ ~stop[n]
    /\ lease = NoNode
    /\ lease' = n
    /\ fresh' = n
    /\ Goto(n, "leader")
    /\ UNCHANGED <<late, running, renewing, ghost, stop, stalled, faults>>

\* create succeeds, the renewal thread starts, the driver runs.
Acquire(n) ==
    /\ pc[n] = "standby"
    /\ ~stop[n]
    /\ lease = NoNode
    /\ lease' = n
    /\ fresh' = n
    /\ renewing' = [renewing EXCEPT ![n] = TRUE]
    /\ Goto(n, "leader")
    /\ UNCHANGED <<late, running, ghost, stop, stalled, faults>>

\* create times out after the server has done it: the node stands by, behind an
\* entry of its own that nobody renews.
CreateLost(n) ==
    /\ pc[n] = "standby"
    /\ ~stop[n]
    /\ lease = NoNode
    /\ Fault
    /\ lease' = n
    /\ fresh' = NoNode
    /\ UNCHANGED <<late, pc, running, renewing, ghost, stop, stalled>>

\* The thread's update, a compare-and-set, is refused: `running' goes down and
\* the thread ends.
RenewRefused(n) ==
    /\ renewing[n]
    /\ fresh # n
    /\ renewing' = [renewing EXCEPT ![n] = FALSE]
    /\ running' = [running EXCEPT ![n] = FALSE]
    /\ UNCHANGED <<lease, fresh, late, pc, ghost, stop, stalled, faults>>

\* It times out: the same, whether or not the entry got its new revision.
RenewFails(n) ==
    /\ renewing[n]
    /\ fresh = n
    /\ Fault
    /\ fresh' \in {n, NoNode}
    /\ renewing' = [renewing EXCEPT ![n] = FALSE]
    /\ running' = [running EXCEPT ![n] = FALSE]
    /\ UNCHANGED <<lease, late, pc, ghost, stop, stalled>>

\* Mutant: the guard goes without releasing the lease, and its thread stays.
ReleaseForgets(n) ==
    /\ pc[n] = "leaving"
    /\ running' = [running EXCEPT ![n] = FALSE]
    /\ Goto(n, "between")
    /\ UNCHANGED <<lease, fresh, late, renewing, ghost, stop, stalled, faults>>

\* Drop for LeaseGuard: the renewal thread is told to end, and the key is
\* deleted, whoever owns it.  The delete may time out, and then be lost or late.
Release(n) ==
    /\ pc[n] = "leaving"
    /\ \/ /\ lease' = NoNode /\ fresh' = NoNode
          /\ UNCHANGED <<late, faults>>
       \/ /\ Fault
          /\ late' \in {late, TRUE}
          /\ UNCHANGED <<lease, fresh>>
    /\ ghost' \in {ghost, [ghost EXCEPT ![n] = renewing[n]]}
    /\ renewing' = [renewing EXCEPT ![n] = FALSE]
    /\ running' = [running EXCEPT ![n] = FALSE]
    /\ Goto(n, "between")
    /\ UNCHANGED <<stop, stalled>>

-----------------------------------------------------------------------------
(* The environment.                                                        *)

\* The entry ages out.  Under a live owner only when that owner is late: its
\* process stalls, or its driver takes its time after the renewals ended.
Expire ==
    /\ lease # NoNode
    /\ IF Owning(lease) \/ renewing[lease]
       THEN Fault /\ stalled' = TRUE
       ELSE UNCHANGED <<faults, stalled>>
    /\ lease' = NoNode
    /\ fresh' = NoNode
    /\ UNCHANGED <<late, pc, running, renewing, ghost, stop>>

\* The late delete arrives.
LateDelete ==
    /\ late
    /\ late' = FALSE
    /\ stalled' = (stalled \/ (lease # NoNode /\ Owning(lease)))
    /\ lease' = NoNode
    /\ fresh' = NoNode
    /\ UNCHANGED <<pc, running, renewing, ghost, stop, faults>>

Stop(n) ==
    /\ ~stop[n]
    /\ Fault
    /\ stop' = [stop EXCEPT ![n] = TRUE]
    /\ UNCHANGED <<lease, fresh, late, pc, running, renewing, ghost, stalled>>

\* The process dies, and comes back with nothing but its files.
Crash(n) ==
    /\ Fault
    /\ Goto(n, "between")
    /\ running' = [running EXCEPT ![n] = TRUE]
    /\ renewing' = [renewing EXCEPT ![n] = FALSE]
    /\ ghost' = [ghost EXCEPT ![n] = FALSE]
    /\ stop' = [stop EXCEPT ![n] = FALSE]
    /\ fresh' = IF fresh = n THEN NoNode ELSE fresh
    /\ UNCHANGED <<lease, late, stalled>>

-----------------------------------------------------------------------------
Thread(n) ==
    \/ Attempt(n) \/ Acquire(n) \/ DriverReturns(n) \/ Release(n) \/ SeeStop(n)

Next ==
    \/ \E n \in Nodes :
          \/ Thread(n) \/ AttemptUnleased(n) \/ CreateLost(n) \/ Sidecar(n) \/ GhostClears(n)
          \/ RenewRefused(n) \/ RenewFails(n) \/ Stop(n) \/ Crash(n)
    \/ Expire
    \/ LateDelete

Spec == Init /\ [][Next]_vars

Others == (Expire /\ UNCHANGED faults) \/ \E n \in Nodes : Sidecar(n) \/ GhostClears(n)

\* Every thread of a node is scheduled, a driver looks at its flag, renewals
\* come round, and an entry whose owner is gone ages out.
Fairness ==
    /\ \A n \in Nodes : WF_vars(Thread(n)) /\ WF_vars(RenewRefused(n))
    /\ WF_vars(Others)

FairSpec == Spec /\ Fairness

-----------------------------------------------------------------------------
Steps == {"between", "standby", "unleased", "leader", "leaving", "stopped"}

\* The nodes, the entry and the flags have the states the code gives them, and
\* a renewal thread is there only while its node owns the key.
TypeOK ==
    /\ lease \in Nodes \cup {NoNode} /\ fresh \in Nodes \cup {NoNode}
    /\ pc \in [Nodes -> Steps]
    /\ running \in [Nodes -> BOOLEAN] /\ renewing \in [Nodes -> BOOLEAN]
    /\ ghost \in [Nodes -> BOOLEAN] /\ stop \in [Nodes -> BOOLEAN]
    /\ \A n \in Nodes : renewing[n] => Owning(n)
    /\ late \in BOOLEAN /\ stalled \in BOOLEAN
    /\ faults \in 0..MaxFaults

\* "must run on exactly one instance": as long as no entry is lost under an
\* owner whose driver still runs, no two nodes run the driver under the lease;
\* through crashes, failovers, failed renewals, failed releases and stops.
OneLeader ==
    ~stalled => \A n, m \in Nodes : Owning(n) /\ Owning(m) => n = m

\* "a paused leader that wakes with a stale revision fails and stands down": no
\* leader whose entry is gone or not its own goes on for good, however it was lost.
Fenced(n) == pc[n] = "leader" /\ fresh # n
FencedStandsDown == \A n \in Nodes : []<>~Fenced(n)

\* A stop, a crash or a stall never leaves the connector without a leader for
\* good while a node is there to run it.
Led ==
    \/ \E n \in Nodes : pc[n] \in {"leader", "unleased"}
    \/ \A n \in Nodes : stop[n]
SomeoneLeads == []<>Led
=============================================================================
