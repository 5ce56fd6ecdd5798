------------------------------ MODULE MCUnits -------------------------------
(* How an instance runs its units: the lease that says who runs a driver, the   *)
(* registry of supervisors, a detect unit and a canary.  The four share no       *)
(* state, so they stand side by side: part is the one that moves, the others     *)
(* stay where they begin.  The detect unit comes in two instances: one with a    *)
(* record that is no event among others, and one whose first record the engine   *)
(* refuses while the next one goes through.                                      *)
EXTENDS Lease

VARIABLES
    part,
    file, stamp, reg, last, mtime, reg_stop, thread, runs, reg_pc, seen, missed, failures,
    stateful, snap, out, dead, cursor, pending, delivered, det_pc, det_stop, chan, batch,
    engine, held, to_ack, retrying, acked_max, det_fresh, det_faults,
    live, start, base, current, shadowing, total, changed, ring, stale, shadow, pos, fetched,
    msgs, read, can_faults, events

Reg == INSTANCE Registry WITH
    Callers <- {"caller"}, MaxHandles <- 4, MaxEdits <- 3, MaxFailures <- 1,
    pc <- reg_pc, stop <- reg_stop

DetKinds == {"crash", "stop", "dlq", "ack", "store", "first", "barrier", "delivery"}
Det == INSTANCE DetectUnit WITH
    Last <- 3, Bad <- {2}, Toxic <- {}, Refused <- {}, Modes <- BOOLEAN,
    MAX_DELIVERIES <- 2, BATCH <- 2, MaxChan <- 2, MaxCrashes <- 1, MaxFaults <- 1,
    Kinds <- DetKinds,
    pc <- det_pc, stop <- det_stop, fresh <- det_fresh, faults <- det_faults
Ret == INSTANCE DetectUnit WITH
    Last <- 2, Bad <- {}, Toxic <- {1}, Refused <- {}, Modes <- BOOLEAN,
    MAX_DELIVERIES <- 2, BATCH <- 2, MaxChan <- 2, MaxCrashes <- 1, MaxFaults <- 1,
    Kinds <- DetKinds,
    pc <- det_pc, stop <- det_stop, fresh <- det_fresh, faults <- det_faults

Can == INSTANCE Canary WITH
    Starts <- {1, 2}, Candidate <- 2, Versions <- {1, 2}, Rings <- 1, MaxMsgs <- 2,
    MaxEvents <- 1,
    snap <- base, running <- shadowing, thread <- shadow, batch <- fetched, faults <- can_faults

regVars == <<file, stamp, reg, last, mtime, reg_stop, thread, runs, reg_pc, seen, missed, failures>>
detVars == <<stateful, snap, out, dead, cursor, pending, delivered, det_pc, det_stop, chan, batch,
             engine, held, to_ack, retrying, acked_max, det_fresh, det_faults>>
canVars == <<live, start, base, current, shadowing, total, changed, ring, stale, shadow, pos,
             fetched, msgs, read, can_faults, events>>

UnitsInit ==
    /\ part \in {"lease", "registry", "detect", "retry", "canary"}
    /\ Init /\ Reg!Init /\ Can!Init
    /\ IF part = "retry" THEN Ret!Init ELSE Det!Init
    /\ part \notin {"detect", "retry"} => stateful

UnitsNext ==
    \/ part = "lease"    /\ Next     /\ UNCHANGED <<part, regVars, detVars, canVars>>
    \/ part = "registry" /\ Reg!Next /\ UNCHANGED <<part, vars, detVars, canVars>>
    \/ part = "detect"   /\ Det!Next /\ UNCHANGED <<part, vars, regVars, canVars>>
    \/ part = "retry"    /\ Ret!Next /\ UNCHANGED <<part, vars, regVars, canVars>>
    \/ part = "canary"   /\ Can!Next /\ UNCHANGED <<part, vars, regVars, detVars>>

\* The fairness of each part, for the part that moves.
UnitsFairness ==
    /\ \A n \in Nodes : /\ WF_vars(part = "lease" /\ Thread(n))
                       /\ WF_vars(part = "lease" /\ RenewRefused(n))
    /\ WF_vars(part = "lease" /\ Others)
    /\ WF_regVars(part = "registry" /\ Reg!Progress)
    /\ WF_detVars(\/ part = "detect" /\ Det!Progress
                  \/ part = "retry"  /\ Ret!Progress)
    /\ \A s \in {1, 2} : WF_canVars(part = "canary" /\ Can!Steps(s))

UnitsSpec ==
    UnitsInit /\ [][UnitsNext]_<<part, vars, regVars, detVars, canVars>> /\ UnitsFairness

-----------------------------------------------------------------------------
\* Every part has the states the code gives it.
UnitsTypeOK ==
    /\ TypeOK /\ Reg!TypeOK /\ Can!TypeOK
    /\ IF part = "retry" THEN Ret!TypeOK ELSE Det!TypeOK

\* The lease (Lease): no leader goes on for good once its entry is gone, and the
\* driver is never without a leader for good.
LeaderIsTheOne == FencedStandsDown /\ []<>(part = "lease" => Led)

\* The registry (Registry), with one caller at a time: a unit has one supervisor that
\* goes on.
UnitHasOneSupervisor == Reg!OneSupervisor

\* A detect unit (DetectUnit) publishes before it acks, a snapshot stands for nothing
\* that was not processed, and the engine has seen all that will not be sent again.
DetectLosesNothing ==
    IF part = "retry"
    THEN Ret!AckedIsOut /\ Ret!SnapshotLosesNothing /\ Ret!EngineSawAll
    ELSE Det!AckedIsOut /\ Det!SnapshotLosesNothing /\ Det!EngineSawAll

\* A canary (Canary) is never replaced while it runs, keeps the last results, and counts
\* all it shows.
CanaryTellsTrue == Can!NoCanaryVanishes /\ Can!ResultsAreTheLast /\ Can!ShownIsCounted

\* A reload that has seen the last edit ends with the unit as the file is (Registry), every
\* message of a detect unit settles, and a canary stops once its version is no longer in
\* force.
UnitsComeRound ==
    /\ <>[]Reg!Quiet => <>[](part = "registry" => Reg!Applied)
    /\ []<>(/\ part = "detect" => Det!AllSettled
            /\ part = "retry"  => Ret!AllSettled)
    /\ \A s \in {1, 2} : []<>~Can!GoesOnStale(s)
=============================================================================
