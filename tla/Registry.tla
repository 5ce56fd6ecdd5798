------------------------------ MODULE Registry ------------------------------
(***************************************************************************)
(* The registry of supervised units (core/src/main.rs): restart_unit,      *)
(* reload and start_proc, called from HTTP handlers, the control channel   *)
(* and the version watch, for one unit and its file.                       *)
(*                                                                         *)
(* A handle is a number, given in the order of start_proc.  The registry   *)
(* mutex is held for one look or one insert at a time, never over a call.  *)
(***************************************************************************)
EXTENDS Naturals

CONSTANTS
    Callers,     \* threads that call restart_unit and reload
    MaxHandles,  \* bound: starts of the unit
    MaxEdits,    \* bound: writes and removals of its file
    MaxFailures  \* bound: failed attempts of its supervisors

Handles == 1..MaxHandles
Stamps  == 0..(MaxEdits + 1)

VARIABLES
    file,     \* the mtime of the unit's file, 0 when there is none
    stamp,    \* the latest mtime so far
    reg,      \* the unit's handle in the registry, 0 when there is none
    last,     \* the latest handle
    mtime,    \* Handle.spec.mtime
    stop,     \* Handle.stop
    thread,   \* the supervisor's thread
    runs,     \* the content its attempt runs, 0 between attempts
    pc,       \* where each caller is
    seen,     \* the mtime its scan found
    missed,   \* the file changed after the latest scan of a reload
    failures

handleVars == <<mtime, stop, thread, runs>>
vars == <<file, stamp, reg, last, mtime, stop, thread, runs, pc, seen, missed, failures>>

Goto(c, step) == pc' = [pc EXCEPT ![c] = step]

Init ==
    /\ file = 1 /\ stamp = 1
    /\ reg = 0 /\ last = 0
    /\ mtime = [h \in Handles |-> 0]
    /\ stop = [h \in Handles |-> FALSE]
    /\ thread = [h \in Handles |-> "none"]
    /\ runs = [h \in Handles |-> 0]
    /\ pc = [c \in Callers |-> "idle"]
    /\ seen = [c \in Callers |-> 0]
    /\ missed = TRUE
    /\ failures = 0

-----------------------------------------------------------------------------
\* restart_unit scans the files, and knows nothing of a unit without one.
RestartScan(c) ==
    /\ pc[c] = "idle"
    /\ file # 0
    /\ last < MaxHandles
    /\ seen' = [seen EXCEPT ![c] = file]
    /\ Goto(c, "halt")
    /\ UNCHANGED <<file, stamp, reg, last, handleVars, missed, failures>>

\* reload scans them too.
ReloadScan(c) ==
    /\ pc[c] = "idle"
    /\ last < MaxHandles
    /\ seen' = [seen EXCEPT ![c] = file]
    /\ missed' = FALSE
    /\ Goto(c, "look")
    /\ UNCHANGED <<file, stamp, reg, last, handleVars, failures>>

\* Mutant: mtimes in units of two.
ReloadLookCoarse(c) ==
    /\ pc[c] = "look"
    /\ LET gone == reg # 0 /\ seen[c] = 0 /\ ~stop[reg]
       IN  /\ stop' = IF gone THEN [stop EXCEPT ![reg] = TRUE] ELSE stop
           /\ Goto(c, CASE seen[c] = 0                          -> "idle"
                        [] seen[c] # 0 /\ reg = 0               -> "insert"
                        [] seen[c] # 0 /\ reg # 0 /\ stop[reg]  -> "insert"
                        [] OTHER -> IF mtime[reg] \div 2 # seen[c] \div 2 THEN "halt" ELSE "idle")
    /\ UNCHANGED <<file, stamp, reg, last, mtime, thread, runs, seen, missed, failures>>

\* Under the lock: a unit without a file is told to stop; one with a file is
\* started when it is new or stopped, restarted when its mtime changed.
ReloadLook(c) ==
    /\ pc[c] = "look"
    /\ LET gone == reg # 0 /\ seen[c] = 0 /\ ~stop[reg]
       IN  /\ stop' = IF gone THEN [stop EXCEPT ![reg] = TRUE] ELSE stop
           /\ Goto(c, CASE seen[c] = 0                          -> "idle"
                        [] seen[c] # 0 /\ reg = 0               -> "insert"
                        [] seen[c] # 0 /\ reg # 0 /\ stop[reg]  -> "insert"
                        [] OTHER -> IF mtime[reg] # seen[c] THEN "halt" ELSE "idle")
    /\ UNCHANGED <<file, stamp, reg, last, mtime, thread, runs, seen, missed, failures>>

\* Mutant: the running supervisor is not told to stop.
HaltForgets(c) ==
    /\ pc[c] = "halt"
    /\ Goto(c, "insert")
    /\ UNCHANGED <<file, stamp, reg, last, handleVars, seen, missed, failures>>

\* Under the lock again: whatever handle is there now is told to stop.
Halt(c) ==
    /\ pc[c] = "halt"
    /\ stop' = IF reg = 0 THEN stop ELSE [stop EXCEPT ![reg] = TRUE]
    /\ Goto(c, "insert")
    /\ UNCHANGED <<file, stamp, reg, last, mtime, thread, runs, seen, missed, failures>>

\* start_proc: a new handle takes the place of the one in the registry, if any,
\* and its supervisor's thread is started.
Insert(c) ==
    /\ pc[c] = "insert"
    /\ last < MaxHandles
    /\ last' = last + 1
    /\ reg' = last'
    /\ mtime' = [mtime EXCEPT ![last'] = seen[c]]
    /\ thread' = [thread EXCEPT ![last'] = "up"]
    /\ Goto(c, "idle")
    /\ UNCHANGED <<file, stamp, stop, runs, seen, missed, failures>>

-----------------------------------------------------------------------------
\* A supervisor's attempt reads the file; without one it fails and backs off.
Attempt(h) ==
    /\ thread[h] = "up" /\ ~stop[h]
    /\ runs[h] = 0 /\ file # 0
    /\ runs' = [runs EXCEPT ![h] = file]
    /\ UNCHANGED <<file, stamp, reg, last, mtime, stop, thread, pc, seen, missed, failures>>

AttemptFails(h) ==
    /\ thread[h] = "up" /\ runs[h] # 0
    /\ failures < MaxFailures
    /\ failures' = failures + 1
    /\ runs' = [runs EXCEPT ![h] = 0]
    /\ UNCHANGED <<file, stamp, reg, last, mtime, stop, thread, pc, seen, missed>>

\* It sees its flag and ends.
Ends(h) ==
    /\ thread[h] = "up" /\ stop[h]
    /\ thread' = [thread EXCEPT ![h] = "gone"]
    /\ runs' = [runs EXCEPT ![h] = 0]
    /\ UNCHANGED <<file, stamp, reg, last, mtime, stop, pc, seen, missed, failures>>

\* Somebody writes the file, with a new mtime, or removes it.
Edit ==
    /\ stamp <= MaxEdits
    /\ stamp' = stamp + 1
    /\ file' \in {stamp', 0}
    /\ file' # file
    /\ missed' = TRUE
    /\ UNCHANGED <<reg, last, handleVars, pc, seen, failures>>

-----------------------------------------------------------------------------
Call(c) == ReloadLook(c) \/ Halt(c) \/ Insert(c)

Next ==
    \/ \E c \in Callers : RestartScan(c) \/ ReloadScan(c) \/ Call(c)
    \/ \E h \in Handles : Attempt(h) \/ AttemptFails(h) \/ Ends(h)
    \/ Edit

Spec == Init /\ [][Next]_vars

\* A call that began or a supervisor goes on, while one can.
Progress == (\E c \in Callers : Call(c)) \/ \E h \in Handles : Attempt(h) \/ Ends(h)
FairSpec == Spec /\ WF_vars(Progress)

-----------------------------------------------------------------------------
\* The registry, its handles and its callers have the states the code gives them.
TypeOK ==
    /\ file \in Stamps /\ stamp \in Stamps
    /\ last \in 0..MaxHandles /\ reg \in 0..last
    /\ mtime \in [Handles -> Stamps] /\ stop \in [Handles -> BOOLEAN]
    /\ thread \in [Handles -> {"none", "up", "gone"}] /\ runs \in [Handles -> Stamps]
    /\ pc \in [Callers -> {"idle", "look", "halt", "insert"}]
    /\ seen \in [Callers -> Stamps]
    /\ missed \in BOOLEAN /\ failures \in 0..MaxFailures

\* Supervisors of the unit that nobody has told to stop.
Live == {h \in Handles : thread[h] = "up" /\ ~stop[h]}

\* "Stop one unit and start it again": a unit never has two supervisors that go
\* on, whatever reloads, restarts and edits came before.
OneSupervisor == \A g, h \in Live : g = h

Quiet == ~missed /\ \A c \in Callers : pc[c] = "idle"

\* Once a reload has seen the last edit, the unit ends up running the file as it
\* is, and not at all when the file is gone: no edit is ever missed.
Applied == IF file = 0 THEN Live = {} ELSE Live # {} /\ \A h \in Live : runs[h] = file
ReloadApplies == <>[]Quiet => <>[]Applied
=============================================================================
