------------------------------- MODULE Canary -------------------------------
(***************************************************************************)
(* Live canaries (core/src/main.rs, canary_start, canary_read and          *)
(* canary_stop): a thread runs every new event through the version in      *)
(* force when the canary started and through a candidate, and counts where *)
(* they differ, until it is stopped or sees another version in force.      *)
(***************************************************************************)
EXTENDS Naturals, Sequences, FiniteSets

CONSTANTS
    Starts,    \* the calls of canary_start; each makes a canary at most
    Candidate, \* the version all of them try
    Versions,
    Rings,     \* results kept
    MaxMsgs,   \* bound: events published
    MaxEvents  \* bound: versions put in force, failures

VARIABLES
    live,    \* the version in force
    start,   \* canary_start: "idle", "resolved", "started" or "refused"
    snap,    \* the version each call found in force
    current, \* the entry of CANARIES, 0 when there is none
    running, total, changed, ring, stale, \* of each canary; stale: stop_reason is set
    thread,  \* "none", "open", "check", "fetch", "count", "mark", "push" or "ended"
    pos,     \* the last event its consumer has delivered
    batch,   \* the events of its round still to do
    msgs,    \* events published
    read,    \* what canary_read has collected so far
    faults, events
vars == <<live, start, snap, current, running, total, changed, ring, stale, thread, pos, batch, msgs, read, faults, events>>
canaries == <<current, running, total, changed, ring, stale>>

Happens  == events < MaxEvents /\ events' = events + 1
Fault(k) == Happens /\ faults' = faults \cup {k}
NoRead   == [of |-> 0, results |-> 0, events |-> 0, pc |-> "idle"]

Init ==
    /\ live = 1 /\ start = [s \in Starts |-> "idle"] /\ snap = [s \in Starts |-> 0]
    /\ current = 0
    /\ running = [s \in Starts |-> FALSE] /\ stale = [s \in Starts |-> FALSE]
    /\ total = [s \in Starts |-> 0] /\ changed = [s \in Starts |-> 0]
    /\ ring = [s \in Starts |-> <<>>] /\ thread = [s \in Starts |-> "none"]
    /\ pos = [s \in Starts |-> 0] /\ batch = [s \in Starts |-> <<>>]
    /\ msgs = 0 /\ read = NoRead /\ faults = {} /\ events = 0

-----------------------------------------------------------------------------
\* The world: events are published, versions promoted, rolled back, evicted.
Publish ==
    /\ msgs < MaxMsgs
    /\ msgs' = msgs + 1
    /\ UNCHANGED <<live, start, snap, canaries, thread, pos, batch, read, faults, events>>
Promote(v) ==
    /\ v # live
    /\ Happens
    /\ live' = v
    /\ UNCHANGED <<start, snap, canaries, thread, pos, batch, msgs, read, faults>>

-----------------------------------------------------------------------------
\* canary_start: the version in force first, the lock on CANARIES after it.
Resolve(s) ==
    /\ start[s] = "idle"
    /\ start' = [start EXCEPT ![s] = "resolved"]
    /\ snap' = [snap EXCEPT ![s] = live]
    /\ UNCHANGED <<live, canaries, thread, pos, batch, msgs, read, faults, events>>
\* Mutant: a canary is replaced, running or not.
MayInsertAny == TRUE
MayInsert    == current = 0 \/ ~running[current]
Insert(s) ==
    /\ start[s] = "resolved"
    /\ IF MayInsert
       THEN /\ start' = [start EXCEPT ![s] = "started"]
            /\ current' = s
            /\ running' = [running EXCEPT ![s] = TRUE]
            /\ thread' = [thread EXCEPT ![s] = "open"]
       ELSE start' = [start EXCEPT ![s] = "refused"] /\ UNCHANGED <<current, running, thread>>
    /\ UNCHANGED <<live, snap, total, changed, ring, stale, pos, batch, msgs, read, faults, events>>
Stop ==
    /\ current # 0 /\ running[current]
    /\ running' = [running EXCEPT ![current] = FALSE]
    /\ UNCHANGED <<live, start, snap, current, total, changed, ring, stale, thread, pos, batch, msgs, read, faults, events>>

-----------------------------------------------------------------------------
\* The thread: a consumer of what comes from now on.
Goes(s, to) == thread' = [thread EXCEPT ![s] = to]
Open(s) ==
    /\ thread[s] = "open"
    /\ pos' = [pos EXCEPT ![s] = msgs]
    /\ Goes(s, "check")
    /\ UNCHANGED <<live, start, snap, canaries, batch, msgs, read, faults, events>>
\* No consumer: the thread is gone and the canary still "running".
OpenFails(s) ==
    /\ thread[s] = "open"
    /\ Fault("open")
    /\ Goes(s, "ended")
    /\ UNCHANGED <<live, start, snap, canaries, pos, batch, msgs, read>>

\* Before every round: is it still wanted, and the version in force the one it started with?
StillInForce(s)       == live = snap[s]
Check(s) ==
    /\ thread[s] = "check"
    /\ IF ~running[s] THEN Goes(s, "ended") /\ UNCHANGED <<running, stale>>
       ELSE IF StillInForce(s) THEN Goes(s, "fetch") /\ UNCHANGED <<running, stale>>
       ELSE /\ Goes(s, "ended")
            /\ running' = [running EXCEPT ![s] = FALSE]
            /\ stale' = [stale EXCEPT ![s] = TRUE]
    /\ UNCHANGED <<live, start, snap, current, total, changed, ring, pos, batch, msgs, read, faults, events>>
\* The file cannot be read: this round goes without the check.
CheckFails(s) ==
    /\ thread[s] = "check" /\ running[s]
    /\ Fault("read")
    /\ Goes(s, "fetch")
    /\ UNCHANGED <<live, start, snap, canaries, pos, batch, msgs, read>>

Fetch(s) ==
    /\ thread[s] = "fetch"
    /\ batch' = [batch EXCEPT ![s] = [n \in 1..(msgs - pos[s]) |-> pos[s] + n]]
    /\ pos' = [pos EXCEPT ![s] = msgs]
    /\ Goes(s, IF msgs > pos[s] THEN "count" ELSE "check")
    /\ UNCHANGED <<live, start, snap, canaries, msgs, read, faults, events>>

\* One event: counted, counted as changed, shown, in this order.
Differs(s) == snap[s] # Candidate
Count(s) ==
    /\ thread[s] = "count"
    /\ total' = [total EXCEPT ![s] = @ + 1]
    /\ Goes(s, IF Differs(s) THEN "mark" ELSE "push")
    /\ UNCHANGED <<live, start, snap, current, running, changed, ring, stale, pos, batch, msgs, read, faults, events>>
Mark(s) ==
    /\ thread[s] = "mark"
    /\ changed' = [changed EXCEPT ![s] = @ + 1]
    /\ Goes(s, "push")
    /\ UNCHANGED <<live, start, snap, current, running, total, ring, stale, pos, batch, msgs, read, faults, events>>
Kept(r) == IF Len(r) > Rings THEN Tail(r) ELSE r
Push(s) ==
    /\ thread[s] = "push"
    /\ ring' = [ring EXCEPT ![s] = Kept(Append(@, <<Head(batch[s]), Differs(s)>>))]
    /\ batch' = [batch EXCEPT ![s] = Tail(@)]
    /\ Goes(s, IF Len(batch[s]) > 1 THEN "count" ELSE "check")
    /\ UNCHANGED <<live, start, snap, current, running, total, changed, stale, pos, msgs, read, faults, events>>

-----------------------------------------------------------------------------
\* canary_read: the results, then the counters, each on its own.
ReadResults ==
    /\ read.pc = "idle" /\ current # 0
    /\ read' = [of |-> current, results |-> Len(ring[current]), events |-> 0, pc |-> "results"]
    /\ UNCHANGED <<live, start, snap, canaries, thread, pos, batch, msgs, faults, events>>
ReadTotal ==
    /\ read.pc = "results"
    /\ read' = [read EXCEPT !.events = total[read.of], !.pc = "events"]
    /\ UNCHANGED <<live, start, snap, canaries, thread, pos, batch, msgs, faults, events>>
ReadDone ==
    /\ read.pc = "events"
    /\ read' = NoRead
    /\ UNCHANGED <<live, start, snap, canaries, thread, pos, batch, msgs, faults, events>>

Steps(s) == Open(s) \/ Check(s) \/ Fetch(s) \/ Count(s) \/ Mark(s) \/ Push(s)
Next ==
    \/ Publish \/ (\E v \in Versions : Promote(v)) \/ Stop
    \/ ReadResults \/ ReadTotal \/ ReadDone
    \/ \E s \in Starts : Resolve(s) \/ Insert(s) \/ Steps(s) \/ OpenFails(s) \/ CheckFails(s)
Spec == Init /\ [][Next]_vars /\ \A s \in Starts : WF_vars(Steps(s))

-----------------------------------------------------------------------------
\* The counters and the ring of every canary stay within what was published.
TypeOK ==
    /\ current \in Starts \cup {0} /\ live \in Versions
    /\ \A s \in Starts :
        /\ total[s] \in 0..MaxMsgs /\ changed[s] <= total[s] /\ Len(ring[s]) <= Rings
        /\ thread[s] \in {"none", "open", "check", "fetch", "count", "mark", "push", "ended"}

\* "a running canary vanishing without trace would surprise the operator": the entry of
\* CANARIES is never taken by another while its canary runs, so two never run at once.
NoCanaryVanishes == \A s \in Starts : running[s] => current = s

\* The results are the last events the consumer delivered, each once and in order, and
\* the counters count them, whatever round they came in.
ResultsAreTheLast ==
    \A s \in Starts : thread[s] = "check" /\ ring[s] # <<>> =>
        /\ \A n \in DOMAIN ring[s] : ring[s][n][1] = pos[s] - Len(ring[s]) + n
        /\ changed[s] = IF Differs(s) THEN total[s] ELSE 0

\* Whatever canary_read shows has been counted: the results it lists are never more than
\* the events it reports, though the thread goes on between the two.
ShownIsCounted == read.pc = "events" => read.results <= read.events

\* A canary whose version is no longer in force stops by itself: it does not go on to
\* compare with a version nobody runs. (One that never got its consumer stays "running".)
GoesOnStale(s) == running[s] /\ live # snap[s] /\ "open" \notin faults
StopsWhenReplaced == \A s \in Starts : []<>~GoesOnStale(s)
=============================================================================
