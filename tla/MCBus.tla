------------------------------- MODULE MCBus --------------------------------
(* What comes onto the bus: the instance's own link (BusLink), the dead letters    *)
(* (DeadLetters) and what a bridge gets from its broker (BridgeSource).  They share *)
(* no state but the count of faults: part is the one that moves.                   *)
EXTENDS BusLink

CONSTANTS t1, t2

\* One thread goes through two batches, or one of two emits.
OneAndTwo == [t \in Threads |-> IF t = t1 THEN 2 ELSE 1]

VARIABLES
    part, faults, events,
    letters, dlq, dropped, purged, out, caller, overlap, stage, count, quiet, hand, told, flusher,
    broker, competing, large, queue, proc, entry, bus, gone

\* Two units, one of which reads the news; a stream of two letters.
Dlq == INSTANCE DeadLetters WITH
    Units <- {"u", "r"}, Reader <- "r", Callers <- {1, 2}, MAX_MSGS <- 2, GAP <- 1,
    MaxLetters <- 3, MaxEvents <- 2, since <- quiet
dlqVars == <<letters, dlq, dropped, purged, out, caller, overlap, stage, count, quiet, hand,
             told, flusher>>

\* Two processes on a queue of two messages, of which one may be too large for the bus.
Brg == INSTANCE BridgeSource WITH Procs <- {1, 2}, MaxMsg <- 2, MaxEvents <- 2
brgVars == <<broker, competing, large, queue, proc, entry, bus, gone>>

BusInit ==
    /\ part \in {"link", "letters", "bridge"}
    /\ Init
    /\ Dlq!Init
    /\ Brg!Init /\ (part # "bridge" => broker = "mq" /\ ~competing /\ large = {})

BusNext ==
    /\ \/ part = "link"    /\ Next     /\ UNCHANGED <<faults, events, dlqVars, brgVars>>
       \/ part = "letters" /\ Dlq!Next /\ UNCHANGED <<vars, brgVars>>
       \/ part = "bridge"  /\ Brg!Next /\ UNCHANGED <<vars, dlqVars>>
    /\ UNCHANGED part

\* The fairness of each part, for the part that moves.
BusFairness ==
    /\ \A t \in Threads : WF_vars(part = "link" /\ Goes(t))
    /\ WF_dlqVars(part = "letters" /\ Dlq!Progress)
    /\ WF_brgVars(part = "bridge" /\ Brg!Progress)
    /\ SF_brgVars(part = "bridge" /\ Brg!PushesGood)
    /\ \A p \in {1, 2} : WF_brgVars(part = "bridge" /\ Brg!Work(p))

BusSpec ==
    /\ BusInit
    /\ [][BusNext]_<<part, faults, events, vars, dlqVars, brgVars>>
    /\ BusFairness

-----------------------------------------------------------------------------
\* Every part has the states the code gives it.
BusTypeOK ==
    CASE part = "link"    -> TypeOK
      [] part = "letters" -> Dlq!TypeOK
      [] part = "bridge"  -> Brg!TypeOK

\* Dead letters (DeadLetters): none vanishes in a replay that fails half way, none is
\* replayed twice, and the announcements add up to the letters.
LettersAreKept ==
    part = "letters" => Dlq!NoLetterVanishes /\ Dlq!ReplayedOnce /\ Dlq!NewsAddsUp

\* A bridge's source (BridgeSource) has every message of its queue on the bus or still to
\* get, gets with one process at a time, and keeps the order of a queue manager's queue.
BridgeKeepsOrder ==
    part = "bridge" => Brg!NothingLeaks /\ Brg!OneGetter /\ Brg!QueueOrder

\* No announcement is held back for good, and a bridge gets every message to the bus.
BusDelivers ==
    []<>(CASE part = "letters" -> Dlq!NothingHeld
           [] part = "bridge"  -> Brg!AllArrived
           [] part = "link"    -> TRUE)
=============================================================================
