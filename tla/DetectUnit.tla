----------------------------- MODULE DetectUnit -----------------------------
(***************************************************************************)
(* A detect unit: supervise_detect (core/src/main.rs), its snapshots and   *)
(* its resume (ADR-0031, points 3 to 5).                                   *)
(*                                                                         *)
(* The embedded engine is external.  Its state is the set of the messages  *)
(* it was fed, and a message's emits are named by its sequence.  The       *)
(* JetStream consumer is external too: it sends new messages in stream     *)
(* order, and one that is not acked again whenever ack_wait runs out.      *)
(***************************************************************************)
EXTENDS Naturals, Sequences, FiniteSets, FiniteSetsExt

CONSTANTS
    Last,            \* the stream holds the sequences 1..Last
    Bad,             \* those whose payload is no event
    Toxic,           \* those the engine may fail on
    Refused,         \* those with an emit the batch refuses: too large, say
    Modes,           \* what program_is_stateful may say of the unit
    MAX_DELIVERIES,
    BATCH,           \* 256 in the code
    MaxChan,         \* bound: messages in the reader's channel
    Kinds,           \* the kinds of faults that happen
    MaxCrashes,      \* bound: how many of them are crashes
    MaxFaults        \* bound: how many are not

Seqs == 1..Last

VARIABLES
    stateful,   \* program_is_stateful
    snap,       \* the unit's object in the store
    out,        \* messages whose emits the server has read
    dead,       \* messages in the dead-letter stream
    cursor,     \* consumer: the next new sequence
    pending,    \* consumer: sent and not acked
    delivered,  \* consumer: times sent, MAX_DELIVERIES standing for more
    pc,
    stop,
    chan,       \* from the reader thread to the engine's, with delivery counts
    batch,
    engine,     \* messages in the engine's state
    held,       \* outbox: messages whose emits are held
    to_ack,
    retrying,
    acked_max,
    fresh,      \* acks_since_snapshot > 0
    faults      \* how often each kind of fault has happened

consumerVars == <<cursor, pending, delivered>>
keptVars     == <<stateful, snap, out, dead>>
bookVars     == <<retrying, acked_max, fresh>>
roundVars    == <<batch, engine, held, to_ack>>
vars == <<stateful, snap, out, dead, cursor, pending, delivered, pc, stop, chan, batch,
          engine, held, to_ack, retrying, acked_max, fresh, faults>>

NoSnap == [kept |-> FALSE, seq |-> 0, state |-> {}]

Fault(kind) ==
    /\ kind \in Kinds
    /\ IF kind = "crash"
       THEN faults[kind] < MaxCrashes
       ELSE MapThenSumSet(LAMBDA k : faults[k], Kinds \ {"crash"}) < MaxFaults
    /\ faults' = [faults EXCEPT ![kind] = @ + 1]

Happened(kind) == kind \in Kinds /\ faults[kind] > 0

\* An attempt holds nothing before it starts.
Blank ==
    /\ chan' = <<>> /\ batch' = <<>> /\ engine' = {} /\ held' = {} /\ to_ack' = {}
    /\ retrying' = {} /\ acked_max' = 0 /\ fresh' = FALSE

Init ==
    /\ stateful \in Modes
    /\ snap = NoSnap /\ out = {} /\ dead = {}
    /\ cursor = 1 /\ pending = {} /\ delivered = [s \in Seqs |-> 0]
    /\ pc = "starting" /\ stop = FALSE
    /\ chan = <<>> /\ batch = <<>> /\ engine = {} /\ held = {} /\ to_ack = {}
    /\ retrying = {} /\ acked_max = 0 /\ fresh = FALSE
    /\ faults = [kind \in Kinds |-> 0]

-----------------------------------------------------------------------------
(* The consumer, and the reader thread that empties it into the channel.   *)

Sent(s) == delivered' = [delivered EXCEPT ![s] = IF @ < MAX_DELIVERIES THEN @ + 1 ELSE @]

Reading == pc \in {"top", "work", "confirm", "ack", "cadence"}

Queued(s) ==
    /\ Len(chan) < MaxChan
    /\ Sent(s)
    /\ chan' = Append(chan, [seq |-> s, nth |-> delivered'[s]])

Deliver ==
    /\ Reading
    /\ cursor <= Last
    /\ cursor' = cursor + 1
    /\ pending' = pending \cup {cursor}
    /\ \/ Queued(cursor) /\ UNCHANGED faults
       \/ Fault("delivery") /\ Sent(cursor) /\ UNCHANGED chan
    /\ UNCHANGED <<keptVars, pc, stop, roundVars, bookVars>>

Redeliver(s) ==
    /\ Reading
    /\ s \in pending
    /\ Queued(s)
    /\ UNCHANGED <<cursor, pending, keptVars, pc, stop, roundVars, bookVars, faults>>

\* ack_floor: everything up to it was acked.
AckFloor == Max({f \in 0..(cursor - 1) : \A s \in 1..f : s \notin pending})

\* An ack, which may get lost.
Ack(S) ==
    \/ pending' = pending \ S /\ UNCHANGED faults
    \/ Fault("ack") /\ \E T \in SUBSET S : T # S /\ pending' = pending \ T

-----------------------------------------------------------------------------
(* supervise_detect.                                                       *)

\* A restored engine, and the consumer made anew after what it stands for.
Resume ==
    /\ pc = "starting" /\ ~stop
    /\ stateful /\ snap.kept
    /\ engine' = snap.state
    /\ cursor' = snap.seq + 1
    /\ pending' = {}
    /\ delivered' = [s \in Seqs |-> 0]
    /\ pc' = "top"
    /\ UNCHANGED <<keptVars, stop, chan, batch, held, to_ack, bookVars, faults>>

\* Without a snapshot: the durable as it is, and a first snapshot at its floor,
\* whose failure is only logged.
StartFresh ==
    /\ pc = "starting" /\ ~stop
    /\ ~(stateful /\ snap.kept)
    /\ \/ /\ snap' = IF stateful THEN [kept |-> TRUE, seq |-> AckFloor, state |-> {}] ELSE snap
          /\ UNCHANGED faults
       \/ stateful /\ Fault("first") /\ UNCHANGED snap
    /\ pc' = "top"
    /\ UNCHANGED <<stateful, out, dead, consumerVars, stop, chan, roundVars, bookVars>>

\* One message at least, and what else has arrived.
TakeBatch ==
    /\ pc = "top" /\ ~stop
    /\ chan # <<>>
    /\ LET n == IF Len(chan) < BATCH THEN Len(chan) ELSE BATCH
       IN  /\ batch' = SubSeq(chan, 1, n)
           /\ chan' = SubSeq(chan, n + 1, Len(chan))
    /\ pc' = "work"
    /\ UNCHANGED <<keptVars, consumerVars, stop, engine, held, to_ack, bookVars, faults>>

\* The next message of the batch, looked at with the stop flag down.
Takes == pc = "work" /\ ~stop /\ batch # <<>> /\ batch' = Tail(batch)

cur == Head(batch)

\* The engine takes it.  Its emits are held; when one is refused the message is
\* not acked, and nothing more.
FeedOk ==
    /\ Takes
    /\ cur.seq \notin Bad
    /\ engine' = engine \cup {cur.seq}
    /\ LET ok == {cur.seq} \ Refused
       IN  held' = held \cup ok /\ to_ack' = to_ack \cup ok
    /\ UNCHANGED <<keptVars, consumerVars, pc, stop, chan, bookVars, faults>>

\* To the dead-letter queue and acked; or naked and on the list when that fails.
Bury ==
    \/ /\ dead' = dead \cup {cur.seq}
       /\ Ack({cur.seq})
       /\ retrying' = retrying \ {cur.seq}
    \/ /\ Fault("dlq")
       /\ dead' \in {dead, dead \cup {cur.seq}}
       /\ retrying' = retrying \cup {cur.seq}
       /\ UNCHANGED pending

NotAnEvent ==
    /\ Takes
    /\ cur.seq \in Bad
    /\ Bury
    /\ UNCHANGED <<stateful, snap, out, cursor, delivered, pc, stop, chan, engine, held, to_ack, acked_max, fresh>>

\* The engine fails on it: given up at the cap, left for redelivery before it.
FeedErr ==
    /\ Takes
    /\ cur.seq \in Toxic \ Bad
    /\ IF cur.nth >= MAX_DELIVERIES
       THEN Bury
       ELSE retrying' = retrying \cup {cur.seq} /\ UNCHANGED <<dead, pending, faults>>
    /\ UNCHANGED <<stateful, snap, out, cursor, delivered, pc, stop, chan, engine, held, to_ack, acked_max, fresh>>

BatchDone ==
    /\ pc = "work" /\ batch = <<>>
    /\ pc' = "confirm"
    /\ UNCHANGED <<keptVars, consumerVars, stop, chan, roundVars, bookVars, faults>>

\* outbox.confirm as Outbox promises it.
ConfirmOk ==
    /\ pc = "confirm"
    /\ out' = out \cup held
    /\ held' = {}
    /\ pc' = "ack"
    /\ UNCHANGED <<stateful, snap, dead, consumerVars, stop, chan, batch, engine, to_ack, bookVars, faults>>

\* Logged, and nothing else: the batch redelivers.
ConfirmErr ==
    /\ pc = "confirm"
    /\ held # {}
    /\ Fault("barrier")
    /\ \E S \in SUBSET held : out' = out \cup S
    /\ held' = {}
    /\ to_ack' = {}
    /\ pc' = "cadence"
    /\ UNCHANGED <<stateful, snap, dead, consumerVars, stop, chan, batch, engine, bookVars>>

AckBatch ==
    /\ pc = "ack"
    /\ Ack(to_ack)
    /\ retrying' = retrying \ to_ack
    /\ acked_max' = Max({acked_max} \cup to_ack)
    /\ fresh' = (fresh \/ to_ack # {})
    /\ to_ack' = {}
    /\ pc' = "cadence"
    /\ UNCHANGED <<keptVars, cursor, delivered, stop, chan, batch, engine, held>>

\* A snapshot may be taken: something was acked, and nothing awaits redelivery.
Settled == stateful /\ fresh /\ retrying = {}

Snapshot == [kept |-> TRUE, seq |-> acked_max, state |-> engine]

\* The cadence is not due, or no snapshot may be taken.
NoSnapshot ==
    /\ pc = "cadence"
    /\ pc' = "top"
    /\ UNCHANGED <<keptVars, consumerVars, stop, chan, roundVars, bookVars, faults>>

\* Mutant: the snapshot stands for all that was read from the bus.
TakeSnapshotAtCursor ==
    /\ pc = "cadence" /\ Settled
    /\ snap' = [Snapshot EXCEPT !.seq = cursor - 1]
    /\ fresh' = FALSE
    /\ pc' = "top"
    /\ UNCHANGED <<stateful, out, dead, consumerVars, stop, chan, roundVars, retrying, acked_max, faults>>

\* A snapshot, or a failed one that the next batch tries again.
TakeSnapshot ==
    /\ pc = "cadence" /\ Settled
    /\ \/ snap' = Snapshot /\ fresh' = FALSE /\ UNCHANGED faults
       \/ Fault("store") /\ snap' \in {snap, Snapshot} /\ UNCHANGED fresh
    /\ pc' = "top"
    /\ UNCHANGED <<stateful, out, dead, consumerVars, stop, chan, roundVars, retrying, acked_max>>

\* A clean stop, with its snapshot, between batches; none in mid-batch.
SeeStop ==
    /\ stop
    /\ pc \in {"starting", "top"} \/ (pc = "work" /\ batch # <<>>)
    /\ \/ snap' = (IF pc = "top" /\ Settled THEN Snapshot ELSE snap) /\ UNCHANGED faults
       \/ pc = "top" /\ Settled /\ Fault("store") /\ UNCHANGED snap
    /\ Blank
    /\ pc' = "stopped"
    /\ UNCHANGED <<stateful, out, dead, consumerVars, stop>>

Stop ==
    /\ pc # "stopped" /\ ~stop
    /\ Fault("stop")
    /\ stop' = TRUE
    /\ UNCHANGED <<keptVars, consumerVars, pc, chan, roundVars, bookVars>>

\* The unit is started again, by a restart, a reload or a new process.
StartAgain ==
    /\ pc = "stopped"
    /\ stop' = FALSE
    /\ pc' = "starting"
    /\ UNCHANGED <<keptVars, consumerVars, chan, roundVars, bookVars, faults>>

\* The attempt fails, or the process dies and comes back.  Of the emits held a
\* confirm under way may have sent some.
Crash ==
    /\ pc \notin {"starting", "stopped"}
    /\ Fault("crash")
    /\ \E S \in SUBSET held : out' = (IF pc = "confirm" THEN out \cup S ELSE out)
    /\ Blank
    /\ stop' = FALSE
    /\ pc' = "starting"
    /\ UNCHANGED <<stateful, snap, dead, consumerVars>>

-----------------------------------------------------------------------------
Feed == FeedOk \/ NotAnEvent \/ FeedErr

Step ==
    \/ Resume \/ StartFresh \/ TakeBatch \/ Feed \/ BatchDone
    \/ ConfirmOk \/ ConfirmErr \/ AckBatch \/ NoSnapshot \/ TakeSnapshot
    \/ SeeStop \/ StartAgain

Next == Step \/ Deliver \/ (\E s \in Seqs : Redeliver(s)) \/ Stop \/ Crash

Spec == Init /\ [][Next]_vars

\* The unit's thread runs, a stopped unit is started again, and the consumer
\* keeps sending what was not acked: one of them goes on while one can.
Progress == Step \/ Deliver \/ \E s \in Seqs : Redeliver(s)
Fairness == WF_vars(Progress)

FairSpec == Spec /\ Fairness

-----------------------------------------------------------------------------
Letters == [seq : Seqs, nth : 1..MAX_DELIVERIES]

\* The unit, its consumer and its snapshot have the states the code gives them.
TypeOK ==
    /\ stateful \in Modes
    /\ snap \in [kept : BOOLEAN, seq : 0..Last, state : SUBSET Seqs]
    /\ out \subseteq Seqs /\ dead \subseteq Seqs
    /\ cursor \in 1..(Last + 1) /\ pending \subseteq 1..(cursor - 1)
    /\ delivered \in [Seqs -> 0..MAX_DELIVERIES]
    /\ pc \in {"starting", "top", "work", "confirm", "ack", "cadence", "stopped"}
    /\ stop \in BOOLEAN /\ fresh \in BOOLEAN
    /\ chan \in Seq(Letters) /\ batch \in Seq(Letters)
    /\ engine \subseteq Seqs /\ held \subseteq Seqs /\ to_ack \subseteq Seqs
    /\ retrying \subseteq Seqs
    /\ acked_max \in 0..Last
    /\ faults \in [Kinds -> Nat]

\* A unit without state stands every fault.  One with state does as long as its
\* first snapshot was written, no barrier failed and no delivery got lost: each
\* of these can put a later snapshot ahead of a message (SnapshotStandsForAll).
Sound == stateful => \A kind \in {"first", "barrier", "delivery"} : ~Happened(kind)

\* Publish before ack: what the consumer will not send again has its emits on
\* the bus or lies in the dead-letter queue.
AckedIsOut == Sound => \A s \in 1..(cursor - 1) : s \in pending \cup out \cup dead

\* "a snapshot must not stand for a sequence with an unprocessed message below
\* it": a crash resumes after the snapshot's sequence, so everything up to it
\* must have its emits on the bus or lie in the dead-letter queue.
SnapshotStandsForAll == \A s \in 1..snap.seq : s \in out \cup dead

\* The same through poison, crashes, stops, lost acks and failed writes of
\* snapshots and dead letters.
SnapshotLosesNothing == Sound => SnapshotStandsForAll

\* "everything up to it is in the state, everything after it replays": what the
\* consumer will not send again is in the running engine, restored or not.
EngineSawAll ==
    Sound /\ stateful /\ Reading =>
        \A s \in 1..(cursor - 1) : s \in pending \cup engine \cup dead

\* "a crash re-delivers, it never loses an alert": every message ends with its
\* emits on the bus or in the dead-letter queue.
AllSettled == Sound => \A s \in Seqs : s \in out \cup dead
EverythingSettles == []<>AllSettled
=============================================================================
