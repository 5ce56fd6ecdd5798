---------------------------- MODULE BridgeSource ----------------------------
(***************************************************************************)
(* The source side of the AMQP and the IBM MQ bridges                      *)
(* (connectors/amqp and connectors/mq: main, run_source, lease.rs and the  *)
(* two broker seams): messages of one queue are published on the bus and   *)
(* only then taken off the queue, by the process that holds the lease.     *)
(*                                                                         *)
(* The brokers differ in what a process holds.  RabbitMQ pushes to every   *)
(* consumer without a limit, and gives back what is nacked or unacked when *)
(* a channel ends; a queue manager gives one message under syncpoint and   *)
(* takes it back on MQBACK or when the connection ends.  A message is its  *)
(* place in the queue, and what comes back comes back to its place.        *)
(***************************************************************************)
EXTENDS Naturals, Sequences, FiniteSets, FiniteSetsExt, SequencesExt

CONSTANTS
    Procs,      \* bridge processes
    MaxMsg,     \* bound: messages of the queue
    MaxEvents   \* bound: faults and stops

Msgs == 1..MaxMsg
None == 0
FaultKinds == {"kv", "publish", "settle", "get", "close", "crash", "stall", "renew"}

VARIABLES
    broker,    \* "amqp" or "mq"
    competing, \* VEJAS_AMQP_COMPETING, VEJAS_MQ_COMPETING
    large,     \* messages over the bus's limit
    queue,     \* messages ready on the broker
    proc,      \* the processes
    entry,     \* the owner of the lease entry
    bus,       \* what was published, in order
    gone,      \* messages taken off the queue for good
    faults,    \* the kinds of faults that have happened
    events     \* faults and stops so far

config == <<broker, competing, large>>
vars == <<config, queue, proc, entry, bus, gone, faults, events>>

Down == [pc |-> "down", got |-> <<>>, cur |-> None, held |-> FALSE, lost |-> FALSE,
         stop |-> FALSE, closed |-> FALSE]

Happens     == events < MaxEvents /\ events' = events + 1
Fault(kind) == Happens /\ faults' = faults \cup {kind}
Goes(p, next) == proc' = [proc EXCEPT ![p] = next]

\* What the broker counts as with this process: it returns when the process ends.
With(p) == Range(proc[p].got) \cup (IF proc[p].cur = None THEN {} ELSE {proc[p].cur})
Returned(p) == IF proc[p].closed THEN {} ELSE With(p)

Init ==
    /\ broker \in {"amqp", "mq"}
    /\ competing \in BOOLEAN
    /\ large \in {{}} \cup {{m} : m \in Msgs}
    /\ queue = Msgs
    /\ proc = [p \in Procs |-> Down]
    /\ entry = None
    /\ bus = <<>> /\ gone = {}
    /\ faults = {} /\ events = 0

-----------------------------------------------------------------------------
\* main: bus and broker connected, the lease is next.
Start(p) ==
    /\ proc[p].pc = "down"
    /\ Goes(p, [Down EXCEPT !.pc = IF competing THEN "recv" ELSE "standby"])
    /\ UNCHANGED <<config, queue, entry, bus, gone, faults, events>>

\* open_store finds no key-value store: the source runs without a lease.
StartUnleased(p) ==
    /\ proc[p].pc = "down" /\ ~competing
    /\ Fault("kv")
    /\ Goes(p, [Down EXCEPT !.pc = "recv"])
    /\ UNCHANGED <<config, queue, entry, bus, gone>>

\* acquire_blocking: create succeeds only where there is no entry.
\* Mutant: the entry is put whoever owns it.
AcquirePuts(p) ==
    /\ proc[p].pc = "standby"
    /\ ~proc[p].stop
    /\ entry' = p
    /\ Goes(p, [proc[p] EXCEPT !.pc = "recv", !.held = TRUE])
    /\ UNCHANGED <<config, queue, bus, gone, faults, events>>
Acquire(p) ==
    /\ proc[p].pc = "standby"
    /\ ~proc[p].stop
    /\ entry = None
    /\ entry' = p
    /\ Goes(p, [proc[p] EXCEPT !.pc = "recv", !.held = TRUE])
    /\ UNCHANGED <<config, queue, bus, gone, faults, events>>

\* The renewal thread: an update that fails, for whatever reason, loses the lease.
Renewing(p)  == proc[p].held /\ ~proc[p].lost /\ proc[p].pc \notin {"down", "close"}
RenewFenced(p) ==
    /\ Renewing(p) /\ entry # p
    /\ Goes(p, [proc[p] EXCEPT !.lost = TRUE])
    /\ UNCHANGED <<config, queue, entry, bus, gone, faults, events>>
RenewFails(p) ==
    /\ Renewing(p) /\ entry = p
    /\ Fault("renew")
    /\ Goes(p, [proc[p] EXCEPT !.lost = TRUE])
    /\ UNCHANGED <<config, queue, entry, bus, gone>>

\* The entry ages out: once its owner no longer renews it, or when it stalls.
Expire ==
    /\ entry # None
    /\ \/ ~Renewing(entry) /\ UNCHANGED <<faults, events>>
       \/ Renewing(entry) /\ Fault("stall")
    /\ entry' = None
    /\ UNCHANGED <<config, queue, proc, bus, gone>>

-----------------------------------------------------------------------------
\* The alive() the loop is given: no signal, and the lease is not lost.
Alive(p) == ~proc[p].stop /\ ~proc[p].lost

\* RabbitMQ pushes the next message to a consumer, external.
Deliver(p) ==
    /\ broker = "amqp" /\ queue # {}
    /\ proc[p].pc \in {"recv", "publish", "ack", "nack"} /\ ~proc[p].closed
    /\ LET m == Min(queue) IN
        /\ queue' = queue \ {m}
        /\ Goes(p, [proc[p] EXCEPT !.got = Append(@, m)])
    /\ UNCHANGED <<config, entry, bus, gone, faults, events>>

\* recv: the next delivery.  A closed channel looks like an idle one.
Recv(p) ==
    /\ broker = "amqp" /\ proc[p].pc = "recv" /\ Alive(p)
    /\ proc[p].got # <<>>
    /\ Goes(p, [proc[p] EXCEPT !.cur = Head(proc[p].got), !.got = Tail(@), !.pc = "publish"])
    /\ UNCHANGED <<config, queue, entry, bus, gone, faults, events>>

\* get_syncpoint: the first message, held in the unit of work.
GetSyncpoint(p) ==
    /\ broker = "mq" /\ proc[p].pc = "recv" /\ Alive(p)
    /\ queue # {}
    /\ queue' = queue \ {Min(queue)}
    /\ Goes(p, [proc[p] EXCEPT !.cur = Min(queue), !.pc = "publish"])
    /\ UNCHANGED <<config, entry, bus, gone, faults, events>>

\* js.publish: the pub-ack came; it failed; or the bus stored it and no answer came.
PublishOk(p) ==
    /\ proc[p].pc = "publish" /\ proc[p].cur \notin large
    /\ bus' = Append(bus, proc[p].cur)
    /\ Goes(p, [proc[p] EXCEPT !.pc = "ack"])
    /\ UNCHANGED <<config, queue, entry, gone, faults, events>>
PublishFails(p) ==
    /\ proc[p].pc = "publish"
    /\ IF proc[p].cur \in large THEN UNCHANGED <<faults, events>> ELSE Fault("publish")
    /\ Goes(p, [proc[p] EXCEPT !.pc = "nack"])
    /\ UNCHANGED <<config, queue, entry, bus, gone>>
PublishUnanswered(p) ==
    /\ proc[p].pc = "publish" /\ proc[p].cur \notin large
    /\ Fault("publish")
    /\ bus' = Append(bus, proc[p].cur)
    /\ Goes(p, [proc[p] EXCEPT !.pc = "nack"])
    /\ UNCHANGED <<config, queue, entry, gone>>

\* ack or MQCMIT takes the message off the queue.
Settle(p) ==
    /\ proc[p].pc = "ack" /\ ~proc[p].closed
    /\ gone' = gone \cup {proc[p].cur}
    /\ Goes(p, [proc[p] EXCEPT !.cur = None, !.pc = "recv"])
    /\ UNCHANGED <<config, queue, entry, bus, faults, events>>

\* nack with requeue or MQBACK gives it back.
Requeue(p) ==
    /\ proc[p].pc = "nack" /\ ~proc[p].closed
    /\ queue' = queue \cup {proc[p].cur}
    /\ Goes(p, [proc[p] EXCEPT !.cur = None, !.pc = "recv"])
    /\ UNCHANGED <<config, entry, bus, gone, faults, events>>

-----------------------------------------------------------------------------
\* run_source returns and the process is on its way out.  The MQ handle is dropped
\* before the lease; the AMQP connection is closed after it.  Dropping the lease
\* deletes its entry, whoever owns it by now.
Leaving(p) ==
    /\ entry' = IF proc[p].held THEN None ELSE entry
    /\ IF broker = "mq"
       THEN queue' = queue \cup Returned(p) /\ Goes(p, Down)
       ELSE UNCHANGED queue /\ Goes(p, [proc[p] EXCEPT !.pc = "close"])

\* A signal, or the lease was lost: the loop ends at its next turn.
Leave(p) ==
    /\ proc[p].pc \in {"standby", "recv"} /\ ~Alive(p)
    /\ Leaving(p)
    /\ UNCHANGED <<config, bus, gone, faults, events>>

\* An ack, nack, commit or backout that fails ends the process.
SettleFails(p) ==
    /\ proc[p].pc \in {"ack", "nack"}
    /\ IF proc[p].closed THEN UNCHANGED <<faults, events>> ELSE Fault("settle")
    /\ Leaving(p)
    /\ UNCHANGED <<config, bus, gone>>

\* MQCMIT took effect and its answer was lost.
CommitUnanswered(p) ==
    /\ broker = "mq" /\ proc[p].pc = "ack"
    /\ Fault("settle")
    /\ gone' = gone \cup {proc[p].cur}
    /\ entry' = IF proc[p].held THEN None ELSE entry
    /\ Goes(p, Down)
    /\ UNCHANGED <<config, queue, bus>>

\* MQGET fails.
GetFails(p) ==
    /\ broker = "mq" /\ proc[p].pc = "recv" /\ Alive(p)
    /\ Fault("get")
    /\ Leaving(p)
    /\ UNCHANGED <<config, bus, gone>>

\* conn.close() or the end of the process: the broker takes back what was unacked.
Close(p) ==
    /\ proc[p].pc = "close"
    /\ queue' = queue \cup Returned(p)
    /\ Goes(p, Down)
    /\ UNCHANGED <<config, entry, bus, gone, faults, events>>

\* RabbitMQ closes the channel and takes back what was unacked, external.
ChannelCloses(p) ==
    /\ broker = "amqp" /\ ~proc[p].closed
    /\ proc[p].pc \in {"recv", "publish", "ack", "nack"}
    /\ Fault("close")
    /\ queue' = queue \cup Returned(p)
    /\ Goes(p, [proc[p] EXCEPT !.closed = TRUE])
    /\ UNCHANGED <<config, entry, bus, gone>>

Signal(p) ==
    /\ proc[p].pc \notin {"down", "close"} /\ ~proc[p].stop
    /\ Happens
    /\ Goes(p, [proc[p] EXCEPT !.stop = TRUE])
    /\ UNCHANGED <<config, queue, entry, bus, gone, faults>>
Crash(p) ==
    /\ proc[p].pc # "down"
    /\ Fault("crash")
    /\ queue' = queue \cup Returned(p)
    /\ Goes(p, Down)
    /\ UNCHANGED <<config, entry, bus, gone>>

Work(p) ==
    \/ Recv(p) \/ GetSyncpoint(p) \/ PublishOk(p) \/ Settle(p) \/ Requeue(p)
    \/ Leave(p) \/ Close(p)
    \/ SettleFails(p) /\ proc[p].closed
    \/ PublishFails(p) /\ proc[p].cur \in large

Next ==
    \/ Expire
    \/ \E p \in Procs :
        \/ Start(p) \/ StartUnleased(p) \/ Acquire(p) \/ RenewFenced(p) \/ RenewFails(p)
        \/ Deliver(p) \/ Recv(p) \/ GetSyncpoint(p)
        \/ PublishOk(p) \/ PublishFails(p) \/ PublishUnanswered(p)
        \/ Settle(p) \/ Requeue(p) \/ Leave(p) \/ SettleFails(p) \/ CommitUnanswered(p)
        \/ GetFails(p) \/ Close(p) \/ ChannelCloses(p) \/ Signal(p) \/ Crash(p)

\* Whoever runs the bridge starts it again, the entry of a dead owner ages out, and a
\* running process goes on.  RabbitMQ does not push an oversize message again and again
\* and never the next one.
Progress ==
    \/ Expire /\ UNCHANGED faults
    \/ \E p \in Procs : Start(p) \/ Acquire(p) \/ Deliver(p) \/ Work(p)
PushesGood == \E p \in Procs : Deliver(p) /\ Min(queue) \notin large
Fairness == WF_vars(Progress) /\ SF_vars(PushesGood) /\ \A p \in Procs : WF_vars(Work(p))

Spec == Init /\ [][Next]_vars /\ Fairness

-----------------------------------------------------------------------------
\* The variables range over what the processes keep in them.
TypeOK ==
    /\ queue \subseteq Msgs /\ gone \subseteq Msgs
    /\ entry \in Procs \cup {None}
    /\ \A p \in Procs : With(p) \subseteq Msgs /\ (proc[p].pc = "down" => proc[p] = Down)
    /\ faults \subseteq FaultKinds

\* No loss: what left the queue for good is on the bus, and everything else is on the
\* queue or comes back to it ("crash before MQCMIT: message re-got").
NothingLeaks ==
    /\ gone \subseteq Range(bus)
    /\ Msgs = queue \cup gone \cup UNION {Returned(p) : p \in Procs}

\* The lease keeps one process getting, as long as its entry is never lost under it
\* ("the default source takes a lease and exactly one instance gets").
OneGetter ==
    \/ competing \/ faults \cap {"kv", "stall", "renew"} # {}
    \/ Cardinality({p \in Procs : proc[p].pc \in {"recv", "publish", "ack", "nack"}}) <= 1

\* The order of the queue is the order of first arrival on the bus, under the lease:
\* MQBACK puts a message back before the next one is got.
FirstAt(m) == CHOOSE i \in DOMAIN bus : bus[i] = m /\ \A j \in 1..(i - 1) : bus[j] # m
QueueOrder ==
    \/ broker = "amqp" \/ competing \/ faults \cap {"kv", "stall", "renew"} # {}
    \/ \A m, n \in Range(bus) : m < n => FirstAt(m) < FirstAt(n)

\* Every message the bus can take arrives, as long as no channel was closed under an
\* idle consumer, no oversize message blocks a queue manager's queue, and no lease was
\* lost under its owner: such an owner deletes its successor's entry when it leaves,
\* the successor does the same, and so on.
AllArrived ==
    \/ faults \cap {"close", "stall", "renew"} # {}
    \/ broker = "mq" /\ large # {}
    \/ Msgs \ large \subseteq Range(bus)
EveryMessageArrives == []<>AllArrived
=============================================================================
