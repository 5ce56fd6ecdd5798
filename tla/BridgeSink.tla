----------------------------- MODULE BridgeSink -----------------------------
(***************************************************************************)
(* The sink side of the AMQP and the IBM MQ bridges (connectors/amqp and   *)
(* connectors/mq: run_sink and the two broker seams): messages pulled from *)
(* a durable consumer of the bus are put on a queue, and acked on the bus  *)
(* once the broker has answered.                                           *)
(*                                                                         *)
(* RabbitMQ answers each publish with a confirm, on a channel the process  *)
(* reads with a time limit; a queue manager keeps what was put in a unit   *)
(* of work until it is committed or backed out.                            *)
(***************************************************************************)
EXTENDS Naturals, Sequences, FiniteSets, SequencesExt

CONSTANTS
    Procs,      \* bridge processes on the same durable
    MaxMsg,     \* bound: messages of the subject
    MaxBatch,   \* bound: messages of a round
    MaxEvents   \* bound: faults and stops

Msgs == 1..MaxMsg
FaultKinds == {"nack", "timeout", "close", "put", "commit", "backout", "ack", "round",
               "wait", "crash"}

VARIABLES
    broker,    \* "amqp" or "mq"
    avail,     \* messages the bus can deliver
    acked,     \* messages acked on the bus
    stored,    \* messages on the broker's queue
    proc,      \* the processes
    faults,    \* the kinds of faults that have happened
    events     \* faults and stops so far

vars == <<broker, avail, acked, stored, proc, faults, events>>

\* A process: the rest of its round, what RabbitMQ has not answered (sent) and has
\* (confirms), what its unit of work holds (staged).
Fresh == [pc |-> "pull", batch |-> <<>>, sent |-> <<>>, confirms |-> <<>>, staged |-> {},
          stop |-> FALSE, closed |-> FALSE]

Happens     == events < MaxEvents /\ events' = events + 1
Fault(kind) == Happens /\ faults' = faults \cup {kind}
Goes(p, next) == proc' = [proc EXCEPT ![p] = next]

\* The round goes on with its next message.
Skip(j) == [j EXCEPT !.batch = Tail(@), !.pc = IF Len(j.batch) = 1 THEN "pull" ELSE "put"]

Init ==
    /\ broker \in {"amqp", "mq"}
    /\ avail = Msgs /\ acked = {} /\ stored = {}
    /\ proc = [p \in Procs |-> Fresh]
    /\ faults = {} /\ events = 0

-----------------------------------------------------------------------------
\* sub.round(): some of the messages the durable has, in order.
Round(p) ==
    /\ proc[p].pc = "pull" /\ ~proc[p].stop
    /\ \E take \in SUBSET avail :
        /\ take # {} /\ Cardinality(take) <= MaxBatch
        /\ avail' = avail \ take
        /\ Goes(p, [proc[p] EXCEPT !.batch = SetToSortSeq(take, <), !.pc = "put"])
    /\ UNCHANGED <<broker, acked, stored, faults, events>>

\* ack_wait passes: nobody has the message any more, or its holder is slow.
Redeliver(m) ==
    /\ m \notin avail \cup acked
    /\ IF \E p \in Procs : m \in Range(proc[p].batch) THEN Fault("wait")
       ELSE UNCHANGED <<faults, events>>
    /\ avail' = avail \cup {m}
    /\ UNCHANGED <<broker, acked, stored, proc>>

\* exchange.publish; on a closed channel an error that leaves the message unacked.
Publish(p) ==
    /\ broker = "amqp" /\ proc[p].pc = "put" /\ ~proc[p].stop
    /\ Goes(p, IF proc[p].closed THEN Skip(proc[p])
               ELSE [proc[p] EXCEPT !.sent = Append(@, Head(proc[p].batch)), !.pc = "confirm"])
    /\ UNCHANGED <<broker, avail, acked, stored, faults, events>>

\* RabbitMQ takes the next publish, or refuses it, and says so, external.
Answer(p, ok) ==
    /\ proc[p].sent # <<>> /\ ~proc[p].closed
    /\ IF ok THEN UNCHANGED <<faults, events>> ELSE Fault("nack")
    /\ stored' = IF ok THEN stored \cup {Head(proc[p].sent)} ELSE stored
    /\ Goes(p, [proc[p] EXCEPT !.sent = Tail(@), !.confirms = Append(@, ok)])
    /\ UNCHANGED <<broker, avail, acked>>

\* confirms.recv_timeout: the next confirm, whichever publish it is of.
Confirm(p) ==
    /\ broker = "amqp" /\ proc[p].pc = "confirm" /\ proc[p].confirms # <<>>
    /\ LET j == [proc[p] EXCEPT !.confirms = Tail(@)]
       IN  Goes(p, IF Head(proc[p].confirms) THEN [j EXCEPT !.pc = "ack"] ELSE Skip(j))
    /\ UNCHANGED <<broker, avail, acked, stored, faults, events>>

\* None within 30 s, or the channel is gone: the message is not acked.
NoConfirm(p) ==
    /\ broker = "amqp" /\ proc[p].pc = "confirm" /\ proc[p].confirms = <<>>
    /\ IF proc[p].closed THEN UNCHANGED <<faults, events>> ELSE Fault("timeout")
    /\ Goes(p, Skip(proc[p]))
    /\ UNCHANGED <<broker, avail, acked, stored>>

\* The channel closes; publishes RabbitMQ had not taken are lost, external.
ChannelCloses(p) ==
    /\ broker = "amqp" /\ ~proc[p].closed
    /\ Fault("close")
    /\ Goes(p, [proc[p] EXCEPT !.closed = TRUE, !.sent = <<>>])
    /\ UNCHANGED <<broker, avail, acked, stored>>

-----------------------------------------------------------------------------
\* put_syncpoint, commit and backout.
Put(p) ==
    /\ broker = "mq" /\ proc[p].pc = "put" /\ ~proc[p].stop
    /\ Goes(p, [proc[p] EXCEPT !.staged = @ \cup {Head(proc[p].batch)}, !.pc = "commit"])
    /\ UNCHANGED <<broker, avail, acked, stored, faults, events>>
PutFails(p) ==
    /\ broker = "mq" /\ proc[p].pc = "put" /\ ~proc[p].stop
    /\ Fault("put")
    /\ Goes(p, [proc[p] EXCEPT !.pc = "back"])
    /\ UNCHANGED <<broker, avail, acked, stored>>
Commit(p) ==
    /\ proc[p].pc = "commit"
    /\ stored' = stored \cup proc[p].staged
    /\ Goes(p, [proc[p] EXCEPT !.staged = {}, !.pc = "ack"])
    /\ UNCHANGED <<broker, avail, acked, faults, events>>

\* MQCMIT errs, and may have taken effect.
\* Mutant: the message is acked although its commit failed.
CommitFailsAcks(p, done) ==
    /\ proc[p].pc = "commit"
    /\ Fault("commit")
    /\ stored' = IF done THEN stored \cup proc[p].staged ELSE stored
    /\ Goes(p, [proc[p] EXCEPT !.staged = IF done THEN {} ELSE @, !.pc = "ack"])
    /\ UNCHANGED <<broker, avail, acked>>
CommitFails(p, done) ==
    /\ proc[p].pc = "commit"
    /\ Fault("commit")
    /\ stored' = IF done THEN stored \cup proc[p].staged ELSE stored
    /\ Goes(p, [proc[p] EXCEPT !.staged = IF done THEN {} ELSE @, !.pc = "back"])
    /\ UNCHANGED <<broker, avail, acked>>

\* MQBACK; when it fails the unit of work goes on with what it holds.
Backout(p) ==
    /\ proc[p].pc = "back"
    /\ \/ UNCHANGED <<faults, events>> /\ Goes(p, Skip([proc[p] EXCEPT !.staged = {}]))
       \/ Fault("backout") /\ Goes(p, Skip(proc[p]))
    /\ UNCHANGED <<broker, avail, acked, stored>>

-----------------------------------------------------------------------------
\* m.ack() is not waited for.
Ack(p) ==
    /\ proc[p].pc = "ack"
    /\ acked' = acked \cup {Head(proc[p].batch)}
    /\ avail' = avail \ {Head(proc[p].batch)}
    /\ Goes(p, Skip(proc[p]))
    /\ UNCHANGED <<broker, stored, faults, events>>
AckLost(p) ==
    /\ proc[p].pc = "ack"
    /\ Fault("ack")
    /\ Goes(p, Skip(proc[p]))
    /\ UNCHANGED <<broker, avail, acked, stored>>

\* A signal, an error of the round or a crash ends the process, another one starts.
\* RabbitMQ keeps what it was sent; a unit of work is backed out.
Ends(p) ==
    /\ \E got \in SUBSET Range(proc[p].sent) : stored' = stored \cup got
    /\ Goes(p, Fresh)
    /\ UNCHANGED <<broker, avail, acked>>
Signal(p) ==
    /\ ~proc[p].stop
    /\ Happens
    /\ Goes(p, [proc[p] EXCEPT !.stop = TRUE])
    /\ UNCHANGED <<broker, avail, acked, stored, faults>>
Stops(p)      == proc[p].stop /\ proc[p].pc \in {"pull", "put"} /\ Ends(p) /\ UNCHANGED <<faults, events>>
RoundFails(p) == proc[p].pc = "pull" /\ Fault("round") /\ Ends(p)
Crash(p)      == Fault("crash") /\ Ends(p)

Work(p) ==
    \/ Round(p) \/ Publish(p) \/ Answer(p, TRUE) \/ Confirm(p) \/ Put(p) \/ Commit(p)
    \/ Ack(p) \/ Stops(p)
    \/ NoConfirm(p) /\ UNCHANGED faults
    \/ Backout(p) /\ UNCHANGED faults

Next ==
    \/ \E m \in Msgs : Redeliver(m)
    \/ \E p \in Procs :
        \/ Round(p) \/ Publish(p) \/ Confirm(p) \/ NoConfirm(p) \/ ChannelCloses(p)
        \/ Put(p) \/ PutFails(p) \/ Commit(p) \/ Backout(p) \/ Ack(p) \/ AckLost(p)
        \/ Signal(p) \/ Stops(p) \/ RoundFails(p) \/ Crash(p)
        \/ \E b \in BOOLEAN : Answer(p, b) \/ CommitFails(p, b)

\* Processes go on and are started again; the bus redelivers.
Fairness ==
    /\ \A m \in Msgs : WF_vars(Redeliver(m) /\ UNCHANGED faults)
    /\ \A p \in Procs : WF_vars(Work(p))

Spec == Init /\ [][Next]_vars /\ Fairness

-----------------------------------------------------------------------------
\* The variables range over what the processes keep in them.
TypeOK ==
    /\ avail \subseteq Msgs /\ stored \subseteq Msgs /\ acked \subseteq Msgs \ avail
    /\ \A p \in Procs :
        /\ proc[p].pc = "pull" <=> proc[p].batch = <<>>
        /\ broker = "mq" => proc[p].sent = <<>> /\ proc[p].confirms = <<>>
    /\ faults \subseteq FaultKinds

\* A message acked on the bus is on the broker's queue: "confirmed by the broker: safe
\* to ack the bus", "committed to MQ: safe to ack the bus".
AckedIsStored == acked \subseteq stored

\* The same, as long as no confirm came after its time limit: the next publish would
\* take it for its own.
AckedIsStoredInTime == "timeout" \in faults \/ AckedIsStored

\* Every message gets to the queue and is acked, as long as no channel was closed:
\* the sink goes on with the one it has.
AllStored == "close" \in faults \/ (acked = Msgs /\ ("timeout" \in faults \/ stored = Msgs))
EveryMessageStored == []<>AllStored
=============================================================================
