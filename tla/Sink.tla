-------------------------------- MODULE Sink --------------------------------
(***************************************************************************)
(* A sink connector: run_sink on a durable pull consumer, with MqttOut's   *)
(* handler (core/src/connectors.rs) over the MQTT client (core/src/mqtt.rs)*)
(* for QoS 1.  The handler sends a PUBLISH with a fresh packet id and      *)
(* waits for that id's PUBACK; run_sink acks only after that.              *)
(*                                                                         *)
(* Several runtimes may run the sink; they share the durable.  The broker  *)
(* and the JetStream consumer are external.                                *)
(***************************************************************************)
EXTENDS Naturals, Sequences, FiniteSets

CONSTANTS
    Sups,            \* runtimes that run the sink
    Msgs,            \* messages of its subject
    Pids,            \* packet ids are 1..Pids, 65535 in the code
    MAX_DELIVERIES,
    MaxFaults        \* bound: timeouts, lost sessions, writes and acks, crashes

VARIABLES
    ready,      \* consumer: messages it may hand out now
    delivered,  \* consumer: times each was handed out
    acked,      \* consumer: messages whose ack it holds
    landed,     \* messages the broker has taken
    dead,       \* messages in the dead-letter stream
    pc,         \* where each runtime's run_sink is
    cur,        \* the message in its handler, with its delivery count
    session,    \* an MQTT session is open
    next_pid,   \* Client.next_pid
    want,       \* the packet id the handler waits for
    outgoing,   \* PUBLISHes the broker has not read, as <<pid, message>>
    incoming,   \* PUBACKs the client has not read
    faults

consumerVars == <<ready, delivered, acked>>
mqttVars     == <<session, next_pid, want, outgoing, incoming>>
vars == <<ready, delivered, acked, landed, dead, pc, cur,
          session, next_pid, want, outgoing, incoming, faults>>

NoMsg == [msg |-> {}, delivered |-> 0]

Goto(s, step) == pc' = [pc EXCEPT ![s] = step]

Fault == faults < MaxFaults /\ faults' = faults + 1

Init ==
    /\ ready = Msgs
    /\ delivered = [m \in Msgs |-> 0]
    /\ acked = {} /\ landed = {} /\ dead = {}
    /\ pc = [s \in Sups |-> "round"]
    /\ cur = [s \in Sups |-> NoMsg]
    /\ session = [s \in Sups |-> FALSE]
    /\ next_pid = [s \in Sups |-> 1]
    /\ want = [s \in Sups |-> 0]
    /\ outgoing = [s \in Sups |-> <<>>]
    /\ incoming = [s \in Sups |-> <<>>]
    /\ faults = 0

-----------------------------------------------------------------------------
(* The consumer.                                                           *)

Deliver(m, s) ==
    /\ m \in ready
    /\ pc[s] = "round"
    /\ ready' = ready \ {m}
    /\ delivered' = [delivered EXCEPT ![m] = IF @ < MAX_DELIVERIES THEN @ + 1 ELSE @]
    /\ cur' = [cur EXCEPT ![s] = [msg |-> m, delivered |-> delivered'[m]]]
    /\ Goto(s, "handle")
    /\ UNCHANGED <<acked, landed, dead, mqttVars, faults>>

AckWait(m) ==
    /\ delivered[m] > 0
    /\ m \notin ready \cup acked
    /\ ready' = ready \cup {m}
    /\ UNCHANGED <<delivered, acked, landed, dead, pc, cur, mqttVars, faults>>

TakeAck(m) == acked' = acked \cup {m} /\ ready' = ready \ {m} /\ UNCHANGED delivered

TakeNak(m) ==
    /\ ready' = IF m \in acked THEN ready ELSE ready \cup {m}
    /\ UNCHANGED <<delivered, acked>>

-----------------------------------------------------------------------------
(* The broker.                                                             *)

BrokerTakes(s) ==
    /\ session[s]
    /\ outgoing[s] # <<>>
    /\ LET p == Head(outgoing[s])
       IN  /\ landed' = landed \cup {p[2]}
           /\ incoming' = [incoming EXCEPT ![s] = Append(@, p[1])]
    /\ outgoing' = [outgoing EXCEPT ![s] = Tail(@)]
    /\ UNCHANGED <<consumerVars, dead, pc, cur, session, next_pid, want, faults>>

-----------------------------------------------------------------------------
(* MqttOut's handler.                                                      *)

\* A session is opened when there is none, with a client whose ids start anew.
Connect(s) ==
    /\ pc[s] = "handle"
    /\ ~session[s]
    /\ session' = [session EXCEPT ![s] = TRUE]
    /\ next_pid' = [next_pid EXCEPT ![s] = 1]
    /\ outgoing' = [outgoing EXCEPT ![s] = <<>>]
    /\ incoming' = [incoming EXCEPT ![s] = <<>>]
    /\ UNCHANGED <<consumerVars, landed, dead, pc, cur, want, faults>>

\* Client::pid leaves the id after p, wrapping, and never 0.
pid(p) == IF p = Pids THEN 1 ELSE p + 1

Sends(s) ==
    /\ pc[s] = "handle"
    /\ session[s]
    /\ outgoing' = [outgoing EXCEPT ![s] = Append(@, <<next_pid[s], cur[s].msg>>)]
    /\ next_pid' = [next_pid EXCEPT ![s] = pid(@)]

\* Mutant: the handler does not wait for the PUBACK.
PublishForgets(s) ==
    /\ Sends(s)
    /\ want' = [want EXCEPT ![s] = next_pid[s]]
    /\ Goto(s, "done")
    /\ UNCHANGED <<consumerVars, landed, dead, cur, session, incoming, faults>>

Publish(s) ==
    /\ Sends(s)
    /\ want' = [want EXCEPT ![s] = next_pid[s]]
    /\ Goto(s, "wait")
    /\ UNCHANGED <<consumerVars, landed, dead, cur, session, incoming, faults>>

\* The loop reads packets until the PUBACK it wants.
PubAck(s) ==
    /\ pc[s] = "wait"
    /\ incoming[s] # <<>>
    /\ incoming' = [incoming EXCEPT ![s] = Tail(@)]
    /\ Goto(s, IF Head(incoming[s]) = want[s] THEN "done" ELSE "wait")
    /\ UNCHANGED <<consumerVars, landed, dead, cur, session, next_pid, want, outgoing, faults>>

\* No connection, no PUBACK in time, or a broken one: an error, and the session
\* is dropped with whatever was on its way.
HandlerFails(s) ==
    /\ pc[s] \in {"handle", "wait"}
    /\ Fault
    /\ session' = [session EXCEPT ![s] = FALSE]
    /\ outgoing' = [outgoing EXCEPT ![s] = <<>>]
    /\ incoming' = [incoming EXCEPT ![s] = <<>>]
    /\ landed' \in {landed, landed \cup {outgoing[s][i][2] : i \in DOMAIN outgoing[s]}}
    /\ Goto(s, "failed")
    /\ UNCHANGED <<consumerVars, dead, cur, next_pid, want>>

-----------------------------------------------------------------------------
(* run_sink.                                                               *)

Idle(s) == cur' = [cur EXCEPT ![s] = NoMsg] /\ Goto(s, "round")

\* The handler is done: ack, which may get lost.
HandlerDone(s) ==
    /\ pc[s] = "done"
    /\ \/ TakeAck(cur[s].msg) /\ UNCHANGED faults
       \/ Fault /\ UNCHANGED consumerVars
    /\ Idle(s)
    /\ UNCHANGED <<landed, dead, mqttVars>>

\* It failed, before the cap: nak.
GoesBack(s) ==
    /\ pc[s] = "failed"
    /\ cur[s].delivered < MAX_DELIVERIES
    /\ TakeNak(cur[s].msg)
    /\ Idle(s)
    /\ UNCHANGED <<landed, dead, mqttVars, faults>>

\* At the cap: to the dead-letter queue, then acked.
Bury(s) ==
    /\ pc[s] = "failed"
    /\ cur[s].delivered >= MAX_DELIVERIES
    /\ dead' = dead \cup {cur[s].msg}
    /\ Goto(s, "done")
    /\ UNCHANGED <<consumerVars, landed, cur, mqttVars, faults>>

\* The dead-letter queue did not take it, or did not say so: nak.
BuryFails(s) ==
    /\ pc[s] = "failed"
    /\ cur[s].delivered >= MAX_DELIVERIES
    /\ Fault
    /\ dead' \in {dead, dead \cup {cur[s].msg}}
    /\ TakeNak(cur[s].msg)
    /\ Idle(s)
    /\ UNCHANGED <<landed, mqttVars>>

\* The attempt ends, by a stop before the message is handled, an error or a
\* crash, and starts again later.
Ends(s) ==
    /\ Fault
    /\ session' = [session EXCEPT ![s] = FALSE]
    /\ outgoing' = [outgoing EXCEPT ![s] = <<>>]
    /\ incoming' = [incoming EXCEPT ![s] = <<>>]
    /\ landed' \in {landed, landed \cup {outgoing[s][i][2] : i \in DOMAIN outgoing[s]}}
    /\ Idle(s)
    /\ UNCHANGED <<consumerVars, dead, next_pid, want>>

-----------------------------------------------------------------------------
Step(s) ==
    \/ Connect(s) \/ Publish(s) \/ PubAck(s) \/ HandlerFails(s)
    \/ HandlerDone(s) \/ GoesBack(s) \/ Bury(s) \/ BuryFails(s)

Next ==
    \/ \E s \in Sups : Step(s) \/ BrokerTakes(s) \/ Ends(s)
    \/ \E m \in Msgs : AckWait(m) \/ \E s \in Sups : Deliver(m, s)

Spec == Init /\ [][Next]_vars

\* The sinks run, the broker answers, and the consumer hands out what is ready:
\* one of them goes on while one can.
Progress ==
    \/ \E s \in Sups : Step(s) \/ BrokerTakes(s)
    \/ \E m \in Msgs : AckWait(m) \/ \E s \in Sups : Deliver(m, s)
Fairness == WF_vars(Progress)

FairSpec == Spec /\ Fairness

-----------------------------------------------------------------------------
\* The sinks, their sessions and the consumer have the states the code gives them.
TypeOK ==
    /\ ready \subseteq Msgs /\ acked \subseteq Msgs
    /\ landed \subseteq Msgs /\ dead \subseteq Msgs
    /\ delivered \in [Msgs -> 0..MAX_DELIVERIES]
    /\ pc \in [Sups -> {"round", "handle", "wait", "done", "failed"}]
    /\ cur \in [Sups -> [msg : Msgs, delivered : 1..MAX_DELIVERIES] \cup {NoMsg}]
    /\ session \in [Sups -> BOOLEAN]
    /\ next_pid \in [Sups -> 1..Pids] /\ want \in [Sups -> 0..Pids]
    /\ outgoing \in [Sups -> Seq((1..Pids) \X Msgs)]
    /\ incoming \in [Sups -> Seq(1..Pids)]
    /\ faults \in 0..MaxFaults

\* "PUBLISH -> await the broker's PUBACK -> THEN ack the bus message": a message
\* that will not be delivered again was taken by the broker or is dead-lettered,
\* through late PUBACKs, wrapped packet ids, lost sessions and crashes.
EffectBeforeAck == acked \subseteq landed \cup dead

\* Every message is settled: acked after its effect, or dead-lettered.
Settled == acked = Msgs
EverythingSettles == []<>Settled

Promise == INSTANCE AtLeastOnce WITH settled <- acked

\* A sink keeps the promise that a flow keeps.
SinkImplements == Promise!Spec
=============================================================================
