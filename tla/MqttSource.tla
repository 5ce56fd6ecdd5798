----------------------------- MODULE MqttSource -----------------------------
(***************************************************************************)
(* The MQTT source: MqttIn's run (core/src/connectors.rs) over the         *)
(* synchronous client of core/src/mqtt.rs.  It connects with a persistent  *)
(* session, subscribes, publishes every message it reads to the bus and    *)
(* only then sends its PUBACK.  After any error it drops the connection    *)
(* and makes another one.                                                  *)
(*                                                                         *)
(* The broker is external: under QoS 1 it owes the session every message   *)
(* until its PUBACK, and sends what it owes again on each connection.  An  *)
(* eager broker does so as soon as it has accepted the connection, others  *)
(* once the client has subscribed; MQTT 3.1.1 allows both.                 *)
(***************************************************************************)
EXTENDS Naturals, Sequences, FiniteSets, SequencesExt

CONSTANTS
    Eager,     \* subset of BOOLEAN: the kinds of brokers
    MaxMsg,    \* bound: messages published on the topic
    MaxEvents  \* bound: failures, and a stop

\* Time since the client has last sent something, in halves of the keepalive interval:
\* after one it sends a PINGREQ, after three the broker closes the connection.
PING == 1
CUT  == 3

VARIABLES
    qos, eager,
    made,      \* messages published since the session is subscribed
    known,     \* broker: the session has its subscription
    owed,      \* broker: messages without a PUBACK, in order
    sent,      \* broker: how many of them it has sent on this connection
    stage,     \* broker: "none", "connected" or "subscribed", of this connection
    link,      \* "down", "up", "gone" (closed at the other end) or "mute" (and not closed)
    to_client, to_broker, \* the packets on their way
    alive,     \* ctx.alive()
    pc, cur,   \* where run is; the message in its hands
    bus,       \* messages on the subject, in order
    silent,    \* see above
    looked,    \* the client has read the connection since time last moved on
    faults, events
vars == <<qos, eager, made, known, owed, sent, stage, link, to_client, to_broker, alive, pc,
          cur, bus, silent, looked, faults, events>>
config  == <<qos, eager>>
session == <<made, known, owed>>
conn    == <<link, to_client, to_broker, sent, stage>>
clock   == <<silent, looked>>
count   == <<faults, events>>

Happens  == events < MaxEvents /\ events' = events + 1
Fault(k) == Happens /\ faults' = faults \cup {k}

Init ==
    /\ qos \in {0, 1} /\ eager \in Eager
    /\ made = 0 /\ known = FALSE /\ owed = <<>> /\ sent = 0 /\ stage = "none"
    /\ link = "down" /\ to_client = <<>> /\ to_broker = <<>>
    /\ alive = TRUE /\ pc = "open" /\ cur = 0
    /\ bus = <<>>
    /\ silent = 0 /\ looked = FALSE
    /\ faults = {} /\ events = 0

-----------------------------------------------------------------------------
(* The broker, and the devices that publish on the topic.                  *)

Serves ==
    /\ link = "up" /\ known
    /\ stage \in IF eager THEN {"connected", "subscribed"} ELSE {"subscribed"}

\* Under QoS 0 a message goes to whoever is connected.
Make ==
    /\ made < MaxMsg /\ known
    /\ made' = made + 1
    /\ owed' = IF qos = 1 THEN Append(owed, made + 1) ELSE owed
    /\ to_client' = IF qos = 0 /\ Serves THEN Append(to_client, <<"publish", made + 1>>)
                    ELSE to_client
    /\ UNCHANGED <<config, known, link, to_broker, sent, stage, alive, pc, cur, bus, clock, count>>

BrokerSends ==
    /\ Serves /\ sent < Len(owed)
    /\ sent' = sent + 1
    /\ to_client' = Append(to_client, <<"publish", owed[sent + 1]>>)
    /\ UNCHANGED <<config, session, link, to_broker, stage, alive, pc, cur, bus, clock, count>>

BrokerReads ==
    /\ link = "up" /\ to_broker # <<>>
    /\ to_broker' = Tail(to_broker)
    /\ LET p == Head(to_broker) IN
       CASE p[1] = "connect" ->
              /\ stage' = "connected" /\ sent' = 0
              /\ to_client' = Append(to_client, <<"connack", 0>>)
              /\ UNCHANGED <<owed, known>>
         [] p[1] = "subscribe" ->
              /\ stage' = "subscribed" /\ known' = TRUE
              /\ to_client' = Append(to_client, <<"suback", 0>>)
              /\ UNCHANGED <<owed, sent>>
         [] p[1] = "puback" ->
              /\ owed' = Remove(owed, p[2])
              /\ sent' = sent - 1
              /\ UNCHANGED <<stage, known, to_client>>
    /\ UNCHANGED <<config, made, link, alive, pc, cur, bus, clock, count>>

\* 1.5 times the keepalive interval without a packet.
BrokerCuts ==
    /\ link = "up" /\ silent = CUT
    /\ link' = "gone"
    /\ UNCHANGED <<config, session, to_client, to_broker, sent, stage, alive, pc, cur, bus, clock, count>>

-----------------------------------------------------------------------------
(* The client.                                                             *)

Goto(s) == pc' = s
Sends(p) == to_broker' = Append(to_broker, p) /\ silent' = 0
Reads(kind) == to_client # <<>> /\ Head(to_client)[1] = kind /\ to_client' = Tail(to_client)

\* mqtt_connect: a TCP connection and CONNECT, with clean_session = false.
Open ==
    /\ pc = "open" /\ alive
    /\ link' = "up" /\ to_client' = <<>> /\ to_broker' = <<<<"connect", 0>>>>
    /\ stage' = "none" /\ sent' = 0
    /\ silent' = 0 /\ looked' = FALSE
    /\ Goto("connack")
    /\ UNCHANGED <<config, session, alive, cur, bus, count>>

\* connect's answer, then subscribe's request.
ReadConnack ==
    /\ pc = "connack" /\ Reads("connack")
    /\ Sends(<<"subscribe", 0>>)
    /\ Goto("suback")
    /\ UNCHANGED <<config, session, link, sent, stage, alive, cur, bus, looked, count>>

\* The attempt is over with an error, and the client dropped with it.
Fails == link' = "down" /\ Goto("sleep")

\* subscribe: the next packet is the SUBACK, or it fails.
ReadSuback ==
    /\ pc = "suback" /\ Reads("suback")
    /\ Goto("read")
    /\ UNCHANGED <<config, session, link, to_broker, sent, stage, alive, cur, bus, clock, count>>
ReadOther ==
    /\ pc = "suback" /\ Reads("publish")
    /\ Fails
    /\ UNCHANGED <<config, session, to_broker, sent, stage, alive, cur, bus, clock, count>>

\* The loop: read_packet, then the bus, then puback.
ReadPublish ==
    /\ pc = "read" /\ alive /\ Reads("publish")
    /\ cur' = Head(to_client)[2]
    /\ looked' = TRUE
    /\ Goto("publish")
    /\ UNCHANGED <<config, session, link, to_broker, sent, stage, alive, bus, silent, count>>

\* A read that times out: keepalive_tick.
ReadNothing ==
    /\ pc = "read" /\ alive /\ link # "gone" /\ to_client = <<>>
    /\ looked' = TRUE
    /\ silent' = IF silent >= PING THEN 0 ELSE silent
    /\ UNCHANGED <<config, session, conn, alive, pc, cur, bus, count>>

Publish ==
    /\ pc = "publish"
    /\ bus' = Append(bus, cur)
    /\ Goto(IF qos = 1 THEN "puback" ELSE "read")
    /\ UNCHANGED <<config, session, conn, alive, cur, clock, count>>
\* The bus does not confirm: it may have the message all the same.
\* Mutant: the error is dropped, and the loop goes on with the next message.
PublishFailsGoesOn ==
    /\ pc = "publish"
    /\ Fault("bus")
    /\ Goto("read")
    /\ UNCHANGED <<config, session, conn, alive, cur, bus, clock>>
PublishFails ==
    /\ pc = "publish"
    /\ Fault("bus")
    /\ bus' \in {bus, Append(bus, cur)}
    /\ Fails
    /\ UNCHANGED <<config, session, to_client, to_broker, sent, stage, alive, cur, clock>>

\* A write to a connection that is gone, or mute, is lost.
Puback ==
    /\ pc = "puback"
    /\ Sends(<<"puback", cur>>)
    /\ Goto("read")
    /\ UNCHANGED <<config, session, link, to_client, sent, stage, alive, cur, bus, looked, count>>

\* A read of a connection that is gone, once what it had has been read, or a PUBACK that
\* cannot be written.
ReadError ==
    /\ link = "gone"
    /\ \/ pc = "puback"
       \/ pc \in {"connack", "suback", "read"} /\ to_client = <<>>
    /\ pc = "read" => alive
    /\ Fails
    /\ UNCHANGED <<config, session, to_client, to_broker, sent, stage, alive, cur, bus, clock, count>>

\* The system gives up a mute connection on which the client's packets are not answered for.
\* While it waits for the CONNACK, the client has none left to send.
GivesUp ==
    /\ pc \in {"suback", "read"} /\ link = "mute"
    /\ link' = "gone"
    /\ UNCHANGED <<config, session, to_client, to_broker, sent, stage, alive, pc, cur, bus, clock, count>>

\* Two seconds, less when it is stopped.
Sleep ==
    /\ pc = "sleep"
    /\ Goto(IF alive THEN "open" ELSE "stopped")
    /\ UNCHANGED <<config, session, conn, alive, cur, bus, clock, count>>

\* The loops see the stop: DISCONNECT.
Leave ==
    /\ ~alive /\ pc \in {"open", "read"}
    /\ link' = "down"
    /\ Goto("stopped")
    /\ UNCHANGED <<config, session, to_client, to_broker, sent, stage, alive, cur, bus, clock, count>>

-----------------------------------------------------------------------------
(* Faults, the stop and the clock.                                         *)

\* The connection is lost with a part of what was on its way.
Loses ==
    /\ link = "up"
    /\ Fault("conn")
    /\ link' = "gone"
    /\ \E n \in 0..Len(to_client) : to_client' = SubSeq(to_client, 1, n)
    /\ UNCHANGED <<config, session, to_broker, sent, stage, alive, pc, cur, bus, clock>>
\* The other end is there no more, and nothing says so.
GoesMute ==
    /\ link = "up"
    /\ Fault("mute")
    /\ link' = "mute" /\ to_client' = <<>>
    /\ UNCHANGED <<config, session, to_broker, sent, stage, alive, pc, cur, bus, clock>>
OpenFails ==
    /\ pc = "open" /\ alive
    /\ Fault("conn")
    /\ Goto("sleep")
    /\ UNCHANGED <<config, session, conn, alive, cur, bus, clock>>
Crash ==
    /\ alive /\ pc # "open"
    /\ Fault("crash")
    /\ link' = "down" /\ Goto("open")
    /\ UNCHANGED <<config, session, to_client, to_broker, sent, stage, alive, cur, bus, clock>>
Stop ==
    /\ alive
    /\ Happens
    /\ alive' = FALSE
    /\ UNCHANGED <<config, session, conn, pc, cur, bus, clock, faults>>

\* Half a keepalive interval passes, in which the loop has read the connection many times.
Tick ==
    /\ link = "up" /\ looked /\ silent < CUT
    /\ silent' = silent + 1 /\ looked' = FALSE
    /\ UNCHANGED <<config, session, conn, alive, pc, cur, bus, count>>

Client ==
    \/ Open \/ ReadConnack \/ ReadSuback \/ ReadOther \/ ReadPublish
    \/ Publish \/ Puback \/ ReadError \/ Sleep \/ Leave
Broker == BrokerSends \/ BrokerReads
Next ==
    \/ Client \/ ReadNothing \/ PublishFails
    \/ Broker \/ BrokerCuts \/ Make
    \/ GivesUp \/ Loses \/ GoesMute \/ OpenFails \/ Crash \/ Stop \/ Tick
Spec == Init /\ [][Next]_vars

\* The client's thread and the broker go on, and so does the system's retransmission; nothing
\* is assumed of the clock, the devices and the faults.
FairSpec == Spec /\ WF_vars(Client) /\ WF_vars(Broker) /\ WF_vars(GivesUp)

-----------------------------------------------------------------------------
\* The queue of the session and the packets of a connection are what they stand for.
TypeOK ==
    /\ pc \in {"open", "connack", "suback", "read", "publish", "puback", "sleep", "stopped"}
    /\ link \in {"down", "up", "gone", "mute"} /\ silent \in 0..CUT
    /\ cur \in 0..made /\ sent \in 0..Len(owed)
    /\ pc \in {"open", "stopped"} => link = "down"

\* "the PUBACK to the broker is sent only AFTER the bus publish is confirmed" (MqttIn): what
\* the session is no longer owed is on the bus, through lost connections and crashes.
AckedIsOnBus == qos = 1 => \A m \in 1..made : Contains(owed, m) \/ Contains(bus, m)

\* Messages arrive on the bus in the order the devices published them, but for those that
\* come again: an error drops what the broker has sent ahead with the connection.
FirstAt(m) == CHOOSE i \in DOMAIN bus : bus[i] = m /\ \A j \in 1..(i - 1) : bus[j] # m
ArrivesInOrder ==
    qos = 1 => \A m, n \in ToSet(bus) : m < n => FirstAt(m) < FirstAt(n)

\* "an idle line starving the keepalive until the broker cuts" (keepalive_tick): it does not,
\* as long as messages are answered by PUBACKs.  Under QoS 0 a busy line has no idle read.
KeptAlive == qos = 1 => silent < CUT

\* A stop is heard in the loop, in the sleep and after an error; not while the answer to
\* CONNECT or SUBSCRIBE stays out, which read_packet_blocking waits for without a limit.
Hangs == link = "mute" /\ pc \in {"connack", "suback"}
Ended == alive \/ pc = "stopped" \/ Hangs

\* "the broker retransmits anything not yet acked" (MqttIn): every message the broker owes
\* the session arrives, however often the connection is lost.
AllArrived == ~alive \/ Hangs \/ (qos = 1 => ToSet(bus) = 1..made)
EveryMessageArrives == []<>AllArrived
=============================================================================
