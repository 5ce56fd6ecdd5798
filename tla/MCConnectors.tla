---------------------------- MODULE MCConnectors ----------------------------
(* The connectors: the sources and sinks of core/src/connectors.rs and the       *)
(* programs under connectors/.  They share no state, so they stand side by side: *)
(* part is the one that moves, the others stay where they begin.  Only the count *)
(* and the kinds of faults are common.  The streaming source is the one this     *)
(* module extends.                                                               *)
EXTENDS StreamSource, TLC

VARIABLES
    part, kinds, events,
    ready, delivered, snk_acked, landed, dead, snk_pc, cur, session, next_pid, want, outgoing,
    incoming, snk_faults,
    kind, pol_alive, pol_pc, ep, page, item, cached, retried, good, sent, filled, hurt,
    open, st, asked, wire, buf, eof, code, htp_out, htp_bus, piped, trickles,
    broker, avail, bsk_acked, stored, bsk_proc,
    inbox, sends, serving, stdin, stdout, sap_child, conn, executed, tids, confirmed, answers, mixed,
    mode, upsert, interval, table, full, sf_pc, sf_page, out, total, csv, org, acked, report,
    qos, eager, made, known, owed, mq_sent, stage, link, to_client, to_broker, mq_alive, mq_pc,
    mq_cur, mq_bus, silent, looked

Sinks == INSTANCE Sink WITH
    Sups <- {"s1", "s2"}, Msgs <- {"m1", "m2"}, Pids <- 2, MAX_DELIVERIES <- 2, MaxFaults <- 2,
    acked <- snk_acked, pc <- snk_pc, faults <- snk_faults
snkVars == <<ready, delivered, snk_acked, landed, dead, snk_pc, cur, session, next_pid, want,
             outgoing, incoming, snk_faults>>

\* Three endpoints: a chain longer than the cap, an endless one, and one with items.
Poll == INSTANCE Pollers WITH
    Endpoints <- 3, Chain <- <<3, 0, 1>>, Items <- <<0, 0, 2>>, MAX_PAGES <- 2, MaxEvents <- 3,
    alive <- pol_alive, pc <- pol_pc
polVars == <<kind, pol_alive, pol_pc, ep, page, item, cached, retried, good, sent, filled, hurt>>

\* One client sends two requests, the other none: it keeps the only slot.
Http == INSTANCE HttpIn WITH
    Conns <- {1, 2}, MAX_CONNECTIONS <- 1, BUFFER <- 3, MaxRequests <- <<2, 0>>, MaxEvents <- 1,
    out <- htp_out, bus <- htp_bus
htpVars == <<open, st, asked, wire, buf, eof, code, htp_out, htp_bus, piped, trickles>>

BrSnk == INSTANCE BridgeSink WITH
    Procs <- {1, 2}, MaxMsg <- 2, MaxBatch <- 2, MaxEvents <- 2, acked <- bsk_acked, proc <- bsk_proc,
    faults <- kinds
bskVars == <<avail, bsk_acked, stored, bsk_proc>>

\* A call, whose request may come as any number of lines; an IDoc; and an IDoc under
\* its caller's tid, sent twice.
Sap == INSTANCE SapRfc WITH
    Reqs <- {"c", "i", "t"}, MaxEvents <- 2, child <- sap_child, faults <- kinds,
    OpOf    <- "c" :> "call" @@ "i" :> "idoc" @@ "t" :> "tid",
    LinesOf <- "c" :> {0, 1, 2} @@ "i" :> {1} @@ "t" :> {1},
    SendsOf <- "c" :> 1 @@ "i" :> 1 @@ "t" :> 2
sapVars == <<inbox, sends, serving, stdin, stdout, sap_child, conn, executed, tids, confirmed,
             answers, mixed>>

\* Cells with quotes (q), commas and line ends (n, r); the row with a bad cell is refused.
Bad(r) == "A" \in DOMAIN r /\ r["A"] = <<"bad">>
Sf == INSTANCE Salesforce WITH
    Keys <- <<"A", "B">>, IsBad <- Bad, PAGE <- 2, MaxEvents <- 2,
    Tables <- {<<>>,
               <<[A |-> <<"x">>], [B |-> <<"q", ",">>], [A |-> <<>>, B |-> <<"n", "x">>]>>,
               <<[B |-> <<"q", "q">>], [A |-> <<"r", "x">>, B |-> <<"x", "q">>]>>,
               <<[A |-> <<>>], [A |-> <<"bad">>], [A |-> <<",", "n">>]>>},
    pc <- sf_pc, page <- sf_page, faults <- kinds
sfVars == <<mode, upsert, interval, table, full, sf_pc, sf_page, out, total, csv, org, acked, report>>

\* Two messages, to brokers of both kinds.
Mqtt == INSTANCE MqttSource WITH
    Eager <- BOOLEAN, MaxMsg <- 2, MaxEvents <- 2,
    sent <- mq_sent, alive <- mq_alive, pc <- mq_pc, cur <- mq_cur, bus <- mq_bus,
    faults <- kinds
mqVars == <<qos, eager, made, known, owed, mq_sent, stage, link, to_client, to_broker, mq_alive,
            mq_pc, mq_cur, mq_bus, silent, looked>>

-----------------------------------------------------------------------------
EdgeInit ==
    /\ part \in {"stream", "sink", "poll", "http", "bridge sink", "sap", "salesforce", "mqtt"}
    \* The parts that do not move begin in one way only.
    /\ Init /\ (part # "stream" => from_end)
    /\ Sinks!Init
    /\ Poll!Init   /\ (part # "poll" => kind = "timer")
    /\ Http!Init   /\ (part # "http" => trickles = {})
    /\ BrSnk!Init  /\ (part # "bridge sink" => broker = "mq")
    /\ Sap!Init
    /\ Sf!Init     /\ (part # "salesforce" => mode = "export" /\ interval /\ table = <<>>)
    /\ Mqtt!Init   /\ (part # "mqtt" => qos = 0 /\ eager)

EdgeNext ==
    \/ part = "stream" /\ Next
       /\ UNCHANGED <<part, kinds, events, broker, snkVars, polVars, htpVars, bskVars, sapVars, sfVars, mqVars>>
    \/ part = "sink" /\ Sinks!Next
       /\ UNCHANGED <<part, kinds, events, broker, vars, polVars, htpVars, bskVars, sapVars, sfVars, mqVars>>
    \/ part = "poll" /\ Poll!Next
       /\ UNCHANGED <<part, kinds, broker, vars, snkVars, htpVars, bskVars, sapVars, sfVars, mqVars>>
    \/ part = "http" /\ Http!Next
       /\ UNCHANGED <<part, kinds, broker, vars, snkVars, polVars, bskVars, sapVars, sfVars, mqVars>>
    \/ part = "bridge sink" /\ BrSnk!Next
       /\ UNCHANGED <<part, vars, snkVars, polVars, htpVars, sapVars, sfVars, mqVars>>
    \/ part = "sap" /\ Sap!Next
       /\ UNCHANGED <<part, broker, vars, snkVars, polVars, htpVars, bskVars, sfVars, mqVars>>
    \/ part = "salesforce" /\ Sf!Next
       /\ UNCHANGED <<part, broker, vars, snkVars, polVars, htpVars, bskVars, sapVars, mqVars>>
    \/ part = "mqtt" /\ Mqtt!Next
       /\ UNCHANGED <<part, broker, vars, snkVars, polVars, htpVars, bskVars, sapVars, sfVars>>

\* The fairness of each part, for the part that moves.
EdgeFairness ==
    /\ WF_vars(part = "stream" /\ Driver)
    /\ WF_vars(part = "stream" /\ Reader)
    /\ WF_vars(part = "stream" /\ ChildPrints)
    /\ WF_vars(part = "stream" /\ RemoteGrows)
    /\ WF_snkVars(part = "sink" /\ Sinks!Progress)
    /\ WF_polVars(part = "poll" /\ Poll!Steps)
    /\ \A c \in {1, 2} : WF_htpVars(part = "http" /\ (Http!Steps(c) \/ Http!Silence(c)))
    /\ \A m \in {1, 2} : WF_bskVars(part = "bridge sink" /\ BrSnk!Redeliver(m) /\ UNCHANGED kinds)
    /\ \A p \in {1, 2} : WF_bskVars(part = "bridge sink" /\ BrSnk!Work(p))
    /\ WF_sapVars(part = "sap" /\ Sap!Work)
    /\ WF_sfVars(part = "salesforce" /\ Sf!Steps)
    /\ WF_mqVars(part = "mqtt" /\ Mqtt!Client)
    /\ WF_mqVars(part = "mqtt" /\ Mqtt!Broker)
    /\ WF_mqVars(part = "mqtt" /\ Mqtt!GivesUp)

EdgeSpec ==
    /\ EdgeInit
    /\ [][EdgeNext]_<<part, kinds, events, broker, vars, snkVars, polVars, htpVars,
                  bskVars, sapVars, sfVars, mqVars>>
    /\ EdgeFairness

-----------------------------------------------------------------------------
\* Every part has the states the code gives it.
EdgeTypeOK ==
    CASE part = "stream"        -> TypeOK
      [] part = "sink"          -> Sinks!TypeOK
      [] part = "poll"          -> Poll!TypeOK
      [] part = "http"          -> Http!TypeOK
      [] part = "bridge sink"   -> BrSnk!TypeOK
      [] part = "sap"           -> Sap!TypeOK
      [] part = "salesforce"    -> Sf!TypeOK
      [] part = "mqtt"          -> Mqtt!TypeOK

\* A sink (Sink) acks a message after its effect: it keeps the promise of AtLeastOnce.
SinkImplements == Sinks!SinkImplements

\* A poller (Pollers) publishes the beginning of each chain in order, and ends a tick
\* without a fault complete, even if its token is replaced in the middle.
PollTicksAreWhole == Poll!TickIsComplete /\ []Poll!PagesAreAPrefix

\* The HTTP door (HttpIn) counts its slots, answers each request in its turn, and has
\* published what it accepts.
HttpAnswersTrue == Http!SlotsAddUp /\ Http!AnswersInStep /\ Http!AcceptedIsPublished

\* A bridge's sink (BridgeSink) acks what the broker stored.
BridgeAckedIsStored == part = "bridge sink" => BrSnk!AckedIsStoredInTime

\* The SAP driver (SapRfc) gives each caller its own answer, replays a lost call once and
\* only a lost one, and executes an IDoc under a tid once.
SapAnswersOnce ==
    part = "sap" => /\ Sap!AnswerIsOwn /\ Sap!ReplayedOnce
                    /\ Sap!IdocOnce /\ Sap!NoReplayWithoutLoss

\* The Salesforce bridge (Salesforce) exports what the query found, acks what was ingested
\* or refused, and ingests once.
SfKeepsRows == Sf!ExportIsFaithful /\ Sf!AckedIsIngested /\ Sf!IngestedOnce

\* The MQTT source (MqttSource) sends a PUBACK for what is on the bus, keeps the order of the
\* topic, and is not cut off for its silence.
MqttKeepsOrder == Mqtt!AckedIsOnBus /\ Mqtt!ArrivesInOrder /\ Mqtt!KeptAlive

\* What the edge is asked to do is done in the end: records and messages arrive, ticks come
\* round, slots are given back, callers get an answer, and a stopped source ends.
Done ==
    CASE part = "stream"      -> AllArrived
      [] part = "sink"        -> Sinks!Settled
      [] part = "poll"        -> Poll!CameRound
      [] part = "http"        -> Http!AllOver
      [] part = "bridge sink" -> BrSnk!AllStored
      [] part = "sap"         -> Sap!Returned
      [] part = "salesforce"  -> Sf!Finished
      [] part = "mqtt"        -> Mqtt!Ended /\ (eager \/ Mqtt!AllArrived)
EdgeSettles == []<>Done
=============================================================================
