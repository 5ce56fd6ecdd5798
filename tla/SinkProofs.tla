----------------------------- MODULE SinkProofs -----------------------------
(***************************************************************************)
(* A sink acks nothing whose effect is not there, for any number of        *)
(* runtimes and messages, any range of packet ids and any faults.          *)
(***************************************************************************)
EXTENDS Sink, TLAPS

-----------------------------------------------------------------------------
(* The inductive invariant.                                                *)

Types ==
    /\ acked \subseteq Msgs /\ landed \subseteq Msgs /\ dead \subseteq Msgs
    /\ delivered \in [Msgs -> Nat]
    /\ pc \in [Sups -> {"round", "handle", "wait", "done", "failed"}]
    /\ cur \in [Sups -> [msg : Msgs \cup {{}}, delivered : Nat]]
    /\ next_pid \in [Sups -> Nat] /\ want \in [Sups -> Nat]
    /\ outgoing \in [Sups -> Seq(Nat \X Msgs)]
    /\ incoming \in [Sups -> Seq(Nat)]

\* While the handler waits, its PUBLISH or the PUBACK to it is all that is on the
\* way, whatever ids were in use before; the broker has sent no PUBACK for
\* what it has not taken.
OneInFlight(s) ==
    \/ /\ Len(outgoing[s]) = 1 /\ outgoing[s][1] = <<want[s], cur[s].msg>>
       /\ Len(incoming[s]) = 0
    \/ /\ Len(outgoing[s]) = 0
       /\ Len(incoming[s]) = 1 /\ incoming[s][1] = want[s]
       /\ cur[s].msg \in landed

Local(s) ==
    /\ pc[s] # "round" => cur[s].msg \in Msgs
    /\ pc[s] # "wait" => Len(outgoing[s]) = 0 /\ Len(incoming[s]) = 0
    /\ pc[s] = "wait" => OneInFlight(s)
    /\ pc[s] = "done" => cur[s].msg \in landed \cup dead

IInv ==
    /\ Types
    /\ \A s \in Sups : Local(s)
    /\ EffectBeforeAck

-----------------------------------------------------------------------------
\* What a sequence is when it is empty, and what Append and Tail make of it.
LEMMA EmptySeq ==
    ASSUME NEW S
    PROVE  /\ <<>> \in Seq(S) /\ Len(<<>>) = 0
           /\ \A s \in Seq(S) : Len(s) = 0 <=> s = <<>>
OBVIOUS

LEMMA AppendToEmpty ==
    ASSUME NEW S, NEW s \in Seq(S), Len(s) = 0, NEW e \in S
    PROVE  Append(s, e) \in Seq(S) /\ Len(Append(s, e)) = 1 /\ Append(s, e)[1] = e
OBVIOUS

LEMMA TailOfOne ==
    ASSUME NEW S, NEW s \in Seq(S), Len(s) = 1
    PROVE  Tail(s) \in Seq(S) /\ Len(Tail(s)) = 0 /\ Head(s) = s[1] /\ Head(s) \in S
OBVIOUS

-----------------------------------------------------------------------------
(* A step of runtime s leaves the others alone, and takes no effect back.  *)
Frame(s) ==
    /\ landed \subseteq landed' /\ dead \subseteq dead'
    /\ \A u \in Sups \ {s} :
          /\ pc'[u] = pc[u] /\ cur'[u] = cur[u] /\ want'[u] = want[u]
          /\ outgoing'[u] = outgoing[u] /\ incoming'[u] = incoming[u]

LEMMA Framed ==
    ASSUME IInv, NEW s \in Sups, Frame(s), Types', Local(s)', EffectBeforeAck'
    PROVE  IInv'
<1>1. ASSUME NEW u \in Sups, u # s PROVE Local(u)'
  BY <1>1 DEF IInv, Frame, Local, OneInFlight
<1>. QED  BY <1>1 DEF IInv

\* A message is handed to the handler (Deliver).
LEMMA DeliverKeeps ==
    ASSUME IInv, NEW m \in Msgs, NEW s \in Sups, Deliver(m, s)
    PROVE  IInv'
<1>. USE DEF mqttVars
<1>1. Types' /\ Frame(s)
  BY DEF IInv, Types, Deliver, Goto, Frame
<1>2. Local(s)'
  BY DEF IInv, Types, Deliver, Goto, Local
<1>3. EffectBeforeAck'
  BY DEF IInv, Deliver, EffectBeforeAck
<1>. QED  BY <1>1, <1>2, <1>3, Framed

LEMMA AckWaitKeeps ==
    ASSUME IInv, NEW m \in Msgs, AckWait(m)
    PROVE  IInv'
BY DEF IInv, Types, AckWait, mqttVars, Local, OneInFlight, EffectBeforeAck

\* The broker takes the PUBLISH and answers it (BrokerTakes).
LEMMA BrokerKeeps ==
    ASSUME IInv, NEW s \in Sups, BrokerTakes(s)
    PROVE  IInv'
<1>. DEFINE p == Head(outgoing[s])
<1>1. Types /\ Local(s)
  BY DEF IInv
<1>2. outgoing[s] \in Seq(Nat \X Msgs) /\ incoming[s] \in Seq(Nat)
  BY <1>1 DEF Types
<1>3. Len(outgoing[s]) # 0
  BY <1>2, EmptySeq DEF BrokerTakes
<1>4. /\ pc[s] = "wait" /\ Len(outgoing[s]) = 1 /\ outgoing[s][1] = <<want[s], cur[s].msg>>
      /\ Len(incoming[s]) = 0
  BY <1>1, <1>3 DEF Local, OneInFlight
<1>5. /\ Tail(outgoing[s]) \in Seq(Nat \X Msgs) /\ Len(Tail(outgoing[s])) = 0
      /\ p = <<want[s], cur[s].msg>> /\ p \in Nat \X Msgs
  BY <1>2, <1>4, TailOfOne
<1>6. p[1] \in Nat /\ p[1] = want[s] /\ p[2] = cur[s].msg /\ p[2] \in Msgs
  BY <1>5
<1>7. /\ Append(incoming[s], p[1]) \in Seq(Nat) /\ Len(Append(incoming[s], p[1])) = 1
      /\ Append(incoming[s], p[1])[1] = p[1]
  BY <1>2, <1>4, <1>6, AppendToEmpty
<1>8. /\ outgoing' = [outgoing EXCEPT ![s] = Tail(outgoing[s])]
      /\ incoming' = [incoming EXCEPT ![s] = Append(incoming[s], p[1])]
      /\ landed' = landed \cup {p[2]}
      /\ UNCHANGED <<ready, delivered, acked, dead, pc, cur, session, next_pid, want, faults>>
  BY DEF BrokerTakes, consumerVars
<1>. HIDE DEF p
<1>9. Types'
  BY <1>1, <1>5, <1>6, <1>7, <1>8 DEF Types
<1>10. Frame(s)
  BY <1>1, <1>8 DEF Frame, Types
<1>11. Local(s)'
  BY <1>1, <1>4, <1>5, <1>6, <1>7, <1>8 DEF Types, Local, OneInFlight
<1>12. EffectBeforeAck'
  BY <1>8 DEF IInv, EffectBeforeAck
<1>. QED  BY <1>9, <1>10, <1>11, <1>12, Framed

-----------------------------------------------------------------------------
(* MqttOut's handler.                                                      *)

\* A session begins with nothing on the way (Connect).
LEMMA ConnectKeeps ==
    ASSUME IInv, NEW s \in Sups, Connect(s)
    PROVE  IInv'
<1>. USE DEF consumerVars
<1>1. Types' /\ Frame(s)
  BY EmptySeq DEF IInv, Types, Connect, Frame
<1>2. Local(s)'
  BY EmptySeq DEF IInv, Types, Connect, Local
<1>3. EffectBeforeAck'
  BY DEF IInv, Connect, EffectBeforeAck
<1>. QED  BY <1>1, <1>2, <1>3, Framed

\* A PUBLISH goes out, the only one (Publish).
LEMMA PublishKeeps ==
    ASSUME IInv, NEW s \in Sups, Publish(s)
    PROVE  IInv'
<1>. DEFINE p == <<next_pid[s], cur[s].msg>>
<1>1. /\ Types /\ cur[s].msg \in Msgs
      /\ Len(outgoing[s]) = 0 /\ Len(incoming[s]) = 0
  BY DEF IInv, Local, Publish, Sends
<1>2. p \in Nat \X Msgs /\ outgoing[s] \in Seq(Nat \X Msgs)
  BY <1>1 DEF Types
<1>3. /\ Append(outgoing[s], p) \in Seq(Nat \X Msgs)
      /\ Len(Append(outgoing[s], p)) = 1 /\ Append(outgoing[s], p)[1] = p
  BY <1>1, <1>2, AppendToEmpty
<1>4. /\ outgoing' = [outgoing EXCEPT ![s] = Append(outgoing[s], p)]
      /\ next_pid' = [next_pid EXCEPT ![s] = pid(next_pid[s])]
      /\ want' = [want EXCEPT ![s] = next_pid[s]]
      /\ pc' = [pc EXCEPT ![s] = "wait"]
      /\ UNCHANGED <<ready, delivered, acked, landed, dead, cur, session, incoming, faults>>
  BY DEF Publish, Sends, Goto, consumerVars
<1>5. pid(next_pid[s]) \in Nat
  BY <1>1 DEF Types, pid
<1>6. Types'
  BY <1>1, <1>3, <1>4, <1>5 DEF Types
<1>7. Frame(s)
  BY <1>1, <1>4 DEF Frame, Types
<1>8. Local(s)'
  BY <1>1, <1>3, <1>4 DEF Types, Local, OneInFlight
<1>9. EffectBeforeAck'
  BY <1>4 DEF IInv, EffectBeforeAck
<1>. QED  BY <1>6, <1>7, <1>8, <1>9, Framed

\* The PUBACK that comes is the one the handler waits for (PubAck).
LEMMA PubAckKeeps ==
    ASSUME IInv, NEW s \in Sups, PubAck(s)
    PROVE  IInv'
<1>1. Types /\ Local(s) /\ incoming[s] \in Seq(Nat)
  BY DEF IInv, Types
<1>2. Len(incoming[s]) # 0
  BY <1>1, EmptySeq DEF PubAck
<1>3. /\ Len(outgoing[s]) = 0 /\ Len(incoming[s]) = 1 /\ incoming[s][1] = want[s]
      /\ cur[s].msg \in landed /\ cur[s].msg \in Msgs
  BY <1>1, <1>2 DEF Local, OneInFlight, PubAck
<1>4. Tail(incoming[s]) \in Seq(Nat) /\ Len(Tail(incoming[s])) = 0 /\ Head(incoming[s]) = want[s]
  BY <1>1, <1>3, TailOfOne
<1>5. /\ incoming' = [incoming EXCEPT ![s] = Tail(incoming[s])]
      /\ pc' = [pc EXCEPT ![s] = "done"]
      /\ UNCHANGED <<ready, delivered, acked, landed, dead, cur, session, next_pid, want,
                     outgoing, faults>>
  BY <1>4 DEF PubAck, Goto, consumerVars
<1>6. Types' /\ Frame(s)
  BY <1>1, <1>4, <1>5 DEF Types, Frame
<1>7. Local(s)'
  BY <1>1, <1>3, <1>4, <1>5 DEF Types, Local
<1>8. EffectBeforeAck'
  BY <1>5 DEF IInv, EffectBeforeAck
<1>. QED  BY <1>6, <1>7, <1>8, Framed

LEMMA NoMsgOk == NoMsg \in [msg : Msgs \cup {{}}, delivered : Nat]
BY DEF NoMsg

\* What a broken session may still have brought to the broker.
LEMMA LateLandings ==
    ASSUME IInv, NEW s \in Sups,
           landed' \in {landed, landed \cup {outgoing[s][i][2] : i \in DOMAIN outgoing[s]}}
    PROVE  landed \subseteq landed' /\ landed' \subseteq Msgs
<1>1. outgoing[s] \in Seq(Nat \X Msgs) /\ landed \subseteq Msgs
  BY DEF IInv, Types
<1>2. \A i \in DOMAIN outgoing[s] : outgoing[s][i] \in Nat \X Msgs
  BY <1>1
<1>. QED  BY <1>1, <1>2

\* The session is dropped, by the handler or with the attempt (HandlerFails, Ends).
LEMMA DropKeeps ==
    ASSUME IInv, NEW s \in Sups, HandlerFails(s) \/ Ends(s)
    PROVE  IInv'
<1>. USE DEF consumerVars
<1>1. landed \subseteq landed' /\ landed' \subseteq Msgs
  BY LateLandings DEF HandlerFails, Ends
<1>2. /\ outgoing' = [outgoing EXCEPT ![s] = <<>>] /\ incoming' = [incoming EXCEPT ![s] = <<>>]
      /\ UNCHANGED <<delivered, acked, dead, next_pid, want>>
  BY DEF HandlerFails, Ends
<1>3. \/ pc[s] \in {"handle", "wait"} /\ pc' = [pc EXCEPT ![s] = "failed"] /\ cur' = cur
      \/ pc' = [pc EXCEPT ![s] = "round"] /\ cur' = [cur EXCEPT ![s] = NoMsg]
  BY DEF HandlerFails, Ends, Goto, Idle
<1>4. Types' /\ Frame(s)
  <2>1. cur' \in [Sups -> [msg : Msgs \cup {{}}, delivered : Nat]]
    BY <1>3, NoMsgOk DEF IInv, Types
  <2>. QED  BY <1>1, <1>2, <1>3, <2>1, EmptySeq DEF IInv, Types, Frame
<1>5. Local(s)'
  BY <1>2, <1>3, EmptySeq DEF IInv, Types, Local
<1>6. EffectBeforeAck'
  BY <1>1, <1>2 DEF IInv, EffectBeforeAck
<1>. QED  BY <1>4, <1>5, <1>6, Framed

-----------------------------------------------------------------------------
(* run_sink.                                                               *)

\* The message is acked, or its ack is lost; its effect is there (HandlerDone).
LEMMA DoneKeeps ==
    ASSUME IInv, NEW s \in Sups, HandlerDone(s)
    PROVE  IInv'
<1>. USE DEF mqttVars, consumerVars
<1>1. Types /\ cur[s].msg \in Msgs /\ cur[s].msg \in landed \cup dead
      /\ Len(outgoing[s]) = 0 /\ Len(incoming[s]) = 0
  BY DEF IInv, Local, HandlerDone
<1>2. /\ acked' \in {acked, acked \cup {cur[s].msg}}
      /\ cur' = [cur EXCEPT ![s] = NoMsg] /\ pc' = [pc EXCEPT ![s] = "round"]
      /\ UNCHANGED <<delivered, landed, dead, next_pid, want, outgoing, incoming>>
  BY DEF HandlerDone, TakeAck, Idle, Goto
<1>3. Types' /\ Frame(s)
  BY <1>1, <1>2, NoMsgOk DEF Types, Frame
<1>4. Local(s)'
  BY <1>1, <1>2 DEF Types, Local
<1>5. EffectBeforeAck'
  BY <1>1, <1>2 DEF IInv, EffectBeforeAck
<1>. QED  BY <1>3, <1>4, <1>5, Framed

\* It goes back, or to the dead-letter queue (GoesBack, Bury, BuryFails).
LEMMA FailedKeeps ==
    ASSUME IInv, NEW s \in Sups, GoesBack(s) \/ Bury(s) \/ BuryFails(s)
    PROVE  IInv'
<1>. USE DEF mqttVars, consumerVars
<1>1. Types /\ cur[s].msg \in Msgs /\ Len(outgoing[s]) = 0 /\ Len(incoming[s]) = 0
  BY DEF IInv, Local, GoesBack, Bury, BuryFails
<1>2. /\ dead' \in {dead, dead \cup {cur[s].msg}}
      /\ UNCHANGED <<delivered, acked, landed, next_pid, want, outgoing, incoming>>
      /\ \/ cur' = [cur EXCEPT ![s] = NoMsg] /\ pc' = [pc EXCEPT ![s] = "round"]
         \/ cur' = cur /\ pc' = [pc EXCEPT ![s] = "done"] /\ cur[s].msg \in dead'
  BY DEF GoesBack, Bury, BuryFails, TakeNak, Idle, Goto
<1>3. Types' /\ Frame(s)
  <2>1. cur' \in [Sups -> [msg : Msgs \cup {{}}, delivered : Nat]]
    BY <1>1, <1>2, NoMsgOk DEF Types
  <2>. QED  BY <1>1, <1>2, <2>1 DEF Types, Frame
<1>4. Local(s)'
  BY <1>1, <1>2 DEF Types, Local
<1>5. EffectBeforeAck'
  BY <1>2 DEF IInv, EffectBeforeAck
<1>. QED  BY <1>3, <1>4, <1>5, Framed

-----------------------------------------------------------------------------
(* The theorems.                                                           *)

LEMMA Invariance == Spec => []IInv
<1>1. Init => IInv
  BY EmptySeq, NoMsgOk DEF Init, IInv, Types, Local, EffectBeforeAck
<1>2. IInv /\ [Next]_vars => IInv'
  <2>1. ASSUME IInv, Next PROVE IInv'
    BY <2>1, DeliverKeeps, AckWaitKeeps, BrokerKeeps, ConnectKeeps, PublishKeeps,
       PubAckKeeps, DropKeeps, DoneKeeps, FailedKeeps
       DEF Next, Step
  <2>2. ASSUME IInv, UNCHANGED vars PROVE IInv'
    BY <2>2 DEF vars, IInv, Types, Local, OneInFlight, EffectBeforeAck
  <2>. QED  BY <2>1, <2>2
<1>. QED  BY <1>1, <1>2, PTL DEF Spec

\* "PUBLISH -> await the broker's PUBACK -> THEN ack the bus message": run_sink acks
\* nothing that the broker or the dead-letter queue has not taken.
THEOREM SinkAcksAfterEffect == Spec => []EffectBeforeAck
<1>1. IInv => EffectBeforeAck
  BY DEF IInv
<1>. QED  BY <1>1, Invariance, PTL

LEMMA StepRefines ==
    ASSUME IInv, [Next]_vars
    PROVE  [Promise!Next]_Promise!aloVars
<1>. USE DEF mqttVars, consumerVars
<1>1. ASSUME NEW S \in SUBSET Msgs, landed' = landed \cup S, UNCHANGED <<dead, acked>>
      PROVE  Promise!Next
  BY <1>1 DEF Promise!Next, Promise!Land
<1>2. ASSUME NEW m \in Msgs, dead' = dead \cup {m}, UNCHANGED <<landed, acked>>
      PROVE  Promise!Next
  BY <1>2 DEF Promise!Next, Promise!Bury
<1>3. ASSUME NEW m \in landed \cup dead, m \in Msgs, acked' = acked \cup {m},
             UNCHANGED <<landed, dead>>
      PROVE  Promise!Next
  <2>1. {m} \in SUBSET Msgs /\ Promise!Settle({m})
    BY <1>3 DEF Promise!Settle
  <2>. QED  BY <2>1 DEF Promise!Next
<1>4. ASSUME UNCHANGED <<landed, dead, acked>> PROVE UNCHANGED Promise!aloVars
  BY <1>4 DEF Promise!aloVars
<1>5. ASSUME NEW s \in Sups, Connect(s) \/ Publish(s) \/ PubAck(s) \/ GoesBack(s)
      PROVE  UNCHANGED <<landed, dead, acked>>
  BY <1>5 DEF Connect, Publish, PubAck, GoesBack, TakeNak
<1>6. ASSUME NEW s \in Sups, HandlerDone(s)
      PROVE  Promise!Next \/ UNCHANGED <<landed, dead, acked>>
  <2>1. cur[s].msg \in Msgs /\ cur[s].msg \in landed \cup dead
    BY <1>6 DEF IInv, Local, HandlerDone
  <2>2. acked' \in {acked, acked \cup {cur[s].msg}} /\ UNCHANGED <<landed, dead>>
    BY <1>6 DEF HandlerDone, TakeAck
  <2>. QED  BY <1>3, <2>1, <2>2
<1>7. ASSUME NEW s \in Sups, Bury(s) \/ BuryFails(s)
      PROVE  Promise!Next \/ UNCHANGED <<landed, dead, acked>>
  <2>1. cur[s].msg \in Msgs
    BY <1>7 DEF IInv, Local, Bury, BuryFails
  <2>2. dead' \in {dead, dead \cup {cur[s].msg}} /\ UNCHANGED <<landed, acked>>
    BY <1>7 DEF Bury, BuryFails, TakeNak
  <2>. QED  BY <1>2, <2>1, <2>2
<1>8. ASSUME NEW s \in Sups, HandlerFails(s) \/ Ends(s) PROVE Promise!Next
  <2>1. landed \subseteq landed' /\ landed' \subseteq Msgs /\ UNCHANGED <<dead, acked>>
    BY <1>8, LateLandings DEF HandlerFails, Ends
  <2>2. landed' = landed \cup landed'
    BY <2>1
  <2>. QED  BY <1>1, <2>1, <2>2
<1>9. ASSUME NEW s \in Sups, BrokerTakes(s) PROVE Promise!Next
  <2>1. IInv' /\ UNCHANGED <<dead, acked>> /\ landed \subseteq landed'
    BY <1>9, BrokerKeeps DEF BrokerTakes
  <2>2. landed' \subseteq Msgs /\ landed' = landed \cup landed'
    BY <2>1 DEF IInv, Types
  <2>. QED  BY <1>1, <2>1, <2>2
<1>10. ASSUME NEW m \in Msgs, AckWait(m) \/ \E s \in Sups : Deliver(m, s)
       PROVE  UNCHANGED <<landed, dead, acked>>
  BY <1>10 DEF AckWait, Deliver
<1>11. CASE UNCHANGED vars
  BY <1>11, <1>4 DEF vars
<1>. QED
  BY <1>4, <1>5, <1>6, <1>7, <1>8, <1>9, <1>10, <1>11 DEF Next, Step

\* A sink is an at-least-once consumer, as a flow is: run_sink with MqttOut's handler
\* keeps AtLeastOnce.
THEOREM SinkIsAtLeastOnce == Spec => SinkImplements
<1>1. Init => Promise!Init
  BY DEF Init, Promise!Init
<1>2. IInv /\ [Next]_vars => [Promise!Next]_Promise!aloVars
  BY StepRefines
<1>. QED
  BY <1>1, <1>2, Invariance, PTL DEF Spec, SinkImplements, Promise!Spec
=============================================================================
