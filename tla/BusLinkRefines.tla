--------------------------- MODULE BusLinkRefines ---------------------------
(***************************************************************************)
(* BusLink implements Outbox, and its map of waiters is exact.  Both rest  *)
(* on the inductive invariant of BusLinkProofs.                            *)
(***************************************************************************)
EXTENDS BusLinkProofs

-----------------------------------------------------------------------------
(* Link.waiting.                                                           *)

WInv == IInv /\ WaitersAreLive /\ BarriersAreDistinct

\* Every step keeps Link.waiting equal to the ids of the blocked threads, and
\* those ids distinct: a barrier takes an id above every one that waits.
LEMMA WaitersStep == WInv /\ [Next]_vars => WInv'
  <1> SUFFICES ASSUME WInv, [Next]_vars PROVE (WaitersAreLive /\ BarriersAreDistinct)'
    BY StepInv DEF WInv
  <1> USE DEF WInv, IInv
  <1>t. /\ next_id \in Nat /\ pc \in [Threads -> Steps] /\ id \in [Threads -> Nat]
        /\ waiting \subseteq Nat
    BY DEF TypeOK
  <1> DEFINE Others(t) == \A u \in Threads \ {t} : pc'[u] = pc[u] /\ id'[u] = id[u]
  <1>1. ASSUME NEW t \in Threads, pc[t] # "waiting", pc'[t] # "waiting", Others(t),
               waiting' = waiting
        PROVE  (WaitersAreLive /\ BarriersAreDistinct)'
    BY <1>1 DEF WaitersAreLive, BarriersAreDistinct
  <1>2. ASSUME NEW t \in Threads, AskBarrier(t)
        PROVE  (WaitersAreLive /\ BarriersAreDistinct)'
    <2>1. /\ Others(t) /\ pc[t] # "waiting" /\ pc'[t] = "waiting"
          /\ id'[t] = next_id /\ waiting' = waiting \cup {next_id}
      BY <1>2, <1>t DEF AskBarrier, Goto
    <2>2. \A u \in Threads : pc[u] = "waiting" => id[u] # next_id
      BY <1>t DEF IdsKnown
    <2> QED BY <2>1, <2>2 DEF WaitersAreLive, BarriersAreDistinct
  <1>3. ASSUME NEW t \in Threads, BarrierTimeout(t)
        PROVE  (WaitersAreLive /\ BarriersAreDistinct)'
    <2>1. /\ Others(t) /\ pc[t] = "waiting" /\ pc'[t] # "waiting"
          /\ waiting' = waiting \ {id[t]}
      BY <1>3, <1>t DEF BarrierTimeout, Goto
    <2> QED BY <2>1 DEF WaitersAreLive, BarriersAreDistinct
  <1>4. ASSUME NEW t \in Threads,
               Hold(t) \/ ConfirmEmpty(t) \/ ConfirmDown(t) \/ ConfirmUp(t)
               \/ ReadEpoch(t) \/ Send(t) \/ SendTimeout(t) \/ CheckEpoch(t) \/ Return(t)
        PROVE  (WaitersAreLive /\ BarriersAreDistinct)'
    <2>1. /\ Others(t) /\ waiting' = waiting
          /\ pc[t] # "waiting" /\ pc'[t] # "waiting"
      BY <1>4, <1>t DEF Hold, ConfirmEmpty, ConfirmDown, ConfirmUp, ReadEpoch, Send,
         SendTimeout, CheckEpoch, Return, Goto
    <2> QED BY <1>1, <2>1
  <1>5. CASE Write \/ Disconnect \/ ServerRead \/ Reconnect \/ UNCHANGED vars
    <2>1. UNCHANGED <<pc, id, waiting>>
      BY <1>5 DEF Write, Disconnect, ServerRead, Reconnect, vars, threadVars
    <2> QED BY <2>1 DEF WaitersAreLive, BarriersAreDistinct
  <1>6. ASSUME NEW i \in echoes, HearEcho(i)
        PROVE  (WaitersAreLive /\ BarriersAreDistinct)'
    <2>1. /\ id' = id /\ waiting' = waiting \ {i}
          /\ \A u \in Threads : pc[u] = "waiting" /\ id[u] = i => pc'[u] = "heard"
          /\ \A u \in Threads : ~(pc[u] = "waiting" /\ id[u] = i) => pc'[u] = pc[u]
      BY <1>6, <1>t, Zenon DEF HearEcho, WaitersAreLive
    <2> QED BY <2>1 DEF WaitersAreLive, BarriersAreDistinct
  <1> QED BY <1>2, <1>3, <1>4, <1>5, <1>6 DEF Next, Confirm

\* A timed out, failed or answered barrier leaves nothing in Link.waiting, and
\* no blocked thread is forgotten by it; an echo wakes one thread only.
THEOREM WaitersAreExact == Spec => [](WaitersAreLive /\ BarriersAreDistinct)
  <1>1. Init => WInv
    BY InitInv DEF WInv, WaitersAreLive, BarriersAreDistinct, Init
  <1>2. WInv => WaitersAreLive /\ BarriersAreDistinct
    BY DEF WInv
  <1> QED BY <1>1, <1>2, WaitersStep, PTL DEF Spec

-----------------------------------------------------------------------------
(* Refinement.                                                             *)

Answer(step) == CASE step = "idle" -> "no"
                  [] step = "ok"   -> "ok"
                  [] step = "err"  -> "err"
                  [] OTHER         -> "yes"

\* Every step of the link is a step of the promise, or changes nothing in it.
LEMMA StepRefines == IInv /\ [Next]_vars => [Promise!Next]_(Promise!outboxVars)
  <1> SUFFICES ASSUME IInv, [Next]_vars
               PROVE  Promise!Next \/ UNCHANGED Promise!outboxVars
    BY DEF Promise!outboxVars
  <1> USE DEF IInv
  <1>t. /\ pc \in [Threads -> Steps]
        /\ first \in [Threads -> Nat \ {0}] /\ made \in [Threads -> Nat]
        /\ sent \in [Threads -> Nat] /\ pipe \in Seq(Commands)
    BY DEF TypeOK
  <1>a. /\ asking = [t \in Threads |-> Answer(pc[t])]
        /\ asking' = [t \in Threads |-> Answer(pc'[t])]
    BY DEF asking, Answer
  <1>b. ASSUME NEW t \in Threads, NEW step, Goto(t, step)
        PROVE  asking' = [asking EXCEPT ![t] = Answer(step)]
    BY <1>a, <1>b, <1>t, Zenon DEF Goto
  <1>c. pc' = pc => asking' = asking
    BY <1>a
  <1>d. /\ Answer("idle") = "no" /\ Answer("ok") = "ok" /\ Answer("err") = "err"
        /\ Answer("epoch") = "yes" /\ Answer("sending") = "yes"
        /\ Answer("waiting") = "yes" /\ Answer("heard") = "yes"
    BY DEF Answer
  <1>e. ASSUME NEW t \in Threads, NEW step, Goto(t, step), Answer(pc[t]) = Answer(step)
        PROVE  asking' = asking
    BY <1>a, <1>e, <1>t DEF Goto
  <1>1. ASSUME NEW t \in Threads, Hold(t) PROVE Promise!Hold(t)
    BY <1>1, <1>a, <1>c, <1>d DEF Hold, Promise!Hold, connVars
  <1>2. ASSUME NEW t \in Threads, ConfirmEmpty(t) PROVE Promise!Confirmed(t)
    <2>1. Promise!BatchOf(t) = {}
      BY <1>2, <1>t DEF ConfirmEmpty, Promise!BatchOf
    <2> QED BY <1>2, <1>a, <1>b, <1>d, <2>1 DEF ConfirmEmpty, Promise!Confirmed, connVars
  <1>3. ASSUME NEW t \in Threads, ConfirmDown(t) PROVE Promise!Refused(t)
    BY <1>3, <1>a, <1>b, <1>d DEF ConfirmDown, Promise!Refused, connVars
  <1>4. ASSUME NEW t \in Threads, ConfirmUp(t) PROVE Promise!Ask(t)
    BY <1>4, <1>a, <1>b, <1>d DEF ConfirmUp, Promise!Ask, connVars
  <1>5. ASSUME NEW t \in Threads, ReadEpoch(t) \/ Send(t) \/ AskBarrier(t)
        PROVE  UNCHANGED Promise!outboxVars
    <2>1. CASE ReadEpoch(t)
      BY <2>1, <1>d, <1>e DEF ReadEpoch, Promise!outboxVars, connVars
    <2>2. CASE Send(t)
      BY <2>2, <1>c DEF Send, Promise!outboxVars
    <2>3. CASE AskBarrier(t)
      BY <2>3, <1>d, <1>e DEF AskBarrier, Promise!outboxVars
    <2> QED BY <1>5, <2>1, <2>2, <2>3
  <1>6. ASSUME NEW t \in Threads, SendTimeout(t) \/ BarrierTimeout(t)
        PROVE  Promise!Refused(t)
    <2>1. CASE SendTimeout(t)
      BY <2>1, <1>a, <1>b, <1>d DEF SendTimeout, Promise!Refused, connVars
    <2>2. CASE BarrierTimeout(t)
      BY <2>2, <1>a, <1>b, <1>d DEF BarrierTimeout, Promise!Refused, connVars
    <2> QED BY <1>6, <2>1, <2>2
  <1>7. ASSUME NEW t \in Threads, CheckEpoch(t)
        PROVE  Promise!Confirmed(t) \/ Promise!Refused(t)
    <2>1. CASE epoch = since[t]
      <3>1. Promise!BatchOf(t) \subseteq server
        BY <1>7, <2>1 DEF CheckEpoch, HeardProves, Unbroken, Promise!BatchOf
      <3> QED BY <1>7, <1>a, <1>b, <1>d, <2>1, <3>1
              DEF CheckEpoch, Promise!Confirmed, connVars
    <2>2. CASE epoch # since[t]
      BY <1>7, <1>a, <1>b, <1>d, <2>2 DEF CheckEpoch, Promise!Refused, connVars
    <2> QED BY <2>1, <2>2
  <1>8. ASSUME NEW t \in Threads, Return(t) PROVE Promise!Resume(t)
    BY <1>8, <1>a, <1>b, <1>d DEF Return, Promise!Resume, connVars
  <1>9. CASE Write \/ Disconnect \/ Reconnect \/ UNCHANGED vars
    BY <1>9, <1>c DEF Write, Disconnect, Reconnect, vars, threadVars, Promise!outboxVars
  <1>10. CASE ServerRead
    <2> DEFINE m == Head(pipe)
    <2>1. /\ UNCHANGED <<first, made, asking>>
          /\ m = pipe[1] /\ 1 \in 1..Len(pipe)
          /\ \/ server' = server
             \/ m.what = "emit" /\ server' = server \cup {<<m.by, m.n>>}
      <3>1. Len(pipe) > 0
        BY <1>10 DEF ServerRead, TypeOK
      <3> QED BY <1>10, <1>c, <1>t, <3>1, TailPipe DEF ServerRead, threadVars
    <2>2. CASE server' = server
      BY <2>1, <2>2 DEF Promise!outboxVars
    <2>3. CASE m.what = "emit" /\ server' = server \cup {<<m.by, m.n>>}
      <3>1. m.by \in Threads /\ m.n \in 1..sent[m.by]
        BY <2>1, <2>3 DEF PipeKnown
      <3>2. PICK t \in Threads : t = m.by
        BY <3>1
      <3>3. m.n \in 1..made[t]
        BY <1>t, <3>1, <3>2 DEF Drained
      <3>4. m.n >= first[t] => asking[t] # "no"
        <4> SUFFICES ASSUME asking[t] = "no" PROVE ~(m.n >= first[t])
          OBVIOUS
        <4>1. pc[t] = "idle"
          BY <1>a, <1>d, <1>t, Zenon DEF Steps
        <4> QED BY <1>t, <3>1, <3>2, <4>1 DEF Drained
      <3>5. Promise!Arrive(t)
        BY <2>1, <2>3, <3>2, <3>3, <3>4 DEF Promise!Arrive
      <3> QED BY <3>5 DEF Promise!Next
    <2> QED BY <2>1, <2>2, <2>3
  <1>11. ASSUME NEW i \in echoes, HearEcho(i) PROVE UNCHANGED Promise!outboxVars
    <2>1. \A t \in Threads : Answer(pc'[t]) = Answer(pc[t])
      BY <1>11, <1>d DEF HearEcho
    <2>2. asking' = asking
      BY <1>a, <2>1
    <2> QED BY <1>11, <2>2 DEF HearEcho, Promise!outboxVars
  <1> QED
    BY <1>1, <1>2, <1>3, <1>4, <1>5, <1>6, <1>7, <1>8, <1>9, <1>10, <1>11
       DEF Next, Confirm, Promise!Next

\* The link and its barrier implement the promise of Batch: a unit may reason
\* with Outbox and forget connections, pipes and echoes.
THEOREM LinkKeepsPromise == Spec => ImplementsOutbox
  <1>1. Init => Promise!Init
    BY DEF Init, Promise!Init, asking
  <1> QED BY <1>1, InitInv, StepInv, StepRefines, PTL DEF Spec, ImplementsOutbox, Promise!Spec
=============================================================================
