---------------------------- MODULE BusLinkProofs ---------------------------
(***************************************************************************)
(* BusLink keeps the promise of bus::Batch, for every number of threads,   *)
(* of emits and of reconnects.                                             *)
(***************************************************************************)
EXTENDS BusLink, TLAPS

-----------------------------------------------------------------------------
(* The inductive invariant.                                                *)

\* A confirm hands over what is held, in order, and everything before its end.
Drained ==
    \A t \in Threads :
        /\ first[t] <= sent[t] + 1
        /\ sent[t] <= made[t]
        /\ pc[t] \in {"idle", "epoch"} => sent[t] + 1 = first[t]
        /\ pc[t] \in {"waiting", "heard", "ok", "err"} => sent[t] = made[t]

\* No batch started on a connection that is still to come.
SinceKnown == \A t \in Threads : since[t] <= epoch

\* Only what a thread handed over travels, under ids that were given out.
PipeKnown ==
    \A i \in 1..Len(pipe) :
        /\ pipe[i].what = "emit" =>
              /\ pipe[i] = Emit(pipe[i].by, pipe[i].n)
              /\ pipe[i].by \in Threads
              /\ pipe[i].n \in 1..sent[pipe[i].by]
        /\ pipe[i].what = "echo" =>
              /\ pipe[i] = Echo(pipe[i].n)
              /\ pipe[i].n < next_id

EchoesKnown == \A i \in echoes : i < next_id

IdsKnown == \A t \in Threads : pc[t] = "waiting" => id[t] < next_id

\* A thread inside confirm() whose connection was not replaced.
Unbroken(t, steps) == pc[t] \in steps /\ since[t] = epoch

OnWay(m)     == \E i \in 1..Len(pipe) : pipe[i] = m
Before(m, i) == \E j \in 1..(i - 1) : pipe[j] = m

\* What it handed over has been read or is still on its way.
Carried ==
    \A t \in Threads : Unbroken(t, {"sending", "waiting"}) =>
        \A n \in first[t]..sent[t] : <<t, n>> \in server \/ OnWay(Emit(t, n))

\* Its barrier travels behind all of it,
EchoBehind ==
    \A t \in Threads : Unbroken(t, {"waiting"}) =>
        \A i \in 1..Len(pipe) : pipe[i] = Echo(id[t]) =>
            \A n \in first[t]..made[t] :
                <<t, n>> \in server \/ Before(Emit(t, n), i)

\* so the echo proves that all of it was read, on its way back
EchoProves ==
    \A t \in Threads : Unbroken(t, {"waiting"}) /\ id[t] \in echoes =>
        \A n \in first[t]..made[t] : <<t, n>> \in server

\* and once heard.
HeardProves ==
    \A t \in Threads : Unbroken(t, {"heard"}) =>
        \A n \in first[t]..made[t] : <<t, n>> \in server

IInv ==
    /\ TypeOK /\ Drained /\ SinceKnown /\ PipeKnown /\ EchoesKnown /\ IdsKnown
    /\ Carried /\ EchoBehind /\ EchoProves /\ HeardProves /\ ConfirmSound

\* What the echo task reads in a barrier's message.
LEMMA EchoFields == \A k : Echo(k).what = "echo" /\ Echo(k).n = k
  BY DEF Echo

\* An emit is not taken for a barrier.
LEMMA EmitIsNoEcho == \A t, n, k : Emit(t, n) # Echo(k)
  BY DEF Emit, Echo

-----------------------------------------------------------------------------
(* Sequence facts: what a step of the pipe does to its elements.           *)

\* Handing one more command over leaves the ones before it in place.
LEMMA AppendPipe ==
    ASSUME NEW S, NEW q \in Seq(S), NEW m \in S
    PROVE  /\ Append(q, m) \in Seq(S)
           /\ Len(Append(q, m)) = Len(q) + 1
           /\ \A i \in 1..Len(q) : Append(q, m)[i] = q[i]
           /\ Append(q, m)[Len(q) + 1] = m
  OBVIOUS

\* Reading the oldest command moves the others up by one.
LEMMA TailPipe ==
    ASSUME NEW S, NEW q \in Seq(S), Len(q) > 0
    PROVE  /\ Head(q) = q[1]
           /\ Tail(q) \in Seq(S)
           /\ Len(Tail(q)) = Len(q) - 1
           /\ \A i \in 1..(Len(q) - 1) : Tail(q)[i] = q[i + 1]
  OBVIOUS

\* Dropping the first k commands moves the others up by k.
LEMMA DropPipe ==
    ASSUME NEW S, NEW q \in Seq(S), NEW k \in 0..Len(q)
    PROVE  /\ SubSeq(q, k + 1, Len(q)) \in Seq(S)
           /\ Len(SubSeq(q, k + 1, Len(q))) = Len(q) - k
           /\ \A i \in 1..(Len(q) - k) : SubSeq(q, k + 1, Len(q))[i] = q[i + k]
  OBVIOUS

-----------------------------------------------------------------------------
\* The invariant holds when the link is opened.
LEMMA InitInv == Init => IInv
  BY BoundsAssumption DEF Init, IInv, TypeOK, Drained, SinceKnown, PipeKnown,
     EchoesKnown, IdsKnown, OnWay, Carried, EchoBehind, EchoProves, HeardProves, ConfirmSound, Unbroken,
     Steps, Commands

-----------------------------------------------------------------------------
\* The steps of a thread that touch neither the pipe nor what was read keep
\* the invariant: they only move its own batch through confirm().
LEMMA LocalStep ==
    ASSUME IInv, NEW t \in Threads,
           Hold(t) \/ ConfirmEmpty(t) \/ ConfirmDown(t) \/ ConfirmUp(t)
           \/ ReadEpoch(t) \/ SendTimeout(t) \/ BarrierTimeout(t)
           \/ CheckEpoch(t) \/ Return(t)
    PROVE  IInv'
  <1> USE DEF IInv
  <1> DEFINE Same(u) ==
        /\ pc'[u] = pc[u] /\ first'[u] = first[u] /\ made'[u] = made[u]
        /\ sent'[u] = sent[u] /\ since'[u] = since[u] /\ id'[u] = id[u]
             Frame ==
        /\ UNCHANGED <<up, epoch, pipe, written, server, echoes>>
        /\ waiting' \subseteq waiting
        /\ next_id' \in Nat /\ next_id' >= next_id
        /\ pc' \in [Threads -> Steps] /\ first' \in [Threads -> Nat \ {0}]
        /\ made' \in [Threads -> Nat] /\ sent' \in [Threads -> Nat]
        /\ since' \in [Threads -> Nat] /\ id' \in [Threads -> Nat]
        /\ \A u \in Threads \ {t} : Same(u)
             Own ==
        /\ pc'[t] \notin {"waiting", "heard"}
        /\ pc'[t] \in {"idle", "epoch", "sending"} => sent'[t] + 1 = first'[t]
        /\ pc'[t] \in {"ok", "err"} => sent'[t] = made'[t]
        /\ sent[t] <= sent'[t] /\ sent'[t] <= made'[t]
        /\ first'[t] <= sent'[t] + 1
        /\ since'[t] <= epoch
        /\ pc'[t] = "ok" => \A n \in first'[t]..made'[t] : <<t, n>> \in server
  <1>0. Frame /\ Own
    <2> USE DEF TypeOK, Steps, Drained, SinceKnown, Goto, connVars
    <2>1. CASE Hold(t)
      BY <2>1, SMTT(30) DEF Hold
    <2>2. CASE ConfirmEmpty(t)
      BY <2>2 DEF ConfirmEmpty
    <2>3. CASE ConfirmDown(t)
      BY <2>3 DEF ConfirmDown
    <2>4. CASE ConfirmUp(t)
      BY <2>4 DEF ConfirmUp
    <2>5. CASE ReadEpoch(t)
      BY <2>5 DEF ReadEpoch
    <2>6. CASE SendTimeout(t)
      BY <2>6, SMTT(30) DEF SendTimeout
    <2>7. CASE BarrierTimeout(t)
      BY <2>7 DEF BarrierTimeout
    <2>8. CASE CheckEpoch(t)
      BY <2>8 DEF CheckEpoch, HeardProves, Unbroken
    <2>9. CASE Return(t)
      BY <2>9, SMTT(30) DEF Return
    <2> QED BY <2>1, <2>2, <2>3, <2>4, <2>5, <2>6, <2>7, <2>8, <2>9, Zenon
  <1>1. TypeOK'
    BY <1>0, Zenon DEF TypeOK
  <1>2. (Drained /\ SinceKnown)'
    BY <1>0, Zenon DEF TypeOK, Drained, SinceKnown
  <1>2a. EchoesKnown'
    <2>1. /\ echoes' = echoes /\ echoes \subseteq Nat /\ next_id \in Nat
          /\ next_id' \in Nat /\ next_id' >= next_id
      BY <1>0 DEF TypeOK
    <2> QED BY <2>1 DEF EchoesKnown
  <1>2b. IdsKnown'
    <2> SUFFICES ASSUME NEW u \in Threads, pc'[u] = "waiting"
                 PROVE  id'[u] < next_id'
      BY DEF IdsKnown
    <2>1. u # t
      BY <1>0
    <2>2. id'[u] = id[u] /\ pc[u] = "waiting"
      BY <1>0, <2>1
    <2>3. id[u] \in Nat /\ next_id \in Nat /\ next_id' \in Nat /\ next_id' >= next_id
      BY <1>0 DEF TypeOK
    <2> QED BY <2>2, <2>3 DEF IdsKnown
  <1>3. PipeKnown'
    <2>1. ASSUME NEW u \in Threads
          PROVE  sent[u] \in Nat /\ sent'[u] \in Nat /\ sent[u] <= sent'[u]
      <3>1. sent[u] \in Nat /\ sent'[u] \in Nat
        BY <1>0 DEF TypeOK
      <3>2. CASE u = t
        BY <1>0, <3>1, <3>2
      <3>3. CASE u # t
        BY <1>0, <3>1, <3>3
      <3> QED BY <3>2, <3>3
    <2>2. pipe' = pipe /\ next_id' \in Nat /\ next_id \in Nat /\ next_id' >= next_id
      BY <1>0 DEF TypeOK
    <2>3. pipe \in Seq(Commands)
      BY DEF TypeOK
    <2> QED BY <2>1, <2>2, <2>3, SMTT(30) DEF PipeKnown, Commands, Emit, Echo
  <1>4. Carried'
    <2> SUFFICES ASSUME NEW u \in Threads, Unbroken(u, {"sending", "waiting"})',
                        NEW n \in first'[u]..sent'[u]
                 PROVE  <<u, n>> \in server \/ OnWay(Emit(u, n))
      BY <1>0 DEF Carried, OnWay
    <2>1. u # t
      BY <1>0, SMTT(30) DEF TypeOK, Unbroken
    <2> QED BY <1>0, <2>1 DEF Carried, Unbroken
  <1>5. EchoBehind'
    <2>0. pipe' = pipe /\ server' = server
      BY <1>0
    <2> SUFFICES ASSUME NEW u \in Threads, Unbroken(u, {"waiting"})',
                        NEW i \in 1..Len(pipe), pipe[i] = Echo(id'[u]),
                        NEW n \in first'[u]..made'[u]
                 PROVE  <<u, n>> \in server \/ Before(Emit(u, n), i)
      BY <2>0 DEF EchoBehind, Before
    <2>1. u # t
      BY <1>0 DEF Unbroken
    <2> QED BY <1>0, <2>1, Zenon DEF EchoBehind, Unbroken
  <1>6. (EchoProves /\ HeardProves)'
    BY <1>0, Zenon DEF TypeOK, EchoProves, HeardProves, Unbroken
  <1>7. ConfirmSound'
    BY <1>0, Zenon DEF TypeOK, ConfirmSound
  <1> QED BY <1>1, <1>2, <1>2a, <1>2b, <1>3, <1>4, <1>5, <1>6, <1>7

\* Handing over an emit or a barrier keeps the invariant: a barrier goes in
\* behind everything its batch handed over.
LEMMA PipeStep ==
    ASSUME IInv, NEW t \in Threads, Send(t) \/ AskBarrier(t)
    PROVE  IInv'
  <1> USE DEF IInv
  <1>0. PICK m \in Commands : pipe' = Append(pipe, m)
    BY SMTT(30) DEF Send, AskBarrier, Commands, Emit, Echo, TypeOK
  <1>1. /\ pipe' \in Seq(Commands)
        /\ Len(pipe') = Len(pipe) + 1
        /\ \A i \in 1..Len(pipe) : pipe'[i] = pipe[i]
        /\ pipe'[Len(pipe) + 1] = m
        /\ Len(pipe) \in Nat
    BY <1>0, AppendPipe DEF TypeOK
  <1>2. OnWay(m)' /\ \A x : OnWay(x) => OnWay(x)'
    BY <1>1 DEF OnWay
  <1>3. ASSUME NEW i \in 1..Len(pipe), NEW x, Before(x, i)
        PROVE  Before(x, i)'
    BY <1>1, <1>3 DEF Before
  <1>4. ASSUME NEW x, OnWay(x), NEW i, i = Len(pipe) + 1
        PROVE  Before(x, i)'
    BY <1>1, <1>4 DEF Before, OnWay
  <1>5. \A i \in 1..Len(pipe') : i \in 1..Len(pipe) \/ i = Len(pipe) + 1
    BY <1>1
  <1>t. /\ epoch \in Nat /\ next_id \in Nat /\ pc \in [Threads -> Steps]
        /\ first \in [Threads -> Nat \ {0}] /\ made \in [Threads -> Nat]
        /\ sent \in [Threads -> Nat] /\ since \in [Threads -> Nat]
        /\ id \in [Threads -> Nat] /\ echoes \subseteq Nat
    BY DEF TypeOK
  <1>6. CASE Send(t)
    <2>1. /\ UNCHANGED <<up, epoch, written, server, echoes, waiting, next_id,
                         pc, first, made, since, id>>
          /\ sent' \in [Threads -> Nat]
          /\ sent'[t] = sent[t] + 1 /\ sent[t] < made[t] /\ pc[t] = "sending"
          /\ \A u \in Threads \ {t} : sent'[u] = sent[u]
          /\ m = Emit(t, sent[t] + 1)
      BY <1>0, <1>1, <1>6 DEF Send, TypeOK
    <2>2. TypeOK'
      <3>1. written' \in 0..Len(pipe')
        BY <1>1, <2>1 DEF TypeOK
      <3> QED BY <1>1, <2>1, <3>1, SMTT(30) DEF TypeOK
    <2>3. (Drained /\ SinceKnown /\ EchoesKnown /\ IdsKnown)'
      BY <1>t, <2>1 DEF Drained, SinceKnown, EchoesKnown, IdsKnown
    <2>4. PipeKnown'
      <3> SUFFICES ASSUME NEW i \in 1..Len(pipe')
                   PROVE  PipeKnown!(i)'
        BY DEF PipeKnown
      <3>1. CASE i = Len(pipe) + 1
        BY <1>1, <1>t, <2>1, <3>1, SMTT(30) DEF Emit
      <3>2. CASE i \in 1..Len(pipe)
        <4>1. pipe'[i] = pipe[i]
          BY <1>1, <3>2
        <4>2. \A u \in Threads : \A n : n \in 1..sent[u] => n \in 1..sent'[u]
          <5> SUFFICES ASSUME NEW u \in Threads
                       PROVE  \A n : n \in 1..sent[u] => n \in 1..sent'[u]
            OBVIOUS
          <5>1. CASE u = t
            BY <1>t, <2>1, <5>1
          <5>2. CASE u # t
            BY <2>1, <5>2
          <5> QED BY <5>1, <5>2
        <4> QED BY <2>1, <3>2, <4>1, <4>2 DEF PipeKnown
      <3> QED BY <1>5, <3>1, <3>2
    <2>5. Carried'
      <3> SUFFICES ASSUME NEW u \in Threads, Unbroken(u, {"sending", "waiting"})',
                          NEW n \in first[u]..sent'[u]
                   PROVE  <<u, n>> \in server \/ OnWay(Emit(u, n))'
        BY <2>1 DEF Carried
      <3>1. CASE u = t /\ n = sent[t] + 1
        BY <1>2, <2>1, <3>1
      <3>2. CASE n \in first[u]..sent[u]
        BY <1>2, <2>1, <3>2, SMTT(30) DEF Carried, Unbroken
      <3> QED BY <1>t, <2>1, <3>1, <3>2
    <2>6. EchoBehind'
      <3> SUFFICES ASSUME NEW u \in Threads, Unbroken(u, {"waiting"})',
                          NEW i \in 1..Len(pipe'), pipe'[i] = Echo(id[u]),
                          NEW n \in first[u]..made[u]
                   PROVE  <<u, n>> \in server \/ Before(Emit(u, n), i)'
        BY <2>1 DEF EchoBehind
      <3>1. i \in 1..Len(pipe) /\ pipe[i] = Echo(id[u])
        <4>1. i # Len(pipe) + 1
          BY <1>1, <2>1, EmitIsNoEcho
        <4> QED BY <1>1, <1>5, <4>1, SMTT(30)
      <3> QED BY <1>3, <2>1, <3>1, SMTT(30) DEF EchoBehind, Unbroken
    <2>7. (EchoProves /\ HeardProves /\ ConfirmSound)'
      BY <2>1 DEF EchoProves, HeardProves, ConfirmSound, Unbroken
    <2> QED BY <2>2, <2>3, <2>4, <2>5, <2>6, <2>7
  <1>7. CASE AskBarrier(t)
    <2>1. /\ UNCHANGED <<up, epoch, written, server, echoes, first, made, sent, since>>
          /\ id' \in [Threads -> Nat] /\ pc' \in [Threads -> Steps]
          /\ id'[t] = next_id /\ sent[t] = made[t]
          /\ pc[t] = "sending" /\ pc'[t] = "waiting"
          /\ \A u \in Threads \ {t} : id'[u] = id[u] /\ pc'[u] = pc[u]
          /\ m = Echo(next_id)
          /\ next_id' = next_id + 1
          /\ waiting' = waiting \cup {next_id}
      BY <1>0, <1>1, <1>7 DEF AskBarrier, TypeOK, Goto, Steps
    <2>2. TypeOK'
      <3>1. written' \in 0..Len(pipe')
        BY <1>1, <2>1, SMTT(30) DEF TypeOK
      <3>2. next_id' \in Nat
        BY <1>t, <2>1
      <3>3. waiting' \subseteq Nat
        BY <1>t, <2>1 DEF TypeOK
      <3> QED BY <1>1, <2>1, <3>1, <3>2, <3>3, Zenon DEF TypeOK
    <2>3. (Drained /\ SinceKnown /\ EchoesKnown /\ IdsKnown)'
      BY <1>t, <2>1 DEF Drained, SinceKnown, EchoesKnown, IdsKnown
    <2>4. PipeKnown'
      <3> SUFFICES ASSUME NEW i \in 1..Len(pipe')
                   PROVE  PipeKnown!(i)'
        BY DEF PipeKnown
      <3>1. CASE i = Len(pipe) + 1
        BY <1>1, <1>t, <2>1, <3>1 DEF Echo
      <3>2. CASE i \in 1..Len(pipe)
        <4>1. pipe'[i] = pipe[i]
          BY <1>1, <3>2
        <4>2. pipe[i] \in Commands
          BY <3>2 DEF TypeOK
        <4>3. pipe[i].n \in Nat
          BY <4>2 DEF Commands
        <4> QED BY <1>t, <2>1, <3>2, <4>1, <4>3, SMTT(30) DEF PipeKnown
      <3> QED BY <1>5, <3>1, <3>2
    <2>5. Carried'
      <3> SUFFICES ASSUME NEW u \in Threads, Unbroken(u, {"sending", "waiting"})',
                          NEW n \in first[u]..sent[u]
                   PROVE  <<u, n>> \in server \/ OnWay(Emit(u, n))'
        BY <2>1 DEF Carried
      <3>1. Unbroken(u, {"sending", "waiting"})
        BY <2>1 DEF Unbroken
      <3> QED BY <1>2, <2>1, <3>1 DEF Carried
    <2>6. EchoBehind'
      <3> SUFFICES ASSUME NEW u \in Threads, Unbroken(u, {"waiting"})',
                          NEW i \in 1..Len(pipe'), pipe'[i] = Echo(id'[u]),
                          NEW n \in first[u]..made[u]
                   PROVE  <<u, n>> \in server \/ Before(Emit(u, n), i)'
        BY <2>1 DEF EchoBehind
      <3>1. CASE u = t
        <4>1. i \notin 1..Len(pipe)
          <5> SUFFICES ASSUME i \in 1..Len(pipe) PROVE FALSE
            OBVIOUS
          <5>1. pipe[i] = Echo(next_id)
            BY <1>1, <2>1, <3>1, Zenon
          <5>2. pipe[i].what = "echo" /\ pipe[i].n = next_id
            BY <5>1, EchoFields, Zenon
          <5>3. pipe[i].n < next_id
            BY <5>2, Zenon DEF PipeKnown
          <5> QED BY <1>t, <5>2, <5>3, SMTT(30)
        <4>2. i = Len(pipe) + 1
          BY <1>5, <4>1
        <4>3. Unbroken(t, {"sending", "waiting"})
          BY <2>1, <3>1 DEF Unbroken
        <4> QED BY <1>4, <2>1, <3>1, <4>2, <4>3 DEF Carried
      <3>2. CASE u # t /\ i \in 1..Len(pipe)
        <4>1. Unbroken(u, {"waiting"}) /\ pipe[i] = Echo(id[u])
          BY <1>1, <2>1, <3>2, SMTT(30) DEF Unbroken
        <4> QED BY <1>3, <3>2, <4>1 DEF EchoBehind
      <3>3. CASE u # t /\ i = Len(pipe) + 1
        <4>1. pc[u] = "waiting" /\ id[u] = next_id
          BY <1>1, <2>1, <3>3 DEF Unbroken, Echo
        <4> QED BY <1>t, <4>1, SMTT(30) DEF IdsKnown
      <3> QED BY <1>5, <3>1, <3>2, <3>3
    <2>7. (EchoProves /\ HeardProves /\ ConfirmSound)'
      BY <1>t, <2>1 DEF EchoProves, HeardProves, ConfirmSound, Unbroken, EchoesKnown
    <2> QED BY <2>2, <2>3, <2>4, <2>5, <2>6, <2>7
  <1> QED BY <1>6, <1>7

\* The server's read keeps the invariant: what leaves the pipe is read, and an
\* echo is made only once everything in front of its barrier was read.
LEMMA ReadStep == ASSUME IInv, ServerRead PROVE IInv'
  <1> USE DEF IInv
  <1> DEFINE m == Head(pipe)
  <1>t. /\ epoch \in Nat /\ next_id \in Nat /\ pipe \in Seq(Commands)
        /\ id \in [Threads -> Nat] /\ echoes \subseteq Nat /\ Len(pipe) \in Nat
        /\ written \in 0..Len(pipe) /\ written > 0 /\ Len(pipe) > 0
    BY DEF TypeOK, ServerRead
  <1>1. /\ m = pipe[1] /\ m \in Commands
        /\ pipe' \in Seq(Commands)
        /\ Len(pipe') = Len(pipe) - 1
        /\ \A i \in 1..(Len(pipe) - 1) : pipe'[i] = pipe[i + 1]
    BY <1>t, TailPipe DEF ServerRead
  <1>2. /\ UNCHANGED <<up, epoch, waiting, next_id, pc, first, made, sent, since, id>>
        /\ written' = written - 1
        /\ m.what = "emit" => server' = server \cup {<<m.by, m.n>>} /\ echoes' = echoes
        /\ m.what # "emit" => server' = server /\ echoes' = echoes \cup {m.n}
    BY DEF ServerRead, threadVars
  <1>3. /\ server \subseteq server' /\ echoes \subseteq echoes'
        /\ m.what = "emit" \/ m.what = "echo"
    BY <1>1, <1>2 DEF Commands
  <1>4. ASSUME NEW u \in Threads, NEW n, Emit(u, n) = m
        PROVE  <<u, n>> \in server'
    <2>1. m.what = "emit" /\ m.by = u /\ m.n = n
      BY <1>4 DEF Emit
    <2> QED BY <1>2, <2>1
  <1>5. ASSUME NEW x, OnWay(x), x # m
        PROVE  OnWay(x)'
    <2>1. PICK i \in 1..Len(pipe) : pipe[i] = x
      BY <1>5 DEF OnWay
    <2>2. i # 1
      BY <1>1, <1>5, <2>1
    <2>3. i - 1 \in 1..Len(pipe') /\ pipe'[i - 1] = x
      BY <1>t, <1>1, <2>1, <2>2
    <2> QED BY <2>3 DEF OnWay
  <1>6. ASSUME NEW x, NEW i \in 1..Len(pipe'), Before(x, i + 1), x # m
        PROVE  Before(x, i)'
    <2>1. PICK j \in 1..i : pipe[j] = x
      BY <1>t, <1>1, <1>6 DEF Before
    <2>2. j # 1
      BY <1>1, <1>6, <2>1
    <2>3. j - 1 \in 1..(i - 1) /\ pipe'[j - 1] = x
      BY <1>t, <1>1, <2>1, <2>2, SMTT(30)
    <2> QED BY <2>3 DEF Before
  <1>7. TypeOK'
    <2>1. written' \in 0..Len(pipe')
      BY <1>t, <1>1, <1>2
    <2>2. server' \subseteq (Threads \X Nat) /\ echoes' \subseteq Nat
      BY <1>1, <1>2, <1>3, SMTT(30) DEF TypeOK, Commands
    <2> QED BY <1>1, <1>2, <2>1, <2>2 DEF TypeOK
  <1>8. (Drained /\ SinceKnown /\ IdsKnown)'
    BY <1>2 DEF Drained, SinceKnown, IdsKnown
  <1>9. EchoesKnown'
    <2>1. m.what = "echo" => m.n < next_id
      BY <1>t, <1>1 DEF PipeKnown
    <2> QED BY <1>2, <1>3, <2>1 DEF EchoesKnown
  <1>10. PipeKnown'
    <2> SUFFICES ASSUME NEW i \in 1..Len(pipe')
                 PROVE  PipeKnown!(i)'
      BY DEF PipeKnown
    <2>1. i + 1 \in 1..Len(pipe) /\ pipe'[i] = pipe[i + 1]
      BY <1>t, <1>1
    <2> QED BY <1>2, <2>1 DEF PipeKnown
  <1>11. Carried'
    <2> SUFFICES ASSUME NEW u \in Threads, Unbroken(u, {"sending", "waiting"}),
                        NEW n \in first[u]..sent[u]
                 PROVE  <<u, n>> \in server' \/ OnWay(Emit(u, n))'
      BY <1>2 DEF Carried, Unbroken
    <2> QED BY <1>3, <1>4, <1>5 DEF Carried
  <1>12. EchoBehind'
    <2> SUFFICES ASSUME NEW u \in Threads, Unbroken(u, {"waiting"}),
                        NEW i \in 1..Len(pipe'), pipe'[i] = Echo(id[u]),
                        NEW n \in first[u]..made[u]
                 PROVE  <<u, n>> \in server' \/ Before(Emit(u, n), i)'
      BY <1>2 DEF EchoBehind, Unbroken
    <2>1. i + 1 \in 1..Len(pipe) /\ pipe[i + 1] = Echo(id[u])
      BY <1>t, <1>1, SMTT(30)
    <2> QED BY <1>3, <1>4, <1>6, <2>1 DEF EchoBehind
  <1>13. EchoProves'
    <2> SUFFICES ASSUME NEW u \in Threads, Unbroken(u, {"waiting"}), id[u] \in echoes',
                        NEW n \in first[u]..made[u]
                 PROVE  <<u, n>> \in server'
      BY <1>2 DEF EchoProves, Unbroken
    <2>1. CASE id[u] \in echoes
      BY <1>3, <2>1 DEF EchoProves
    <2>2. CASE id[u] \notin echoes
      <3>1. m.what = "echo" /\ m.n = id[u]
        BY <1>2, <1>3, <2>2
      <3>2. pipe[1] = Echo(id[u]) /\ 1 \in 1..Len(pipe)
        BY <1>t, <1>1, <3>1 DEF PipeKnown
      <3>3. ~Before(Emit(u, n), 1)
        BY SMTT(30) DEF Before
      <3> QED BY <1>3, <3>2, <3>3 DEF EchoBehind
    <2> QED BY <2>1, <2>2
  <1>14. (HeardProves /\ ConfirmSound)'
    BY <1>2, <1>3 DEF HeardProves, ConfirmSound, Unbroken
  <1> QED BY <1>7, <1>8, <1>9, <1>10, <1>11, <1>12, <1>13, <1>14

\* A write, and the loss of the connection, keep the invariant: they move
\* nothing a batch rests on.
LEMMA QuietStep == ASSUME IInv, Write \/ Disconnect PROVE IInv'
  <1> USE DEF IInv
  <1>1. /\ UNCHANGED <<epoch, pipe, server, echoes, waiting, next_id,
                       pc, first, made, sent, since, id>>
        /\ written' \in 0..Len(pipe) /\ up' \in BOOLEAN
    <2>1. CASE Write
      BY <2>1 DEF Write, threadVars, TypeOK
    <2>2. CASE Disconnect
      BY <2>2, Zenon DEF Disconnect, threadVars, TypeOK
    <2> QED BY <2>1, <2>2
  <1>2. (TypeOK /\ Drained /\ SinceKnown /\ EchoesKnown /\ IdsKnown)'
    BY <1>1, SMTT(30) DEF TypeOK, Drained, SinceKnown, EchoesKnown, IdsKnown
  <1>3. (PipeKnown /\ Carried /\ EchoBehind)'
    BY <1>1 DEF PipeKnown, Carried, EchoBehind, Unbroken, OnWay, Before
  <1>4. (EchoProves /\ HeardProves /\ ConfirmSound)'
    BY <1>1, Zenon DEF EchoProves, HeardProves, ConfirmSound, Unbroken
  <1> QED BY <1>2, <1>3, <1>4

\* Hearing an echo keeps the invariant: the echo proves what it wakes for.
LEMMA EchoStep == ASSUME IInv, NEW i \in echoes, HearEcho(i) PROVE IInv'
  <1> USE DEF IInv
  <1>1. /\ UNCHANGED <<up, epoch, pipe, written, server, next_id, first, made,
                       sent, since, id>>
        /\ echoes' \subseteq echoes /\ waiting' \subseteq waiting
        /\ pc' \in [Threads -> Steps]
        /\ \A u \in Threads :
              \/ pc'[u] = pc[u]
              \/ pc[u] = "waiting" /\ pc'[u] = "heard" /\ id[u] \in echoes
    BY SMTT(30) DEF HearEcho, TypeOK, Steps
  <1>2. (TypeOK /\ Drained /\ SinceKnown /\ EchoesKnown /\ IdsKnown)'
    BY <1>1, Zenon DEF TypeOK, Drained, SinceKnown, EchoesKnown, IdsKnown
  <1>3. (PipeKnown /\ Carried /\ EchoBehind)'
    BY <1>1, SMTT(30) DEF PipeKnown, Carried, EchoBehind, Unbroken, OnWay, Before
  <1>4. (EchoProves /\ HeardProves /\ ConfirmSound)'
    BY <1>1 DEF EchoProves, HeardProves, ConfirmSound, Unbroken
  <1> QED BY <1>2, <1>3, <1>4

\* A reconnect keeps the invariant: it starts an epoch no batch left on.
LEMMA ReconnectStep == ASSUME IInv, Reconnect PROVE IInv'
  <1> USE DEF IInv
  <1>t. /\ epoch \in Nat /\ pipe \in Seq(Commands) /\ Len(pipe) \in Nat
        /\ written \in 0..Len(pipe) /\ since \in [Threads -> Nat]
    BY DEF TypeOK
  <1>1. /\ UNCHANGED <<server, waiting, next_id, pc, first, made, sent, since, id>>
        /\ epoch' = epoch + 1 /\ echoes' = {} /\ written' = 0 /\ up' = TRUE
        /\ pipe' = SubSeq(pipe, written + 1, Len(pipe))
    BY DEF Reconnect, threadVars
  <1>2. /\ pipe' \in Seq(Commands)
        /\ Len(pipe') = Len(pipe) - written
        /\ \A i \in 1..(Len(pipe) - written) : pipe'[i] = pipe[i + written]
    BY <1>t, <1>1, DropPipe
  <1>3. TypeOK'
    <2>1. written' \in 0..Len(pipe') /\ epoch' \in Nat
      BY <1>t, <1>1, <1>2
    <2> QED BY <1>1, <1>2, <2>1 DEF TypeOK
  <1>4. \A u \in Threads : since[u] <= epoch' /\ since[u] # epoch'
    BY <1>t, <1>1 DEF SinceKnown
  <1>5. (Drained /\ SinceKnown /\ EchoesKnown /\ IdsKnown)'
    BY <1>1, <1>4 DEF Drained, SinceKnown, EchoesKnown, IdsKnown
  <1>6. PipeKnown'
    <2> SUFFICES ASSUME NEW i \in 1..Len(pipe')
                 PROVE  PipeKnown!(i)'
      BY DEF PipeKnown
    <2>1. i + written \in 1..Len(pipe) /\ pipe'[i] = pipe[i + written]
      BY <1>t, <1>2
    <2> QED BY <1>1, <2>1, Zenon DEF PipeKnown
  <1>7. (Carried /\ EchoBehind /\ EchoProves /\ HeardProves)'
    BY <1>1, <1>4, Zenon DEF Carried, EchoBehind, EchoProves, HeardProves, Unbroken
  <1>8. ConfirmSound'
    BY <1>1 DEF ConfirmSound
  <1> QED BY <1>3, <1>5, <1>6, <1>7, <1>8

\* A step that changes nothing keeps it.
LEMMA StutterStep == ASSUME IInv, UNCHANGED vars PROVE IInv'
  <1> USE DEF IInv
  <1>1. UNCHANGED <<up, epoch, pipe, written, server, echoes, waiting, next_id, pc,
                    first, made, sent, since, id>>
    BY DEF vars
  <1>2. (TypeOK /\ Drained /\ SinceKnown /\ PipeKnown /\ EchoesKnown /\ IdsKnown)'
    BY <1>1, Zenon DEF TypeOK, Drained, SinceKnown, PipeKnown, EchoesKnown, IdsKnown
  <1>3. Carried'
    BY <1>1 DEF Carried, Unbroken, OnWay
  <1>4. EchoBehind'
    BY <1>1 DEF EchoBehind, Unbroken, Before
  <1>5. EchoProves'
    BY <1>1 DEF EchoProves, Unbroken
  <1>6. HeardProves'
    BY <1>1 DEF HeardProves, Unbroken
  <1>7. ConfirmSound'
    BY <1>1 DEF ConfirmSound
  <1> QED BY <1>2, <1>3, <1>4, <1>5, <1>6, <1>7

-----------------------------------------------------------------------------
\* Every step keeps the invariant, a stuttering one included.
LEMMA StepInv == IInv /\ [Next]_vars => IInv'
  <1> SUFFICES ASSUME IInv, [Next]_vars PROVE IInv'
    OBVIOUS
  <1>1. CASE \E t \in Threads : Hold(t) \/ Confirm(t)
    BY <1>1, LocalStep, PipeStep DEF Confirm
  <1>2. CASE Write \/ Disconnect
    BY <1>2, QuietStep
  <1>3. CASE ServerRead
    BY <1>3, ReadStep
  <1>4. CASE \E i \in echoes : HearEcho(i)
    BY <1>4, EchoStep, SMTT(30)
  <1>5. CASE Reconnect
    BY <1>5, ReconnectStep
  <1>6. CASE UNCHANGED vars
    BY <1>6, StutterStep
  <1> QED BY <1>1, <1>2, <1>3, <1>4, <1>5, <1>6 DEF Next

\* Batch::confirm says Ok only when the server has read every emit of the
\* batch, for any number of threads, emits and reconnects.
THEOREM ConfirmIsSound == Spec => [](TypeOK /\ ConfirmSound)
  <1>1. IInv => TypeOK /\ ConfirmSound
    BY DEF IInv
  <1> QED BY InitInv, StepInv, <1>1, PTL DEF Spec
=============================================================================
