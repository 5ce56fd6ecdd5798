------------------------- MODULE StreamSourceProofs -------------------------
(***************************************************************************)
(* The offsets of a streaming source leave no gap, for any number of       *)
(* records, any pipe and channel, any junk among them and any faults.      *)
(***************************************************************************)
EXTENDS StreamSource, TLAPS

-----------------------------------------------------------------------------
(* The inductive invariant.                                                *)

Types ==
    /\ from_end \in BOOLEAN /\ end \in 0..Records /\ base \in 0..Records
    /\ kv \in 0..Records /\ pending \in 0..Records
    /\ at \in 0..Records /\ line \in Nat
    /\ reader = "send" => line \in Offsets
    /\ pipe \in Seq(Offsets) /\ chan \in Seq(Offsets)
    /\ reader \in {"read", "send", "done"}
    /\ pc \in {"spawn", "loop", "receive", "drain", "join", "returned"}
    /\ faults \in [StreamFaults -> Nat]

\* The record the driver takes next: what the child has printed and the driver
\* has not taken is in the pipe, in the reader's hand or in the channel,
Held == IF reader = "send" THEN 1 ELSE 0
Taken == at - Len(pipe) - Held - Len(chan)

\* in the order of the records and without a hole.
InOrder ==
    /\ Taken \in Nat
    /\ \A i \in 1..Len(pipe) : pipe[i] = at - Len(pipe) + i - 1
    /\ reader = "send" => line = at - Len(pipe) - 1
    /\ \A i \in 1..Len(chan) : chan[i] = Taken + i - 1

\* What lies between two records has been published or is junk.
Covered(a, b) == \A r \in Offsets : a <= r /\ r < b => r \in bus \cup Junk

\* The faults after which the driver promises nothing.
Excused == Happened("publish") \/ (from_end /\ Happened("get"))

\* The offset to commit is of a record on the bus,
PendingIsOnBus == pending > 0 => pending - 1 \in bus

\* and while a child runs, all the driver has taken of it is published or junk,
\* from where resuming begins and from the offset to commit.
TakenIsCovered ==
    ~Excused =>
        /\ Covered(base, Taken)
        /\ kv > 0 => base <= Taken
        /\ pending > 0 => /\ pending <= Taken
                          /\ Covered(pending, Taken)
                          /\ kv > 0 => base <= pending

\* Resuming begins at 0, or else at the first offset committed, which the later
\* ones are not below.
FromStart ==
    /\ ~from_end => base = 0
    /\ from_end /\ kv = 0 => base = Records
    /\ ~Excused /\ kv > 0 => base <= kv

Running == pc \in {"loop", "receive", "drain", "join"}

IInv ==
    /\ Types
    /\ FromStart
    /\ CommittedIsOnBus /\ NoGap
    /\ PendingIsOnBus
    /\ Running => InOrder /\ TakenIsCovered

USE StreamAssumption

-----------------------------------------------------------------------------
(* Steps in general.                                                       *)

\* A fault is counted, and none is forgotten (Fault).
LEMMA FaultsCount ==
    ASSUME Types, NEW k, Fault(k)
    PROVE  faults' \in [StreamFaults -> Nat]
           /\ \A x : Happened(x) => Happened(x)'
<1>1. faults' = [faults EXCEPT ![k] = faults[k] + 1] /\ k \in StreamFaults
  BY DEF Fault
<1>2. faults \in [StreamFaults -> Nat]
  BY DEF Types
<1>. QED  BY <1>1, <1>2 DEF Happened

\* The same of a step that may or may not bring one.
LEMMA Excuses ==
    ASSUME Types, from_end' = from_end,
           UNCHANGED faults \/ \E k \in {"exit", "get", "put", "publish", "stop", "crash"} : Fault(k)
    PROVE  faults' \in [StreamFaults -> Nat] /\ (Excused => Excused')
<1>1. CASE UNCHANGED faults
  BY <1>1 DEF Types, Excused, Happened
<1>2. CASE \E k \in {"exit", "get", "put", "publish", "stop", "crash"} : Fault(k)
  BY <1>2, FaultsCount DEF Excused
<1>. QED  BY <1>1, <1>2

\* A step that moves neither the offsets nor what the driver has taken.
LEMMA StandsStill ==
    ASSUME IInv, Types', bus \subseteq bus', Excused => Excused',
           UNCHANGED <<from_end, base, kv, pending>>,
           Running' => Running /\ InOrder' /\ Taken' = Taken
    PROVE  IInv'
<1>1. FromStart'
  BY DEF IInv, FromStart
<1>2. CommittedIsOnBus' /\ PendingIsOnBus'
  BY DEF IInv, CommittedIsOnBus, PendingIsOnBus
<1>3. NoGap'
  BY DEF IInv, NoGap, ZeroGap, Excused
<1>4. ASSUME Running' PROVE TakenIsCovered'
  BY <1>4 DEF IInv, TakenIsCovered, Covered
<1>. QED  BY <1>1, <1>2, <1>3, <1>4 DEF IInv

-----------------------------------------------------------------------------
(* The child and the reader thread.                                        *)

\* What Append and Tail make of a sequence.
LEMMA AppendAt ==
    ASSUME NEW S, NEW s \in Seq(S), NEW e \in S
    PROVE  /\ Append(s, e) \in Seq(S) /\ Len(s) \in Nat
           /\ Len(Append(s, e)) = Len(s) + 1
           /\ \A i \in 1..Len(s) + 1 :
                 Append(s, e)[i] = IF i = Len(s) + 1 THEN e ELSE s[i]
OBVIOUS

LEMMA TailAt ==
    ASSUME NEW S, NEW s \in Seq(S), s # <<>>
    PROVE  /\ Tail(s) \in Seq(S) /\ Len(s) \in Nat \ {0}
           /\ Head(s) = s[1] /\ Head(s) \in S
           /\ Len(Tail(s)) = Len(s) - 1
           /\ \A i \in 1..Len(s) - 1 : Tail(s)[i] = s[i + 1]
OBVIOUS

\* The child prints the next record at the far end (ChildPrints).
LEMMA PrintKeeps ==
    ASSUME IInv, ChildPrints
    PROVE  IInv'
<1>. USE DEF Types
<1>1. Types /\ Types'
  BY DEF IInv, ChildPrints, readerVars, offsetVars, remoteVars, Offsets
<1>2. Len(pipe') = Len(pipe) + 1
      /\ \A i \in 1..Len(pipe') : pipe'[i] = IF i = Len(pipe') THEN at ELSE pipe[i]
  <2>1. at \in Offsets
    BY <1>1 DEF ChildPrints, Offsets
  <2>. QED  BY <1>1, <2>1, AppendAt DEF ChildPrints
<1>3. Taken' = Taken
  BY <1>1, <1>2, AppendAt DEF ChildPrints, Taken, Held, readerVars
<1>4. ASSUME Running' PROVE Running /\ InOrder'
  <2>1. Running /\ InOrder
    BY <1>4 DEF ChildPrints, Running, IInv
  <2>2. Len(pipe) \in Nat /\ at \in Nat
    BY <1>1
  <2>3. UNCHANGED <<reader, line, chan>> /\ at' = at + 1
    BY DEF ChildPrints, readerVars
  <2>4. ASSUME NEW i \in 1..Len(pipe') PROVE pipe'[i] = at' - Len(pipe') + i - 1
    BY <1>2, <2>1, <2>2, <2>3 DEF InOrder
  <2>. QED
    BY <1>2, <1>3, <2>1, <2>2, <2>3, <2>4 DEF InOrder
<1>5. Excused => Excused'
  BY DEF ChildPrints, Excused, Happened, remoteVars
<1>. QED
  BY <1>1, <1>3, <1>4, <1>5, StandsStill DEF ChildPrints, remoteVars, offsetVars

\* The reader takes the line at the near end of the pipe (ReaderReads).
LEMMA ReadKeeps ==
    ASSUME IInv, ReaderReads
    PROVE  IInv'
<1>. USE DEF Types
<1>1. Types /\ Types'
  BY DEF IInv, ReaderReads, offsetVars, remoteVars, Offsets
<1>2. /\ Len(pipe') = Len(pipe) - 1 /\ Len(pipe) \in Nat \ {0}
      /\ \A i \in 1..Len(pipe') : pipe'[i] = pipe[i + 1]
      /\ line' = pipe[1]
  BY <1>1, TailAt DEF ReaderReads
<1>3. Taken' = Taken
  BY <1>1, <1>2 DEF ReaderReads, Taken, Held
<1>4. ASSUME Running' PROVE Running /\ InOrder'
  BY <1>1, <1>2, <1>3, <1>4 DEF ReaderReads, InOrder, Running, IInv
<1>5. Excused => Excused'
  BY DEF ReaderReads, Excused, Happened, remoteVars
<1>. QED
  BY <1>1, <1>3, <1>4, <1>5, StandsStill DEF ReaderReads, remoteVars, offsetVars

\* It puts the line at the far end of the channel (ReaderSends).
LEMMA SendKeeps ==
    ASSUME IInv, ReaderSends
    PROVE  IInv'
<1>. USE DEF Types
<1>1. Types /\ Types'
  BY DEF IInv, ReaderSends, offsetVars, remoteVars, childVars, Offsets
<1>2. /\ Len(chan') = Len(chan) + 1
      /\ \A i \in 1..Len(chan') : chan'[i] = IF i = Len(chan') THEN line ELSE chan[i]
  BY <1>1, AppendAt DEF ReaderSends
<1>3. Taken' = Taken
  BY <1>1, <1>2 DEF ReaderSends, Taken, Held, childVars
<1>4. ASSUME Running' PROVE Running /\ InOrder'
  <2>1. Running /\ InOrder
    BY <1>4 DEF ReaderSends, Running, IInv
  <2>2. line = Taken + Len(chan)
    BY <1>1, <2>1 DEF ReaderSends, InOrder, Taken, Held, Offsets
  <2>3. Len(chan) \in Nat /\ UNCHANGED <<at, pipe>> /\ reader' = "read"
    BY <1>1 DEF ReaderSends, childVars
  <2>4. ASSUME NEW i \in 1..Len(chan') PROVE chan'[i] = Taken' + i - 1
    BY <1>2, <1>3, <2>1, <2>2, <2>3 DEF InOrder
  <2>. QED
    BY <1>3, <2>1, <2>3, <2>4 DEF InOrder
<1>5. Excused => Excused'
  BY DEF ReaderSends, Excused, Happened, remoteVars
<1>. QED
  BY <1>1, <1>3, <1>4, <1>5, StandsStill DEF ReaderSends, remoteVars, offsetVars

\* The steps around them: the remote grows, the child or its output ends, and
\* the driver turns from one thing to the next.
Turns ==
    \/ RemoteGrows \/ ChildExits \/ ReaderEof \/ SeeStop \/ NothingCame
    \/ Join \/ Return \/ Stop \/ StartAgain

LEMMA TurnKeeps ==
    ASSUME IInv, Turns
    PROVE  IInv'
<1>. USE DEF Types, readerVars, offsetVars, remoteVars, childVars
<1>1. Types /\ from_end' = from_end
      /\ (UNCHANGED faults \/ \E k \in {"exit", "get", "put", "publish", "stop", "crash"} : Fault(k))
  BY DEF IInv, Turns, RemoteGrows, ChildExits, ReaderEof, SeeStop, NothingCame, Join,
         Return, Stop, StartAgain
<1>2. faults' \in [StreamFaults -> Nat] /\ (Excused => Excused')
  BY <1>1, Excuses
<1>3. Types'
  <2>1. CASE RemoteGrows
    BY <1>1, <1>2, <2>1 DEF RemoteGrows
  <2>2. CASE ChildExits \/ Stop
    BY <1>1, <1>2, <2>2 DEF ChildExits, Stop
  <2>3. CASE ReaderEof \/ SeeStop \/ NothingCame
    BY <1>1, <1>2, <2>3 DEF ReaderEof, SeeStop, NothingCame
  <2>4. CASE Join \/ Return \/ StartAgain
    BY <1>1, <1>2, <2>4 DEF Join, Return, StartAgain
  <2>. QED  BY <2>1, <2>2, <2>3, <2>4 DEF Turns
<1>4. Taken' = Taken
  BY <1>1 DEF Taken, Held, Turns, RemoteGrows, ChildExits, ReaderEof, SeeStop, NothingCame,
         Join, Return, Stop, StartAgain
<1>5. ASSUME Running' PROVE Running /\ InOrder'
  BY <1>1, <1>4, <1>5 DEF InOrder, Running, IInv, Turns, RemoteGrows, ChildExits, ReaderEof,
         SeeStop, NothingCame, Join, Return, Stop, StartAgain
<1>6. bus' = bus /\ UNCHANGED <<base, kv, pending>>
  BY DEF Turns, RemoteGrows, ChildExits, ReaderEof, SeeStop, NothingCame, Join, Return, Stop,
         StartAgain
<1>. QED  BY <1>1, <1>2, <1>3, <1>4, <1>5, <1>6, StandsStill

-----------------------------------------------------------------------------
(* ExecStreamSource::run.                                                  *)

\* A child starts where the offset says, or at the start (Spawn).
LEMMA SpawnKeeps ==
    ASSUME IInv, Spawn
    PROVE  IInv'
<1>1. Types /\ UNCHANGED <<from_end, end, base, bus, kv, line>>
      /\ (UNCHANGED faults \/ Fault("get"))
  BY DEF IInv, Spawn, remoteVars
<1>2. faults' \in [StreamFaults -> Nat] /\ (Excused => Excused')
  BY <1>1, Excuses
<1>3. /\ at' \in {kv, Start} /\ at' \in 0..Records
      /\ pipe' = <<>> /\ chan' = <<>> /\ reader' = "read" /\ pending' = 0 /\ pc' = "loop"
  BY <1>1 DEF Spawn, Start, Types
<1>4. Types'
  BY <1>1, <1>2, <1>3 DEF Types
<1>5. Taken' = at' /\ InOrder'
  <2>1. at' \in Nat /\ Len(pipe') = 0 /\ Len(chan') = 0 /\ reader' # "send"
    BY <1>3
  <2>2. Held' = 0
    BY <2>1 DEF Held
  <2>3. Taken' = at'
    <3>1. Taken' = at' - 0 - 0 - 0
      BY <2>1, <2>2, Zenon DEF Taken
    <3>2. \A x \in Nat : x - 0 - 0 - 0 = x
      OBVIOUS
    <3>. QED  BY <2>1, <3>1, <3>2, Zenon
  <2>. QED  BY <2>1, <2>3 DEF InOrder
<1>6. ASSUME ~Excused' PROVE Covered(base, at)' /\ (kv > 0 => base <= at')
  <2>1. ~Excused /\ Covered(base, kv)
    BY <1>2, <1>6 DEF IInv, NoGap, ZeroGap, Excused, Covered
  <2>2. CASE at' = kv /\ kv > 0
    BY <1>1, <2>1, <2>2 DEF IInv, FromStart, Covered
  <2>3. CASE ~from_end /\ at' = 0
    BY <1>1, <2>3 DEF IInv, FromStart, Covered, Offsets
  <2>4. CASE from_end /\ kv = 0
    BY <1>1, <2>4 DEF IInv, FromStart, Covered, Offsets
  <2>5. ~from_end \/ at' = IF kv = 0 THEN Start ELSE kv
    <3>1. ASSUME from_end, Fault("get") PROVE FALSE
      <4>1. faults' = [faults EXCEPT !["get"] = faults["get"] + 1] /\ "get" \in StreamFaults
        BY <3>1 DEF Fault
      <4>2. Happened("get")'
        BY <1>1, <4>1 DEF Happened, Types
      <4>. QED  BY <1>1, <1>6, <3>1, <4>2 DEF Excused
    <3>. QED  BY <3>1 DEF Spawn
  <2>6. kv \in Nat /\ (from_end \/ ~from_end) /\ (at' = kv \/ at' = Start)
    BY <1>1, <1>3 DEF Types
  <2>. QED
    BY <2>2, <2>3, <2>4, <2>5, <2>6 DEF Start
<1>7. FromStart' /\ CommittedIsOnBus' /\ PendingIsOnBus'
  BY <1>1, <1>2, <1>3 DEF IInv, FromStart, CommittedIsOnBus, PendingIsOnBus
<1>8. NoGap'
  BY <1>1, <1>2 DEF IInv, NoGap, ZeroGap, Excused
<1>9. TakenIsCovered'
  BY <1>1, <1>3, <1>5, <1>6 DEF TakenIsCovered
<1>. QED  BY <1>4, <1>5, <1>7, <1>8, <1>9 DEF IInv

\* An offset is put, or its put is lost (Put, in Look and Drain).
LEMMA PutKeeps ==
    ASSUME IInv, Put, Running, Running', Types', InOrder', Taken' = Taken,
           UNCHANGED <<from_end, bus, pending>>, Excused => Excused'
    PROVE  IInv'
<1>. DEFINE first == base = Records /\ kv' # 0
<1>1. /\ pending > 0 /\ kv' \in {pending, kv}
      /\ base' = IF first THEN kv' ELSE base
      /\ base \in 0..Records /\ kv \in 0..Records /\ pending \in 0..Records
  BY DEF Put, IInv, Types
<1>2. CommittedIsOnBus' /\ PendingIsOnBus'
  BY <1>1 DEF IInv, CommittedIsOnBus, PendingIsOnBus
<1>3. (~from_end => base' = 0) /\ (from_end /\ kv' = 0 => base' = Records)
  BY <1>1 DEF IInv, FromStart
<1>4. CASE Excused'
  BY <1>2, <1>3, <1>4 DEF IInv, FromStart, NoGap, Excused, TakenIsCovered
<1>5. CASE ~Excused'
  <2>1. /\ ZeroGap /\ Taken \in Nat
        /\ Covered(base, Taken) /\ Covered(pending, Taken) /\ pending <= Taken
        /\ kv > 0 => base <= kv /\ base <= pending /\ base <= Taken
        /\ kv = 0 => base = 0 \/ base = Records
    BY <1>1, <1>5 DEF IInv, NoGap, Excused, TakenIsCovered, FromStart, InOrder
  <2>2. CASE base' = base /\ ~first
    <3>1. kv' > 0 => base <= kv' /\ base <= pending /\ base <= Taken
      BY <1>1, <2>1, <2>2
    <3>2. ZeroGap'
      BY <1>1, <2>1, <2>2 DEF ZeroGap, Covered, Offsets
    <3>. QED
      BY <1>2, <1>3, <2>1, <2>2, <3>1, <3>2
         DEF IInv, FromStart, NoGap, TakenIsCovered, Covered
  <2>3. CASE first
    <3>1. base' = kv' /\ kv' > 0 /\ (kv' = pending \/ base' = base)
      BY <1>1, <2>1, <2>3
    <3>2. Covered(base, Taken)'
      BY <2>1, <3>1 DEF Covered
    <3>3. base' <= Taken /\ base' <= pending
      BY <1>1, <2>1, <2>3, <3>1
    <3>4. ZeroGap'
      BY <1>1, <3>1 DEF ZeroGap, Offsets
    <3>. QED
      BY <1>1, <1>2, <1>3, <2>1, <3>1, <3>2, <3>3, <3>4
         DEF IInv, FromStart, NoGap, TakenIsCovered, Covered
  <2>. QED  BY <1>1, <2>2, <2>3
<1>. QED  BY <1>4, <1>5

LEMMA CommitKeeps ==
    ASSUME IInv, Look \/ Drain
    PROVE  IInv'
<1>. USE DEF readerVars, childVars
<1>1. /\ Types /\ InOrder /\ Running /\ Running'
      /\ UNCHANGED <<from_end, end, bus, at, pipe, reader, line, chan, pending>>
      /\ Put \/ UNCHANGED <<base, kv, faults>>
  BY DEF IInv, Look, Drain, Running
<1>2. UNCHANGED faults \/ Fault("put")
  BY <1>1 DEF Put
<1>3. faults' \in [StreamFaults -> Nat] /\ (Excused => Excused')
  BY <1>1, <1>2, Excuses
<1>4. base' \in 0..Records /\ kv' \in 0..Records
  BY <1>1 DEF Put, Types
<1>5. Types'
  BY <1>1, <1>3, <1>4 DEF Types, Look, Drain
<1>6. Taken' = Taken /\ InOrder'
  BY <1>1 DEF Taken, Held, InOrder
<1>7. CASE Put
  BY <1>1, <1>3, <1>5, <1>6, <1>7, PutKeeps
<1>8. CASE UNCHANGED <<base, kv, faults>>
  BY <1>1, <1>3, <1>5, <1>6, <1>8, StandsStill
<1>. QED  BY <1>1, <1>7, <1>8

\* The driver takes the record at the near end of the channel,
LEMMA TakeMoves ==
    ASSUME IInv, pc = "receive", chan # <<>>, chan' = Tail(chan), pc' = "loop",
           UNCHANGED <<at, pipe, reader, line>>
    PROVE  /\ Taken \in Nat /\ Head(chan) = Taken /\ Taken \in Offsets
           /\ Taken' = Taken + 1 /\ InOrder'
           /\ chan' \in Seq(Offsets) /\ Running /\ Running'
<1>1. Types /\ InOrder /\ Running /\ Running'
  BY DEF IInv, Running
<1>2. /\ Len(chan) \in Nat \ {0} /\ chan' \in Seq(Offsets)
      /\ Head(chan) = chan[1] /\ Head(chan) \in Offsets
      /\ Len(chan') = Len(chan) - 1
      /\ \A i \in 1..Len(chan) - 1 : chan'[i] = chan[i + 1]
  BY <1>1, TailAt DEF Types
<1>3. Taken \in Nat /\ Head(chan) = Taken
  BY <1>1, <1>2 DEF InOrder
<1>4. Taken' = Taken + 1
  BY <1>1, <1>2 DEF Taken, Held, Types
<1>5. ASSUME NEW i \in 1..Len(chan') PROVE chan'[i] = Taken' + i - 1
  BY <1>1, <1>2, <1>3, <1>4 DEF InOrder
<1>6. InOrder'
  BY <1>1, <1>3, <1>4, <1>5 DEF InOrder
<1>. QED  BY <1>1, <1>2, <1>3, <1>4, <1>6

\* and publishes it, fails to, or skips it (Publish, PublishFails, Skip).
LEMMA TakeKeeps ==
    ASSUME IInv, Publish \/ PublishFails \/ Skip
    PROVE  IInv'
<1>. USE DEF readerVars, childVars, remoteVars, offsetVars
<1>1. /\ pc = "receive" /\ chan # <<>> /\ chan' = Tail(chan) /\ pc' = "loop"
      /\ UNCHANGED <<from_end, end, base, kv, at, pipe, reader, line>>
      /\ UNCHANGED faults \/ Fault("publish")
  BY DEF Publish, PublishFails, Skip
<1>2. /\ Taken \in Nat /\ Head(chan) = Taken /\ Taken \in Offsets
      /\ Taken' = Taken + 1 /\ InOrder'
      /\ chan' \in Seq(Offsets) /\ Running /\ Running'
  BY <1>1, TakeMoves
<1>3. faults' \in [StreamFaults -> Nat] /\ (Excused => Excused')
  BY <1>1, Excuses DEF IInv
<1>4. pending' \in {pending, Taken + 1} /\ bus \subseteq bus'
  BY <1>2 DEF Publish, PublishFails, Skip
<1>5. Types'
  BY <1>1, <1>2, <1>3, <1>4 DEF IInv, Types, Offsets
<1>6. FromStart' /\ CommittedIsOnBus'
  BY <1>1, <1>3, <1>4 DEF IInv, FromStart, CommittedIsOnBus
<1>7. PendingIsOnBus'
  BY <1>2 DEF IInv, PendingIsOnBus, Publish, PublishFails, Skip
<1>8. NoGap'
  BY <1>1, <1>3, <1>4 DEF IInv, NoGap, ZeroGap, Excused
<1>9. ASSUME ~Excused' PROVE TakenIsCovered'
  <2>1. ~PublishFails
    <3>1. SUFFICES ASSUME Fault("publish") PROVE Happened("publish")'
      BY <1>9 DEF PublishFails, Excused
    <3>2. faults' = [faults EXCEPT !["publish"] = faults["publish"] + 1] /\ "publish" \in StreamFaults
      BY <3>1 DEF Fault
    <3>. QED  BY <3>2 DEF Happened, IInv, Types
  <2>2. ~Excused
    BY <1>3, <1>9
  <2>3. Taken \in bus' \cup Junk
    BY <1>2, <2>1 DEF Publish, Skip
  <2>4. Covered(base, Taken)'
    BY <1>1, <1>2, <1>4, <2>2, <2>3 DEF IInv, TakenIsCovered, Covered, Offsets
  <2>5. kv' > 0 => base' <= Taken'
    BY <1>1, <1>2, <2>2 DEF IInv, TakenIsCovered, Types
  <2>6. CASE Publish
    <3>1. pending' = Taken'
      BY <1>2, <2>6 DEF Publish
    <3>. QED  BY <1>2, <2>4, <2>5, <3>1 DEF TakenIsCovered, Covered, Offsets
  <2>7. CASE Skip
    <3>1. UNCHANGED <<pending, bus, kv, base>>
      BY <2>7 DEF Skip
    <3>2. pending > 0 => pending <= Taken' /\ Covered(pending, Taken)'
      BY <1>2, <2>2, <2>3, <3>1 DEF IInv, TakenIsCovered, Covered, Offsets, Types
    <3>. QED  BY <2>2, <2>4, <2>5, <1>2, <3>1, <3>2 DEF TakenIsCovered, IInv
  <2>. QED  BY <2>1, <2>6, <2>7
<1>. QED  BY <1>2, <1>5, <1>6, <1>7, <1>8, <1>9 DEF IInv, TakenIsCovered

\* What is in flight is lost, and the offsets stand (Crash).
LEMMA CrashKeeps ==
    ASSUME IInv, Crash
    PROVE  IInv'
<1>. USE DEF remoteVars
<1>1. Types /\ UNCHANGED <<from_end, end, base, bus, kv, at, line>>
      /\ pc' = "spawn" /\ pending' = 0 /\ Fault("crash")
  BY DEF IInv, Crash
<1>2. faults' \in [StreamFaults -> Nat] /\ (Excused => Excused')
  BY <1>1, Excuses
<1>3. Types' /\ ~Running'
  BY <1>1, <1>2 DEF Types, Crash, Running
<1>4. FromStart' /\ CommittedIsOnBus' /\ PendingIsOnBus'
  BY <1>1, <1>2 DEF IInv, FromStart, CommittedIsOnBus, PendingIsOnBus
<1>5. NoGap'
  BY <1>1, <1>2 DEF IInv, NoGap, ZeroGap, Excused
<1>. QED  BY <1>3, <1>4, <1>5 DEF IInv

-----------------------------------------------------------------------------
(* The theorems.                                                           *)

LEMMA Invariance == Spec => []IInv
<1>1. Init => IInv
  BY DEF Init, IInv, Types, FromStart, CommittedIsOnBus, NoGap, ZeroGap, PendingIsOnBus,
         Running, Offsets
<1>2. IInv /\ [Next]_vars => IInv'
  <2>1. ASSUME IInv, Next PROVE IInv'
    BY <2>1, PrintKeeps, ReadKeeps, SendKeeps, TurnKeeps, SpawnKeeps, CommitKeeps,
       TakeKeeps, CrashKeeps
       DEF Next, Driver, Reader, Turns
  <2>2. ASSUME IInv, UNCHANGED vars PROVE IInv'
    BY <2>2 DEF vars, IInv, Types, FromStart, CommittedIsOnBus, NoGap, ZeroGap,
         PendingIsOnBus, Running, InOrder, TakenIsCovered, Taken, Held, Covered, Excused,
         Happened
  <2>. QED  BY <2>1, <2>2
<1>. QED  BY <1>1, <1>2, PTL DEF Spec

\* "an offset is committed only for a record already on the bus", and "a crash
\* re-consumes from the last committed offset": ExecStreamSource commits nothing else,
\* whatever faults there are, and below the offset there is no gap, unless a publish
\* failed or the offset could not be read.
THEOREM OffsetsAreSafe == Spec => []StreamNoGap
<1>1. IInv => StreamNoGap
  BY DEF IInv, StreamNoGap
<1>. QED  BY <1>1, Invariance, PTL
=============================================================================
