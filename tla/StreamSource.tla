---------------------------- MODULE StreamSource ----------------------------
(***************************************************************************)
(* The exec-stream-source driver with OFFSET_KV (ExecStreamSource,         *)
(* core/src/connectors.rs): a child process streams records, a reader      *)
(* thread carries its lines over a bounded channel, the driver publishes   *)
(* them one by one and commits how far it came on a cadence.               *)
(*                                                                         *)
(* The child, its pipe and the remote are external: the remote comes to    *)
(* keep the records 0..Records-1, and a child prints them from $OFFSET on. *)
(***************************************************************************)
EXTENDS Naturals, Sequences, FiniteSetsExt

CONSTANTS
    Records,     \* bound: records of the remote
    Junk,        \* those that are not JSON
    PIPE,        \* lines the pipe holds
    CHANNEL,     \* 64 in the code
    StreamFaults, \* the kinds of faults that happen
    MaxFaults    \* bound: how many

ASSUME StreamAssumption == Records \in Nat

Offsets == 0..(Records - 1)

VARIABLES
    from_end,   \* OFFSET_START is "end", the default, or else 0
    end,        \* number of records at the remote now
    base,       \* where resuming begins: at 0, or at the first offset committed
    bus,        \* records on the bus
    kv,         \* the committed offset, 0 when there is none
    alive,      \* ctx.running
    pc,         \* where the driver is
    child,      \* the child process
    at,         \* the record it prints next
    pipe,
    reader,     \* where the reader thread is
    line,       \* the record it holds
    chan,
    pending,    \* offset to commit, 0 standing for None
    committed,
    faults      \* how often each kind of fault has happened

childVars  == <<child, at, pipe>>
readerVars == <<reader, line>>
offsetVars == <<pending, committed>>
remoteVars == <<from_end, end, base>>
vars == <<from_end, end, base, bus, kv, alive, pc, child, at, pipe, reader, line, chan, pending, committed, faults>>

Fault(kind) ==
    /\ kind \in StreamFaults
    /\ MapThenSumSet(LAMBDA k : faults[k], StreamFaults) < MaxFaults
    /\ faults' = [faults EXCEPT ![kind] = @ + 1]

Happened(kind) == kind \in StreamFaults /\ faults[kind] > 0

Init ==
    /\ from_end \in BOOLEAN
    /\ end = 0 /\ base = (IF from_end THEN Records ELSE 0)
    /\ bus = {} /\ kv = 0
    /\ alive = TRUE /\ pc = "spawn"
    /\ child = "gone" /\ at = 0 /\ pipe = <<>>
    /\ reader = "done" /\ line = 0 /\ chan = <<>>
    /\ pending = 0 /\ committed = 0
    /\ faults = [kind \in StreamFaults |-> 0]

-----------------------------------------------------------------------------
(* The child and the reader thread.                                        *)

RemoteGrows ==
    /\ end < Records
    /\ end' = end + 1
    /\ UNCHANGED <<from_end, base, bus, kv, alive, pc, childVars, readerVars, chan, offsetVars, faults>>

ChildPrints ==
    /\ child = "up"
    /\ at < end
    /\ Len(pipe) < PIPE
    /\ pipe' = Append(pipe, at)
    /\ at' = at + 1
    /\ UNCHANGED <<remoteVars, bus, kv, alive, pc, child, readerVars, chan, offsetVars, faults>>

ChildExits ==
    /\ child = "up"
    /\ Fault("exit")
    /\ child' = "gone"
    /\ UNCHANGED <<remoteVars, bus, kv, alive, pc, at, pipe, readerVars, chan, offsetVars>>

ReaderReads ==
    /\ reader = "read"
    /\ pipe # <<>>
    /\ line' = Head(pipe)
    /\ pipe' = Tail(pipe)
    /\ reader' = "send"
    /\ UNCHANGED <<remoteVars, bus, kv, alive, pc, child, at, chan, offsetVars, faults>>

\* Mutant: the channel is not bounded, and the send never blocks.
ReaderSendsFreely ==
    /\ reader = "send"
    /\ chan' = Append(chan, line)
    /\ reader' = "read"
    /\ UNCHANGED <<remoteVars, bus, kv, alive, pc, childVars, line, offsetVars, faults>>

\* tx.send blocks while the channel is full.
ReaderSends ==
    /\ reader = "send"
    /\ Len(chan) < CHANNEL
    /\ chan' = Append(chan, line)
    /\ reader' = "read"
    /\ UNCHANGED <<remoteVars, bus, kv, alive, pc, childVars, line, offsetVars, faults>>

ReaderEof ==
    /\ reader = "read"
    /\ pipe = <<>> /\ child = "gone"
    /\ reader' = "done"
    /\ UNCHANGED <<remoteVars, bus, kv, alive, pc, childVars, line, chan, offsetVars, faults>>

-----------------------------------------------------------------------------
(* ExecStreamSource::run.                                                  *)

\* OFFSET_START.
Start == IF from_end THEN end ELSE 0

\* The child is started at the committed offset, with a channel and a reader.
\* offset_get takes a failed read for no offset at all.
Spawn ==
    /\ pc = "spawn" /\ alive
    /\ \/ at' = (IF kv = 0 THEN Start ELSE kv) /\ UNCHANGED faults
       \/ Fault("get") /\ at' = Start
    /\ child' = "up" /\ pipe' = <<>>
    /\ reader' = "read" /\ chan' = <<>>
    /\ pending' = 0 /\ committed' = 0
    /\ pc' = "loop"
    /\ UNCHANGED <<remoteVars, bus, kv, alive, line>>

\* offset_put drops its error, so the driver takes a lost put for a done one.
Put ==
    /\ pending # 0 /\ pending # committed
    /\ \/ kv' = pending /\ UNCHANGED faults
       \/ Fault("put") /\ UNCHANGED kv
    /\ base' = IF base = Records /\ kv' # 0 THEN kv' ELSE base
    /\ committed' = pending

\* The top of the loop: a commit when the cadence is due, then the receive.
Look ==
    /\ pc = "loop" /\ alive
    /\ Put \/ UNCHANGED <<base, kv, committed, faults>>
    /\ pc' = "receive"
    /\ UNCHANGED <<from_end, end, bus, alive, childVars, readerVars, chan, pending>>

\* It is to stop: the child is killed.
SeeStop ==
    /\ pc = "loop" /\ ~alive
    /\ child' = "gone"
    /\ pc' = "drain"
    /\ UNCHANGED <<remoteVars, bus, kv, alive, at, pipe, readerVars, chan, offsetVars, faults>>

\* Mutant: the offset moves on before the record is published.
PublishCommitsFirst ==
    /\ pc = "receive" /\ chan # <<>>
    /\ LET r == Head(chan)
       IN  /\ r \notin Junk
           /\ IF r + 1 = pending
              THEN bus' = bus \cup {r} /\ chan' = Tail(chan) /\ UNCHANGED pending
              ELSE pending' = r + 1 /\ UNCHANGED <<bus, chan>>
    /\ pc' = "loop"
    /\ UNCHANGED <<remoteVars, kv, alive, childVars, readerVars, committed, faults>>

\* js.publish: the record is on the bus, and its offset may be committed.
Publish ==
    /\ pc = "receive" /\ chan # <<>>
    /\ LET r == Head(chan)
       IN  /\ r \notin Junk
           /\ bus' = bus \cup {r}
           /\ pending' = r + 1
    /\ chan' = Tail(chan)
    /\ pc' = "loop"
    /\ UNCHANGED <<remoteVars, kv, alive, childVars, readerVars, committed, faults>>

\* It fails: traced, and the record is gone unless the server has it.
PublishFails ==
    /\ pc = "receive" /\ chan # <<>>
    /\ Fault("publish")
    /\ Head(chan) \notin Junk
    /\ bus' \in {bus, bus \cup {Head(chan)}}
    /\ chan' = Tail(chan)
    /\ pc' = "loop"
    /\ UNCHANGED <<remoteVars, kv, alive, childVars, readerVars, offsetVars>>

Skip ==
    /\ pc = "receive" /\ chan # <<>>
    /\ Head(chan) \in Junk
    /\ chan' = Tail(chan)
    /\ pc' = "loop"
    /\ UNCHANGED <<remoteVars, bus, kv, alive, childVars, readerVars, offsetVars, faults>>

\* Nothing came in 250 ms, or the reader has hung up.
NothingCame ==
    /\ pc = "receive" /\ chan = <<>>
    /\ pc' = IF reader = "done" THEN "drain" ELSE "loop"
    /\ UNCHANGED <<remoteVars, bus, kv, alive, childVars, readerVars, chan, offsetVars, faults>>

\* The last offset is put, and the reader is waited for.
Drain ==
    /\ pc = "drain"
    /\ IF pending # 0 /\ pending # committed THEN Put ELSE UNCHANGED <<base, kv, committed, faults>>
    /\ pc' = "join"
    /\ UNCHANGED <<from_end, end, bus, alive, childVars, readerVars, chan, pending>>

\* reader.join(), with the channel's receiver still there.
Join ==
    /\ pc = "join"
    /\ reader = "done"
    /\ pc' = IF alive THEN "spawn" ELSE "returned"
    /\ UNCHANGED <<remoteVars, bus, kv, alive, childVars, readerVars, chan, offsetVars, faults>>

\* Between two children the flag is looked at too.
Return ==
    /\ pc = "spawn" /\ ~alive
    /\ pc' = "returned"
    /\ UNCHANGED <<remoteVars, bus, kv, alive, childVars, readerVars, chan, offsetVars, faults>>

Stop ==
    /\ alive
    /\ Fault("stop")
    /\ alive' = FALSE
    /\ UNCHANGED <<remoteVars, bus, kv, pc, childVars, readerVars, chan, offsetVars>>

\* The connector is started again.
StartAgain ==
    /\ pc = "returned"
    /\ alive' = TRUE
    /\ pc' = "spawn"
    /\ UNCHANGED <<remoteVars, bus, kv, childVars, readerVars, chan, offsetVars, faults>>

\* The runtime dies; the child dies of its closed pipe.
Crash ==
    /\ Fault("crash")
    /\ alive' = TRUE /\ pc' = "spawn"
    /\ child' = "gone" /\ pipe' = <<>>
    /\ reader' = "done" /\ chan' = <<>>
    /\ pending' = 0 /\ committed' = 0
    /\ UNCHANGED <<remoteVars, bus, kv, at, line>>

-----------------------------------------------------------------------------
Driver ==
    \/ Spawn \/ Look \/ SeeStop \/ Publish \/ PublishFails \/ Skip \/ NothingCame
    \/ Drain \/ Join \/ Return \/ StartAgain

Reader == ReaderReads \/ ReaderSends \/ ReaderEof

Next == Driver \/ Reader \/ RemoteGrows \/ ChildPrints \/ ChildExits \/ Stop \/ Crash

Spec == Init /\ [][Next]_vars

\* The two threads and the child run on, and the remote gets its records.
FairSpec ==
    Spec /\ WF_vars(Driver) /\ WF_vars(Reader) /\ WF_vars(ChildPrints) /\ WF_vars(RemoteGrows)

-----------------------------------------------------------------------------
\* The driver, its child and its offsets have the states the code gives them.
TypeOK ==
    /\ from_end \in BOOLEAN /\ end \in 0..Records /\ base \in 0..Records
    /\ bus \subseteq Offsets /\ kv \in 0..Records
    /\ alive \in BOOLEAN
    /\ pc \in {"spawn", "loop", "receive", "drain", "join", "returned"}
    /\ child \in {"up", "gone"} /\ at \in 0..Records
    /\ pipe \in Seq(Offsets) /\ Len(pipe) <= PIPE
    /\ reader \in {"read", "send", "done"} /\ line \in 0..Records
    /\ chan \in Seq(Offsets) /\ Len(chan) <= CHANNEL
    /\ pending \in 0..Records /\ committed \in 0..Records
    /\ faults \in [StreamFaults -> 0..MaxFaults]

\* "an offset is committed only for a record already on the bus", also when
\* publishes fail, commits get lost and the driver is cut off anywhere.
CommittedIsOnBus == kv > 0 => kv - 1 \in bus

\* "a crash re-consumes from the last committed offset": every record below it,
\* from the first one on, must have reached the bus by then.
ZeroGap == \A r \in Offsets : base <= r /\ r < kv => r \in bus \cup Junk

\* The same through crashes, stops, exits of the child and lost commits, and
\* through failed reads of the offset when the child then starts at 0.
NoGap == ~Happened("publish") /\ ~(from_end /\ Happened("get")) => ZeroGap
\* Both: an offset stands for its record and for all before it.
StreamNoGap == CommittedIsOnBus /\ NoGap

\* "every offset reaches the bus", through the same faults but the stop, after
\* which a driver may never return (RunReturns).
AllArrived == from_end \/ Happened("publish") \/ Happened("stop") \/ Offsets \ Junk \subseteq bus
EveryRecordArrives == []<>AllArrived

\* "loops until `ctx.running` clears": once it has, the driver returns.
RunReturns == ~alive ~> alive \/ pc = "returned"
=============================================================================
