------------------------------- MODULE BusLink ------------------------------
(***************************************************************************)
(* One NATS connection shared by every unit thread of the process, and the *)
(* publish-before-ack barrier on it (core/src/bus.rs: Link, Batch).        *)
(*                                                                         *)
(* What a thread hands to the client goes first into the client's command  *)
(* queue, is then written to the connection, and is then read by the       *)
(* server.  `pipe' is that whole way, oldest first; its first `written'    *)
(* entries are on the connection.  On a reconnect async-nats drops what    *)
(* was on the old connection and carries the rest over to the new one.     *)
(* (The server may still read a little of a connection the client gave up; *)
(* that only adds to `server', and no property here counts on an absence.) *)
(***************************************************************************)
EXTENDS Naturals, Sequences

CONSTANTS
    Threads,     \* unit threads that share the link
    MaxEmits,    \* bound: emits each thread makes in its life
    MaxEpoch     \* bound: connections the client goes through

ASSUME BoundsAssumption == MaxEmits \in [Threads -> Nat] /\ MaxEpoch \in Nat

VARIABLES
    up,       \* Client::connection_state() = Connected
    epoch,    \* Statistics::connects
    pipe,     \* handed over and not read by the server, oldest first
    written,  \* how many of them are on the connection
    server,   \* emits <<t, n>> the server has read
    echoes,   \* barrier ids on their way back to this connection
    waiting,  \* Link.waiting: ids whose waiter has not been told
    next_id,  \* Link.next_id
    pc,       \* where each thread is in Batch::confirm
    first,    \* number of the first emit of the thread's batch
    made,     \* emits the thread has held so far
    sent,     \* emits the thread has handed to the client so far
    since,    \* the epoch its confirm started on
    id        \* the id of its barrier

connVars   == <<up, epoch, pipe, written, server, echoes>>
threadVars == <<pc, first, made, sent, since, id>>
vars == <<up, epoch, pipe, written, server, echoes, waiting, next_id,
          pc, first, made, sent, since, id>>

Steps == {"idle", "epoch", "sending", "waiting", "heard", "ok", "err"}

Emit(t, n) == [what |-> "emit", by |-> t, n |-> n]
Echo(i)    == [what |-> "echo", n |-> i]

Goto(t, step) == pc' = [pc EXCEPT ![t] = step]

Init ==
    /\ up = TRUE
    /\ epoch = 1
    /\ pipe = <<>>
    /\ written = 0
    /\ server = {}
    /\ echoes = {}
    /\ waiting = {}
    /\ next_id = 0
    /\ pc = [t \in Threads |-> "idle"]
    /\ first = [t \in Threads |-> 1]
    /\ made = [t \in Threads |-> 0]
    /\ sent = [t \in Threads |-> 0]
    /\ since = [t \in Threads |-> 0]
    /\ id = [t \in Threads |-> 0]

-----------------------------------------------------------------------------
(* The threads: Batch::publish and Batch::confirm.                         *)

\* Batch::publish holds the emit locally.  (A refused emit, with a bad
\* subject or over the server's limit, leaves the batch as it was.)
Hold(t) ==
    /\ pc[t] = "idle"
    /\ made[t] < MaxEmits[t]
    /\ made' = [made EXCEPT ![t] = @ + 1]
    /\ UNCHANGED <<connVars, waiting, next_id, pc, first, sent, since, id>>

\* confirm() of a batch that holds nothing has nothing to prove.
ConfirmEmpty(t) ==
    /\ pc[t] = "idle"
    /\ made[t] < first[t]
    /\ Goto(t, "ok")
    /\ UNCHANGED <<connVars, waiting, next_id, first, made, sent, since, id>>

\* With the connection down confirm() clears the batch and fails at once.
ConfirmDown(t) ==
    /\ pc[t] = "idle"
    /\ made[t] >= first[t]
    /\ ~up
    /\ Goto(t, "err")
    /\ sent' = [sent EXCEPT ![t] = made[t]]
    /\ UNCHANGED <<connVars, waiting, next_id, first, made, since, id>>

\* link.up() said yes; the epoch is read in a later step, and may be another.
ConfirmUp(t) ==
    /\ pc[t] = "idle"
    /\ made[t] >= first[t]
    /\ up
    /\ Goto(t, "epoch")
    /\ UNCHANGED <<connVars, waiting, next_id, first, made, sent, since, id>>

ReadEpoch(t) ==
    /\ pc[t] = "epoch"
    /\ since' = [since EXCEPT ![t] = epoch]
    /\ Goto(t, "sending")
    /\ UNCHANGED <<connVars, waiting, next_id, first, made, sent, id>>

\* held.drain(..): hand the next emit to the client.
Send(t) ==
    /\ pc[t] = "sending"
    /\ sent[t] < made[t]
    /\ sent' = [sent EXCEPT ![t] = @ + 1]
    /\ pipe' = Append(pipe, Emit(t, sent[t] + 1))
    /\ UNCHANGED <<up, epoch, written, server, echoes, waiting, next_id,
                   pc, first, made, since, id>>

\* The client takes no writes for SEND_WAIT: an emit or the barrier's own
\* publish fails, the rest of the batch goes with the drain, and the barrier's
\* waiter is taken out again.
SendTimeout(t) ==
    /\ pc[t] = "sending"
    /\ next_id' = IF sent[t] = made[t] THEN next_id + 1 ELSE next_id
    /\ sent' = [sent EXCEPT ![t] = made[t]]
    /\ Goto(t, "err")
    /\ UNCHANGED <<connVars, waiting, first, made, since, id>>

\* Link::barrier: a fresh id, its waiter, and the publish to ourselves.
AskBarrier(t) ==
    /\ pc[t] = "sending"
    /\ sent[t] = made[t]
    /\ id' = [id EXCEPT ![t] = next_id]
    /\ next_id' = next_id + 1
    /\ waiting' = waiting \cup {next_id}
    /\ pipe' = Append(pipe, Echo(next_id))
    /\ Goto(t, "waiting")
    /\ UNCHANGED <<up, epoch, written, server, echoes, first, made, sent, since>>

\* Mutant: a timed out barrier leaves its waiter in the map.
BarrierTimeoutLeaks(t) ==
    /\ pc[t] = "waiting"
    /\ Goto(t, "err")
    /\ UNCHANGED <<connVars, waiting, next_id, first, made, sent, since, id>>

\* Mutant: when its time is over the barrier waits again.
BarrierWaitsForever(t) ==
    /\ pc[t] = "waiting"
    /\ UNCHANGED vars

\* BARRIER_WAIT ran out before the echo was heard.
BarrierTimeout(t) ==
    /\ pc[t] = "waiting"
    /\ waiting' = waiting \ {id[t]}
    /\ Goto(t, "err")
    /\ UNCHANGED <<connVars, next_id, first, made, sent, since, id>>

\* Mutant: a round-trip alone confirms the batch.
CheckNoEpoch(t) ==
    /\ pc[t] = "heard"
    /\ Goto(t, "ok")
    /\ UNCHANGED <<connVars, waiting, next_id, first, made, sent, since, id>>

\* barrier_since: the echo counts only on the connection the batch left on.
CheckEpoch(t) ==
    /\ pc[t] = "heard"
    /\ Goto(t, IF epoch = since[t] THEN "ok" ELSE "err")
    /\ UNCHANGED <<connVars, waiting, next_id, first, made, sent, since, id>>

\* confirm() has returned: its locals are gone, and the batch is empty, either
\* way.
Return(t) ==
    /\ pc[t] \in {"ok", "err"}
    /\ first' = [first EXCEPT ![t] = made[t] + 1]
    /\ since' = [since EXCEPT ![t] = 0]
    /\ id' = [id EXCEPT ![t] = 0]
    /\ Goto(t, "idle")
    /\ UNCHANGED <<connVars, waiting, next_id, made, sent>>

-----------------------------------------------------------------------------
(* The connection: async-nats and the server (external), and the echo task *)
(* of Link::open.                                                          *)

\* The connection task writes the next command to the connection.
Write ==
    /\ up
    /\ written < Len(pipe)
    /\ written' = written + 1
    /\ UNCHANGED <<up, epoch, pipe, server, echoes, waiting, next_id, threadVars>>

\* The server reads the oldest thing on the connection, in order.
ServerRead ==
    /\ written > 0
    /\ LET m == Head(pipe)
       IN  IF m.what = "emit"
           THEN /\ server' = server \cup {<<m.by, m.n>>}
                /\ UNCHANGED echoes
           ELSE /\ echoes' = echoes \cup {m.n}
                /\ UNCHANGED server
    /\ pipe' = Tail(pipe)
    /\ written' = written - 1
    /\ UNCHANGED <<up, epoch, waiting, next_id, threadVars>>

\* The echo task: the id's waiter, if it still waits, is told.
HearEcho(i) ==
    /\ up
    /\ i \in echoes
    /\ echoes' = echoes \ {i}
    /\ waiting' = waiting \ {i}
    /\ pc' = [t \in Threads |->
                IF pc[t] = "waiting" /\ id[t] = i /\ i \in waiting
                THEN "heard" ELSE pc[t]]
    /\ UNCHANGED <<up, epoch, pipe, written, server, next_id,
                   first, made, sent, since, id>>

\* The client notices that the connection is gone.
Disconnect ==
    /\ up
    /\ epoch < MaxEpoch
    /\ up' = FALSE
    /\ UNCHANGED <<epoch, pipe, written, server, echoes, waiting, next_id, threadVars>>

\* Mutant: the buffer goes, its fill mark stays.
ReconnectKeepsMark ==
    /\ ~up
    /\ up' = TRUE
    /\ epoch' = epoch + 1
    /\ pipe' = SubSeq(pipe, written + 1, Len(pipe))
    /\ echoes' = {}
    /\ UNCHANGED <<written, server, waiting, next_id, threadVars>>

\* A new connection: what was on the old one is dropped, in silence.
Reconnect ==
    /\ ~up
    /\ up' = TRUE
    /\ epoch' = epoch + 1
    /\ pipe' = SubSeq(pipe, written + 1, Len(pipe))
    /\ written' = 0
    /\ echoes' = {}
    /\ UNCHANGED <<server, waiting, next_id, threadVars>>

-----------------------------------------------------------------------------
Confirm(t) ==
    \/ ConfirmEmpty(t) \/ ConfirmDown(t) \/ ConfirmUp(t) \/ ReadEpoch(t)
    \/ Send(t) \/ SendTimeout(t) \/ AskBarrier(t) \/ BarrierTimeout(t)
    \/ CheckEpoch(t) \/ Return(t)

Next ==
    \/ \E t \in Threads : Hold(t) \/ Confirm(t)
    \/ Write
    \/ ServerRead
    \/ \E i \in echoes : HearEcho(i)
    \/ Disconnect
    \/ Reconnect

Spec == Init /\ [][Next]_vars

\* Every thread is scheduled, and every wait inside confirm() has a timeout.
Goes(t) ==
    \/ ReadEpoch(t) \/ Send(t) \/ SendTimeout(t) \/ AskBarrier(t)
    \/ BarrierTimeout(t) \/ CheckEpoch(t) \/ Return(t)
Fairness == \A t \in Threads : WF_vars(Goes(t))

FairSpec == Spec /\ Fairness

-----------------------------------------------------------------------------
\* The way a message takes and the thread's step have their types.
Commands == [what : {"emit"}, by : Threads, n : Nat] \cup [what : {"echo"}, n : Nat]

TypeOK ==
    /\ up \in BOOLEAN
    /\ epoch \in Nat
    /\ pipe \in Seq(Commands)
    /\ written \in 0..Len(pipe)
    /\ server \subseteq (Threads \X Nat)
    /\ echoes \subseteq Nat
    /\ waiting \subseteq Nat
    /\ next_id \in Nat
    /\ pc \in [Threads -> Steps]
    /\ first \in [Threads -> Nat \ {0}]
    /\ made \in [Threads -> Nat]
    /\ sent \in [Threads -> Nat]
    /\ since \in [Threads -> Nat]
    /\ id \in [Threads -> Nat]

\* Batch::confirm, "Ok means the server has read every publish of the batch":
\* whatever reconnects fell between, and whoever else used the connection.
ConfirmSound ==
    \A t \in Threads :
        pc[t] = "ok" => \A n \in first[t]..made[t] : <<t, n>> \in server

\* Link.waiting holds exactly the barriers somebody still waits for: a timed
\* out or failed barrier leaves no entry behind, and a waiter is never
\* forgotten while its thread is blocked on it.
WaitersAreLive ==
    waiting = {id[t] : t \in {u \in Threads : pc[u] = "waiting"}}

\* An echo answers one barrier only: no two threads ever wait on the same id.
BarriersAreDistinct ==
    \A t, u \in Threads :
        pc[t] = "waiting" /\ pc[u] = "waiting" /\ id[t] = id[u] => t = u

\* confirm() always comes back: a stopped or lost connection cannot park a
\* unit's thread in the barrier for good.
ConfirmReturns == \A t \in Threads : []<>(pc[t] = "idle")

-----------------------------------------------------------------------------
\* The promise Batch makes, and this implementation of it.
asking == [t \in Threads |->
             CASE pc[t] = "idle" -> "no"
               [] pc[t] = "ok"   -> "ok"
               [] pc[t] = "err"  -> "err"
               [] OTHER          -> "yes"]

Promise == INSTANCE Outbox

\* Link and Batch implement the Outbox specification.
ImplementsOutbox == Promise!Spec
=============================================================================
