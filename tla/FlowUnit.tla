------------------------------ MODULE FlowUnit ------------------------------
(***************************************************************************)
(* A flow: supervise_vjs on a durable pull consumer (core/src/main.rs).    *)
(*                                                                         *)
(* Several runtimes may supervise the same flow; their supervisors share   *)
(* the durable and compete for its messages.  Each keeps one pull request  *)
(* ahead of the round it works on, holds the emits of a round in a Batch,  *)
(* confirms them with one barrier (see Outbox) and only then acks.         *)
(*                                                                         *)
(* The JetStream consumer is external: it hands out a ready message        *)
(* against a request, counts its deliveries, and makes it ready again when *)
(* ack_wait runs out, whether or not somebody still works on it.           *)
(***************************************************************************)
EXTENDS Naturals, Sequences, FiniteSets

CONSTANTS
    Sups,            \* supervisors of this flow, one per runtime
    Msgs,            \* messages of its source subject
    Bad,             \* those whose payload is not JSON
    Parts,           \* the emits a successful run makes
    MAX_DELIVERIES,
    PULL_BATCH,
    MaxFaults        \* bound: outages, lost writes, crashes and stops

ASSUME FlowAssumption ==
    /\ Sups # {} /\ Parts # {}
    /\ Bad \subseteq Msgs
    /\ MAX_DELIVERIES \in Nat \ {0}
    /\ PULL_BATCH \in Nat \ {0}
    /\ MaxFaults \in Nat

VARIABLES
    ready,      \* messages the consumer may hand out now
    delivered,  \* times each was handed out, MAX_DELIVERIES standing for more
    acked,      \* messages whose ack the consumer holds
    stored,     \* emits <<m, p>> the server has read
    dead,       \* messages in the dead-letter stream
    stray,      \* a request whose inbox is gone is still outstanding
    pc,         \* where each supervisor is
    stop,       \* handle.stop
    inbox,      \* messages in its subscription, each with its delivery count
    taken,      \* Round.taken
    held,       \* Batch.held
    to_ack,
    cur,        \* the message being dead-lettered
    faults

consumerVars == <<ready, delivered, acked>>
localVars    == <<inbox, taken, held, to_ack, cur>>
vars == <<ready, delivered, acked, stored, dead, stray, pc, stop,
          inbox, taken, held, to_ack, cur, faults>>

NoMsg == [msg |-> {}, delivered |-> 0]

Emits(m) == {m} \X Parts

Running == {"top", "round", "bury", "buried", "confirm", "ack"}

Goto(s, step) == pc' = [pc EXCEPT ![s] = step]

Fault == faults < MaxFaults /\ faults' = faults + 1

Init ==
    /\ ready = Msgs
    /\ delivered = [m \in Msgs |-> 0]
    /\ acked = {}
    /\ stored = {}
    /\ dead = {}
    /\ stray = FALSE
    /\ pc = [s \in Sups |-> "starting"]
    /\ stop = [s \in Sups |-> FALSE]
    /\ inbox = [s \in Sups |-> <<>>]
    /\ taken = [s \in Sups |-> 0]
    /\ held = [s \in Sups |-> {}]
    /\ to_ack = [s \in Sups |-> {}]
    /\ cur = [s \in Sups |-> NoMsg]
    /\ faults = 0

-----------------------------------------------------------------------------
(* The JetStream consumer.                                                 *)

Handed(m) ==
    /\ ready' = ready \ {m}
    /\ delivered' = [delivered EXCEPT ![m] = IF @ < MAX_DELIVERIES THEN @ + 1 ELSE @]
    /\ UNCHANGED <<acked, stored, dead, pc, stop, taken, held, to_ack, cur, faults>>

\* Against the requests of a running attempt: one for the round it works on
\* and one for the next, so that its inbox holds two batches at the most.
Deliver(m, s) ==
    /\ m \in ready
    /\ pc[s] \in Running
    /\ Len(inbox[s]) < 2 * PULL_BATCH
    /\ Handed(m)
    /\ inbox' = [inbox EXCEPT ![s] = Append(@, [msg |-> m, delivered |-> delivered'[m]])]
    /\ UNCHANGED stray

\* A request outlives the attempt that made it, until it expires.
DeliverStray(m) ==
    /\ m \in ready
    /\ stray
    /\ Handed(m)
    /\ UNCHANGED <<stray, inbox>>

RequestExpires ==
    /\ stray
    /\ stray' = FALSE
    /\ UNCHANGED <<consumerVars, stored, dead, pc, stop, localVars, faults>>

AckWait(m) ==
    /\ delivered[m] > 0
    /\ m \notin ready \cup acked
    /\ ready' = ready \cup {m}
    /\ UNCHANGED <<delivered, acked, stored, dead, stray, pc, stop, localVars, faults>>

\* The server takes an ack, or a nak, of the messages S.
TakeAcks(S) ==
    /\ acked' = acked \cup S
    /\ ready' = ready \ S
    /\ UNCHANGED delivered

TakeNak(m) ==
    /\ ready' = IF m \in acked THEN ready ELSE ready \cup {m}
    /\ UNCHANGED <<delivered, acked>>

-----------------------------------------------------------------------------
(* The supervisor.                                                         *)

\* The attempt ends and everything it held goes with it.
Drop(s) ==
    /\ stray' = (stray \/ pc[s] \in Running)
    /\ inbox' = [inbox EXCEPT ![s] = <<>>]
    /\ taken' = [taken EXCEPT ![s] = 0]
    /\ held' = [held EXCEPT ![s] = {}]
    /\ to_ack' = [to_ack EXCEPT ![s] = {}]
    /\ cur' = [cur EXCEPT ![s] = NoMsg]
    /\ UNCHANGED <<consumerVars, stored, dead>>

\* The attempt: source resolved and parsed, consumer created and bound, and the
\* first request on its way.
Start(s) ==
    /\ pc[s] = "starting"
    /\ ~stop[s]
    /\ Goto(s, "top")
    /\ UNCHANGED <<consumerVars, stored, dead, stray, stop, localVars, faults>>

\* Any `?' of the attempt, up to the request for the next round.
AttemptFails(s) ==
    /\ pc[s] \in {"starting", "top"}
    /\ ~stop[s]
    /\ Fault
    /\ Drop(s)
    /\ Goto(s, "backoff")
    /\ UNCHANGED stop

Retry(s) ==
    /\ pc[s] = "backoff"
    /\ Goto(s, "starting")
    /\ UNCHANGED <<consumerVars, stored, dead, stray, stop, localVars, faults>>

\* The stop flag is looked at before an attempt, before a round, and on every
\* message of a round; that message stays un-acked, and so do those before it.
SeeStop(s) ==
    /\ stop[s]
    /\ \/ pc[s] \in {"starting", "top"}
       \/ pc[s] = "round" /\ taken[s] < PULL_BATCH /\ inbox[s] # <<>>
    /\ Drop(s)
    /\ Goto(s, "stopped")
    /\ UNCHANGED <<stop, faults>>

\* sub.round(): ask for the next round before this one is worked on.
Pull(s) ==
    /\ pc[s] = "top"
    /\ ~stop[s]
    /\ taken' = [taken EXCEPT ![s] = 0]
    /\ Goto(s, "round")
    /\ UNCHANGED <<consumerVars, stored, dead, stray, stop, inbox, held, to_ack, cur, faults>>

\* Mutant: a round that does not end with the batch.
TakesMsgOnAndOn(s) ==
    /\ pc[s] = "round"
    /\ inbox[s] # <<>>
    /\ ~stop[s]
    /\ inbox' = [inbox EXCEPT ![s] = Tail(@)]
    /\ taken' = [taken EXCEPT ![s] = @ + 1]

\* Round::next brings a message, and the flag was clear when it was looked at.
TakesMsg(s) ==
    /\ pc[s] = "round"
    /\ taken[s] < PULL_BATCH
    /\ inbox[s] # <<>>
    /\ ~stop[s]
    /\ inbox' = [inbox EXCEPT ![s] = Tail(@)]
    /\ taken' = [taken EXCEPT ![s] = @ + 1]

\* Not JSON: on its way to the dead-letter queue, at any delivery count.
BadJson(s) ==
    /\ TakesMsg(s)
    /\ Head(inbox[s]).msg \in Bad
    /\ cur' = [cur EXCEPT ![s] = Head(inbox[s])]
    /\ Goto(s, "bury")
    /\ UNCHANGED <<consumerVars, stored, dead, stray, stop, held, to_ack, faults>>

\* Mutant: the message is acked when its run succeeds.
RunOkAcks(s) ==
    /\ TakesMsg(s)
    /\ LET m == Head(inbox[s]).msg
       IN  /\ m \notin Bad
           /\ held' = [held EXCEPT ![s] = @ \cup Emits(m)]
           /\ TakeAcks({m})
    /\ UNCHANGED <<stored, dead, stray, pc, stop, to_ack, cur, faults>>

\* The run succeeds and every emit is held.
RunOk(s) ==
    /\ TakesMsg(s)
    /\ LET m == Head(inbox[s]).msg
       IN  /\ m \notin Bad
           /\ held' = [held EXCEPT ![s] = @ \cup Emits(m)]
           /\ to_ack' = [to_ack EXCEPT ![s] = @ \cup {m}]
    /\ UNCHANGED <<consumerVars, stored, dead, stray, pc, stop, cur, faults>>

\* Mutant: one delivery too few before the message is given up.
RunErrGivesUpEarly(s) ==
    /\ TakesMsg(s)
    /\ LET h == Head(inbox[s])
       IN  /\ h.msg \notin Bad
           /\ held' = held
           /\ IF h.delivered + 1 >= MAX_DELIVERIES
              THEN cur' = [cur EXCEPT ![s] = h] /\ Goto(s, "bury")
              ELSE UNCHANGED <<cur, pc>>
    /\ UNCHANGED <<consumerVars, stored, dead, stray, stop, to_ack, faults>>

\* Mutant: a failing message is left to redeliver for ever.
RunErrNeverGivesUp(s) ==
    /\ TakesMsg(s)
    /\ Head(inbox[s]).msg \notin Bad
    /\ UNCHANGED <<consumerVars, stored, dead, stray, pc, stop, held, to_ack, cur, faults>>

\* The run fails, or one of its emits is refused: those before it stay held and
\* leave with the batch.  At the cap the message is given up, before it it is
\* left un-acked.
RunErr(s) ==
    /\ TakesMsg(s)
    /\ LET h == Head(inbox[s])
       IN  /\ h.msg \notin Bad
           /\ \E E \in SUBSET Emits(h.msg) :
                 /\ E # Emits(h.msg)
                 /\ held' = [held EXCEPT ![s] = @ \cup E]
           /\ IF h.delivered >= MAX_DELIVERIES
              THEN cur' = [cur EXCEPT ![s] = h] /\ Goto(s, "bury")
              ELSE UNCHANGED <<cur, pc>>
    /\ UNCHANGED <<consumerVars, stored, dead, stray, stop, to_ack, faults>>

\* to_dlq returned Ok: the message is stored there, and acked here (the ack may
\* get lost).
BuryOk(s) ==
    /\ pc[s] = "bury"
    /\ dead' = dead \cup {cur[s].msg}
    /\ Goto(s, "buried")
    /\ UNCHANGED <<consumerVars, stored, stray, stop, localVars, faults>>

\* Mutant: the message is acked though the dead-letter queue may not have it.
BuryFailsAcks(s) ==
    /\ pc[s] = "bury"
    /\ Fault
    /\ UNCHANGED dead
    /\ TakeAcks({cur[s].msg})
    /\ cur' = [cur EXCEPT ![s] = NoMsg]
    /\ Goto(s, "round")
    /\ UNCHANGED <<stored, stray, stop, inbox, taken, held, to_ack>>

\* to_dlq returned an error, with or without the write done: nak.
BuryFails(s) ==
    /\ pc[s] = "bury"
    /\ Fault
    /\ dead' \in {dead, dead \cup {cur[s].msg}}
    /\ TakeNak(cur[s].msg)
    /\ cur' = [cur EXCEPT ![s] = NoMsg]
    /\ Goto(s, "round")
    /\ UNCHANGED <<stored, stray, stop, inbox, taken, held, to_ack>>

AckBuried(s) ==
    /\ pc[s] = "buried"
    /\ \/ TakeAcks({cur[s].msg}) /\ UNCHANGED faults
       \/ Fault /\ UNCHANGED consumerVars
    /\ cur' = [cur EXCEPT ![s] = NoMsg]
    /\ Goto(s, "round")
    /\ UNCHANGED <<stored, dead, stray, stop, inbox, taken, held, to_ack>>

\* The round ended: with the batch, on a status, or at the backstop.
RoundOver(s) ==
    /\ pc[s] = "round"
    /\ Goto(s, "confirm")
    /\ UNCHANGED <<consumerVars, stored, dead, stray, stop, localVars, faults>>

\* batch.confirm() as Outbox promises it: Ok and everything held was read.
ConfirmOk(s) ==
    /\ pc[s] = "confirm"
    /\ stored' = stored \cup held[s]
    /\ held' = [held EXCEPT ![s] = {}]
    /\ Goto(s, "ack")
    /\ UNCHANGED <<consumerVars, dead, stray, stop, inbox, taken, to_ack, cur, faults>>

\* An error, and anything of it may have been read: nothing is acked.
ConfirmErr(s) ==
    /\ pc[s] = "confirm"
    /\ held[s] # {}
    /\ Fault
    /\ \E E \in SUBSET held[s] : stored' = stored \cup E
    /\ held' = [held EXCEPT ![s] = {}]
    /\ to_ack' = [to_ack EXCEPT ![s] = {}]
    /\ Goto(s, "top")
    /\ UNCHANGED <<consumerVars, dead, stray, stop, inbox, taken, cur>>

\* nc.ack_all: all of the acks reach the server, or only some.
AckAll(s) ==
    /\ pc[s] = "ack"
    /\ \/ TakeAcks(to_ack[s]) /\ UNCHANGED faults
       \/ Fault /\ \E S \in SUBSET to_ack[s] : S # to_ack[s] /\ TakeAcks(S)
    /\ to_ack' = [to_ack EXCEPT ![s] = {}]
    /\ Goto(s, "top")
    /\ UNCHANGED <<stored, dead, stray, stop, inbox, taken, held, cur>>

\* handle.stop is set from outside, by a reload, a restart or the shutdown.
Stop(s) ==
    /\ ~stop[s]
    /\ Fault
    /\ stop' = [stop EXCEPT ![s] = TRUE]
    /\ UNCHANGED <<consumerVars, stored, dead, stray, pc, localVars>>

\* The runtime dies and is started again.
Crash(s) ==
    /\ pc[s] # "stopped"
    /\ Fault
    /\ Drop(s)
    /\ Goto(s, "starting")
    /\ stop' = [stop EXCEPT ![s] = FALSE]

-----------------------------------------------------------------------------
Take(s) == BadJson(s) \/ RunOk(s) \/ RunErr(s)

Step(s) ==
    \/ Start(s) \/ Retry(s) \/ SeeStop(s) \/ Pull(s) \/ RoundOver(s)
    \/ BuryOk(s) \/ BuryFails(s) \/ AckBuried(s)
    \/ ConfirmOk(s) \/ ConfirmErr(s) \/ AckAll(s)

Next ==
    \/ \E s \in Sups : Step(s) \/ Take(s) \/ AttemptFails(s) \/ Stop(s) \/ Crash(s)
    \/ \E m \in Msgs : AckWait(m) \/ DeliverStray(m) \/ \E s \in Sups : Deliver(m, s)
    \/ RequestExpires

Spec == Init /\ [][Next]_vars

\* A supervisor's thread keeps running; a round reads what its inbox holds (a
\* status may cut it short, but each request has one only); the consumer hands
\* out what is asked for again and again, and its ack_wait runs out.
Fairness ==
    /\ \A s \in Sups : WF_vars(Step(s)) /\ SF_vars(Take(s))
    /\ \A m \in Msgs : WF_vars(AckWait(m)) /\ SF_vars(\E s \in Sups : Deliver(m, s))

FairSpec == Spec /\ Fairness

-----------------------------------------------------------------------------
Steps == {"starting", "backoff", "top", "round", "bury", "buried", "confirm", "ack", "stopped"}

Letter == [msg : Msgs, delivered : 1..MAX_DELIVERIES]

\* The supervisors and the consumer have the states the code gives them.
TypeOK ==
    /\ ready \subseteq Msgs /\ acked \subseteq Msgs /\ dead \subseteq Msgs
    /\ delivered \in [Msgs -> 0..MAX_DELIVERIES]
    /\ stored \subseteq (Msgs \X Parts)
    /\ stray \in BOOLEAN
    /\ pc \in [Sups -> Steps] /\ stop \in [Sups -> BOOLEAN]
    /\ inbox \in [Sups -> Seq(Letter)]
    /\ taken \in [Sups -> 0..PULL_BATCH]
    /\ held \in [Sups -> SUBSET (Msgs \X Parts)]
    /\ to_ack \in [Sups -> SUBSET Msgs]
    /\ cur \in [Sups -> Letter \cup {NoMsg}]
    /\ faults \in 0..MaxFaults

landed == {m \in Msgs : Emits(m) \subseteq stored}

\* Publish before ack (ADR-0002): a message is never delivered again only when
\* all its emits were read by the server, or it is in the dead-letter queue;
\* across failed barriers, lost acks, redeliveries to a second runtime, stops
\* in mid-batch and crashes.
NothingLost == acked \subseteq landed \cup dead

\* A JSON message is given up only at the cap (ADR-0015).
DeadOnlyAtCap ==
    \A m \in dead \ Bad : delivered[m] >= MAX_DELIVERIES

\* Every message is settled in the end, as long as one supervisor is not told
\* to stop: nothing wedges a flow for good, and no poison circles for ever.
Settled == acked = Msgs \/ \A s \in Sups : stop[s]
EverythingSettles == []<>Settled

\* No supervisor told to stop goes on for good, whatever its inbox holds.
Heard(s) == stop[s] => pc[s] = "stopped"
StopIsHeard == \A s \in Sups : []<>Heard(s)

Promise == INSTANCE AtLeastOnce WITH settled <- acked

\* The flow implements the promise of an at-least-once consumer.
ImplementsAtLeastOnce == Promise!Spec
=============================================================================
