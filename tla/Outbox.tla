------------------------------- MODULE Outbox -------------------------------
(***************************************************************************)
(* What bus::Batch promises the loops that publish before they ack.        *)
(*                                                                         *)
(* A unit's thread holds emits in its batch and calls confirm() once.  Ok  *)
(* means that the server has read every emit of the batch, so their source *)
(* messages may be acked.  An error promises nothing: any of the emits may *)
(* have arrived, or may still arrive.  Nothing a thread has not handed     *)
(* over is ever read, and nothing read is forgotten.                       *)
(*                                                                         *)
(* BusLink is shown to implement this specification.                       *)
(***************************************************************************)
EXTENDS Naturals

CONSTANTS Threads   \* the unit threads that share the process's connection

VARIABLES
    first,   \* first[t]: the number of the first emit of t's present batch
    made,    \* made[t]: the number of emits t has held so far
    asking,  \* asking[t]: "no", "yes" (inside confirm), "ok" or "err"
    server   \* the emits <<t, n>> the server has read

outboxVars == <<first, made, asking, server>>

BatchOf(t) == {<<t, n>> : n \in first[t]..made[t]}

Init ==
    /\ first  = [t \in Threads |-> 1]
    /\ made   = [t \in Threads |-> 0]
    /\ asking = [t \in Threads |-> "no"]
    /\ server = {}

\* Batch::publish: one more emit is held.
Hold(t) ==
    /\ asking[t] = "no"
    /\ made' = [made EXCEPT ![t] = @ + 1]
    /\ UNCHANGED <<first, asking, server>>

\* Batch::confirm is called.
Ask(t) ==
    /\ asking[t] = "no"
    /\ asking' = [asking EXCEPT ![t] = "yes"]
    /\ UNCHANGED <<first, made, server>>

\* The server reads an emit that was held, now or long after its confirm failed.
Arrive(t) ==
    \E n \in 1..made[t] :
        /\ n >= first[t] => asking[t] # "no"
        /\ server' = server \cup {<<t, n>>}
        /\ UNCHANGED <<first, made, asking>>

\* confirm() returns Ok: the promise.
Confirmed(t) ==
    /\ asking[t] \in {"no", "yes"}
    /\ BatchOf(t) \subseteq server
    /\ asking' = [asking EXCEPT ![t] = "ok"]
    /\ UNCHANGED <<first, made, server>>

\* confirm() returns an error.
Refused(t) ==
    /\ asking[t] \in {"no", "yes"}
    /\ asking' = [asking EXCEPT ![t] = "err"]
    /\ UNCHANGED <<first, made, server>>

\* The caller has seen the answer; the batch is empty, whatever the answer was.
Resume(t) ==
    /\ asking[t] \in {"ok", "err"}
    /\ asking' = [asking EXCEPT ![t] = "no"]
    /\ first' = [first EXCEPT ![t] = made[t] + 1]
    /\ UNCHANGED <<made, server>>

Next ==
    \E t \in Threads :
        Hold(t) \/ Ask(t) \/ Arrive(t) \/ Confirmed(t) \/ Refused(t) \/ Resume(t)

Spec == Init /\ [][Next]_outboxVars
=============================================================================
