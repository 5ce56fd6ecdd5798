----------------------------- MODULE MCFlowUnit -----------------------------
(* Two instances of FlowUnit: one runtime that takes two messages in a round, one *)
(* of which is not JSON; and two runtimes that compete for one message.           *)
EXTENDS FlowUnit

CONSTANTS s1, s2, m1, m2

VARIABLE part

Pair == INSTANCE FlowUnit WITH Sups <- {s1, s2}, Msgs <- {m1}, Bad <- {}, PULL_BATCH <- 1,
    MaxFaults <- 2

FlowInit == part \in {"batch", "pair"} /\ IF part = "batch" THEN Init ELSE Pair!Init
FlowNext ==
    /\ \/ part = "batch" /\ Next
       \/ part = "pair"  /\ Pair!Next
    /\ UNCHANGED part

\* The fairness of FlowUnit, for the part that moves.
FlowFairness ==
    /\ WF_vars(IF part = "batch" THEN Step(s1) ELSE Pair!Step(s1))
    /\ SF_vars(IF part = "batch" THEN Take(s1) ELSE Pair!Take(s1))
    /\ WF_vars(IF part = "batch" THEN AckWait(m1) ELSE Pair!AckWait(m1))
    /\ SF_vars(IF part = "batch" THEN Deliver(m1, s1) ELSE \E s \in {s1, s2} : Pair!Deliver(m1, s))
    /\ WF_vars(IF part = "batch" THEN AckWait(m2) ELSE Pair!Step(s2))
    /\ SF_vars(IF part = "batch" THEN Deliver(m2, s1) ELSE Pair!Take(s2))

FlowSpec == FlowInit /\ [][FlowNext]_<<part, vars>> /\ FlowFairness

-----------------------------------------------------------------------------
\* The supervisors and the consumer have the states the code gives them.
FlowTypeOK == IF part = "batch" THEN TypeOK ELSE Pair!TypeOK

\* Every message is settled in the end, as long as one supervisor is not told to stop, and
\* no supervisor told to stop goes on for good, whatever its inbox holds.
FlowSettles ==
    /\ []<>(IF part = "batch" THEN Settled ELSE Pair!Settled)
    /\ \A s \in {s1, s2} : []<>(part = "pair" \/ s = s1 => Heard(s))
=============================================================================
