----------------------------- MODULE AtLeastOnce ----------------------------
(***************************************************************************)
(* What a bus consumer of the runtime promises (ADR-0002): a message is    *)
(* settled, so that it is never delivered again, only once its output has  *)
(* landed or it lies in the dead-letter queue.  Output may land more than  *)
(* once and may land for a message that is dead-lettered later; it is      *)
(* never taken back.                                                       *)
(***************************************************************************)
CONSTANTS Msgs      \* the messages of the unit's source subjects

VARIABLES
    landed,   \* messages whose whole output has reached its destination
    dead,     \* messages kept in the dead-letter queue
    settled   \* messages whose ack the server holds

aloVars == <<landed, dead, settled>>

Init == landed = {} /\ dead = {} /\ settled = {}

Land(S) ==
    /\ landed' = landed \cup S
    /\ UNCHANGED <<dead, settled>>

Bury(m) ==
    /\ dead' = dead \cup {m}
    /\ UNCHANGED <<landed, settled>>

Settle(S) ==
    /\ S \subseteq landed \cup dead
    /\ settled' = settled \cup S
    /\ UNCHANGED <<landed, dead>>

Next ==
    \/ \E S \in SUBSET Msgs : Land(S) \/ Settle(S)
    \/ \E m \in Msgs : Bury(m)

Spec == Init /\ [][Next]_aloVars
=============================================================================
