--------------------------- MODULE FlowUnitProofs ---------------------------
(***************************************************************************)
(* A flow loses no message and gives none up early, for any number of      *)
(* supervisors, messages and faults.                                       *)
(***************************************************************************)
EXTENDS FlowUnit, TLAPS

-----------------------------------------------------------------------------
(* The inductive invariant.                                                *)

\* What waits for its ack has its emits in the batch or beyond it,
Covered ==
    \A s \in Sups : \A m \in to_ack[s] : Emits(m) \subseteq stored \cup held[s]

\* and all of them beyond it once the batch is confirmed.
Confirmed == \A s \in Sups : pc[s] = "ack" => to_ack[s] \subseteq landed

\* A message is acked as dead only when it is.
Buried == \A s \in Sups : pc[s] = "buried" => cur[s].msg \in dead

\* The count a message carries is one the consumer reached,
Counted ==
    \A s \in Sups :
        /\ \A i \in 1..Len(inbox[s]) :
              inbox[s][i].delivered <= delivered[inbox[s][i].msg]
        /\ pc[s] \in {"bury", "buried"} =>
              /\ cur[s] \in Letter
              /\ cur[s].delivered <= delivered[cur[s].msg]
              /\ cur[s].msg \in Bad \/ cur[s].delivered >= MAX_DELIVERIES

IInv ==
    /\ TypeOK /\ Covered /\ Confirmed /\ Buried /\ Counted
    /\ NothingLost /\ DeadOnlyAtCap

-----------------------------------------------------------------------------
(* A step of supervisor s in general.                                      *)

\* Nothing read, buried or counted is taken back, and the others keep still.
Frame(s) ==
    /\ stored \subseteq stored' /\ dead \subseteq dead'
    /\ \A m \in Msgs : delivered[m] <= delivered'[m]
    /\ \A u \in Sups \ {s} :
          /\ pc'[u] = pc[u] /\ inbox'[u] = inbox[u] /\ held'[u] = held[u]
          /\ to_ack'[u] = to_ack[u] /\ cur'[u] = cur[u]

\* The invariant's parts about s alone.
CoveredOf(s)   == \A m \in to_ack[s] : Emits(m) \subseteq stored \cup held[s]
ConfirmedOf(s) == pc[s] = "ack" => to_ack[s] \subseteq landed
BuriedOf(s)    == pc[s] = "buried" => cur[s].msg \in dead
InboxOf(s)     == \A i \in 1..Len(inbox[s]) :
                     inbox[s][i].delivered <= delivered[inbox[s][i].msg]
CurOf(s)       == pc[s] \in {"bury", "buried"} =>
                     /\ cur[s] \in Letter
                     /\ cur[s].delivered <= delivered[cur[s].msg]
                     /\ cur[s].msg \in Bad \/ cur[s].delivered >= MAX_DELIVERIES

\* A step that keeps to its frame keeps the invariant if it keeps it for s.
LEMMA FrameStep ==
    ASSUME IInv, NEW s \in Sups, Frame(s), TypeOK',
           (CoveredOf(s) /\ ConfirmedOf(s) /\ BuriedOf(s) /\ InboxOf(s) /\ CurOf(s))',
           (NothingLost /\ DeadOnlyAtCap)'
    PROVE  IInv'
  <1> USE DEF IInv
  <1>1. landed \subseteq landed'
    BY DEF Frame, landed
  <1>2. Covered'
    <2> SUFFICES ASSUME NEW u \in Sups PROVE CoveredOf(u)'
      BY DEF Covered, CoveredOf
    <2>1. CASE u = s
      BY <2>1
    <2>2. CASE u # s
      BY <2>2 DEF Frame, Covered, CoveredOf
    <2> QED BY <2>1, <2>2
  <1>3. Confirmed'
    <2> SUFFICES ASSUME NEW u \in Sups PROVE ConfirmedOf(u)'
      BY DEF Confirmed, ConfirmedOf
    <2>1. CASE u = s
      BY <2>1
    <2>2. CASE u # s
      BY <1>1, <2>2 DEF Frame, Confirmed, ConfirmedOf
    <2> QED BY <2>1, <2>2
  <1>4. Buried'
    BY DEF Frame, Buried, BuriedOf
  <1>5. Counted'
    <2> SUFFICES ASSUME NEW u \in Sups PROVE InboxOf(u)' /\ CurOf(u)'
      BY DEF Counted, InboxOf, CurOf
    <2>1. CASE u = s
      BY <2>1
    <2>2. CASE u # s
      <3>t. /\ inbox[u] \in Seq(Letter)
            /\ delivered \in [Msgs -> Nat] /\ delivered' \in [Msgs -> Nat]
        BY FlowAssumption, SMTT(30) DEF TypeOK
      <3>0. /\ inbox'[u] = inbox[u] /\ pc'[u] = pc[u] /\ cur'[u] = cur[u]
            /\ \A m \in Msgs : delivered[m] <= delivered'[m]
        BY <2>2 DEF Frame
      <3>1. InboxOf(u)'
        <4> SUFFICES ASSUME NEW i \in 1..Len(inbox[u])
                     PROVE  inbox[u][i].delivered <= delivered'[inbox[u][i].msg]
          BY <3>0 DEF InboxOf
        <4>1. inbox[u][i].msg \in Msgs /\ inbox[u][i].delivered \in Nat
          <5>1. inbox[u][i] \in Letter
            BY <3>t
          <5> QED BY <5>1, FlowAssumption DEF Letter
        <4>2. inbox[u][i].delivered <= delivered[inbox[u][i].msg]
          BY DEF Counted
        <4> QED BY <3>t, <3>0, <4>1, <4>2
      <3>2. CurOf(u)'
        <4> SUFFICES ASSUME pc[u] \in {"bury", "buried"}
                     PROVE  /\ cur[u] \in Letter
                            /\ cur[u].delivered <= delivered'[cur[u].msg]
                            /\ cur[u].msg \in Bad \/ cur[u].delivered >= MAX_DELIVERIES
          BY <3>0 DEF CurOf
        <4>1. /\ cur[u] \in Letter
              /\ cur[u].delivered <= delivered[cur[u].msg]
              /\ cur[u].msg \in Bad \/ cur[u].delivered >= MAX_DELIVERIES
          BY DEF Counted
        <4>2. cur[u].msg \in Msgs /\ cur[u].delivered \in Nat
          BY <4>1, FlowAssumption DEF Letter
        <4> QED BY <3>t, <3>0, <4>1, <4>2
      <3> QED BY <3>1, <3>2
    <2> QED BY <2>1, <2>2
  <1> QED BY <1>2, <1>3, <1>4, <1>5

-----------------------------------------------------------------------------
\* No message is lost or given up in the initial state.
LEMMA InitInv == Init => IInv
  <1> SUFFICES ASSUME Init PROVE IInv
    OBVIOUS
  <1>1. TypeOK
    <2>1. inbox \in [Sups -> Seq(Letter)]
      BY DEF Init
    <2>2. cur \in [Sups -> Letter \cup {NoMsg}]
      BY DEF Init
    <2>3. faults \in 0..MaxFaults /\ taken \in [Sups -> 0..PULL_BATCH]
          /\ delivered \in [Msgs -> 0..MAX_DELIVERIES]
      BY FlowAssumption DEF Init
    <2> QED BY <2>1, <2>2, <2>3, Zenon DEF Init, TypeOK, Steps
  <1>2. Covered /\ Confirmed /\ Buried /\ Counted
    BY DEF Init, Covered, Confirmed, Buried, Counted
  <1>3. NothingLost /\ DeadOnlyAtCap
    BY DEF Init, NothingLost, DeadOnlyAtCap
  <1> QED BY <1>1, <1>2, <1>3 DEF IInv

\* The attempt's end, in whatever way, keeps the invariant.
LEMMA DropStep ==
    ASSUME IInv, NEW s \in Sups, AttemptFails(s) \/ SeeStop(s) \/ Crash(s)
    PROVE  IInv'
  <1> USE DEF IInv
  <1>1. /\ Drop(s) /\ faults' \in 0..MaxFaults /\ stop' \in [Sups -> BOOLEAN]
        /\ pc' \in [Sups -> Steps]
        /\ pc'[s] \in {"backoff", "stopped", "starting"}
        /\ \A u \in Sups \ {s} : pc'[u] = pc[u]
    <2> USE FlowAssumption DEF TypeOK, Steps, Goto, Fault
    <2>1. CASE AttemptFails(s)
      BY <2>1 DEF AttemptFails
    <2>2. CASE SeeStop(s)
      BY <2>2 DEF SeeStop
    <2>3. CASE Crash(s)
      BY <2>3 DEF Crash
    <2> QED BY <2>1, <2>2, <2>3
  <1>2. /\ UNCHANGED <<ready, delivered, acked, stored, dead>>
        /\ inbox'[s] = <<>> /\ held'[s] = {} /\ to_ack'[s] = {}
        /\ \A u \in Sups \ {s} :
              /\ inbox'[u] = inbox[u] /\ held'[u] = held[u]
              /\ to_ack'[u] = to_ack[u] /\ cur'[u] = cur[u]
    BY <1>1 DEF Drop, consumerVars, TypeOK
  <1>3. TypeOK'
    BY <1>1, <1>2, FlowAssumption DEF TypeOK, Drop
  <1>4. Frame(s)
    BY <1>1, <1>2, FlowAssumption DEF Frame, TypeOK
  <1>5. (CoveredOf(s) /\ ConfirmedOf(s) /\ BuriedOf(s) /\ InboxOf(s) /\ CurOf(s))'
    BY <1>1, <1>2 DEF CoveredOf, ConfirmedOf, BuriedOf, InboxOf, CurOf
  <1>6. (NothingLost /\ DeadOnlyAtCap)'
    BY <1>2 DEF NothingLost, DeadOnlyAtCap, landed
  <1> QED BY <1>3, <1>4, <1>5, <1>6, FrameStep

\* Steps that only move the supervisor on keep the invariant.
LEMMA MoveStep ==
    ASSUME IInv, NEW s \in Sups,
           Start(s) \/ Retry(s) \/ Pull(s) \/ RoundOver(s) \/ Stop(s)
    PROVE  IInv'
  <1> USE DEF IInv
  <1>1. /\ UNCHANGED <<ready, delivered, acked, stored, dead, stray, inbox, held, to_ack, cur>>
        /\ faults' \in 0..MaxFaults /\ stop' \in [Sups -> BOOLEAN]
        /\ taken' \in [Sups -> 0..PULL_BATCH]
        /\ pc' \in [Sups -> Steps]
        /\ pc'[s] = pc[s] \/ pc'[s] \notin {"bury", "buried", "ack"}
        /\ \A u \in Sups \ {s} : pc'[u] = pc[u]
    <2> USE FlowAssumption DEF TypeOK, Steps, Goto, Fault, consumerVars, localVars
    <2>1. CASE Start(s)
      BY <2>1 DEF Start
    <2>2. CASE Retry(s)
      BY <2>2 DEF Retry
    <2>3. CASE Pull(s)
      BY <2>3 DEF Pull
    <2>4. CASE RoundOver(s)
      BY <2>4 DEF RoundOver
    <2>5. CASE Stop(s)
      BY <2>5 DEF Stop
    <2> QED BY <2>1, <2>2, <2>3, <2>4, <2>5
  <1>2. TypeOK'
    BY <1>1 DEF TypeOK
  <1>3. Frame(s)
    BY <1>1, FlowAssumption DEF Frame, TypeOK
  <1>4. (CoveredOf(s) /\ ConfirmedOf(s) /\ BuriedOf(s) /\ InboxOf(s) /\ CurOf(s))'
    BY <1>1 DEF CoveredOf, ConfirmedOf, BuriedOf, InboxOf, CurOf,
       Covered, Confirmed, Buried, Counted, landed
  <1>5. (NothingLost /\ DeadOnlyAtCap)'
    BY <1>1 DEF NothingLost, DeadOnlyAtCap, landed
  <1> QED BY <1>2, <1>3, <1>4, <1>5, FrameStep

\* Working on a message keeps the invariant: it is queued for its ack together
\* with all its emits, or given up at the cap, or left alone.
LEMMA TakeStep == ASSUME IInv, NEW s \in Sups, Take(s) PROVE IInv'
  <1> USE DEF IInv
  <1> DEFINE h == Head(inbox[s])
  <1>t. /\ inbox \in [Sups -> Seq(Letter)] /\ inbox[s] # <<>> /\ pc[s] = "round"
        /\ pc \in [Sups -> Steps] /\ cur \in [Sups -> Letter \cup {NoMsg}]
        /\ taken \in [Sups -> 0..PULL_BATCH] /\ taken[s] < PULL_BATCH
        /\ held \in [Sups -> SUBSET (Msgs \X Parts)]
        /\ to_ack \in [Sups -> SUBSET Msgs]
        /\ inbox' = [inbox EXCEPT ![s] = Tail(@)]
        /\ taken' = [taken EXCEPT ![s] = @ + 1]
    BY DEF TypeOK, Take, TakesMsg, BadJson, RunOk, RunErr
  <1>1. /\ h = inbox[s][1] /\ 1 \in 1..Len(inbox[s]) /\ h \in Letter
        /\ inbox' \in [Sups -> Seq(Letter)]
        /\ Len(inbox'[s]) = Len(inbox[s]) - 1
        /\ \A i \in 1..(Len(inbox[s]) - 1) : inbox'[s][i] = inbox[s][i + 1]
        /\ Len(inbox[s]) \in Nat
    <2>1. inbox[s] \in Seq(Letter)
      BY <1>t
    <2>2. inbox'[s] = Tail(inbox[s])
      BY <1>t
    <2>3. Tail(inbox[s]) \in Seq(Letter)
      BY <1>t, <2>1
    <2> QED BY <1>t, <2>1, <2>2, <2>3
  <1>2. h.msg \in Msgs /\ h.delivered <= delivered[h.msg]
    BY <1>1, SMTT(30) DEF Letter, Counted
  <1>3. /\ UNCHANGED <<ready, delivered, acked, stored, dead, stray, stop, faults>>
        /\ \/ held' = held /\ to_ack' = to_ack
           \/ \E E \in SUBSET Emits(h.msg) :
                 held' = [held EXCEPT ![s] = @ \cup E] /\ to_ack' = to_ack
           \/ /\ held' = [held EXCEPT ![s] = @ \cup Emits(h.msg)]
              /\ to_ack' = [to_ack EXCEPT ![s] = @ \cup {h.msg}]
        /\ \/ pc' = pc /\ cur' = cur
           \/ /\ cur' = [cur EXCEPT ![s] = h] /\ pc' = [pc EXCEPT ![s] = "bury"]
              /\ h.msg \in Bad \/ h.delivered >= MAX_DELIVERIES
    <2> USE DEF consumerVars, Goto
    <2>1. CASE BadJson(s)
      BY <2>1 DEF BadJson
    <2>2. CASE RunOk(s)
      BY <2>2 DEF RunOk
    <2>3. CASE RunErr(s)
      BY <2>3, Zenon DEF RunErr
    <2> QED BY <2>1, <2>2, <2>3, SMTT(30) DEF Take
  <1>4. Emits(h.msg) \subseteq Msgs \X Parts
    BY <1>2 DEF Emits
  <1>5. /\ held' \in [Sups -> SUBSET (Msgs \X Parts)]
        /\ to_ack' \in [Sups -> SUBSET Msgs]
        /\ held[s] \subseteq held'[s]
        /\ \A u \in Sups \ {s} : held'[u] = held[u] /\ to_ack'[u] = to_ack[u]
        /\ \A m \in to_ack'[s] : m \in to_ack[s] \/ Emits(m) \subseteq held'[s]
    <2>1. CASE held' = held /\ to_ack' = to_ack
      BY <1>t, <2>1
    <2>2. CASE \E E \in SUBSET Emits(h.msg) :
                 held' = [held EXCEPT ![s] = @ \cup E] /\ to_ack' = to_ack
      BY <1>t, <1>4, <2>2
    <2>3. CASE /\ held' = [held EXCEPT ![s] = @ \cup Emits(h.msg)]
               /\ to_ack' = [to_ack EXCEPT ![s] = @ \cup {h.msg}]
      BY <1>t, <1>2, <1>4, <2>3, SMTT(30)
    <2> QED BY <1>3, <2>1, <2>2, <2>3
  <1>6. /\ pc' \in [Sups -> Steps] /\ cur' \in [Sups -> Letter \cup {NoMsg}]
        /\ \A u \in Sups \ {s} : pc'[u] = pc[u] /\ cur'[u] = cur[u]
        /\ \/ pc'[s] = "round"
           \/ /\ pc'[s] = "bury" /\ cur'[s] = h
              /\ h.msg \in Bad \/ h.delivered >= MAX_DELIVERIES
    <2>1. CASE pc' = pc /\ cur' = cur
      BY <1>t, <2>1
    <2>2. CASE /\ cur' = [cur EXCEPT ![s] = h] /\ pc' = [pc EXCEPT ![s] = "bury"]
               /\ h.msg \in Bad \/ h.delivered >= MAX_DELIVERIES
      BY <1>t, <1>1, <2>2, SMTT(30) DEF Steps
    <2> QED BY <1>3, <2>1, <2>2
  <1>7. TypeOK'
    <2>1. taken' \in [Sups -> 0..PULL_BATCH]
      BY <1>t, FlowAssumption, SMTT(30)
    <2> QED BY <1>1, <1>3, <1>5, <1>6, <2>1, SMTT(30) DEF TypeOK
  <1>8. Frame(s)
    BY <1>t, <1>3, <1>5, <1>6, FlowAssumption, SMTT(30) DEF Frame, TypeOK
  <1>9. (CoveredOf(s) /\ ConfirmedOf(s) /\ BuriedOf(s))'
    BY <1>3, <1>5, <1>6, SMTT(30) DEF CoveredOf, ConfirmedOf, BuriedOf, Covered
  <1>10. InboxOf(s)'
    <2> SUFFICES ASSUME NEW i \in 1..Len(inbox'[s])
                 PROVE  inbox'[s][i].delivered <= delivered'[inbox'[s][i].msg]
      BY DEF InboxOf
    <2>1. i + 1 \in 1..Len(inbox[s]) /\ inbox'[s][i] = inbox[s][i + 1]
      BY <1>1, SMTT(30)
    <2> QED BY <1>3, <2>1 DEF Counted
  <1>11. CurOf(s)'
    BY <1>1, <1>2, <1>3, <1>6 DEF CurOf
  <1>12. (NothingLost /\ DeadOnlyAtCap)'
    BY <1>3 DEF NothingLost, DeadOnlyAtCap, landed
  <1> QED BY <1>7, <1>8, <1>9, <1>10, <1>11, <1>12, FrameStep, SMTT(30)

\* Dead-lettering keeps the invariant: the ack comes after the write.
LEMMA BuryStep ==
    ASSUME IInv, NEW s \in Sups, BuryOk(s) \/ BuryFails(s) \/ AckBuried(s)
    PROVE  IInv'
  <1> USE DEF IInv
  <1>t. /\ pc \in [Sups -> Steps] /\ cur \in [Sups -> Letter \cup {NoMsg}]
        /\ delivered \in [Msgs -> 0..MAX_DELIVERIES] /\ faults \in 0..MaxFaults
        /\ ready \subseteq Msgs /\ acked \subseteq Msgs /\ dead \subseteq Msgs
        /\ pc[s] \in {"bury", "buried"}
    BY DEF TypeOK, BuryOk, BuryFails, AckBuried
  <1>1. /\ cur[s] \in Letter /\ cur[s].msg \in Msgs /\ cur[s].delivered \in Nat
        /\ cur[s].delivered <= delivered[cur[s].msg]
        /\ cur[s].msg \in Bad \/ cur[s].delivered >= MAX_DELIVERIES
    <2>1. /\ cur[s] \in Letter
          /\ cur[s].delivered <= delivered[cur[s].msg]
          /\ cur[s].msg \in Bad \/ cur[s].delivered >= MAX_DELIVERIES
      BY <1>t DEF Counted
    <2> QED BY <2>1, FlowAssumption DEF Letter
  <1>2. /\ UNCHANGED <<delivered, stored, stray, stop, inbox, taken, held, to_ack>>
        /\ faults' \in 0..MaxFaults
        /\ pc' \in [Sups -> Steps] /\ cur' \in [Sups -> Letter \cup {NoMsg}]
        /\ \A u \in Sups \ {s} : pc'[u] = pc[u] /\ cur'[u] = cur[u]
        /\ dead' \in {dead, dead \cup {cur[s].msg}}
        /\ \/ acked' = acked
           \/ cur[s].msg \in dead /\ acked' = acked \cup {cur[s].msg}
        /\ ready' \subseteq Msgs
        /\ \/ pc'[s] = "round"
           \/ pc'[s] = "buried" /\ cur' = cur /\ cur[s].msg \in dead'
    <2> USE FlowAssumption DEF Steps, Goto, Fault, consumerVars, localVars
    <2>1. CASE BuryOk(s)
      <3>1. /\ pc' \in [Sups -> Steps] /\ pc'[s] = "buried"
            /\ \A u \in Sups \ {s} : pc'[u] = pc[u]
        BY <2>1, <1>t DEF BuryOk
      <3>2. UNCHANGED <<ready, delivered, acked, stored, stray, stop, inbox, taken,
                        held, to_ack, cur, faults>>
        BY <2>1 DEF BuryOk
      <3>3. dead' = dead \cup {cur[s].msg}
        BY <2>1 DEF BuryOk
      <3> QED BY <1>t, <3>1, <3>2, <3>3
    <2>2. CASE BuryFails(s)
      <3>1. /\ pc' \in [Sups -> Steps] /\ pc'[s] = "round"
            /\ \A u \in Sups \ {s} : pc'[u] = pc[u]
        BY <2>2, <1>t DEF BuryFails
      <3>2. /\ cur' \in [Sups -> Letter \cup {NoMsg}]
            /\ \A u \in Sups \ {s} : cur'[u] = cur[u]
        BY <2>2, <1>t DEF BuryFails
      <3>3. /\ ready' \subseteq Msgs /\ acked' = acked /\ faults' \in 0..MaxFaults
            /\ UNCHANGED <<delivered, stored, stray, stop, inbox, taken, held, to_ack>>
            /\ dead' \in {dead, dead \cup {cur[s].msg}}
        BY <2>2, <1>t, <1>1, SMTT(30) DEF BuryFails, TakeNak
      <3> QED BY <3>1, <3>2, <3>3
    <2>3. CASE AckBuried(s)
      <3>1. /\ pc' \in [Sups -> Steps] /\ pc'[s] = "round"
            /\ \A u \in Sups \ {s} : pc'[u] = pc[u]
        BY <2>3, <1>t DEF AckBuried
      <3>2. /\ cur' \in [Sups -> Letter \cup {NoMsg}]
            /\ \A u \in Sups \ {s} : cur'[u] = cur[u]
        BY <2>3, <1>t DEF AckBuried
      <3>3. /\ ready' \subseteq Msgs /\ faults' \in 0..MaxFaults
            /\ acked' = acked \/ acked' = acked \cup {cur[s].msg}
            /\ UNCHANGED <<delivered, stored, dead, stray, stop, inbox, taken, held, to_ack>>
        BY <2>3, <1>t DEF AckBuried, TakeAcks
      <3>4. cur[s].msg \in dead
        BY <2>3 DEF AckBuried, Buried
      <3> QED BY <3>1, <3>2, <3>3, <3>4
    <2> QED BY <2>1, <2>2, <2>3
  <1>3. dead \subseteq dead' /\ dead' \subseteq Msgs /\ acked' \subseteq Msgs
    BY <1>t, <1>1, <1>2
  <1>4. TypeOK'
    BY <1>2, <1>3, SMTT(30) DEF TypeOK
  <1>5. Frame(s)
    BY <1>t, <1>2, <1>3, FlowAssumption, SMTT(30) DEF Frame
  <1>6. (CoveredOf(s) /\ ConfirmedOf(s) /\ BuriedOf(s) /\ InboxOf(s))'
    BY <1>2 DEF CoveredOf, ConfirmedOf, BuriedOf, InboxOf, Covered, Counted
  <1>7. CurOf(s)'
    BY <1>1, <1>2 DEF CurOf
  <1>8. NothingLost'
    BY <1>2, <1>3 DEF NothingLost, landed
  <1>9. DeadOnlyAtCap'
    BY <1>t, <1>1, <1>2, FlowAssumption DEF DeadOnlyAtCap
  <1> QED BY <1>4, <1>5, <1>6, <1>7, <1>8, <1>9, FrameStep

\* The barrier and the acks behind it keep the invariant: Ok puts everything
\* held beyond the barrier, an error forgets the acks with it.
LEMMA ConfirmStep ==
    ASSUME IInv, NEW s \in Sups, ConfirmOk(s) \/ ConfirmErr(s) \/ AckAll(s)
    PROVE  IInv'
  <1> USE DEF IInv
  <1>t. /\ pc \in [Sups -> Steps] /\ held \in [Sups -> SUBSET (Msgs \X Parts)]
        /\ to_ack \in [Sups -> SUBSET Msgs] /\ stored \subseteq (Msgs \X Parts)
        /\ ready \subseteq Msgs /\ acked \subseteq Msgs /\ faults \in 0..MaxFaults
    BY SMTT(30) DEF TypeOK
  <1>1. /\ UNCHANGED <<delivered, dead, stray, stop, inbox, taken, cur>>
        /\ faults' \in 0..MaxFaults
        /\ pc' \in [Sups -> Steps] /\ held' \in [Sups -> SUBSET (Msgs \X Parts)]
        /\ to_ack' \in [Sups -> SUBSET Msgs]
        /\ stored \subseteq stored' /\ stored' \subseteq (Msgs \X Parts)
        /\ ready' \subseteq Msgs /\ acked' \subseteq Msgs
        /\ \A u \in Sups \ {s} :
              pc'[u] = pc[u] /\ held'[u] = held[u] /\ to_ack'[u] = to_ack[u]
        /\ acked' \subseteq acked \cup landed
        /\ \/ pc'[s] = "top" /\ to_ack'[s] = {}
           \/ /\ pc'[s] = "ack" /\ to_ack' = to_ack
              /\ stored' = stored \cup held[s]
    <2> USE FlowAssumption DEF Steps, Goto, Fault, consumerVars
    <2>1. CASE ConfirmOk(s)
      BY <2>1, <1>t DEF ConfirmOk
    <2>2. CASE ConfirmErr(s)
      <3>1. PICK E \in SUBSET held[s] : stored' = stored \cup E
        BY <2>2 DEF ConfirmErr
      <3>2. stored \subseteq stored' /\ stored' \subseteq (Msgs \X Parts)
        BY <1>t, <3>1
      <3> QED BY <2>2, <1>t, <3>2 DEF ConfirmErr
    <2>3. CASE AckAll(s)
      <3>1. to_ack[s] \subseteq landed /\ to_ack[s] \subseteq Msgs
        BY <1>t, <2>3 DEF AckAll, Confirmed
      <3>2. PICK S \in SUBSET to_ack[s] : TakeAcks(S)
        BY <2>3 DEF AckAll
      <3>3. /\ acked' \subseteq acked \cup landed /\ acked' \subseteq Msgs
            /\ ready' \subseteq Msgs /\ delivered' = delivered
        BY <1>t, <3>1, <3>2 DEF TakeAcks
      <3> QED BY <2>3, <1>t, <3>3 DEF AckAll
    <2> QED BY <2>1, <2>2, <2>3
  <1>2. landed \subseteq landed'
    BY <1>1 DEF landed
  <1>3. TypeOK'
    BY <1>1 DEF TypeOK
  <1>4. Frame(s)
    BY <1>1, FlowAssumption, SMTT(30) DEF Frame, TypeOK
  <1>5. (CoveredOf(s) /\ ConfirmedOf(s))'
    <2>1. CASE pc'[s] = "top" /\ to_ack'[s] = {}
      BY <2>1 DEF CoveredOf, ConfirmedOf
    <2>2. CASE /\ pc'[s] = "ack" /\ to_ack' = to_ack
               /\ stored' = stored \cup held[s]
      BY <1>t, <2>2, SMTT(30) DEF CoveredOf, ConfirmedOf, Covered, landed
    <2> QED BY <1>1, <2>1, <2>2
  <1>6. (BuriedOf(s) /\ InboxOf(s) /\ CurOf(s))'
    BY <1>1, SMTT(30) DEF BuriedOf, InboxOf, CurOf, Counted
  <1>7. (NothingLost /\ DeadOnlyAtCap)'
    BY <1>1, <1>2 DEF NothingLost, DeadOnlyAtCap
  <1> QED BY <1>3, <1>4, <1>5, <1>6, <1>7, FrameStep

\* The consumer's steps keep the invariant: a count only grows, and an inbox
\* gets a message with the count just reached.
LEMMA ConsumerStep ==
    ASSUME IInv, NEW m \in Msgs, NEW s \in Sups,
           Deliver(m, s) \/ DeliverStray(m) \/ AckWait(m) \/ RequestExpires
    PROVE  IInv'
  <1> USE DEF IInv
  <1>t. /\ delivered \in [Msgs -> 0..MAX_DELIVERIES] /\ inbox \in [Sups -> Seq(Letter)]
        /\ ready \subseteq Msgs /\ stray \in BOOLEAN
    BY DEF TypeOK
  <1>1. /\ UNCHANGED <<acked, stored, dead, pc, stop, taken, held, to_ack, cur, faults>>
        /\ delivered' \in [Msgs -> 0..MAX_DELIVERIES]
        /\ \A k \in Msgs : delivered[k] <= delivered'[k]
        /\ ready' \subseteq Msgs /\ stray' \in BOOLEAN
        /\ \/ inbox' = inbox
           \/ /\ delivered'[m] \in 1..MAX_DELIVERIES
              /\ inbox' = [inbox EXCEPT ![s] =
                             Append(@, [msg |-> m, delivered |-> delivered'[m]])]
    <2> USE FlowAssumption
    <2>1. ASSUME Handed(m)
          PROVE  /\ delivered' \in [Msgs -> 0..MAX_DELIVERIES]
                 /\ \A k \in Msgs : delivered[k] <= delivered'[k]
                 /\ delivered'[m] \in 1..MAX_DELIVERIES
                 /\ ready' \subseteq Msgs
                 /\ UNCHANGED <<acked, stored, dead, pc, stop, taken, held, to_ack, cur, faults>>
      BY <2>1, <1>t DEF Handed
    <2>2. CASE Deliver(m, s)
      BY <2>1, <2>2, <1>t DEF Deliver
    <2>3. CASE DeliverStray(m)
      BY <2>1, <2>3, <1>t DEF DeliverStray
    <2>4. CASE AckWait(m)
      BY <2>4, <1>t DEF AckWait, localVars
    <2>5. CASE RequestExpires
      <3>1. /\ UNCHANGED <<ready, delivered, acked, stored, dead, pc, stop,
                           inbox, taken, held, to_ack, cur, faults>>
            /\ stray' \in BOOLEAN
        BY <2>5, ZenonT(30) DEF RequestExpires, consumerVars, localVars
      <3> QED BY <1>t, <3>1
    <2> QED BY <2>2, <2>3, <2>4, <2>5
  <1>l. /\ Len(inbox[s]) \in Nat
        /\ \A i \in 1..Len(inbox[s]) :
              /\ inbox[s][i].msg \in Msgs /\ inbox[s][i].delivered \in Nat
              /\ inbox[s][i].delivered <= delivered[inbox[s][i].msg]
    <2>1. \A i \in 1..Len(inbox[s]) : inbox[s][i] \in Letter
      BY <1>t
    <2>2. \A h \in Letter : h.msg \in Msgs /\ h.delivered \in Nat
      BY FlowAssumption, SMTT(30) DEF Letter
    <2> QED BY <1>t, <2>1, <2>2, SMTT(30) DEF Counted
  <1>2. /\ inbox' \in [Sups -> Seq(Letter)]
        /\ \A u \in Sups \ {s} : inbox'[u] = inbox[u]
        /\ \A i \in 1..Len(inbox'[s]) :
              \/ i \in 1..Len(inbox[s]) /\ inbox'[s][i] = inbox[s][i]
              \/ inbox'[s][i] = [msg |-> m, delivered |-> delivered'[m]]
    <2>1. CASE inbox' = inbox
      BY <1>t, <2>1, SMTT(30)
    <2>2. CASE /\ delivered'[m] \in 1..MAX_DELIVERIES
               /\ inbox' = [inbox EXCEPT ![s] =
                             Append(@, [msg |-> m, delivered |-> delivered'[m]])]
      <3> DEFINE h == [msg |-> m, delivered |-> delivered'[m]]
      <3>1. h \in Letter
        BY <2>2 DEF Letter
      <3>2. inbox[s] \in Seq(Letter)
        BY <1>t
      <3>3. inbox'[s] = Append(inbox[s], h)
        BY <1>t, <2>2
      <3> HIDE DEF h
      <3>4. Append(inbox[s], h) \in Seq(Letter)
        BY <3>1, <3>2
      <3>5. \A i \in 1..Len(inbox'[s]) :
              \/ i \in 1..Len(inbox[s]) /\ inbox'[s][i] = inbox[s][i]
              \/ inbox'[s][i] = h
        BY <3>1, <3>2, <3>3
      <3>6. inbox' \in [Sups -> Seq(Letter)] /\ \A u \in Sups \ {s} : inbox'[u] = inbox[u]
        BY <1>t, <2>2, <3>3, <3>4, SMTT(30)
      <3> QED BY <3>5, <3>6, SMTT(30) DEF h
    <2> QED BY <1>1, <2>1, <2>2, SMTT(30)
  <1>3. TypeOK'
    BY <1>1, <1>2, ZenonT(30) DEF TypeOK
  <1>4. Frame(s)
    BY <1>1, <1>2, SMTT(30) DEF Frame
  <1>5. (CoveredOf(s) /\ ConfirmedOf(s) /\ BuriedOf(s))'
    BY <1>1, SMTT(30) DEF CoveredOf, ConfirmedOf, BuriedOf, Covered, Confirmed, Buried, landed
  <1>6. InboxOf(s)'
    <2> SUFFICES ASSUME NEW i \in 1..Len(inbox'[s])
                 PROVE  inbox'[s][i].delivered <= delivered'[inbox'[s][i].msg]
      BY SMTT(30) DEF InboxOf
    <2>1. CASE i \in 1..Len(inbox[s]) /\ inbox'[s][i] = inbox[s][i]
      BY <1>t, <1>1, <1>l, <2>1, FlowAssumption, SMTT(30)
    <2>2. CASE inbox'[s][i] = [msg |-> m, delivered |-> delivered'[m]]
      BY <1>1, <2>2, FlowAssumption, SMTT(30)
    <2> QED BY <1>2, <2>1, <2>2
  <1>7. CurOf(s)'
    <2> SUFFICES ASSUME pc[s] \in {"bury", "buried"}
                 PROVE  /\ cur[s] \in Letter
                        /\ cur[s].delivered <= delivered'[cur[s].msg]
                        /\ cur[s].msg \in Bad \/ cur[s].delivered >= MAX_DELIVERIES
      BY <1>1 DEF CurOf
    <2>1. /\ cur[s] \in Letter
          /\ cur[s].delivered <= delivered[cur[s].msg]
          /\ cur[s].msg \in Bad \/ cur[s].delivered >= MAX_DELIVERIES
      BY DEF Counted
    <2>2. cur[s].msg \in Msgs /\ cur[s].delivered \in Nat
      BY <2>1, FlowAssumption DEF Letter
    <2> QED BY <1>t, <1>1, <2>1, <2>2, FlowAssumption, SMTT(30)
  <1>8. NothingLost'
    BY <1>1 DEF NothingLost, landed
  <1>9. DeadOnlyAtCap'
    <2> SUFFICES ASSUME NEW k \in dead \ Bad PROVE delivered'[k] >= MAX_DELIVERIES
      BY <1>1 DEF DeadOnlyAtCap
    <2>1. k \in Msgs /\ delivered[k] >= MAX_DELIVERIES
      BY DEF DeadOnlyAtCap, TypeOK
    <2> QED BY <1>t, <1>1, <2>1, FlowAssumption
  <1> QED BY <1>3, <1>4, <1>5, <1>6, <1>7, <1>8, <1>9, FrameStep

-----------------------------------------------------------------------------
\* Every step keeps the invariant.
LEMMA StepInv == IInv /\ [Next]_vars => IInv'
  <1> SUFFICES ASSUME IInv, [Next]_vars PROVE IInv'
    OBVIOUS
  <1>1. ASSUME NEW s \in Sups, Step(s) \/ Take(s) \/ AttemptFails(s) \/ Stop(s) \/ Crash(s)
        PROVE  IInv'
    BY <1>1, DropStep, MoveStep, TakeStep, BuryStep, ConfirmStep DEF Step
  <1>2. ASSUME NEW m \in Msgs,
               AckWait(m) \/ DeliverStray(m) \/ \E s \in Sups : Deliver(m, s)
        PROVE  IInv'
    BY <1>2, ConsumerStep, FlowAssumption, SMTT(30)
  <1>3. CASE RequestExpires
    <2>1. /\ UNCHANGED <<ready, delivered, acked, stored, dead, pc, stop,
                         inbox, taken, held, to_ack, cur, faults>>
          /\ stray' \in BOOLEAN
      BY <1>3, Zenon DEF RequestExpires, consumerVars, localVars
    <2> QED BY <2>1, Zenon DEF IInv, TypeOK, Covered, Confirmed, Buried, Counted,
               NothingLost, DeadOnlyAtCap, landed
  <1>4. CASE UNCHANGED vars
    BY <1>4, Zenon DEF vars, IInv, TypeOK, Covered, Confirmed, Buried, Counted,
       NothingLost, DeadOnlyAtCap, landed
  <1> QED BY <1>1, <1>2, <1>3, <1>4 DEF Next

\* Publish before ack: no flow, on any number of runtimes and through any
\* faults, has a message acked whose output is neither on the bus nor in the
\* dead-letter queue.
THEOREM FlowLosesNothing == Spec => [](TypeOK /\ NothingLost)
  <1>1. IInv => TypeOK /\ NothingLost
    BY DEF IInv
  <1> QED BY InitInv, StepInv, <1>1, PTL DEF Spec

\* The dead-letter queue is the last resort: whatever is lost, retried or taken over by
\* another runtime, a message that is JSON is buried at MAX_DELIVERIES and not before.
THEOREM DeadLettersAreSpent == Spec => []DeadOnlyAtCap
  <1>1. IInv => DeadOnlyAtCap
    BY DEF IInv
  <1> QED BY InitInv, StepInv, <1>1, PTL DEF Spec

-----------------------------------------------------------------------------
\* Every step of the flow is one of the promise: output lands, a message is
\* buried, or messages whose output landed or that are buried are settled.
LEMMA StepRefines == IInv /\ [Next]_vars => [Promise!Next]_(Promise!aloVars)
  <1> SUFFICES ASSUME IInv, [Next]_vars
               PROVE  Promise!Next \/ UNCHANGED Promise!aloVars
    BY DEF Promise!aloVars
  <1> USE DEF IInv
  <1>0. IInv'
    BY StepInv
  <1>a. stored' = stored => landed' = landed
    BY DEF landed
  <1>b. ASSUME stored \subseteq stored', UNCHANGED <<dead, acked>>
        PROVE  Promise!Next
    <2>1. landed' = landed \cup landed' /\ landed' \in SUBSET Msgs
      BY <1>b DEF landed
    <2> QED BY <1>b, <2>1 DEF Promise!Next, Promise!Land
  <1>c. ASSUME UNCHANGED stored, NEW m \in Msgs, dead' = dead \cup {m}, acked' = acked
        PROVE  Promise!Next
    BY <1>a, <1>c DEF Promise!Next, Promise!Bury
  <1>d. ASSUME UNCHANGED <<stored, dead>>, NEW S \in SUBSET Msgs, acked' = acked \cup S,
               S \subseteq landed \cup dead
        PROVE  Promise!Next
    BY <1>a, <1>d DEF Promise!Next, Promise!Settle
  <1>e. ASSUME UNCHANGED <<stored, dead, acked>> PROVE UNCHANGED Promise!aloVars
    BY <1>a, <1>e, SMTT(30) DEF Promise!aloVars
  <1>1. ASSUME NEW s \in Sups,
               \/ Start(s) \/ Retry(s) \/ Pull(s) \/ RoundOver(s) \/ Stop(s) \/ Take(s)
               \/ AttemptFails(s) \/ SeeStop(s) \/ Crash(s)
        PROVE  UNCHANGED <<stored, dead, acked>>
    BY <1>1, Zenon DEF Start, Retry, Pull, RoundOver, Stop, Take, BadJson, RunOk, RunErr,
       AttemptFails, SeeStop, Crash, Drop, consumerVars
  <1>2. ASSUME NEW s \in Sups, BuryOk(s) \/ BuryFails(s)
        PROVE  Promise!Next \/ UNCHANGED <<stored, dead, acked>>
    <2>1. cur[s].msg \in Msgs
      BY <1>2, SMTT(30) DEF BuryOk, BuryFails, Counted, Letter
    <2>2. /\ UNCHANGED <<stored, acked>>
          /\ dead' = dead \/ dead' = dead \cup {cur[s].msg}
      BY <1>2 DEF BuryOk, BuryFails, TakeNak, consumerVars
    <2> QED BY <1>c, <2>1, <2>2
  <1>3. ASSUME NEW s \in Sups, AckBuried(s)
        PROVE  Promise!Next \/ UNCHANGED <<stored, dead, acked>>
    <2>1. cur[s].msg \in Msgs /\ cur[s].msg \in dead
      BY <1>3 DEF AckBuried, Counted, Letter, Buried
    <2>2. /\ UNCHANGED <<stored, dead>>
          /\ acked' = acked \/ acked' = acked \cup {cur[s].msg}
      BY <1>3 DEF AckBuried, TakeAcks, consumerVars
    <2> QED BY <1>d, <2>1, <2>2, ZenonT(30)
  <1>4. ASSUME NEW s \in Sups, ConfirmOk(s) \/ ConfirmErr(s) PROVE Promise!Next
    BY <1>4, <1>b DEF ConfirmOk, ConfirmErr, consumerVars
  <1>5. ASSUME NEW s \in Sups, AckAll(s) PROVE Promise!Next
    <2>1. to_ack[s] \subseteq landed /\ to_ack[s] \subseteq Msgs
      BY <1>5 DEF AckAll, Confirmed, TypeOK
    <2>2. PICK S \in SUBSET to_ack[s] : TakeAcks(S) /\ UNCHANGED <<stored, dead>>
      BY <1>5 DEF AckAll
    <2> QED BY <1>d, <2>1, <2>2 DEF TakeAcks
  <1>6. ASSUME NEW m \in Msgs,
               AckWait(m) \/ DeliverStray(m) \/ \E s \in Sups : Deliver(m, s)
        PROVE  UNCHANGED <<stored, dead, acked>>
    BY <1>6 DEF AckWait, DeliverStray, Deliver, Handed
  <1>7. CASE RequestExpires \/ UNCHANGED vars
    BY <1>7, <1>e DEF RequestExpires, consumerVars, vars
  <1> QED BY <1>1, <1>2, <1>3, <1>4, <1>5, <1>6, <1>7, <1>e DEF Next, Step

\* A flow is an at-least-once consumer.
THEOREM FlowIsAtLeastOnce == Spec => ImplementsAtLeastOnce
  <1>1. ASSUME Init PROVE Promise!Init
    <2>1. PICK p : p \in Parts
      BY FlowAssumption
    <2>2. \A m \in Msgs : <<m, p>> \in Emits(m)
      BY <2>1 DEF Emits
    <2>3. landed = {}
      BY <1>1, <2>2, Zenon DEF Init, landed
    <2> QED BY <1>1, <2>3 DEF Init, Promise!Init
  <1> QED BY <1>1, InitInv, StepInv, StepRefines, PTL
          DEF Spec, ImplementsAtLeastOnce, Promise!Spec
=============================================================================
