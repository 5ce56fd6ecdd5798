---------------------------- MODULE DeadLetters -----------------------------
(***************************************************************************)
(* The dead-letter stream of one runtime: units park poison in it (to_dlq, *)
(* core/src/connectors.rs) and announce it on <root>.dlq.events, at most   *)
(* once per gap and unit; people replay it, letter by letter, or purge it  *)
(* (dlq_replay, dlq_purge, core/src/main.rs).                              *)
(*                                                                         *)
(* A letter is its sequence in the stream.  Reader is the unit that reads  *)
(* the announcements: what it dead-letters came in on their subject.       *)
(***************************************************************************)
EXTENDS Naturals, FiniteSets, Sequences, SequencesExt, FiniteSetsExt

CONSTANTS
    Units, Reader, \* Reader is one of the units
    Callers,       \* threads that replay and purge
    MAX_MSGS,      \* DLQ_MAX_MSGS, 100000 in the code
    GAP,           \* VEJAS_DLQ_EVENT_SECS
    MaxLetters,    \* bound: letters
    MaxEvents      \* bound: requests and faults

VARIABLES
    letters,  \* the unit of every letter so far
    dlq,      \* the letters in the stream
    dropped,  \* letters the full stream has discarded
    purged,   \* letters somebody has purged
    out,      \* times each letter was published again on its subject
    caller,   \* what each caller does: its request and the letters it has yet to do
    overlap,  \* two callers once had the same letter to do
    stage,    \* each unit: "idle", or "stored" when its letter is not announced yet
    count,    \* DLQ_ANNOUNCEMENTS: letters not announced yet
    since,    \* seconds since the unit's last announcement, at most GAP
    hand,     \* announcements taken and not yet published, as <<unit, count>>
    told,     \* letters the published announcements stand for
    flusher,  \* DLQ_FLUSHER
    faults, events
vars == <<letters, dlq, dropped, purged, out, caller, overlap, stage, count, since, hand, told,
          flusher, faults, events>>
streamVars == <<letters, dlq, dropped, purged, out, caller, overlap>>
newsVars   == <<stage, count, since, hand, told, flusher>>

Happens     == events < MaxEvents /\ events' = events + 1
Fault(kind) == faults' = faults \cup {kind} /\ Happens
Idle == [op |-> "idle", todo |-> <<>>]

Init ==
    /\ letters = <<>> /\ dlq = {} /\ dropped = {} /\ purged = {} /\ out = <<>>
    /\ caller = [c \in Callers |-> Idle] /\ overlap = FALSE
    /\ stage = [u \in Units |-> "idle"]
    /\ count = [u \in Units |-> 0] /\ since = [u \in Units |-> GAP]
    /\ hand = <<>> /\ told = [u \in Units |-> 0] /\ flusher = FALSE
    /\ faults = {} /\ events = 0

-----------------------------------------------------------------------------
\* to_dlq: the stream has the letter; a full stream discards its oldest.
Store(u) ==
    LET s == Len(letters) + 1
        full == Cardinality(dlq) = MAX_MSGS
    IN  /\ stage[u] = "idle" /\ Len(letters) < MaxLetters
        /\ letters' = Append(letters, u) /\ out' = Append(out, 0)
        /\ dlq' = (IF full THEN dlq \ {Min(dlq)} ELSE dlq) \cup {s}
        /\ dropped' = IF full THEN dropped \cup {Min(dlq)} ELSE dropped
        /\ stage' = [stage EXCEPT ![u] = "stored"]
        /\ UNCHANGED <<purged, caller, overlap, count, since, hand, told, flusher, faults, events>>

\* take_due_dlq_events, under the lock: every unit with news and no recent event.
Due(cnt) == {u \in Units : cnt[u] > 0 /\ since[u] >= GAP}
Take(cnt) ==
    /\ hand' = hand \o [i \in 1..Cardinality(Due(cnt)) |->
                           LET u == SetToSeq(Due(cnt))[i] IN <<u, cnt[u]>>]
    /\ since' = [u \in Units |-> IF u \in Due(cnt) THEN 0 ELSE since[u]]
    /\ count' = [u \in Units |-> IF u \in Due(cnt) THEN 0 ELSE cnt[u]]

\* announce_dead_letter: counted, published if due; the first one starts the flusher.
\* Mutant: nobody flushes.
Counted(u) ==
    /\ stage[u] = "stored"
    /\ stage' = [stage EXCEPT ![u] = "idle"]
    /\ Take([count EXCEPT ![u] = @ + 1])
    /\ UNCHANGED <<told, streamVars>>
AnnounceNoFlusher(u) == Counted(u) /\ UNCHANGED <<flusher, faults, events>>
Announce(u) ==
    /\ u # Reader
    /\ Counted(u)
    /\ flusher' = (flusher \/ GAP > 0)
    /\ UNCHANGED <<faults, events>>
\* The flusher's thread cannot be had: the next letter tries again.
AnnounceNoThread(u) ==
    /\ u # Reader /\ ~flusher /\ GAP > 0
    /\ Fault("thread")
    /\ Counted(u)
    /\ UNCHANGED flusher
\* A letter of the announcements' own subject is not announced.
AnnounceNot ==
    /\ stage[Reader] = "stored"
    /\ stage' = [stage EXCEPT ![Reader] = "idle"]
    /\ UNCHANGED <<count, since, hand, told, flusher, streamVars, faults, events>>

\* The flusher's round, once a second.
Flush ==
    /\ flusher /\ Due(count) # {}
    /\ Take(count)
    /\ UNCHANGED <<stage, told, flusher, streamVars, faults, events>>
Tick ==
    /\ \E u \in Units : since[u] < GAP
    /\ since' = [u \in Units |-> IF since[u] < GAP THEN since[u] + 1 ELSE GAP]
    /\ UNCHANGED <<stage, count, hand, told, flusher, streamVars, faults, events>>

\* publish_dlq_event, best effort.
Tell ==
    /\ hand # <<>>
    /\ told' = [told EXCEPT ![hand[1][1]] = @ + hand[1][2]]
    /\ hand' = Tail(hand)
    /\ UNCHANGED <<stage, count, since, flusher, streamVars, faults, events>>
TellFails ==
    /\ hand # <<>>
    /\ Fault("news")
    /\ hand' = Tail(hand)
    /\ UNCHANGED <<stage, count, since, told, flusher, streamVars>>

-----------------------------------------------------------------------------
\* The letters a request is about: dlq_list goes from the newest to the oldest.
Newest(set) == SortSeq(SetToSeq(set), LAMBDA a, b : a > b)
OfUnit(u)   == Newest({s \in dlq : letters[s] = u})
Holds(c)    == ToSet(caller[c].todo)
Begins(c, op, todo) ==
    /\ caller[c] = Idle
    /\ Happens
    /\ caller' = [caller EXCEPT ![c] = IF todo = <<>> THEN Idle ELSE [op |-> op, todo |-> todo]]
    /\ overlap' = (overlap \/ \E d \in Callers \ {c} : Holds(d) \cap ToSet(todo) # {})
    /\ UNCHANGED <<letters, dropped, out, newsVars, faults>>
Replay(c) ==
    /\ \/ \E s \in dlq : Begins(c, "replay", <<s>>)
       \/ \E u \in Units : Begins(c, "replay", OfUnit(u))
       \/ Begins(c, "replay", Newest(dlq))
    /\ UNCHANGED <<dlq, purged>>
Purge(c) ==
    \/ \E s \in dlq : Begins(c, "purge", <<s>>) /\ UNCHANGED <<dlq, purged>>
    \/ \E u \in Units : Begins(c, "purge", OfUnit(u)) /\ UNCHANGED <<dlq, purged>>
    \/ Begins(c, "purge", <<>>) /\ purged' = purged \cup dlq /\ dlq' = {}

Rest(c) == [caller EXCEPT ![c] = IF Len(@.todo) = 1 THEN Idle ELSE [@ EXCEPT !.op = "replay", !.todo = Tail(@)]]

\* dlq_replay: publish, then delete; what cannot be published stays.
\* Mutant: the letter is deleted whatever became of its publish.
Publish(c) ==
    /\ caller[c].op = "replay"
    /\ out' = [out EXCEPT ![Head(caller[c].todo)] = @ + 1]
    /\ caller' = [caller EXCEPT ![c].op = "delete"]
    /\ UNCHANGED <<letters, dlq, dropped, purged, overlap, newsVars, faults, events>>
PublishFailsDeletes(c) ==
    /\ caller[c].op = "replay"
    /\ Fault("publish")
    /\ caller' = [caller EXCEPT ![c].op = "delete"]
    /\ UNCHANGED <<letters, dlq, dropped, purged, out, overlap, newsVars>>
PublishFails(c) ==
    /\ caller[c].op = "replay"
    /\ Fault("publish")
    /\ caller' = Rest(c)
    /\ UNCHANGED <<letters, dlq, dropped, purged, out, overlap, newsVars>>

\* The delete's own result is not looked at.
Delete(c) ==
    /\ caller[c].op = "delete"
    /\ dlq' = dlq \ {Head(caller[c].todo)}
    /\ caller' = Rest(c)
    /\ UNCHANGED <<letters, dropped, purged, out, overlap, newsVars, faults, events>>
DeleteFails(c) ==
    /\ caller[c].op \in {"delete", "purge"}
    /\ Fault("delete")
    /\ caller' = IF caller[c].op = "delete" THEN Rest(c)
                 ELSE [caller EXCEPT ![c] = IF Len(@.todo) = 1 THEN Idle ELSE [@ EXCEPT !.todo = Tail(@)]]
    /\ UNCHANGED <<letters, dlq, dropped, purged, out, overlap, newsVars>>

\* dlq_purge deletes one letter.
PurgeOne(c) ==
    LET s == Head(caller[c].todo)
    IN  /\ caller[c].op = "purge"
        /\ purged' = IF s \in dlq THEN purged \cup {s} ELSE purged
        /\ dlq' = dlq \ {s}
        /\ caller' = [caller EXCEPT ![c] = IF Len(@.todo) = 1 THEN Idle ELSE [@ EXCEPT !.todo = Tail(@)]]
        /\ UNCHANGED <<letters, dropped, out, overlap, newsVars, faults, events>>

\* The process dies: the stream is what is left.
Crash ==
    /\ Fault("crash")
    /\ caller' = [c \in Callers |-> Idle]
    /\ stage' = [u \in Units |-> "idle"]
    /\ count' = [u \in Units |-> 0] /\ since' = [u \in Units |-> GAP]
    /\ hand' = <<>> /\ flusher' = FALSE
    /\ UNCHANGED <<letters, dlq, dropped, purged, out, overlap, told>>

-----------------------------------------------------------------------------
Works(c) == Publish(c) \/ Delete(c) \/ PurgeOne(c)
News     == Flush \/ Tick \/ Tell \/ AnnounceNot \/ \E u \in Units : Announce(u)
Next ==
    \/ \E u \in Units : Store(u)
    \/ \E c \in Callers : Replay(c) \/ Purge(c) \/ Works(c) \/ PublishFails(c) \/ DeleteFails(c)
    \/ News \/ TellFails \/ Crash \/ \E u \in Units : AnnounceNoThread(u)
Progress == News \/ \E c \in Callers : Works(c)
Spec == Init /\ [][Next]_vars /\ WF_vars(Progress)

-----------------------------------------------------------------------------
\* Letters are in the stream under their sequences, and callers hold some of them.
TypeOK ==
    /\ letters \in Seq(Units) /\ Len(letters) <= MaxLetters /\ DOMAIN out = DOMAIN letters
    /\ dlq \subseteq DOMAIN letters /\ Cardinality(dlq) <= MAX_MSGS
    /\ \A c \in Callers : Holds(c) \subseteq DOMAIN letters
    /\ since \in [Units -> 0..GAP]

\* A letter leaves the stream because it is on its subject again, because somebody
\* purged it or because the stream was full: a replay that fails half way, or dies,
\* keeps what it has not published.
NoLetterVanishes ==
    \A s \in DOMAIN letters : s \in dlq \cup dropped \cup purged \/ out[s] > 0

\* A letter goes out once, unless two replays took it up together, or one could not
\* delete it or died before it did.
ReplayedOnce ==
    ~overlap /\ faults \cap {"delete", "crash"} = {} => \A s \in DOMAIN out : out[s] <= 1

\* The announcements' counts add up: every letter is announced once, those on the
\* announcements' own subject never, so a reader that fails does not feed itself.
Letters(u) == Cardinality({s \in DOMAIN letters : letters[s] = u})
InHand(u)  == FoldLeft(LAMBDA n, h : IF h[1] = u THEN n + h[2] ELSE n, 0, hand)
NewsAddsUp ==
    faults \cap {"news", "crash"} = {} =>
        /\ told[Reader] + InHand(Reader) + count[Reader] = 0
        /\ \A u \in Units \ {Reader} :
               told[u] + InHand(u) + count[u] + (IF stage[u] = "stored" THEN 1 ELSE 0) = Letters(u)

\* Nothing is held back for ever: the window delays news, and the flusher publishes
\* what no later letter pushes out; if only it could be started.
NothingHeld == "thread" \in faults \/ \A u \in Units : count[u] = 0
NewsGoesOut == []<>NothingHeld
=============================================================================
