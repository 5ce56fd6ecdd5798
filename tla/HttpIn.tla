------------------------------- MODULE HttpIn -------------------------------
(***************************************************************************)
(* The webhook source (core/src/connectors.rs, http-in): one thread per    *)
(* connection out of a bounded number of slots, several requests on one    *)
(* connection, each published before it is answered.                       *)
(*                                                                         *)
(* What a client sends is a sequence of pieces: the header of a request,   *)
(* then the pieces of its body.  A read returns any number of the pieces   *)
(* that have arrived.                                                      *)
(***************************************************************************)
EXTENDS Naturals, Sequences, FiniteSets

CONSTANTS
    Conns,           \* the connections made
    MAX_CONNECTIONS,
    BUFFER,          \* the megabyte past which reading a request stops, in pieces
    MaxRequests,     \* bound: requests of each connection
    MaxEvents        \* bound: faults

VARIABLES
    open,     \* the counter behind Slot
    st,       \* "none", "queued", "reading", "handling", "replying", "ended" or "refused"
    asked,    \* the requests sent so far on each connection, by kind
    wire,     \* the pieces sent and not read
    buf, eof, \* of handle_http_in
    code,     \* the status about to be sent
    out,      \* the answers, as <<status, the request they are for>>
    bus,      \* the bodies published, as <<connection, pieces>>
    piped,    \* connections with a request sent before the answer to the last one
    trickles, \* connections with a client that always sends one more byte in time
    events
vars == <<open, st, asked, wire, buf, eof, code, out, bus, piped, trickles, events>>
conn == <<asked, wire, piped, trickles>>

Kinds   == {"get", "doc", "num", "big"}
Length  == [get |-> 0, doc |-> 2, num |-> 2, big |-> BUFFER + 1]
Header(i)  == <<"head", i, 0>>
Body(c, i) == [n \in 1..Length[asked[c][i]] |-> <<"body", i, n>>]

Serving == {c \in Conns : st[c] \in {"reading", "handling", "replying"}}
Fault   == events < MaxEvents /\ events' = events + 1

Init ==
    /\ open = 0
    /\ st = [c \in Conns |-> "none"]
    /\ asked = [c \in Conns |-> <<>>] /\ wire = [c \in Conns |-> <<>>]
    /\ buf = [c \in Conns |-> <<>>] /\ eof = [c \in Conns |-> FALSE]
    /\ code = [c \in Conns |-> 0] /\ out = [c \in Conns |-> <<>>]
    /\ bus = {} /\ piped = {}
    /\ trickles \in SUBSET Conns
    /\ events = 0

-----------------------------------------------------------------------------
\* The clients.
Connect(c) ==
    /\ st[c] = "none"
    /\ st' = [st EXCEPT ![c] = "queued"]
    /\ UNCHANGED <<open, buf, eof, code, out, bus, events, conn>>

Send(c, k) ==
    /\ st[c] \notin {"none", "ended", "refused"} /\ c \notin trickles
    /\ Len(asked[c]) < MaxRequests[c]
    /\ asked' = [asked EXCEPT ![c] = Append(@, k)]
    /\ wire' = [wire EXCEPT ![c] = @ \o <<Header(Len(asked'[c]))>>
                   \o [n \in 1..Length[k] |-> <<"body", Len(asked'[c]), n>>]]
    /\ piped' = IF Len(out[c]) < Len(asked[c]) THEN piped \cup {c} ELSE piped
    /\ UNCHANGED <<open, st, buf, eof, code, out, bus, trickles, events>>

-----------------------------------------------------------------------------
\* The accept loop: Slot::try_take, then a thread, or a 503.
HasRoom     == open < MAX_CONNECTIONS

Accept(c) ==
    /\ st[c] = "queued"
    /\ IF HasRoom THEN open' = open + 1 /\ st' = [st EXCEPT ![c] = "reading"]
       ELSE open' = open /\ st' = [st EXCEPT ![c] = "refused"]
    /\ UNCHANGED <<buf, eof, code, out, bus, events, conn>>

\* No thread to be had: the closure is dropped, and socket and slot with it.
SpawnFails(c) ==
    /\ st[c] = "queued" /\ HasRoom
    /\ Fault
    /\ st' = [st EXCEPT ![c] = "refused"]
    /\ UNCHANGED <<open, buf, eof, code, out, bus, conn>>

\* The thread is over: Slot::drop.
End(c) == open' = open - 1 /\ st' = [st EXCEPT ![c] = "ended"]

-----------------------------------------------------------------------------
\* handle_http_in, reading: until the body is there, or the buffer is full.
HeaderAt(b) ==
    LET at == {n \in DOMAIN b : b[n][1] = "head"}
    IN  IF at = {} THEN 0 ELSE CHOOSE n \in at : \A m \in at : n <= m
content_length(c, b) == Length[asked[c][b[HeaderAt(b)][2]]]
\* Mutant: the header is enough.
CompleteAtHeader(c, b) == HeaderAt(b) # 0
Complete(c, b) ==
    \/ HeaderAt(b) # 0 /\ Len(b) >= HeaderAt(b) + content_length(c, b)
    \/ Len(b) > BUFFER

\* A request without its header is none: the thread ends.
Read(c, n) ==
    LET b == buf[c] \o SubSeq(wire[c], 1, n) IN
    /\ st[c] = "reading" /\ n \in 1..Len(wire[c])
    /\ wire' = [wire EXCEPT ![c] = SubSeq(@, n + 1, Len(@))]
    /\ buf' = [buf EXCEPT ![c] = b]
    /\ IF ~Complete(c, b) THEN UNCHANGED <<open, st>>
       ELSE IF HeaderAt(b) = 0 THEN End(c)
       ELSE open' = open /\ st' = [st EXCEPT ![c] = "handling"]
    /\ UNCHANGED <<asked, eof, code, out, bus, piped, trickles, events>>

\* The end of the input: whatever has come by then is the request.
Cut(c) ==
    /\ st[c] = "reading"
    /\ eof' = [eof EXCEPT ![c] = TRUE]
    /\ IF HeaderAt(buf[c]) = 0 THEN End(c)
       ELSE open' = open /\ st' = [st EXCEPT ![c] = "handling"]
    /\ UNCHANGED <<buf, code, out, bus, conn>>
\* The client closes, or is silent for five seconds.
Silence(c) ==
    /\ c \notin trickles
    /\ wire[c] = <<>> \/ events < MaxEvents
    /\ events' = IF wire[c] = <<>> THEN events ELSE events + 1
    /\ Cut(c)
\* REQUEST_READ_LIMIT is over.
\* Mutant: there is no such limit.
NoDeadline(c) == FALSE /\ Cut(c) /\ UNCHANGED events
Deadline(c)   == c \in trickles /\ Cut(c) /\ UNCHANGED events

-----------------------------------------------------------------------------
\* A body is JSON if it is one whole document, or digits, which any piece of a number is.
IsJson(c, b) ==
    \/ \E i \in DOMAIN asked[c] : b = Body(c, i) /\ b # <<>>
    \/ b # <<>> /\ \A n \in DOMAIN b : b[n][1] = "body" /\ asked[c][b[n][2]] = "num"

\* A refusal of the subject, by its form or by ALLOW, is like that of the body.
Payload(b) == SubSeq(b, HeaderAt(b) + 1, Len(b))
Verdict(c, b) ==
    CASE HeaderAt(b) # 1 -> 404
      [] HeaderAt(b) = 1 /\ asked[c][b[1][2]] = "get" -> 200
      [] OTHER -> IF IsJson(c, Payload(b)) THEN 202 ELSE 400

Handle(c) ==
    /\ st[c] = "handling"
    /\ code' = [code EXCEPT ![c] = Verdict(c, buf[c])]
    /\ bus' = IF code'[c] = 202 THEN bus \cup {<<c, Payload(buf[c])>>} ELSE bus
    /\ st' = [st EXCEPT ![c] = "replying"]
    /\ UNCHANGED <<open, buf, eof, out, events, conn>>
PublishFails(c) ==
    /\ st[c] = "handling" /\ Verdict(c, buf[c]) = 202
    /\ Fault
    /\ code' = [code EXCEPT ![c] = 502]
    /\ st' = [st EXCEPT ![c] = "replying"]
    /\ UNCHANGED <<open, buf, eof, out, bus, conn>>

Reply(c) ==
    /\ st[c] = "replying"
    /\ out' = [out EXCEPT ![c] = Append(@, <<code[c], buf[c][HeaderAt(buf[c])][2]>>)]
    /\ IF eof[c] THEN End(c) ELSE open' = open /\ st' = [st EXCEPT ![c] = "reading"]
    /\ buf' = [buf EXCEPT ![c] = <<>>]
    /\ UNCHANGED <<eof, code, bus, events, conn>>

\* The thread panics: unwinding drops the slot.
Panic(c) ==
    /\ c \in Serving
    /\ Fault
    /\ End(c)
    /\ UNCHANGED <<buf, eof, code, out, bus, conn>>

Steps(c) == Accept(c) \/ (\E n \in 1..(2 * BUFFER + 4) : Read(c, n)) \/ Deadline(c) \/ Handle(c) \/ Reply(c)
Next ==
    \E c \in Conns :
        \/ Connect(c) \/ \E k \in Kinds : Send(c, k)
        \/ Steps(c) \/ Silence(c)
        \/ SpawnFails(c) \/ PublishFails(c) \/ Panic(c)
Spec == Init /\ [][Next]_vars /\ \A c \in Conns : WF_vars(Steps(c) \/ Silence(c))

-----------------------------------------------------------------------------
\* The counter is the number of connections being served, and never above the maximum:
\* each way a thread ends gives its slot back once.
SlotsAddUp == open = Cardinality(Serving) /\ open <= MAX_CONNECTIONS

\* The i-th answer on a connection is the answer to its i-th request, and no piece of a
\* body is taken for a request line, if the client waits for its answers and no request
\* outgrew the buffer: what a read returned beyond a request is dropped, and the rest of
\* one too large is read as the next.
AnswersInStep ==
    \A c \in Conns \ piped :
        "big" \notin {asked[c][i] : i \in DOMAIN asked[c]} =>
            \A i \in DOMAIN out[c] : out[c][i][2] = i /\ out[c][i][1] # 404

\* A client told "202 Accepted" has its body on the bus, whole: no document is published
\* cut off, or with the beginning of the next one at its end, whatever the client sends
\* ahead and wherever its connection is cut.  (Digits cut off are a number again.)
AcceptedIsPublished ==
    \A c \in Conns : \A n \in DOMAIN out[c] :
        LET i == out[c][n][2] IN
        out[c][n][1] = 202 =>
            \/ <<c, Body(c, i)>> \in bus
            \/ asked[c][i] = "num" /\ \E b \in bus : b[1] = c

\* Every connection comes to an end, and with it its slot is free again: one that is idle
\* after five seconds, one that trickles after REQUEST_READ_LIMIT.
AllOver == \A c \in Conns : st[c] \in {"none", "ended", "refused"}
SlotsComeBack == []<>AllOver

\* No more threads serve than there are slots, and every connection is in one stage.
TypeOK ==
    /\ open \in 0..MAX_CONNECTIONS
    /\ \A c \in Conns :
        /\ st[c] \in {"none", "queued", "reading", "handling", "replying", "ended", "refused"}
        /\ st[c] \in {"handling", "replying"} => HeaderAt(buf[c]) # 0
        /\ code[c] \in {0, 200, 202, 400, 404, 502}
=============================================================================
