------------------------------- MODULE SapRfc -------------------------------
(***************************************************************************)
(* The SAP connector (connectors/sap-rfc) and the driver that serves it    *)
(* over request and reply (core/src/connectors.rs: ExecRpc).  The driver   *)
(* writes a request to the child's stdin and takes the next line of its    *)
(* stdout for the answer.  The child keeps one RFC connection, reopens it  *)
(* when it is gone and replays the call once; an IDoc is sent as a         *)
(* transaction under a transaction id (tid).                               *)
(*                                                                         *)
(* SAP (external) executes a call each time it is asked and a transaction  *)
(* unless it knows its tid; it knows a tid from the submit to the confirm. *)
(***************************************************************************)
EXTENDS Naturals, Sequences, FiniteSets, SequencesExt

CONSTANTS
    Reqs,       \* requests of the callers
    OpOf,       \* "call", "idoc" (a fresh tid) or "tid" (a tid of the caller)
    LinesOf,    \* how many lines its body may be: 1, or 0 or 2 when it is malformed
    SendsOf,    \* bound: times its caller sends it
    MaxEvents   \* bound: faults

FaultKinds == {"idle", "gateway", "before", "after", "crash"}

VARIABLES
    inbox,     \* requests on the bus for this instance
    sends,     \* times each was sent
    serving,   \* the request the driver waits for an answer to, or "none"
    stdin,     \* lines for the child
    stdout,    \* lines from the child
    child,     \* what the child is doing
    conn,      \* its RFC connection: "up", "gone" at the other end, "closed" here
    executed,  \* times SAP executed each request
    tids,      \* requests whose tid SAP knows
    confirmed, \* requests whose tid SAP was told to forget
    answers,   \* <<request, whose reply it got>>
    mixed,     \* a malformed request was served
    faults,    \* the kinds of faults that have happened
    events     \* faults so far

sap  == <<executed, tids, confirmed>>
pipe == <<stdin, stdout>>
vars == <<inbox, sends, serving, pipe, child, conn, sap, answers, mixed, faults, events>>

Waiting == [pc |-> "read", req |-> "none", replayed |-> FALSE]
Fault(kind) == events < MaxEvents /\ events' = events + 1 /\ faults' = faults \cup {kind}
NoFault     == UNCHANGED <<faults, events>>

Init ==
    /\ inbox = <<>> /\ sends = [q \in Reqs |-> 0]
    /\ serving = "none" /\ stdin = <<>> /\ stdout = <<>>
    /\ child = Waiting /\ conn = "up"
    /\ executed = [q \in Reqs |-> 0] /\ tids = {} /\ confirmed = {}
    /\ answers = {} /\ mixed = FALSE
    /\ faults = {} /\ events = 0

-----------------------------------------------------------------------------
\* A caller sends a request, or sends it again when no answer came in its time.
Send(q) ==
    /\ sends[q] < SendsOf[q] /\ ~Contains(inbox, q)
    /\ sends' = [sends EXCEPT ![q] = @ + 1]
    /\ inbox' = Append(inbox, q)
    /\ UNCHANGED <<serving, pipe, child, conn, sap, answers, mixed>> /\ NoFault

\* ExecRpc takes a request and writes it to the child.
Take ==
    /\ serving = "none" /\ inbox # <<>>
    /\ serving' = Head(inbox) /\ inbox' = Tail(inbox)
    /\ \E n \in LinesOf[Head(inbox)] :
        /\ stdin' = stdin \o [i \in 1..n |-> [req |-> Head(inbox), whole |-> n = 1]]
        /\ mixed' = (mixed \/ n # 1)
    /\ UNCHANGED <<sends, stdout, child, conn, sap, answers>> /\ NoFault

\* It responds with the next line the child prints.
Respond ==
    /\ serving # "none" /\ stdout # <<>>
    /\ answers' = answers \cup {<<serving, Head(stdout)>>}
    /\ stdout' = Tail(stdout)
    /\ serving' = "none"
    /\ UNCHANGED <<inbox, sends, stdin, child, conn, sap, mixed>> /\ NoFault

-----------------------------------------------------------------------------
\* reply: one line, and back to stdin.
Reply(q) == stdout' = Append(stdout, q) /\ child' = Waiting

\* The main loop takes a line: a part of a request is answered as bad JSON.
ReadLine ==
    /\ child.pc = "read" /\ stdin # <<>>
    /\ stdin' = Tail(stdin)
    /\ IF Head(stdin).whole
       THEN child' = [child EXCEPT !.pc = "check", !.req = Head(stdin).req] /\ UNCHANGED stdout
       ELSE Reply(Head(stdin).req)
    /\ UNCHANGED <<inbox, serving, sends, conn, sap, answers, mixed>> /\ NoFault

\* The connection is used as it is, or was idle for a minute and answered a ping.
Use ==
    /\ child.pc = "check"
    /\ child' = [child EXCEPT !.pc = "call"]
    /\ UNCHANGED <<inbox, serving, sends, pipe, conn, sap, answers, mixed>> /\ NoFault

\* It was idle and is gone: reopen.  When that fails the request is answered.
IdleCheck ==
    /\ child.pc = "check" /\ conn # "up"
    /\ \/ conn' = "up" /\ child' = [child EXCEPT !.pc = "call"] /\ UNCHANGED stdout /\ NoFault
       \/ conn' = "closed" /\ Reply(child.req) /\ Fault("gateway")
    /\ UNCHANGED <<inbox, serving, sends, stdin, sap, answers, mixed>>

\* A call found the conversation gone: reopen and replay, once.
Lost ==
    IF child.replayed THEN Reply(child.req)
    ELSE child' = [child EXCEPT !.pc = "reopen"] /\ UNCHANGED stdout
Reopen ==
    /\ child.pc = "reopen"
    /\ \/ conn' = "up" /\ child' = [child EXCEPT !.pc = "call", !.replayed = TRUE]
            /\ UNCHANGED stdout /\ NoFault
       \/ conn' = "closed" /\ Reply(child.req) /\ Fault("gateway")
    /\ UNCHANGED <<inbox, serving, sends, stdin, sap, answers, mixed>>

\* dispatch, on a connection that is gone before anything happens.
CallLost ==
    /\ child.pc = "call" /\ conn # "up"
    /\ Lost
    /\ UNCHANGED <<inbox, serving, sends, stdin, conn, sap, answers, mixed>> /\ NoFault

\* op_call: SAP runs the function.  op_send_idoc: the submit does, for a tid SAP does
\* not know; a fresh tid is never known.
Known(q) == OpOf[q] = "tid" /\ q \in tids
Executes ==
    /\ executed' = [executed EXCEPT ![child.req] = IF Known(child.req) THEN @ ELSE @ + 1]
    /\ tids' = IF OpOf[child.req] = "tid" THEN tids \cup {child.req} ELSE tids
    /\ UNCHANGED confirmed
Invoke ==
    /\ child.pc = "call" /\ conn = "up"
    /\ Executes
    /\ IF OpOf[child.req] = "call" THEN Reply(child.req)
       ELSE child' = [child EXCEPT !.pc = "confirm"] /\ UNCHANGED stdout
    /\ UNCHANGED <<inbox, serving, sends, stdin, conn, answers, mixed>> /\ NoFault

\* The call fails for a reason of its own, without an effect: it is not replayed.
Refused ==
    /\ child.pc = "call" /\ conn = "up"
    /\ Reply(child.req)
    /\ UNCHANGED <<inbox, serving, sends, stdin, conn, sap, answers, mixed>> /\ NoFault

\* confirm_transaction: SAP forgets the tid.
Forgets == /\ tids' = tids \ {child.req}
           /\ confirmed' = confirmed \cup {child.req}
           /\ UNCHANGED executed
ConfirmTid ==
    /\ child.pc = "confirm" /\ conn = "up"
    /\ Forgets
    /\ Reply(child.req)
    /\ UNCHANGED <<inbox, serving, sends, stdin, conn, answers, mixed>> /\ NoFault

\* The conversation breaks in a call, before or after its effect.
Breaks ==
    /\ child.pc \in {"call", "confirm"} /\ conn = "up"
    /\ conn' = "gone"
    /\ Lost
    /\ \/ Fault("before") /\ UNCHANGED sap
       \/ Fault("after") /\ IF child.pc = "call" THEN Executes ELSE Forgets
    /\ UNCHANGED <<inbox, serving, sends, stdin, answers, mixed>>

\* The gateway drops an idle conversation.
IdleDrop ==
    /\ conn = "up" /\ child.pc = "read"
    /\ Fault("idle")
    /\ conn' = "gone"
    /\ UNCHANGED <<inbox, serving, sends, pipe, child, sap, answers, mixed>>

\* The child dies: the driver sees its stdout closed and returns, and its supervisor
\* starts it again with another child and another subscription.  What was sent to this
\* one gets no answer.
\* Mutants: the next child answers into the old pipe; the driver waits on.
CrashKeepsPipe ==
    /\ Fault("crash")
    /\ serving' = "none" /\ inbox' = <<>> /\ child' = Waiting /\ conn' = "up"
    /\ UNCHANGED <<sends, pipe, sap, answers, mixed>>
CrashUnseen ==
    /\ Fault("crash")
    /\ child' = Waiting /\ conn' = "up"
    /\ stdin' = <<>> /\ stdout' = <<>>
    /\ UNCHANGED <<inbox, serving, sends, sap, answers, mixed>>
Crash ==
    /\ Fault("crash")
    /\ serving' = "none" /\ inbox' = <<>> /\ child' = Waiting /\ conn' = "up"
    /\ stdin' = <<>> /\ stdout' = <<>>
    /\ UNCHANGED <<sends, sap, answers, mixed>>

Work == \/ Take \/ Respond \/ ReadLine \/ Use \/ CallLost \/ Invoke \/ Refused \/ ConfirmTid
        \/ (IdleCheck \/ Reopen) /\ conn' = "up"
Next == \/ Work \/ IdleCheck \/ Reopen \/ Breaks \/ IdleDrop \/ Crash
        \/ \E q \in Reqs : Send(q)
Spec == Init /\ [][Next]_vars /\ WF_vars(Work)

-----------------------------------------------------------------------------
\* The variables range over what the two processes keep in them.
TypeOK ==
    /\ serving \in Reqs \cup {"none"}
    /\ child.pc = "read" <=> child.req = "none"
    /\ child.replayed => child.pc \in {"call", "confirm"}
    /\ conn \in {"up", "gone", "closed"}
    /\ faults \subseteq FaultKinds

\* A caller gets the reply to its own request: "one request line in, one reply line
\* out" holds through crashes and replays as long as every request is one line.
AnswerIsOwn == mixed \/ \A a \in answers : a[1] = a[2]

\* A request is executed at most twice for each time it is sent: a lost call is
\* replayed once.
ReplayedOnce == \A q \in Reqs : executed[q] <= 2 * sends[q]

\* An IDoc under the caller's tid is executed once, however often it is sent and
\* replayed, until SAP is told to forget the tid.
IdocOnce == \A q \in Reqs : OpOf[q] = "tid" /\ q \notin confirmed => executed[q] <= 1

\* A call that is sent once and meets no failure is executed once.
NoReplayWithoutLoss ==
    faults \subseteq {"idle"} => \A q \in Reqs : executed[q] <= sends[q]

\* The driver is never left waiting for a line that does not come, as long as every
\* request is one line: its loop, which also sees a stop, goes on.
Returned == mixed \/ serving = "none"
DriverReturns == []<>Returned
=============================================================================
