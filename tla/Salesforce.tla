----------------------------- MODULE Salesforce -----------------------------
(***************************************************************************)
(* The Salesforce bridge (connectors/salesforce/src/main.rs).  As a source *)
(* it asks for a query job, waits for it and writes its rows, page by      *)
(* page.  As a sink it uploads the rows of one message as CSV, closes the  *)
(* job and waits; the runtime acks the message if it exits with 0 and has  *)
(* it delivered again if not.  Salesforce itself is external.              *)
(*                                                                         *)
(* A cell is a sequence of characters: "q" stands for the quote, "n" and   *)
(* "r" for the line ends, "," for itself, anything else for plain text.    *)
(***************************************************************************)
EXTENDS Naturals, Sequences, FiniteSets, SequencesExt

CONSTANTS
    Tables,    \* the tables tried: sequences of rows, a row a function from keys to cells
    Keys,      \* all keys, in the order a row's map lists them
    IsBad(_),  \* the rows Salesforce refuses
    PAGE,      \* rows of a page of results
    MaxEvents  \* bound: failures

VARIABLES
    mode, upsert, interval, \* of the configuration
    table,   \* the rows to ingest, or those the query finds
    full,    \* the same with every column of the table, empty where a row has none
    pc,      \* the stage
    page,    \* the locator: pages read
    out,     \* rows written by this run of an export
    total,   \* what it reports: the rows of the last run that got to the end
    csv,     \* what is uploaded, or the page downloaded
    org,     \* the rows of the organisation, one entry for every time they were inserted
    acked,   \* the runtime has acked the message
    report,  \* numberRecordsFailed, in the answer
    faults, events
vars == <<mode, upsert, interval, table, full, pc, page, out, total, csv, org, acked, report, faults, events>>
config == <<mode, upsert, interval, table, full>>

Fault(k) == events < MaxEvents /\ events' = events + 1 /\ faults' = faults \cup {k}

-----------------------------------------------------------------------------
\* csv_cell and rows_to_csv: the columns are the keys of all rows, as they first come up.
\* Mutant: only a comma or a quote makes a cell quoted.
Special == {",", "q", "n", "r"}
Quoted(s) == <<"q">> \o FlattenSeq([i \in DOMAIN s |-> IF s[i] = "q" THEN <<"q", "q">> ELSE <<s[i]>>]) \o <<"q">>
csv_cell_lines(s) == IF {s[i] : i \in DOMAIN s} \cap {",", "q"} # {} THEN Quoted(s) ELSE s
csv_cell(s)       == IF {s[i] : i \in DOMAIN s} \cap Special # {} THEN Quoted(s) ELSE s

Columns(rows) ==
    FoldLeft(LAMBDA cs, r : cs \o SelectSeq(Keys, LAMBDA k : k \in DOMAIN r /\ ~Contains(cs, k)), <<>>, rows)
Line(cells) ==
    FlattenSeq([i \in DOMAIN cells |-> csv_cell(cells[i]) \o (IF i < Len(cells) THEN <<",">> ELSE <<"n">>)])
Cell(r, k) == IF k \in DOMAIN r THEN r[k] ELSE <<>>
rows_to_csv(rows) ==
    LET cs == Columns(rows) IN
    Line([i \in DOMAIN cs |-> <<cs[i]>>])
        \o FlattenSeq([n \in DOMAIN rows |-> Line([i \in DOMAIN cs |-> Cell(rows[n], cs[i])])])

\* parse_csv, one character at a time: in quotes, where two quotes are one, and outside.
\* (Scan binds its state in a set, so that TLC evaluates it once.)
Scanned(s) ==
    LET c == s.data[s.at]
        to(n, q, f) == [s EXCEPT !.at = @ + n, !.quoted = q, !.field = s.field \o f]
    IN
    IF s.quoted
    THEN IF c # "q" THEN to(1, TRUE, <<c>>)
         ELSE IF s.at < Len(s.data) /\ s.data[s.at + 1] = "q" THEN to(2, TRUE, <<"q">>)
         ELSE to(1, FALSE, <<>>)
    ELSE CASE c = "q" -> to(1, TRUE, <<>>)
           [] c = "," -> [to(1, FALSE, <<>>) EXCEPT !.record = Append(@, s.field), !.field = <<>>]
           [] c = "n" -> [to(1, FALSE, <<>>) EXCEPT !.records = Append(@, Append(s.record, s.field)),
                                                    !.record = <<>>, !.field = <<>>]
           [] c = "r" -> to(1, FALSE, <<>>)
           [] OTHER -> to(1, FALSE, <<c>>)
RECURSIVE Scan(_)
Scan(state) ==
    CHOOSE r \in {
        IF s.at <= Len(s.data) THEN Scan(Scanned(s))
        ELSE IF s.field = <<>> /\ s.record = <<>> THEN s.records
        ELSE Append(s.records, Append(s.record, s.field)) : s \in {state} } : TRUE
parse_csv(data) ==
    Scan([data |-> data, at |-> 1, quoted |-> FALSE, field |-> <<>>, record |-> <<>>, records |-> <<>>])

\* A record under its header, as stream_results and fetch_failed build it.
Object(head, r) ==
    [k \in {head[i][1] : i \in DOMAIN head} |->
        LET i == CHOOSE j \in DOMAIN head : head[j][1] = k IN IF i \in DOMAIN r THEN r[i] ELSE <<>>]
Rows(data) ==
    LET records == parse_csv(data)
    IN  IF records = <<>> THEN <<>>
        ELSE [n \in 1..(Len(records) - 1) |-> Object(records[1], records[n + 1])]

\* What a table is to Salesforce.
Full(rows) == [n \in DOMAIN rows |-> [k \in Range(Columns(rows)) |-> Cell(rows[n], k)]]

-----------------------------------------------------------------------------
Init ==
    /\ mode \in {"export", "ingest"} /\ upsert \in BOOLEAN /\ interval \in BOOLEAN
    /\ mode = "export" => ~upsert
    /\ mode = "ingest" => ~interval
    /\ table \in Tables /\ full = Full(table)
    /\ pc = "session" /\ page = 0 /\ out = <<>> /\ total = 0
    /\ csv = <<>> /\ org = <<>> /\ acked = FALSE /\ report = 0
    /\ faults = {} /\ events = 0

\* session and create_job; a message without rows is answered at once.
Create ==
    /\ pc = "session"
    /\ pc' = IF mode = "export" THEN "poll" ELSE IF table = <<>> THEN "exit0" ELSE "upload"
    /\ page' = 0 /\ out' = <<>>
    /\ UNCHANGED <<config, total, csv, org, acked, report, faults, events>>

\* poll_job until JobComplete, then stream_results: one page at a time, as long as there
\* is a locator.
Complete ==
    /\ mode = "export" /\ pc = "poll"
    /\ pc' = "page"
    /\ UNCHANGED <<config, page, out, total, csv, org, acked, report, faults, events>>
Results(p) == SubSeq(full, p * PAGE + 1, IF (p + 1) * PAGE < Len(full) THEN (p + 1) * PAGE ELSE Len(full))
HasLocator(p)      == (p + 1) * PAGE < Len(full)
Get ==
    /\ pc = "page"
    /\ csv' = rows_to_csv(Results(page))
    /\ pc' = "rows"
    /\ UNCHANGED <<config, page, out, total, org, acked, report, faults, events>>
Write ==
    /\ pc = "rows"
    /\ out' = out \o Rows(csv)
    /\ page' = page + 1
    /\ IF HasLocator(page) THEN pc' = "page" /\ total' = total
       ELSE pc' = "slept" /\ total' = Len(out')
    /\ csv' = <<>>
    /\ UNCHANGED <<config, org, acked, report, faults, events>>
\* The next run: after the interval, or of a new process if there is none and it failed.
Again ==
    /\ pc = "failed" \/ (pc = "slept" /\ interval)
    /\ pc' = "session"
    /\ UNCHANGED <<config, page, out, total, csv, org, acked, report, faults, events>>

-----------------------------------------------------------------------------
\* ingest: the CSV goes up, and closing the job starts it.
Upload ==
    /\ pc = "upload"
    /\ csv' = rows_to_csv(table)
    /\ pc' = "close"
    /\ UNCHANGED <<config, page, out, total, org, acked, report, faults, events>>
\* An upsert finds the row it made before.
Taken(old, new) ==
    FoldLeft(LAMBDA o, r : IF IsBad(r) \/ (upsert /\ Contains(o, r)) THEN o ELSE Append(o, r), old, new)
Close ==
    /\ pc = "close"
    /\ org' = Taken(org, Rows(csv))
    /\ pc' = "wait"
    /\ UNCHANGED <<config, page, out, total, csv, acked, report, faults, events>>
\* JobComplete: rows that failed are counted in the answer (fetch_failed adds a sample of
\* them), and the exit code is 0 all the same.
Done ==
    /\ mode = "ingest" /\ pc = "wait"
    /\ report' = Len(SelectSeq(Rows(csv), IsBad))
    /\ pc' = "exit0"
    /\ UNCHANGED <<config, page, out, total, csv, org, acked, faults, events>>

\* Any of the requests fails, or the job: an error, exit code 1. Closing may have worked.
FailsAt(p, took) ==
    /\ pc = p
    /\ Fault(IF took \/ p = "wait" THEN "late" ELSE "early")
    /\ org' = IF took THEN Taken(org, Rows(csv)) ELSE org
    /\ pc' = IF mode = "export" THEN "failed" ELSE "exit1"
    /\ UNCHANGED <<config, page, out, total, csv, acked, report>>
CloseFails == \E took \in BOOLEAN : FailsAt("close", took)
Fails == \E p \in {"session", "poll", "page", "upload", "wait"} : FailsAt(p, FALSE)

\* The runtime's side of a sink (exec-out): ack, or have it delivered again.
Ack ==
    /\ pc = "exit0" /\ ~acked
    /\ acked' = TRUE
    /\ UNCHANGED <<config, pc, page, out, total, csv, org, report, faults, events>>
Redeliver ==
    /\ pc = "exit1"
    /\ pc' = "session"
    /\ UNCHANGED <<config, page, out, total, csv, org, acked, report, faults, events>>

Steps == Create \/ Complete \/ Get \/ Write \/ Again \/ Upload \/ Close \/ Done \/ Ack \/ Redeliver
Next == Steps \/ Fails \/ CloseFails
Spec == Init /\ [][Next]_vars /\ WF_vars(Steps)

-----------------------------------------------------------------------------
\* The stages of export_once and ingest; no page is asked for past the table's last one.
TypeOK ==
    /\ pc \in {"session", "poll", "page", "rows", "slept", "failed", "upload", "close", "wait", "exit0", "exit1"}
    /\ page * PAGE <= Len(table) + PAGE /\ total <= Len(table)

\* An export writes the rows the query found, in their order and each once, with every
\* cell as it is in the organisation, up to where it failed; and if it reports a number
\* of rows, that is all of them.
ExportIsFaithful ==
    mode = "export" => /\ IsPrefix(out, full)
                       /\ pc = "slept" => out = full /\ total = Len(table)

\* Rows the organisation has come from the message, cell for cell, whatever commas, quotes
\* and line ends are in them; of an acked message only as many rows are missing as the
\* answer says have failed.
AckedIsIngested ==
    mode = "ingest" =>
        /\ Range(org) \subseteq Range(full)
        /\ acked => Len(SelectSeq(full, LAMBDA r : r \notin Range(org))) <= report

\* A message is ingested once: an upsert however often it is delivered, an insert unless
\* something failed after the job had been closed.
IngestedOnce == upsert \/ "late" \notin faults => Len(org) <= Len(table)

\* In the end an export has everything, and a message is acked.
Finished == IF mode = "export" THEN out = full /\ pc = "slept" ELSE acked
Finishes == []<>Finished
=============================================================================
