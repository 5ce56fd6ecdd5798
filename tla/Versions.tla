------------------------------ MODULE Versions ------------------------------
(***************************************************************************)
(* The version overlay of one flow (core/src/versions.rs and its callers   *)
(* in core/src/main.rs): a promote publishes a version in the key-value    *)
(* bucket, every instance watches the bucket and starts its unit again,    *)
(* and resolve_source chooses between the instance's file and the version, *)
(* evicting a version that forked from another file.                       *)
(*                                                                         *)
(* A source is a git revision with its literals.  hash_content is taken to *)
(* be injective, so a source stands for its hash.  Reading the file,       *)
(* reading the bucket and writing either are separate steps: a job holds   *)
(* what it read.  The jobs are the units, which resolve when they start,   *)
(* and the requests; what a request does once it has resolved its source   *)
(* is in Proposals.                                                        *)
(***************************************************************************)
EXTENDS Naturals

CONSTANTS
    Nodes,    \* instances
    Reqs,     \* request threads
    HomeOf,   \* the instance a request thread belongs to
    LitsOf,   \* the literals its callers work on
    Lits,     \* literals of the flow's business surface
    MaxRev,   \* bound: git revisions
    MaxEvents \* bound: requests, deploys and faults together

ASSUME VersionsAssumption ==
    /\ Nodes # {} /\ Lits # {} /\ Nodes \cap Reqs = {}
    /\ HomeOf \in [Reqs -> Nodes] /\ LitsOf \in [Reqs -> SUBSET Lits]
    /\ MaxRev \in Nat

Sources  == [rev: 0..MaxRev, lits: [Lits -> 0..1]]
Git(r)   == [rev |-> r, lits |-> [l \in Lits |-> 0]]
Set(s, l, v) == [s EXCEPT !.lits[l] = v]
Rewrite(s)   == [s EXCEPT !.lits = [l \in Lits |-> 1]]

NoVersion == [src |-> Git(0), parent |-> Git(MaxRev + 1)]   \* of no file
Jobs      == Nodes \cup Reqs
FaultKinds == {"get", "evict", "put", "mark", "audit", "watch", "crash"}

VARIABLES
    clustered, \* VEJAS_CLUSTER
    file,      \* the flow's file on each instance
    overlay,   \* the flow's entry in VEJAS_VERSIONS
    touched,   \* the entry was ever written: a watch that opens delivers it
    watching,  \* version_watch has a watch open
    notice,    \* a change it has not handled
    runs,      \* the source each unit runs
    started,   \* the file that source was resolved against
    job,       \* what each job is doing and holds
    raced,     \* some job wrote on the strength of what had changed meanwhile
    faults,    \* the kinds of faults that have happened
    events     \* requests, deploys and faults so far

verVars == <<clustered, file, overlay, touched, watching, notice, runs, started,
             job, raced, faults, events>>

Idle == [op |-> "idle", pc |-> "idle", node |-> CHOOSE n \in Nodes : TRUE,
         base |-> Git(0), eff |-> Git(0), lit |-> CHOOSE l \in Lits : TRUE,
         val |-> 0, then |-> "get", prop |-> 0, todo |-> {}, applying |-> FALSE, stale |-> FALSE]
\* supervise_vjs begins an attempt: it has read the file.
Starting(n, src) == [Idle EXCEPT !.op = "start", !.pc = "get", !.node = n,
                                 !.base = src, !.eff = src]

Instances == IF clustered THEN Nodes ELSE {CHOOSE n \in Nodes : TRUE}
Happens     == events < MaxEvents /\ events' = events + 1
Fault(kind) == kind \notin faults /\ faults' = faults \cup {kind} /\ Happens

\* overlay valid against this file, as resolve_source decides it.
Valid(ov, base)     == ov # NoVersion /\ ov.parent = base
Effective(ov, base) == IF Valid(ov, base) THEN ov.src ELSE base

\* A job that has read something and not yet let go of it.
Holds(j) == job[j].pc \notin {"idle", "fetch", "trail"}

\* Job a goes on as next, having written something others may hold: a write
\* of its own on stale ground is a race.
Goes(a, next)   == job' = [job EXCEPT ![a] = next] /\ UNCHANGED raced
Writes(a, next) ==
    /\ job' = [j \in Jobs |-> IF j = a THEN next
                              ELSE [job[j] EXCEPT !.stale = @ \/ Holds(j)]]
    /\ raced' = (raced \/ job[a].stale)

Announce == notice' = [n \in Nodes |-> notice[n] \/ watching[n]] /\ touched' = TRUE

VersionsInit ==
    /\ clustered \in BOOLEAN
    /\ file = [n \in Nodes |-> Git(0)]
    /\ overlay = NoVersion /\ touched = FALSE
    /\ watching = [n \in Nodes |-> n \in Instances]
    /\ notice = [n \in Nodes |-> FALSE]
    /\ runs = file /\ started = file
    /\ job = [j \in Jobs |-> Idle]
    /\ raced = FALSE /\ faults = {} /\ events = 0

-----------------------------------------------------------------------------
\* Every path to the effective source begins with the instance's file, and some
\* stop there (then).  A unit's start and a request that needs nothing before it
\* read the file as they begin.
ReadFile(a) ==
    /\ job[a].pc = "read"
    /\ LET base == file[job[a].node]
       IN  Goes(a, [job[a] EXCEPT !.base = base, !.eff = base, !.pc = job[a].then])
    /\ UNCHANGED <<clustered, file, overlay, touched, watching, notice, runs, started, faults, events>>

\* A unit that has resolved its source runs it.
Resolved(a, next) ==
    IF next.op = "start"
    THEN /\ runs' = [runs EXCEPT ![a] = next.eff]
         /\ started' = [started EXCEPT ![a] = next.base]
    ELSE UNCHANGED <<runs, started>>
Done(next) == IF next.op = "start" THEN Idle ELSE [next EXCEPT !.pc = "resolved"]

\* get_version and the choice of resolve_source.
Look(a, j) ==
    LET next == [j EXCEPT !.eff = Effective(overlay, j.base)]
    IN  IF overlay = NoVersion \/ Valid(overlay, j.base)
        THEN Goes(a, Done(next)) /\ Resolved(a, next)
        ELSE Goes(a, [next EXCEPT !.pc = "evict"]) /\ UNCHANGED <<runs, started>>
Get(a) ==
    /\ job[a].pc = "get"
    /\ Look(a, job[a])
    /\ UNCHANGED <<clustered, file, overlay, touched, watching, notice, faults, events>>

\* A bucket that cannot be opened or read counts as one without a version.
GetFails(a) ==
    /\ job[a].pc = "get"
    /\ Fault("get")
    /\ Goes(a, Done(job[a])) /\ Resolved(a, job[a])
    /\ UNCHANGED <<clustered, file, overlay, touched, watching, notice>>

\* resolve_source deletes what it found stale, by key: it may be another one by now.
Evict(a) ==
    /\ job[a].pc = "evict"
    /\ overlay' = NoVersion
    /\ Announce
    /\ Writes(a, Done(job[a])) /\ Resolved(a, job[a])
    /\ UNCHANGED <<clustered, file, watching, faults, events>>

\* The delete fails, which is not looked at.
EvictFails(a) ==
    /\ job[a].pc = "evict"
    /\ Fault("evict")
    /\ Goes(a, Done(job[a])) /\ Resolved(a, job[a])
    /\ UNCHANGED <<clustered, file, overlay, touched, watching, notice>>

-----------------------------------------------------------------------------
\* version_watch: a change of the entry restarts the unit, which reads the file and
\* the bucket.
WatchFires(n) ==
    /\ notice[n]
    /\ notice' = [notice EXCEPT ![n] = FALSE]
    /\ Look(n, Starting(n, file[n]))
    /\ UNCHANGED <<clustered, file, overlay, touched, watching, faults, events>>

\* The watch ends, and with it the changes it would have delivered.
WatchEnds(n) ==
    /\ watching[n]
    /\ Fault("watch")
    /\ watching' = [watching EXCEPT ![n] = FALSE]
    /\ notice' = [notice EXCEPT ![n] = FALSE]
    /\ UNCHANGED <<clustered, file, overlay, touched, runs, started, job, raced>>

\* version_watch opens it again: it delivers the entry as it is, or its delete.
\* Mutant: a watch of new changes only.
WatchOpensOnNew(n) ==
    /\ n \in Instances /\ ~watching[n]
    /\ watching' = [watching EXCEPT ![n] = TRUE]
    /\ UNCHANGED <<clustered, file, overlay, touched, notice, runs, started, job, raced, faults, events>>
WatchOpens(n) ==
    /\ n \in Instances /\ ~watching[n]
    /\ watching' = [watching EXCEPT ![n] = TRUE]
    /\ notice' = [notice EXCEPT ![n] = touched]
    /\ UNCHANGED <<clustered, file, overlay, touched, runs, started, job, raced, faults, events>>

\* A deploy replaces the file of one instance and reloads it.
Deploy(n) ==
    /\ n \in Instances
    /\ file[n].rev < MaxRev
    /\ Happens
    /\ file' = [file EXCEPT ![n] = Git(file[n].rev + 1)]
    /\ job' = [j \in Jobs |-> IF j = n THEN Starting(n, file'[n])
                              ELSE [job[j] EXCEPT !.stale = @ \/ (Holds(j) /\ job[j].node = n)]]
    /\ UNCHANGED <<clustered, overlay, touched, watching, notice, runs, started, raced, faults>>

\* The process dies with its requests and starts again.
Crash(n) ==
    /\ n \in Instances
    /\ Fault("crash")
    /\ job' = [j \in Jobs |-> IF j = n THEN Starting(n, file[n])
                              ELSE IF job[j].node = n /\ j \in Reqs THEN Idle ELSE job[j]]
    /\ watching' = [watching EXCEPT ![n] = FALSE]
    /\ notice' = [notice EXCEPT ![n] = FALSE]
    /\ UNCHANGED <<clustered, file, overlay, touched, runs, started, raced>>

VersionsNext ==
    \/ \E a \in Jobs : ReadFile(a) \/ Get(a) \/ GetFails(a) \/ Evict(a) \/ EvictFails(a)
    \/ \E n \in Nodes : WatchFires(n) \/ WatchEnds(n) \/ WatchOpens(n)
                          \/ Deploy(n) \/ Crash(n)
=============================================================================
