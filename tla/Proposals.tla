----------------------------- MODULE Proposals ------------------------------
(***************************************************************************)
(* Governed change (core/src/proposals.rs and main.rs: submit_proposal,    *)
(* reconcile_and_list, decide_proposal, apply_approved, promote_version,   *)
(* rollback_literal, record_promote), on top of Versions and behind Doors. *)
(*                                                                         *)
(* A request is admitted by its door, resolves the effective source where  *)
(* its handler does, and then publishes a version (in a cluster) or writes *)
(* the file and reloads (a single instance).  An approval resolves twice:  *)
(* once to compare with the baseline the proposal is pinned to, once to    *)
(* apply it.  Nothing in the bucket is compare-and-set.                    *)
(***************************************************************************)
EXTENDS Versions, Doors, Sequences

CONSTANTS
    Props     \* proposal ids

VARIABLES
    governed,   \* VEJAS_REQUIRE_APPROVAL
    prop,       \* the entries of VEJAS_PROPOSALS
    trail,      \* the unit's records in VEJAS_AUDIT
    landed,     \* proposals applied: the source each one replaced
    sanctioned, \* sources written by an approval
    lastSet     \* the value of each literal before its latest promote

propVars == <<governed, prop, trail, landed, sanctioned, lastSet>>
vars == <<verVars, propVars>>

NoProposal == [kind |-> "none", lit |-> CHOOSE l \in Lits : TRUE,
               baseline |-> Git(0), status |-> "none"]
NotLanded  == [times |-> 0, on |-> Git(0)]

\* Both tokens set: the posture the documentation recommends.
Env == [token |-> TRUE, approvalToken |-> TRUE, governed |-> governed,
        clustered |-> clustered, vault |-> FALSE]
CallerOf == [agent |-> {"bearer"}, human |-> {"approval"}]

\* The doors whose handlers are modelled here, and what a handler does first.
DoorOps ==
    { [door |-> "/surface/set",           op |-> "set",      pc |-> "get"],
      [door |-> "vejas_set_literal",      op |-> "set",      pc |-> "get"],
      [door |-> "vejas_rollback_literal", op |-> "rollback", pc |-> "trail"],
      [door |-> "/file/set",              op |-> "rewrite",  pc |-> "resolved"],
      [door |-> "vejas_propose",          op |-> "propose",  pc |-> "get"],
      [door |-> "/proposals",             op |-> "list",     pc |-> "fetch"],
      [door |-> "/proposals/approve",     op |-> "approve",  pc |-> "fetch"],
      [door |-> "/proposals/reject",      op |-> "reject",   pc |-> "fetch"] }

Init ==
    /\ VersionsInit
    /\ governed \in BOOLEAN
    /\ prop \in [Props -> {NoProposal} \cup
                    [kind: {"set_literal"}, lit: {NoProposal.lit},
                     baseline: {Git(0)}, status: {"pending"}]]
    /\ trail = <<>>
    /\ landed = [p \in Props |-> NotLanded]
    /\ sanctioned = {}
    /\ lastSet = [l \in Lits |-> 0]

-----------------------------------------------------------------------------
\* serve_http: a request gets a thread, and its door lets it in.
Begin(r, d, who, l, p) ==
    /\ job[r].pc = "idle"
    /\ Happens
    /\ Served(d.door, Env, CallerOf[who])
    /\ d.op \in {"approve", "reject"} => prop[p].status # "none"
    /\ d.op = "propose" => prop[p].status = "none" /\ \A q \in Reqs : job[q].prop # p
    /\ LET n     == IF clustered THEN HomeOf[r] ELSE CHOOSE m \in Instances : TRUE
           local == ~clustered /\ d.op \in {"set", "rollback"}
       IN  Goes(r, [Idle EXCEPT !.op = d.op, !.node = n, !.lit = l, !.prop = p, !.val = 1,
                        !.base = file[n], !.eff = file[n],
                        !.pc = IF local /\ d.pc = "get" THEN "resolved" ELSE d.pc,
                        !.then = IF local THEN "resolved" ELSE "get"])
    /\ UNCHANGED <<clustered, file, overlay, touched, watching, notice, runs, started, faults,
                   governed, prop, trail, landed, sanctioned, lastSet>>

\* decide_proposal: only a pending proposal is decided; a rejection needs no more.
Fetch(r) ==
    /\ job[r].pc = "fetch"
    /\ job[r].op \in {"approve", "reject"}
    /\ Goes(r, CASE prop[job[r].prop].status # "pending" -> Idle
                 [] prop[job[r].prop].status = "pending" /\ job[r].op = "approve" ->
                        [job[r] EXCEPT !.pc = "read"]
                 [] OTHER -> [job[r] EXCEPT !.pc = "mark"])
    /\ UNCHANGED <<clustered, file, overlay, touched, watching, notice, runs, started, faults, events, propVars>>

\* reconcile_and_list: the pending ones of the list, one after the other.
NextOfList(j) == IF j.todo = {} THEN Idle
                 ELSE LET p == CHOOSE q \in j.todo : TRUE
                      IN  [j EXCEPT !.prop = p, !.todo = @ \ {p}, !.pc = "read"]
FetchList(r) ==
    /\ job[r].pc = "fetch"
    /\ job[r].op = "list"
    /\ Goes(r, NextOfList([job[r] EXCEPT !.todo =
                              {p \in Props : prop[p].status = "pending"}]))
    /\ UNCHANGED <<clustered, file, overlay, touched, watching, notice, runs, started, faults, events, propVars>>

\* rollback_literal: the latest promote of this literal, if there is one.
OfLit(l) == SelectSeq(trail, LAMBDA t : t.lit = l)
ReadTrail(r) ==
    /\ job[r].pc = "trail"
    /\ LET records == OfLit(job[r].lit)
       IN  Goes(r, IF records = <<>> THEN Idle
                   ELSE [job[r] EXCEPT !.val = records[Len(records)].before, !.pc = "read"])
    /\ UNCHANGED <<clustered, file, overlay, touched, watching, notice, runs, started, faults, events, propVars>>

-----------------------------------------------------------------------------
\* submit_proposal pins the proposal to the effective source.
Submit(r, kind) ==
    /\ job[r].op = "propose" /\ job[r].pc = "resolved"
    /\ prop' = [prop EXCEPT ![job[r].prop] = [kind |-> kind, lit |-> job[r].lit,
                                    baseline |-> job[r].eff, status |-> "pending"]]
    /\ Writes(r, Idle)
    /\ UNCHANGED <<clustered, file, overlay, touched, watching, notice, runs, started, faults, events,
                   governed, trail, landed, sanctioned, lastSet>>

\* apply_approved reads again: a literal in a cluster resolves (promote_version).
Applying(j) == [j EXCEPT !.applying = TRUE, !.pc = "read",
                         !.then = IF clustered /\ prop[j.prop].kind = "set_literal"
                                  THEN "get" ELSE "resolved"]

\* The baseline must not have moved since the evidence was gathered.
\* Mutant: the check is left to the list.
CompareNever(r) ==
    /\ job[r].pc = "resolved" /\ ~job[r].applying
    /\ job[r].op \in {"approve", "list"}
    /\ Goes(r, IF job[r].op = "approve" THEN Applying(job[r])
               ELSE IF job[r].eff # prop[job[r].prop].baseline THEN [job[r] EXCEPT !.pc = "expire"]
               ELSE NextOfList(job[r]))
    /\ UNCHANGED <<clustered, file, overlay, touched, watching, notice, runs, started, faults, events, propVars>>
Compare(r) ==
    /\ job[r].pc = "resolved" /\ ~job[r].applying
    /\ job[r].op \in {"approve", "list"}
    /\ Goes(r, CASE job[r].eff # prop[job[r].prop].baseline -> [job[r] EXCEPT !.pc = "expire"]
                 [] job[r].eff = prop[job[r].prop].baseline /\ job[r].op = "list" ->
                        NextOfList(job[r])
                 [] OTHER -> Applying(job[r]))
    /\ UNCHANGED <<clustered, file, overlay, touched, watching, notice, runs, started, faults, events, propVars>>

\* set_status, for an expiry, a rejection and an approval that was applied.
SetStatus(r, status) ==
    /\ prop' = [prop EXCEPT ![job[r].prop].status = status]
    /\ Writes(r, IF job[r].op = "list" THEN NextOfList(job[r]) ELSE Idle)
    /\ UNCHANGED <<clustered, file, overlay, touched, watching, notice, runs, started, faults, events,
                   governed, trail, landed, sanctioned, lastSet>>
Expire(r) == job[r].pc = "expire" /\ SetStatus(r, "expired")
Mark(r)   == job[r].pc = "mark" /\ SetStatus(r, IF job[r].op = "reject" THEN "rejected" ELSE "approved")

\* The bucket cannot be written: a decision returns an error, a list goes on.
MarkFails(r) ==
    /\ job[r].pc \in {"mark", "expire"}
    /\ Fault("mark")
    /\ Goes(r, IF job[r].op = "list" THEN NextOfList(job[r]) ELSE Idle)
    /\ UNCHANGED <<clustered, file, overlay, touched, watching, notice, runs, started, propVars>>

-----------------------------------------------------------------------------
\* The source a request is about to write.
Kind(r) == IF job[r].op = "approve" THEN prop[job[r].prop].kind
           ELSE IF job[r].op = "rewrite" THEN "version" ELSE "set_literal"
NewSource(r) ==
    CASE Kind(r) = "set_literal" /\ job[r].op = "approve" ->
            Set(job[r].eff, prop[job[r].prop].lit, 1)
      [] Kind(r) = "set_literal" /\ job[r].op # "approve" ->
            Set(job[r].eff, job[r].lit, job[r].val)
      [] Kind(r) = "version" /\ job[r].op = "approve" -> Rewrite(prop[job[r].prop].baseline)
      [] OTHER -> Rewrite(job[r].base)
LitOf(r) == IF job[r].op = "approve" THEN prop[job[r].prop].lit ELSE job[r].lit

\* Ready to write: a request of its own, or an approval past its check.
Ready(r) == /\ job[r].pc = "resolved"
            /\ job[r].op \in {"set", "rollback", "rewrite"} \/ job[r].applying

\* What the history variables note of a write.
Note(r, replaced) ==
    /\ landed' = IF job[r].op # "approve" THEN landed
                 ELSE [landed EXCEPT ![job[r].prop] =
                          [times |-> @.times + 1, on |-> replaced]]
    /\ sanctioned' = IF job[r].op = "approve" THEN sanctioned \cup {NewSource(r)} ELSE sanctioned
    /\ lastSet' = IF Kind(r) = "version" THEN lastSet
                  ELSE [lastSet EXCEPT ![LitOf(r)] = job[r].eff.lits[LitOf(r)]]
    /\ UNCHANGED <<governed, prop>>

\* Where a request goes once it has written: a literal is recorded.
AfterWrite(r) == IF Kind(r) = "set_literal" THEN [job[r] EXCEPT !.pc = "audit"]
                 ELSE IF job[r].op = "approve" THEN [job[r] EXCEPT !.pc = "mark"] ELSE Idle

\* put_version: the version forks from the file of this instance.
\* Mutant: a promote starts from the file and forgets the version before it.
PutOfBaseline(r) ==
    /\ Ready(r) /\ clustered
    /\ overlay' = [src |-> Set(job[r].base, LitOf(r), 1), parent |-> job[r].base]
    /\ Announce
    /\ Note(r, Effective(overlay, file[job[r].node]))
    /\ Writes(r, AfterWrite(r))
    /\ UNCHANGED <<clustered, file, watching, runs, started, faults, events, trail>>
Put(r) ==
    /\ Ready(r) /\ clustered
    /\ overlay' = [src |-> NewSource(r), parent |-> job[r].base]
    /\ Announce
    /\ Note(r, Effective(overlay, file[job[r].node]))
    /\ Writes(r, AfterWrite(r))
    /\ UNCHANGED <<clustered, file, watching, runs, started, faults, events, trail>>

\* The put, or the write of the file, fails and nothing is stored; or only the answer
\* of the put is lost.
PutFails(r) ==
    /\ Ready(r)
    /\ Fault("put")
    /\ Goes(r, Idle)
    /\ UNCHANGED <<clustered, file, overlay, touched, watching, notice, runs, started, propVars>>
PutUnanswered(r) ==
    /\ Ready(r) /\ clustered
    /\ Fault("put")
    /\ overlay' = [src |-> NewSource(r), parent |-> job[r].base]
    /\ Announce
    /\ Note(r, Effective(overlay, file[job[r].node]))
    /\ Writes(r, Idle)
    /\ UNCHANGED <<clustered, file, watching, runs, started, trail>>

\* A single instance writes its file; the reload that follows starts the unit.
WriteFile(r) ==
    /\ Ready(r) /\ ~clustered
    /\ file' = [file EXCEPT ![job[r].node] = NewSource(r)]
    /\ Note(r, file[job[r].node])
    /\ Writes(r, IF Kind(r) = "set_literal" THEN AfterWrite(r)
                 ELSE [job[r] EXCEPT !.pc = "reload"])
    /\ UNCHANGED <<clustered, overlay, touched, watching, notice, runs, started, faults, events, trail>>

\* record_promote is best effort.
AfterAudit(r) == IF ~clustered THEN [job[r] EXCEPT !.pc = "reload"]
                 ELSE IF job[r].op = "approve" THEN [job[r] EXCEPT !.pc = "mark"] ELSE Idle
RecordPromote(r) ==
    /\ job[r].pc = "audit"
    /\ trail' = Append(trail, [lit |-> LitOf(r), before |-> job[r].eff.lits[LitOf(r)]])
    /\ Writes(r, AfterAudit(r))
    /\ UNCHANGED <<clustered, file, overlay, touched, watching, notice, runs, started, faults, events,
                   governed, prop, landed, sanctioned, lastSet>>
RecordFails(r) ==
    /\ job[r].pc = "audit"
    /\ Fault("audit")
    /\ Goes(r, AfterAudit(r))
    /\ UNCHANGED <<clustered, file, overlay, touched, watching, notice, runs, started, propVars>>

Reload(r) ==
    /\ job[r].pc = "reload"
    /\ job' = [job EXCEPT ![r] = IF job[r].op = "approve" THEN [job[r] EXCEPT !.pc = "mark"]
                                 ELSE Idle,
                          ![job[r].node] = Starting(job[r].node, file[job[r].node])]
    /\ UNCHANGED <<clustered, file, overlay, touched, watching, notice, runs, started, raced,
                   faults, events, propVars>>

Step(r) ==
    \/ Fetch(r) \/ FetchList(r) \/ ReadTrail(r) \/ Compare(r) \/ Expire(r) \/ Mark(r)
    \/ MarkFails(r) \/ Put(r) \/ PutFails(r) \/ PutUnanswered(r) \/ WriteFile(r)
    \/ RecordPromote(r) \/ RecordFails(r) \/ Reload(r)
    \/ \E kind \in {"set_literal", "version"} : Submit(r, kind)

Next ==
    \/ VersionsNext /\ UNCHANGED propVars
    \/ \E r \in Reqs : Step(r)
    \/ \E r \in Reqs, d \in DoorOps, who \in {"agent", "human"} :
         \E l \in IF d.op \in {"set", "rollback"} THEN LitsOf[r] ELSE {Idle.lit},
            p \in IF d.op \in {"approve", "reject", "propose"} THEN Props ELSE {0} :
            Begin(r, d, who, l, p)

\* Threads go on, and the watch is served and opened again.  No thread needs to be
\* treated fairly against another: nothing here goes on for ever.
Progress ==
    \/ /\ \/ \E a \in Jobs : ReadFile(a) \/ Get(a) \/ Evict(a)
          \/ \E n \in Nodes : WatchFires(n) \/ WatchOpens(n)
       /\ UNCHANGED propVars
    \/ \E r \in Reqs : Step(r)

Spec == Init /\ [][Next]_vars /\ WF_vars(Progress)

-----------------------------------------------------------------------------
\* The variables range over what the code keeps in them.
TypeOK ==
    /\ file \in [Nodes -> Sources] /\ runs \in [Nodes -> Sources]
    /\ overlay = NoVersion \/ overlay \in [src: Sources, parent: Sources]
    /\ \A p \in Props : prop[p].status \in {"none", "pending", "approved", "rejected", "expired"}
    /\ \A j \in Jobs : job[j].op # "idle" <=> job[j].pc # "idle"
    /\ faults \subseteq FaultKinds

\* Git wins: a unit never runs a version made for another revision than the file
\* it started on, as long as no writer was overtaken between its read and its
\* write (versions.rs: "a silent overlay masking a deploy").
GitWins == raced \/ \A n \in Instances : runs[n].rev = started[n].rev

\* An approved change lands on the very source its evidence saw: decide_proposal
\* compares before it applies.  Only a writer between the two can slip in.
LandsOnEvidence ==
    raced \/ "get" \in faults
      \/ \A p \in Props : landed[p].times > 0 => landed[p].on = prop[p].baseline

\* The queue tells the truth: what it says was rejected or expired was never
\* applied, and what it says was approved was.
StatusIsTrue ==
    \/ raced \/ faults \cap {"mark", "put", "crash"} # {}
    \/ \A p \in Props : (\A r \in Reqs : job[r].prop # p) =>
         /\ prop[p].status \in {"rejected", "expired"} => landed[p].times = 0
         /\ prop[p].status = "approved" => landed[p].times = 1

\* Changes stand: a unit runs nothing made for another revision, an approved change lands on
\* the source its evidence saw, and the queue of proposals tells the truth.
ChangesStand == GitWins /\ LandsOnEvidence /\ StatusIsTrue

\* In governed mode nothing but git and approved changes is ever on disk, in the
\* bucket or running, whatever doors the agent tries and whatever races or fails.
GovernedOnly ==
    governed =>
        \A s \in {file[n] : n \in Nodes} \cup {runs[n] : n \in Nodes}
                  \cup (IF overlay = NoVersion THEN {} ELSE {overlay.src}) :
            s \in sanctioned \/ \E r \in 0..MaxRev : s = Git(r)

\* Promotes add up: a version that follows another one from the same file keeps
\* its literals but the one promoted, unless it is a whole version or its writer
\* was overtaken or could not read the bucket.
PromotesAddUp ==
    [][ (/\ overlay # NoVersion /\ overlay' # NoVersion
         /\ overlay'.parent = overlay.parent
         /\ ~raced' /\ "get" \notin faults
         /\ \A r \in Reqs : Kind(r) = "set_literal")
        => \E l \in Lits : \A m \in Lits \ {l} :
               overlay'.src.lits[m] = overlay.src.lits[m] ]_vars

\* An eviction removes only a version that forked from another file than the one
\* its instance has: resolve_source deletes by key, after a read.
EvictsOnlyStale ==
    [][ (overlay # NoVersion /\ overlay' = NoVersion /\ ~raced')
        => \E a \in Jobs : job[a].pc = "evict" /\ overlay.parent # file[job[a].node] ]_vars

\* A rollback restores the value the literal had before its latest promote, which
\* it reads from the audit trail.
RollbackRestores ==
    [][ \A r \in Reqs :
          (/\ job[r].op = "rollback" /\ job[r].pc = "resolved" /\ job'[r].pc = "audit"
           /\ ~raced' /\ faults \cap {"audit", "crash"} = {})
          => file'[job[r].node].lits[job[r].lit] = lastSet[job[r].lit] ]_vars

\* In the end every instance runs its effective source: a change of the version
\* reaches every unit, through a watch that ends and evictions that cross.
InForce == "get" \in faults \/ \A n \in Instances : runs[n] = Effective(overlay, file[n])
Converges == <>[]InForce
=============================================================================
