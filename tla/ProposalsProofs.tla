-------------------------- MODULE ProposalsProofs ---------------------------
(***************************************************************************)
(* In governed mode only git and approvals change what runs, for any       *)
(* number of instances, request threads, literals, revisions and           *)
(* proposals, and however their steps interleave and fail.                 *)
(***************************************************************************)
EXTENDS Proposals, TLAPS

-----------------------------------------------------------------------------
(* The inductive invariant.                                                *)

\* A source that is git's or one of S.
Clean(s, S) == s \in S \/ \E r \in 0..MaxRev : s = Git(r)

\* What a job of a governed instance may be: it promotes nothing of its own,
GovernedOps == {"idle", "start", "propose", "list", "approve", "reject"}
GovernedPcs == {"idle", "read", "get", "evict", "resolved", "fetch", "mark", "expire",
                "audit", "reload"}
JobSet ==
    [op: GovernedOps, pc: GovernedPcs, node: Nodes, base: Sources, eff: Sources, lit: Lits,
     val: {0, 1}, then: {"get", "resolved"}, prop: Props \cup {0}, todo: SUBSET Props,
     applying: BOOLEAN, stale: BOOLEAN]

\* what it has read is clean, and what it applies is an approved proposal.
GoodJob(j, S) ==
    /\ j \in JobSet
    /\ Clean(j.base, S) /\ Clean(j.eff, S)
    /\ j.applying => j.op = "approve"
    /\ j.op = "approve" => j.prop \in Props

PropSet ==
    [kind: {"none", "set_literal", "version"}, lit: Lits, baseline: Sources,
     status: {"none", "pending", "approved", "rejected", "expired"}]

SourcesOk ==
    /\ file \in [Nodes -> Sources] /\ runs \in [Nodes -> Sources]
    /\ \A n \in Nodes : Clean(file[n], sanctioned) /\ Clean(runs[n], sanctioned)
    /\ overlay.src \in Sources /\ Clean(overlay.src, sanctioned)

JobsOk ==
    /\ job \in [Jobs -> JobSet]
    /\ \A j \in Jobs : GoodJob(job[j], sanctioned)

IInv == governed => SourcesOk /\ JobsOk /\ prop \in [Props -> PropSet]

-----------------------------------------------------------------------------
(* Sources and jobs as values.                                             *)

LEMMA GitIsSource ==
    ASSUME NEW r \in 0..MaxRev
    PROVE  Git(r) \in Sources
BY VersionsAssumption DEF Git, Sources

LEMMA RewriteIsSource ==
    ASSUME NEW s \in Sources
    PROVE  Rewrite(s) \in Sources
BY DEF Rewrite, Sources

LEMMA SetIsSource ==
    ASSUME NEW s \in Sources, NEW l, NEW v \in 0..1
    PROVE  Set(s, l, v) \in Sources
<1>1. s.lits \in [Lits -> 0..1] /\ s.rev \in 0..MaxRev
  BY DEF Sources
<1>2. [s.lits EXCEPT ![l] = v] \in [Lits -> 0..1]
  BY <1>1
<1>3. Set(s, l, v) = [rev |-> s.rev, lits |-> [s.lits EXCEPT ![l] = v]]
  BY DEF Set, Sources
<1>. QED  BY <1>1, <1>2, <1>3 DEF Sources

\* What is clean stays so as approvals are added.
LEMMA StaysClean ==
    ASSUME NEW S, NEW T, S \subseteq T
    PROVE  /\ \A s : Clean(s, S) => Clean(s, T)
           /\ \A j : GoodJob(j, S) => GoodJob(j, T)
<1>1. \A s : Clean(s, S) => Clean(s, T)
  BY DEF Clean
<1>. QED  BY <1>1 DEF GoodJob

LEMMA ChoiceIsIn ==
    ASSUME NEW S, S # {}
    PROVE  (CHOOSE x \in S : TRUE) \in S
<1>1. \E x : x \in S /\ TRUE
  OBVIOUS
<1>. QED  BY <1>1, Zenon

LEMMA IdleIsGood ==
    ASSUME NEW S
    PROVE  GoodJob(Idle, S)
<1>1. Git(0) \in Sources /\ Clean(Git(0), S)
  BY VersionsAssumption, GitIsSource DEF Clean
<1>2. Idle \in JobSet
  BY <1>1, VersionsAssumption, ChoiceIsIn DEF Idle, JobSet, GovernedOps, GovernedPcs
<1>. QED  BY <1>1, <1>2 DEF GoodJob, Idle

LEMMA StartIsGood ==
    ASSUME NEW S, NEW n \in Nodes, NEW src \in Sources, Clean(src, S)
    PROVE  GoodJob(Starting(n, src), S) /\ Starting(n, src).op = "start"
           /\ Starting(n, src).base = src
<1>0. Idle \in JobSet
  BY IdleIsGood DEF GoodJob
<1>1. Starting(n, src) \in JobSet
  BY <1>0 DEF Starting, JobSet, GovernedOps, GovernedPcs
<1>2. /\ Starting(n, src).base = src /\ Starting(n, src).eff = src
      /\ Starting(n, src).op = "start" /\ Starting(n, src).applying = FALSE
  BY DEF Starting, Idle
<1>. QED  BY <1>1, <1>2 DEF GoodJob

\* A job that only goes to another place, or learns that it is overtaken.
LEMMA MovedIsGood ==
    ASSUME NEW S, NEW j, GoodJob(j, S), NEW p \in GovernedPcs
    PROVE  GoodJob([j EXCEPT !.pc = p], S)
BY DEF GoodJob, JobSet

LEMMA OvertakenIsGood ==
    ASSUME NEW S, NEW j, GoodJob(j, S), NEW b \in BOOLEAN
    PROVE  GoodJob([j EXCEPT !.stale = b], S)
BY DEF GoodJob, JobSet

\* A job that has read the file, or looked at the bucket.
LEMMA ReadIsGood ==
    ASSUME NEW S, NEW j, GoodJob(j, S), NEW s \in Sources, Clean(s, S), NEW p \in GovernedPcs
    PROVE  /\ GoodJob([j EXCEPT !.base = s, !.eff = s, !.pc = p], S)
           /\ GoodJob([j EXCEPT !.eff = s], S) /\ [j EXCEPT !.eff = s].eff = s
           /\ [j EXCEPT !.eff = s].op = j.op
BY DEF GoodJob, JobSet

LEMMA DoneIsGood ==
    ASSUME NEW S, NEW j, GoodJob(j, S)
    PROVE  GoodJob(Done(j), S)
BY IdleIsGood, MovedIsGood DEF Done, GovernedPcs

\* The next proposal of a list.
LEMMA NextIsGood ==
    ASSUME NEW S, NEW j, GoodJob(j, S), j.op = "list"
    PROVE  GoodJob(NextOfList(j), S)
<1>1. CASE j.todo = {}
  BY <1>1, IdleIsGood DEF NextOfList
<1>2. CASE j.todo # {}
  <2>. DEFINE p == CHOOSE q \in j.todo : TRUE
  <2>1. p \in j.todo
    BY <1>2, ChoiceIsIn
  <2>2. NextOfList(j) = [j EXCEPT !.prop = p, !.todo = j.todo \ {p}, !.pc = "read"]
    BY <1>2 DEF NextOfList
  <2>. HIDE DEF p
  <2>3. p \in Props /\ j.todo \ {p} \in SUBSET Props
    BY <2>1 DEF GoodJob, JobSet
  <2>. DEFINE rest == j.todo \ {p}
  <2>. HIDE DEF rest
  <2>4. GoodJob([j EXCEPT !.prop = p, !.todo = rest, !.pc = "read"], S)
    BY <2>3 DEF GoodJob, JobSet, GovernedPcs, rest
  <2>. QED  BY <2>2, <2>4 DEF rest
<1>. QED  BY <1>1, <1>2

-----------------------------------------------------------------------------
(* Steps in general.                                                       *)

\* Everything but the jobs, when approvals are only added.
LEMMA StandsStill ==
    ASSUME IInv, governed, sanctioned \subseteq sanctioned',
           UNCHANGED <<file, runs, overlay>>
    PROVE  SourcesOk'
BY StaysClean DEF IInv, SourcesOk

\* One job goes on, and the others at most learn that they are overtaken (Goes, Writes).
LEMMA JobsGoOn ==
    ASSUME IInv, governed, sanctioned \subseteq sanctioned', NEW a \in Jobs, NEW next,
           GoodJob(next, sanctioned'), Goes(a, next) \/ Writes(a, next)
    PROVE  JobsOk'
<1>1. /\ job \in [Jobs -> JobSet] /\ next \in JobSet
      /\ \A j \in Jobs : GoodJob(job[j], sanctioned')
  BY StaysClean DEF IInv, JobsOk, GoodJob
<1>2. CASE Goes(a, next)
  BY <1>1, <1>2 DEF Goes, JobsOk
<1>3. CASE Writes(a, next)
  <2>1. ASSUME NEW j \in Jobs
        PROVE  job'[j] = next \/ \E b \in BOOLEAN : job'[j] = [job[j] EXCEPT !.stale = b]
    <3>1. job[j].stale \in BOOLEAN /\ Holds(j) \in BOOLEAN
      BY <1>1 DEF JobSet, Holds
    <3>. QED  BY <1>3, <3>1 DEF Writes
  <2>2. ASSUME NEW j \in Jobs PROVE GoodJob(job'[j], sanctioned')
    <3>1. GoodJob(job[j], sanctioned')
      BY <1>1
    <3>2. \A b \in BOOLEAN : GoodJob([job[j] EXCEPT !.stale = b], sanctioned')
      BY <3>1, OvertakenIsGood
    <3>. QED  BY <2>1, <3>2
  <2>3. job' \in [Jobs -> JobSet]
    BY <1>3, <2>2 DEF Writes, GoodJob
  <2>. QED  BY <2>2, <2>3 DEF JobsOk
<1>. QED  BY <1>2, <1>3

\* A unit that has resolved a clean source runs it (Resolved).
LEMMA RunsStayClean ==
    ASSUME IInv, governed, UNCHANGED <<file, sanctioned>>, NEW a, NEW next,
           GoodJob(next, sanctioned), Resolved(a, next) \/ UNCHANGED <<runs, started>>,
           overlay'.src \in Sources, Clean(overlay'.src, sanctioned)
    PROVE  SourcesOk'
<1>1. next.eff \in Sources /\ Clean(next.eff, sanctioned)
  BY DEF GoodJob, JobSet
<1>2. runs' = runs \/ runs' = [runs EXCEPT ![a] = next.eff]
  BY DEF Resolved
<1>. QED  BY <1>1, <1>2 DEF IInv, SourcesOk

-----------------------------------------------------------------------------
(* Versions.                                                               *)

\* What is in force is clean when the file and the bucket are (resolve_source).
LEMMA EffectiveIsClean ==
    ASSUME NEW ov, NEW base, NEW S, ov.src \in Sources, Clean(ov.src, S),
           base \in Sources, Clean(base, S)
    PROVE  Effective(ov, base) \in Sources /\ Clean(Effective(ov, base), S)
BY DEF Effective

LEMMA LookKeeps ==
    ASSUME IInv, governed, UNCHANGED <<file, overlay, propVars>>, NEW a \in Jobs, NEW j,
           GoodJob(j, sanctioned), Look(a, j)
    PROVE  IInv'
<1>. DEFINE next == [j EXCEPT !.eff = Effective(overlay, j.base)]
<1>1. GoodJob(next, sanctioned)
  <2>1. j.base \in Sources /\ Clean(j.base, sanctioned)
    BY DEF GoodJob, JobSet
  <2>2. Effective(overlay, j.base) \in Sources /\ Clean(Effective(overlay, j.base), sanctioned)
    BY <2>1, EffectiveIsClean DEF IInv, SourcesOk
  <2>. QED  BY <2>2, ReadIsGood DEF GovernedPcs
<1>2. GoodJob(Done(next), sanctioned) /\ GoodJob([next EXCEPT !.pc = "evict"], sanctioned)
  BY <1>1, DoneIsGood, MovedIsGood DEF GovernedPcs
<1>3. \/ Goes(a, Done(next)) /\ Resolved(a, next)
      \/ Goes(a, [next EXCEPT !.pc = "evict"]) /\ UNCHANGED <<runs, started>>
  BY DEF Look
<1>. HIDE DEF next
<1>4. UNCHANGED <<governed, prop, sanctioned>>
  BY DEF propVars
<1>5. JobsOk'
  BY <1>2, <1>3, <1>4, JobsGoOn
<1>6. SourcesOk'
  BY <1>1, <1>3, <1>4, RunsStayClean DEF IInv, SourcesOk
<1>. QED  BY <1>4, <1>5, <1>6 DEF IInv

\* The file is read, and what was read of the bucket leads to an end or to an
\* eviction (ReadFile, Get, GetFails, Evict, EvictFails).
LEMMA JobKeeps ==
    ASSUME IInv, governed, UNCHANGED propVars, NEW a \in Jobs,
           ReadFile(a) \/ Get(a) \/ GetFails(a) \/ Evict(a) \/ EvictFails(a)
    PROVE  IInv'
<1>1. UNCHANGED <<governed, prop, sanctioned>>
  BY DEF propVars
<1>2. GoodJob(job[a], sanctioned) /\ job[a] \in JobSet
  BY DEF IInv, JobsOk
<1>3. CASE ReadFile(a)
  <2>. DEFINE base == file[job[a].node]
  <2>1. base \in Sources /\ Clean(base, sanctioned)
    BY <1>2 DEF IInv, SourcesOk, JobSet
  <2>2. job[a].then \in GovernedPcs
    BY <1>2 DEF JobSet, GovernedPcs
  <2>3. GoodJob([job[a] EXCEPT !.base = base, !.eff = base, !.pc = job[a].then], sanctioned)
    BY <1>2, <2>1, <2>2, ReadIsGood
  <2>4. Goes(a, [job[a] EXCEPT !.base = base, !.eff = base, !.pc = job[a].then])
        /\ UNCHANGED <<file, runs, overlay>>
    BY <1>3 DEF ReadFile
  <2>. HIDE DEF base
  <2>. QED  BY <1>1, <2>3, <2>4, JobsGoOn, StandsStill DEF IInv
<1>4. CASE Get(a)
  BY <1>1, <1>2, <1>4, LookKeeps DEF Get
<1>5. CASE GetFails(a) \/ Evict(a) \/ EvictFails(a)
  <2>1. /\ Goes(a, Done(job[a])) \/ Writes(a, Done(job[a]))
        /\ Resolved(a, job[a]) /\ UNCHANGED file
        /\ overlay' = overlay \/ overlay' = NoVersion
    BY <1>5 DEF GetFails, Evict, EvictFails
  <2>2. NoVersion.src \in Sources /\ Clean(NoVersion.src, sanctioned)
    BY VersionsAssumption, GitIsSource DEF NoVersion, Clean
  <2>3. overlay'.src \in Sources /\ Clean(overlay'.src, sanctioned)
    BY <2>1, <2>2 DEF IInv, SourcesOk
  <2>4. SourcesOk'
    BY <1>1, <1>2, <2>1, <2>3, RunsStayClean
  <2>5. JobsOk'
    BY <1>1, <1>2, <2>1, DoneIsGood, JobsGoOn
  <2>. QED  BY <1>1, <2>4, <2>5 DEF IInv
<1>. QED  BY <1>3, <1>4, <1>5

\* The watch, a deploy and a crash (WatchFires, WatchEnds, WatchOpens, Deploy, Crash).
LEMMA NodeKeeps ==
    ASSUME IInv, governed, UNCHANGED propVars, NEW n \in Nodes,
           \/ WatchFires(n) \/ WatchEnds(n) \/ WatchOpens(n) \/ Deploy(n) \/ Crash(n)
    PROVE  IInv'
<1>1. UNCHANGED <<governed, prop, sanctioned>>
  BY DEF propVars
<1>2. file[n] \in Sources /\ Clean(file[n], sanctioned) /\ n \in Jobs
  BY DEF IInv, SourcesOk, Jobs
<1>3. CASE WatchFires(n)
  BY <1>2, <1>3, StartIsGood, LookKeeps DEF WatchFires
<1>4. CASE WatchEnds(n) \/ WatchOpens(n)
  BY <1>1, <1>4 DEF WatchEnds, WatchOpens, IInv, SourcesOk, JobsOk
<1>5. CASE Deploy(n)
  <2>. DEFINE src == Git(file[n].rev + 1)
  <2>1. file[n].rev + 1 \in 0..MaxRev
    BY <1>2, <1>5, VersionsAssumption DEF Deploy, Sources
  <2>2. src \in Sources /\ Clean(src, sanctioned)
    BY <2>1, GitIsSource DEF Clean
  <2>3. file' = [file EXCEPT ![n] = src] /\ UNCHANGED <<runs, overlay>>
    BY <1>5 DEF Deploy
  <2>. HIDE DEF src
  <2>4. SourcesOk' /\ file'[n] = src
    BY <1>1, <2>2, <2>3 DEF IInv, SourcesOk
  <2>5. GoodJob(Starting(n, file'[n]), sanctioned)
    BY <2>2, <2>4, StartIsGood
  <2>6. ASSUME NEW j \in Jobs PROVE GoodJob(job'[j], sanctioned)
    <3>1. GoodJob(job[j], sanctioned) /\ job[j].stale \in BOOLEAN
      BY DEF IInv, JobsOk, JobSet
    <3>2. \/ job'[j] = Starting(n, file'[n])
          \/ \E b \in BOOLEAN : job'[j] = [job[j] EXCEPT !.stale = b]
      BY <1>5, <3>1 DEF Deploy, Holds
    <3>3. \A b \in BOOLEAN : GoodJob([job[j] EXCEPT !.stale = b], sanctioned)
      BY <3>1, OvertakenIsGood
    <3>. QED  BY <2>5, <3>2, <3>3
  <2>7. JobsOk'
    BY <1>1, <1>5, <2>6 DEF Deploy, JobsOk, GoodJob
  <2>. QED  BY <1>1, <2>4, <2>7 DEF IInv
<1>6. CASE Crash(n)
  <2>1. ASSUME NEW j \in Jobs PROVE GoodJob(job'[j], sanctioned)
    BY <1>2, <1>6, StartIsGood, IdleIsGood DEF Crash, IInv, JobsOk
  <2>2. JobsOk'
    BY <1>1, <1>6, <2>1 DEF Crash, JobsOk, GoodJob
  <2>. QED  BY <1>1, <1>6, <2>2 DEF Crash, IInv, SourcesOk
<1>. QED  BY <1>3, <1>4, <1>5, <1>6

-----------------------------------------------------------------------------
(* Proposals.                                                              *)

\* A job that goes on without writing a source.
LEMMA StepKeeps ==
    ASSUME IInv, governed, UNCHANGED <<file, runs, overlay, governed, sanctioned>>,
           NEW a \in Jobs, NEW next, GoodJob(next, sanctioned),
           Goes(a, next) \/ Writes(a, next), prop' \in [Props -> PropSet]
    PROVE  IInv'
BY JobsGoOn, StandsStill DEF IInv

\* The doors of a governed instance: none of them promotes anything (approval_gate).
LEMMA GovernedDoors ==
    ASSUME governed, NEW d \in DoorOps, NEW c, Served(d.door, Env, c)
    PROVE  /\ d.op \in GovernedOps /\ d.op \notin {"set", "rollback"}
           /\ d.pc \in {"get", "fetch"}
<1>1. Env.governed
  BY DEF Env
<1>2. d.door \notin ApprovalGated
  BY <1>1 DEF Served, ApprovalGate
<1>. QED  BY <1>2 DEF DoorOps, ApprovalGated, FileWrites, FileTools, GovernedOps

LEMMA BegunIsJob ==
    ASSUME NEW op \in GovernedOps, NEW n \in Nodes, NEW l \in Lits, NEW p \in Props \cup {0},
           NEW src \in Sources, NEW at \in GovernedPcs
    PROVE  [Idle EXCEPT !.op = op, !.node = n, !.lit = l, !.prop = p, !.val = 1,
                        !.base = src, !.eff = src, !.pc = at, !.then = "get"] \in JobSet
<1>1. Idle \in JobSet
  BY IdleIsGood DEF GoodJob
<1>. DEFINE j == [Idle EXCEPT !.op = op, !.node = n, !.lit = l, !.prop = p]
            k == [j EXCEPT !.val = 1, !.base = src, !.eff = src]
<1>2. j \in JobSet
  BY <1>1 DEF JobSet
<1>. HIDE DEF j
<1>3. k \in JobSet
  BY <1>2 DEF JobSet
<1>. HIDE DEF k
<1>4. [k EXCEPT !.pc = at, !.then = "get"] \in JobSet
  BY <1>3 DEF JobSet
<1>. QED  BY <1>4, Zenon DEF j, k

LEMMA BeginKeeps ==
    ASSUME IInv, governed, NEW r \in Reqs, NEW d \in DoorOps, NEW who,
           NEW l \in IF d.op \in {"set", "rollback"} THEN LitsOf[r] ELSE {Idle.lit},
           NEW p \in IF d.op \in {"approve", "reject", "propose"} THEN Props ELSE {0},
           Begin(r, d, who, l, p)
    PROVE  IInv'
<1>. DEFINE n == IF clustered THEN HomeOf[r] ELSE CHOOSE m \in Instances : TRUE
<1>1. /\ d.op \in GovernedOps /\ d.op \notin {"set", "rollback"}
      /\ d.pc \in {"get", "fetch"}
  BY GovernedDoors DEF Begin
<1>2. n \in Nodes
  <2>1. CASE clustered
    BY <2>1, VersionsAssumption
  <2>2. CASE ~clustered
    <3>1. Instances # {} /\ Instances \subseteq Nodes
      BY <2>2, VersionsAssumption, ChoiceIsIn DEF Instances
    <3>. QED  BY <2>2, <3>1, ChoiceIsIn
  <2>. QED  BY <2>1, <2>2
<1>. DEFINE next == [Idle EXCEPT !.op = d.op, !.node = n, !.lit = l, !.prop = p, !.val = 1,
                         !.base = file[n], !.eff = file[n], !.pc = d.pc, !.then = "get"]
<1>3. Goes(r, next)
  BY <1>1 DEF Begin
<1>. HIDE DEF n
<1>4. file[n] \in Sources /\ Clean(file[n], sanctioned)
  BY <1>2 DEF IInv, SourcesOk
<1>5. Idle \in JobSet /\ Idle.applying = FALSE /\ l \in Lits /\ p \in Props \cup {0}
  <2>1. Idle \in JobSet
    BY IdleIsGood DEF GoodJob
  <2>. QED  BY <1>1, <2>1 DEF JobSet, Idle
<1>6. next \in JobSet
  <2>. DEFINE src == file[n]
              op == d.op
              at == d.pc
  <2>1. op \in GovernedOps /\ at \in GovernedPcs /\ src \in Sources
    BY <1>1, <1>4 DEF GovernedPcs
  <2>. HIDE DEF src, op, at
  <2>2. [Idle EXCEPT !.op = op, !.node = n, !.lit = l, !.prop = p, !.val = 1,
                     !.base = src, !.eff = src, !.pc = at, !.then = "get"] \in JobSet
    BY <1>2, <1>5, <2>1, BegunIsJob, Zenon
  <2>. QED  BY <2>2, Zenon DEF src, op, at
<1>7. /\ next.base = file[n] /\ next.eff = file[n] /\ next.op = d.op /\ next.prop = p
      /\ next.applying = FALSE
  BY <1>5 DEF JobSet
<1>. HIDE DEF next
<1>8. GoodJob(next, sanctioned)
  BY <1>4, <1>6, <1>7 DEF GoodJob
<1>. QED
  BY <1>3, <1>8, StepKeeps DEF Begin, Jobs, IInv

\* A decision or a list begins (Fetch, FetchList); no rollback does (ReadTrail).
LEMMA FetchKeeps ==
    ASSUME IInv, governed, NEW r \in Reqs, Fetch(r) \/ FetchList(r) \/ ReadTrail(r)
    PROVE  IInv'
<1>1. r \in Jobs /\ GoodJob(job[r], sanctioned) /\ job[r] \in JobSet
  BY DEF IInv, JobsOk, Jobs
<1>2. ~ReadTrail(r)
  BY <1>1 DEF ReadTrail, JobSet, GovernedPcs
<1>3. UNCHANGED <<file, runs, overlay, governed, sanctioned, prop>>
  BY <1>2 DEF Fetch, FetchList, propVars
<1>4. \E next : GoodJob(next, sanctioned) /\ Goes(r, next)
  <2>1. CASE Fetch(r)
    <3>1. \/ Goes(r, Idle) \/ Goes(r, [job[r] EXCEPT !.pc = "read"])
          \/ Goes(r, [job[r] EXCEPT !.pc = "mark"])
      BY <2>1 DEF Fetch
    <3>2. /\ GoodJob([job[r] EXCEPT !.pc = "read"], sanctioned)
          /\ GoodJob([job[r] EXCEPT !.pc = "mark"], sanctioned)
      BY <1>1, MovedIsGood DEF GovernedPcs
    <3>. QED  BY <3>1, <3>2, IdleIsGood
  <2>2. CASE FetchList(r)
    <3>. DEFINE todo == {p \in Props : prop[p].status = "pending"}
                j == [job[r] EXCEPT !.todo = todo]
    <3>1. Goes(r, NextOfList(j)) /\ job[r].op = "list"
      BY <2>2 DEF FetchList
    <3>2. todo \in SUBSET Props
      OBVIOUS
    <3>. HIDE DEF todo
    <3>3. GoodJob(j, sanctioned) /\ j.op = "list"
      BY <1>1, <3>1, <3>2 DEF GoodJob, JobSet
    <3>. HIDE DEF j
    <3>. QED  BY <3>1, <3>3, NextIsGood
  <2>. QED  BY <1>2, <2>1, <2>2
<1>. QED  BY <1>1, <1>3, <1>4, StepKeeps DEF IInv

\* A proposal is made: it is pinned to the source its thread resolved (Submit).
LEMMA SubmitKeeps ==
    ASSUME IInv, governed, NEW r \in Reqs, NEW kind \in {"set_literal", "version"},
           Submit(r, kind)
    PROVE  IInv'
<1>1. r \in Jobs /\ job[r] \in JobSet
  BY DEF IInv, JobsOk, Jobs
<1>. DEFINE new == [kind |-> kind, lit |-> job[r].lit, baseline |-> job[r].eff,
                    status |-> "pending"]
<1>2. new \in PropSet
  BY <1>1 DEF JobSet, PropSet
<1>3. prop' = [prop EXCEPT ![job[r].prop] = new]
  BY DEF Submit
<1>. HIDE DEF new
<1>4. prop' \in [Props -> PropSet]
  BY <1>2, <1>3 DEF IInv
<1>. QED  BY <1>1, <1>4, IdleIsGood, StepKeeps DEF Submit

\* Applying is a second pass of an approval.
LEMMA ApplyingIsGood ==
    ASSUME NEW S, NEW j, GoodJob(j, S), j.op = "approve"
    PROVE  GoodJob(Applying(j), S)
<1>. DEFINE to == IF clustered /\ prop[j.prop].kind = "set_literal" THEN "get" ELSE "resolved"
<1>1. to \in {"get", "resolved"}
  OBVIOUS
<1>2. Applying(j) = [j EXCEPT !.applying = TRUE, !.pc = "read", !.then = to]
  BY DEF Applying
<1>. HIDE DEF to
<1>. QED  BY <1>1, <1>2 DEF GoodJob, JobSet, GovernedPcs

\* The check of the baseline (Compare).
LEMMA CompareKeeps ==
    ASSUME IInv, governed, NEW r \in Reqs, Compare(r)
    PROVE  IInv'
<1>1. r \in Jobs /\ GoodJob(job[r], sanctioned)
  BY DEF IInv, JobsOk, Jobs
<1>2. UNCHANGED <<file, runs, overlay, governed, sanctioned, prop>>
  BY DEF Compare, propVars
<1>3. \/ Goes(r, [job[r] EXCEPT !.pc = "expire"])
      \/ job[r].op = "list" /\ Goes(r, NextOfList(job[r]))
      \/ job[r].op = "approve" /\ Goes(r, Applying(job[r]))
  BY DEF Compare
<1>4. \E next : GoodJob(next, sanctioned) /\ Goes(r, next)
  <2>1. GoodJob([job[r] EXCEPT !.pc = "expire"], sanctioned)
    BY <1>1, MovedIsGood DEF GovernedPcs
  <2>. QED  BY <1>1, <1>3, <2>1, NextIsGood, ApplyingIsGood
<1>. QED  BY <1>1, <1>2, <1>4, StepKeeps DEF IInv

\* Where a decision or a list goes when a status was written, or was not.
LEMMA StatusWritten ==
    ASSUME IInv, governed, NEW r \in Reqs
    PROVE  GoodJob(IF job[r].op = "list" THEN NextOfList(job[r]) ELSE Idle, sanctioned)
BY IdleIsGood, NextIsGood DEF IInv, JobsOk, Jobs

\* set_status, and the bucket that cannot be written (Expire, Mark, MarkFails).
LEMMA MarkKeeps ==
    ASSUME IInv, governed, NEW r \in Reqs, Expire(r) \/ Mark(r) \/ MarkFails(r)
    PROVE  IInv'
<1>. DEFINE next == IF job[r].op = "list" THEN NextOfList(job[r]) ELSE Idle
<1>1. r \in Jobs /\ GoodJob(next, sanctioned)
  BY StatusWritten DEF Jobs
<1>2. /\ Goes(r, next) \/ Writes(r, next)
      /\ UNCHANGED <<file, runs, overlay, governed, sanctioned>>
      /\ \/ prop' = prop
         \/ \E s \in {"expired", "rejected", "approved"} :
               prop' = [prop EXCEPT ![job[r].prop].status = s]
  BY DEF Expire, Mark, MarkFails, SetStatus, propVars
<1>. HIDE DEF next
<1>3. prop' \in [Props -> PropSet]
  <2>1. ASSUME NEW s \in {"expired", "rejected", "approved"},
               prop' = [prop EXCEPT ![job[r].prop].status = s]
        PROVE  prop' \in [Props -> PropSet]
    <3>. DEFINE p == job[r].prop
    <3>1. prop' = [prop EXCEPT ![p] = [prop[p] EXCEPT !.status = s]]
      BY <2>1
    <3>2. p \in Props => [prop[p] EXCEPT !.status = s] \in PropSet
      BY DEF IInv, PropSet
    <3>. HIDE DEF p
    <3>. QED  BY <3>1, <3>2 DEF IInv
  <2>. QED  BY <1>2, <2>1 DEF IInv
<1>. QED  BY <1>1, <1>2, <1>3, StepKeeps

-----------------------------------------------------------------------------
(* Writes of a source.                                                     *)

\* A thread of a governed instance that is ready to write applies an approval, and
\* what it writes is a source.
LEMMA ReadyIsApproval ==
    ASSUME IInv, governed, NEW r \in Reqs, Ready(r)
    PROVE  job[r].op = "approve" /\ NewSource(r) \in Sources
<1>1. GoodJob(job[r], sanctioned) /\ job[r] \in JobSet
  BY DEF IInv, JobsOk, Jobs
<1>2. job[r].op = "approve"
  BY <1>1 DEF Ready, GoodJob, JobSet, GovernedOps
<1>3. job[r].eff \in Sources /\ job[r].base \in Sources /\ job[r].prop \in Props
  BY <1>1, <1>2 DEF GoodJob, JobSet
<1>4. prop[job[r].prop].baseline \in Sources
  BY <1>3 DEF IInv, PropSet
<1>5. /\ Set(job[r].eff, prop[job[r].prop].lit, 1) \in Sources
      /\ Rewrite(prop[job[r].prop].baseline) \in Sources /\ Rewrite(job[r].base) \in Sources
  BY <1>3, <1>4, SetIsSource, RewriteIsSource
<1>6. \/ NewSource(r) = Set(job[r].eff, prop[job[r].prop].lit, 1)
      \/ NewSource(r) = Rewrite(prop[job[r].prop].baseline)
      \/ NewSource(r) = Rewrite(job[r].base)
  BY <1>2 DEF NewSource
<1>. QED  BY <1>2, <1>5, <1>6

\* The source an approval writes is sanctioned with the write, wherever it goes (Note).
LEMMA WriteKeeps ==
    ASSUME IInv, governed, NEW r \in Reqs, Ready(r), NEW on, Note(r, on), NEW next,
           GoodJob(next, sanctioned), Writes(r, next), UNCHANGED runs,
           \/ file' = file /\ overlay'.src = NewSource(r)
           \/ UNCHANGED overlay /\ \E n : file' = [file EXCEPT ![n] = NewSource(r)]
    PROVE  IInv'
<1>. DEFINE new == NewSource(r)
<1>1. new \in Sources /\ sanctioned' = sanctioned \cup {new} /\ UNCHANGED <<governed, prop>>
  BY ReadyIsApproval DEF Note
<1>2. \/ file' = file /\ overlay'.src = new
      \/ UNCHANGED overlay /\ \E n : file' = [file EXCEPT ![n] = new]
  OBVIOUS
<1>. HIDE DEF new
<1>3. sanctioned \subseteq sanctioned' /\ Clean(new, sanctioned')
  BY <1>1 DEF Clean
<1>4. /\ \A s : Clean(s, sanctioned) => Clean(s, sanctioned')
      /\ GoodJob(next, sanctioned')
  BY <1>3, StaysClean
<1>5. JobsOk'
  BY <1>3, <1>4, JobsGoOn DEF Jobs
<1>6. SourcesOk'
  BY <1>1, <1>2, <1>3, <1>4 DEF IInv, SourcesOk
<1>. QED  BY <1>1, <1>5, <1>6 DEF IInv

\* An approval goes on to the audit record, the reload and its status.
LEMMA ApprovalGoesOn ==
    ASSUME IInv, governed, NEW r \in Reqs
    PROVE  /\ GoodJob(AfterWrite(r), sanctioned) /\ GoodJob(AfterAudit(r), sanctioned)
           /\ GoodJob([job[r] EXCEPT !.pc = "reload"], sanctioned)
           /\ GoodJob([job[r] EXCEPT !.pc = "mark"], sanctioned)
<1>1. GoodJob(job[r], sanctioned)
  BY DEF IInv, JobsOk, Jobs
<1>2. /\ GoodJob([job[r] EXCEPT !.pc = "audit"], sanctioned)
      /\ GoodJob([job[r] EXCEPT !.pc = "mark"], sanctioned)
      /\ GoodJob([job[r] EXCEPT !.pc = "reload"], sanctioned)
  BY <1>1, MovedIsGood DEF GovernedPcs
<1>. QED  BY <1>2, IdleIsGood DEF AfterWrite, AfterAudit

\* put_version and a single instance's file (Put, PutFails, PutUnanswered, WriteFile).
LEMMA PutKeeps ==
    ASSUME IInv, governed, NEW r \in Reqs,
           Put(r) \/ PutFails(r) \/ PutUnanswered(r) \/ WriteFile(r)
    PROVE  IInv'
<1>1. r \in Jobs
  BY DEF Jobs
<1>2. CASE Put(r) \/ PutUnanswered(r)
  <2>1. /\ Ready(r) /\ Note(r, Effective(overlay, file[job[r].node]))
        /\ Writes(r, AfterWrite(r)) \/ Writes(r, Idle)
        /\ UNCHANGED <<file, runs>>
        /\ overlay' = [src |-> NewSource(r), parent |-> job[r].base]
    BY <1>2 DEF Put, PutUnanswered
  <2>2. overlay'.src = NewSource(r)
    BY <2>1
  <2>. QED  BY <2>1, <2>2, WriteKeeps, ApprovalGoesOn, IdleIsGood
<1>3. CASE PutFails(r)
  BY <1>1, <1>3, IdleIsGood, StepKeeps DEF PutFails, propVars, IInv
<1>4. CASE WriteFile(r)
  <2>1. /\ Ready(r) /\ Note(r, file[job[r].node])
        /\ Writes(r, AfterWrite(r)) \/ Writes(r, [job[r] EXCEPT !.pc = "reload"])
        /\ UNCHANGED <<overlay, runs>>
        /\ file' = [file EXCEPT ![job[r].node] = NewSource(r)]
    BY <1>4 DEF WriteFile
  <2>. QED  BY <2>1, WriteKeeps, ApprovalGoesOn
<1>. QED  BY <1>2, <1>3, <1>4

\* record_promote, whether or not it succeeds (RecordPromote, RecordFails).
LEMMA RecordKeeps ==
    ASSUME IInv, governed, NEW r \in Reqs, RecordPromote(r) \/ RecordFails(r)
    PROVE  IInv'
<1>1. /\ r \in Jobs
      /\ Goes(r, AfterAudit(r)) \/ Writes(r, AfterAudit(r))
      /\ UNCHANGED <<file, runs, overlay, governed, sanctioned, prop>>
  BY DEF Jobs, RecordPromote, RecordFails, propVars
<1>. QED  BY <1>1, ApprovalGoesOn, StepKeeps DEF IInv

\* The reload after a write starts the unit on the file (Reload).
LEMMA ReloadKeeps ==
    ASSUME IInv, governed, NEW r \in Reqs, Reload(r)
    PROVE  IInv'
<1>. DEFINE n == job[r].node
            next == IF job[r].op = "approve" THEN [job[r] EXCEPT !.pc = "mark"] ELSE Idle
            unit == Starting(n, file[n])
<1>1. job[r] \in JobSet
  BY DEF IInv, JobsOk, Jobs
<1>2. n \in Nodes
  BY <1>1 DEF JobSet
<1>3. file[n] \in Sources /\ Clean(file[n], sanctioned)
  BY <1>2 DEF IInv, SourcesOk
<1>4. GoodJob(unit, sanctioned) /\ GoodJob(next, sanctioned)
  BY <1>2, <1>3, StartIsGood, IdleIsGood, ApprovalGoesOn
<1>5. /\ job' = [job EXCEPT ![r] = next, ![n] = unit]
      /\ UNCHANGED <<file, runs, overlay, governed, sanctioned, prop>>
  BY DEF Reload, propVars
<1>. HIDE DEF n, next, unit
<1>6. next \in JobSet /\ unit \in JobSet /\ job \in [Jobs -> JobSet]
      /\ \A j \in Jobs : GoodJob(job[j], sanctioned)
  BY <1>4 DEF GoodJob, IInv, JobsOk
<1>7. JobsOk'
  BY <1>4, <1>5, <1>6 DEF JobsOk
<1>8. SourcesOk'
  BY <1>5, StandsStill
<1>. QED  BY <1>5, <1>7, <1>8 DEF IInv

-----------------------------------------------------------------------------
(* The theorem.                                                            *)

LEMMA InitIsGood == Init => IInv
<1>. SUFFICES ASSUME Init PROVE IInv
  OBVIOUS
<1>1. Git(0) \in Sources /\ Clean(Git(0), sanctioned)
  BY VersionsAssumption, GitIsSource DEF Clean
<1>2. SourcesOk
  BY <1>1 DEF Init, VersionsInit, SourcesOk, NoVersion
<1>3. GoodJob(Idle, sanctioned) /\ Idle \in JobSet
  BY IdleIsGood DEF GoodJob
<1>4. JobsOk
  BY <1>3 DEF Init, VersionsInit, JobsOk
<1>5. NoProposal \in PropSet /\ NoProposal.lit \in Lits
  BY <1>1, VersionsAssumption, ChoiceIsIn DEF NoProposal, PropSet
<1>6. prop \in [Props -> PropSet]
  BY <1>1, <1>5 DEF Init, PropSet
<1>. QED  BY <1>2, <1>4, <1>6 DEF IInv

LEMMA StepsKeep ==
    ASSUME IInv, governed, [Next]_vars
    PROVE  IInv'
<1>1. ASSUME NEW r \in Reqs, Step(r) PROVE IInv'
  BY <1>1, FetchKeeps, SubmitKeeps, CompareKeeps, MarkKeeps, PutKeeps, RecordKeeps, ReloadKeeps
     DEF Step
<1>2. CASE VersionsNext /\ UNCHANGED propVars
  BY <1>2, JobKeeps, NodeKeeps DEF VersionsNext
<1>3. CASE UNCHANGED vars
  BY <1>3 DEF vars, verVars, propVars, IInv, SourcesOk, JobsOk, Jobs
<1>4. CASE \E r \in Reqs, d \in DoorOps, who \in {"agent", "human"} :
             \E l \in IF d.op \in {"set", "rollback"} THEN LitsOf[r] ELSE {Idle.lit},
                p \in IF d.op \in {"approve", "reject", "propose"} THEN Props ELSE {0} :
                Begin(r, d, who, l, p)
  BY <1>4, BeginKeeps
<1>. QED  BY <1>1, <1>2, <1>3, <1>4 DEF Next

\* VEJAS_REQUIRE_APPROVAL is read once, when the process starts.
LEMMA ModeStays ==
    ASSUME [Next]_vars
    PROVE  governed' = governed
<1>1. ASSUME NEW r \in Reqs, Step(r) PROVE governed' = governed
  <2>1. CASE Fetch(r) \/ FetchList(r) \/ ReadTrail(r) \/ Compare(r)
    BY <2>1 DEF Fetch, FetchList, ReadTrail, Compare, propVars
  <2>2. CASE Expire(r) \/ Mark(r) \/ MarkFails(r) \/ \E kind \in {"set_literal", "version"} : Submit(r, kind)
    BY <2>2 DEF Expire, Mark, SetStatus, MarkFails, Submit, propVars
  <2>3. CASE Put(r) \/ PutFails(r) \/ PutUnanswered(r) \/ WriteFile(r)
    BY <2>3 DEF Put, PutFails, PutUnanswered, WriteFile, Note, propVars
  <2>4. CASE RecordPromote(r) \/ RecordFails(r) \/ Reload(r)
    BY <2>4 DEF RecordPromote, RecordFails, Reload, propVars
  <2>. QED  BY <1>1, <2>1, <2>2, <2>3, <2>4 DEF Step
<1>2. ASSUME NEW r, NEW d, NEW who, NEW l, NEW p, Begin(r, d, who, l, p)
      PROVE  governed' = governed
  BY <1>2 DEF Begin
<1>. QED  BY <1>1, <1>2 DEF Next, vars, propVars

\* In governed mode nothing but git and approved changes is ever on disk, in the bucket or
\* running (approval_gate, decide_proposal, apply_approved): whatever doors an agent tries,
\* for any number of instances, threads and proposals, and whatever races or fails.
THEOREM GovernedChangeIsApproved == Spec => []GovernedOnly
<1>1. IInv /\ [Next]_vars => IInv'
  BY StepsKeep, ModeStays DEF IInv
<1>2. IInv => GovernedOnly
  BY DEF IInv, SourcesOk, Clean, GovernedOnly
<1>. QED  BY InitIsGood, <1>1, <1>2, PTL DEF Spec
=============================================================================
