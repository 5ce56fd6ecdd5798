---------------------------- MODULE ChangesProofs ---------------------------
(***************************************************************************)
(* Changes stand, as long as no writer was overtaken: a unit runs nothing  *)
(* made for another revision, an approval lands on the source its evidence *)
(* saw, and the queue of proposals tells the truth; and versions follow on *)
(* each other: promotes add up, and only a stale version is evicted.  For  *)
(* any number of instances, threads, literals, revisions and proposals.    *)
(***************************************************************************)
EXTENDS Proposals, TLAPS

\* The provers of every leaf.
USE Zenon, SMT

-----------------------------------------------------------------------------
(* The inductive invariant.  A job carries the sources it read and the     *)
(* proposal it works on across steps; what ChangesStand needs is that they *)
(* are still true of the files, the bucket and the queue when it writes.   *)
(* They are unless the job is stale, and a stale job that writes is a race.*)

\* A source has a revision and literals.
IsSource(s) == DOMAIN s = {"rev", "lits"} /\ DOMAIN s.lits = Lits
JobFields == {"op", "pc", "node", "base", "eff", "lit", "val", "then", "prop", "todo",
              "applying", "stale"}

\* A thread that has read something and not yet let go of it; one that decides a proposal.
Holding(j) == j.pc \notin {"idle", "fetch", "trail"}
Decides(j) == j.op \in {"approve", "reject"} \/ (j.op = "list" /\ Holding(j))
\* The pass in which an approval is applied, up to its write.
Applies(j) == j.applying /\ j.pc \in {"read", "get", "evict", "resolved"}

\* What holds of a job whatever others do: it resolves a version of the file's revision only,
\* it decides proposals that exist, and proposes under a number that is free.
Static(j, pr) ==
    /\ DOMAIN j = JobFields /\ j.node \in Nodes /\ j.then \in {"get", "resolved"}
    /\ j.stale \in BOOLEAN /\ j.applying \in BOOLEAN
    /\ IsSource(j.base) /\ IsSource(j.eff) /\ j.eff.rev = j.base.rev
    /\ j.pc = "evict" => j.eff = j.base
    /\ j.pc = "trail" => j.op = "rollback"
    /\ j.pc \in {"mark", "expire"} => Decides(j)
    /\ j.pc = "mark" => j.op # "list"
    /\ j.applying => j.op = "approve" /\ Holding(j)
    /\ j.op \in {"approve", "list"} /\ ~j.applying => j.then = "get"
    /\ Decides(j) => j.prop \in Props /\ pr[j.prop].status # "none"
    /\ j.op = "list" => /\ j.todo \subseteq Props /\ \A p \in j.todo : pr[p].status # "none"
                        /\ Holding(j) => j.prop \notin j.todo
    /\ j.op = "propose" => j.prop \in Props /\ pr[j.prop].status = "none"

\* What holds of a job as long as nobody overtook it: the file it read is the file, what it is
\* about to evict is not in effect, what it resolved is in force, the approval it applies was
\* compared with the effective source, and the proposals it decides are pending.
Live(j, fl, ov, pr, ft) ==
    ~j.stale /\ Holding(j) =>
        /\ j.pc \in {"get", "evict", "resolved"} => j.base = fl[j.node]
        /\ j.pc = "evict" => ~Valid(ov, j.base)
        /\ Applies(j) => pr[j.prop].baseline.rev = fl[j.node].rev
        /\ (/\ "get" \notin ft /\ j.pc = "resolved" /\ j.then = "get"
            /\ j.op # "rewrite") => j.eff = Effective(ov, fl[j.node])
        /\ "get" \notin ft /\ Applies(j) => Effective(ov, fl[j.node]) = pr[j.prop].baseline
        /\ Decides(j) => pr[j.prop].status = "pending"
        /\ j.op = "list" => \A p \in j.todo : pr[p].status = "pending"

\* An approval that has written its change and not yet marked its proposal.
Carries(j, p) == j.op = "approve" /\ j.prop = p /\ j.pc \in {"audit", "reload", "mark"}

\* A proposal was applied as often as its status says, or one thread has applied it and is on
\* the way to say so; unless that thread was overtaken, and will race.
Settled(p) ==
    \/ \E r \in Reqs : Carries(job[r], p) /\ job[r].stale
    \/ /\ \A r \in Reqs : ~Carries(job[r], p)
       /\ prop[p].status # "approved" => landed[p].times = 0
       /\ prop[p].status = "approved" => landed[p].times = 1
    \/ /\ \E c \in Reqs : \A r \in Reqs : Carries(job[r], p) <=> r = c
       /\ landed[p].times = 1 /\ prop[p].status = "pending"

\* Versions are of their parent's revision, and only a cluster has one.
SourcesOk ==
    /\ DOMAIN file = Nodes /\ \A n \in Nodes : IsSource(file[n]) /\ file[n].rev \in 0..MaxRev
    /\ IsSource(overlay.src)
    /\ overlay # NoVersion => overlay.src.rev = overlay.parent.rev
    /\ ~clustered => overlay = NoVersion
\* A unit runs a source of the revision of the file it started on.
UnitsOk ==
    /\ DOMAIN runs = Nodes /\ DOMAIN started = Nodes
    /\ \A n \in Nodes : runs[n].rev = started[n].rev
    /\ \A n \in Nodes : job[n].op \in {"idle", "start"}
\* No two threads propose under one number.
JobsOk ==
    /\ DOMAIN job = Jobs
    /\ \A j \in Jobs : Static(job[j], prop) /\ Live(job[j], file, overlay, prop, faults)
    /\ \A q, r \in Reqs : q # r /\ job[q].op = "propose" /\ job[r].op = "propose"
                          => job[q].prop # job[r].prop
\* A number that is free was never applied.
PropsOk ==
    /\ DOMAIN prop = Props /\ DOMAIN landed = Props
    /\ \A p \in Props :
         /\ DOMAIN prop[p] = {"kind", "lit", "baseline", "status"} /\ IsSource(prop[p].baseline)
         /\ landed[p].times \in Nat
         /\ prop[p].status = "none" => landed[p].times = 0
\* What landed, landed on its evidence, unless the bucket could not be read.
EvidenceOk ==
    "get" \notin faults =>
        \A p \in Props : landed[p].times > 0 => landed[p].on = prop[p].baseline
\* The queue is settled, unless a write of it was lost.
QueueOk == faults \cap {"mark", "put", "crash"} = {} => \A p \in Props : Settled(p)

Core == SourcesOk /\ UnitsOk /\ JobsOk /\ PropsOk /\ EvidenceOk /\ QueueOk
IInv == raced \/ Core

-----------------------------------------------------------------------------
(* Sources and jobs as values.                                             *)

LEMMA GitIsSource ==
    ASSUME NEW r
    PROVE  IsSource(Git(r)) /\ Git(r).rev = r
BY DEF IsSource, Git

LEMMA SetIsSource ==
    ASSUME NEW s, IsSource(s), NEW l, NEW v
    PROVE  IsSource(Set(s, l, v)) /\ Set(s, l, v).rev = s.rev
BY DEF IsSource, Set

LEMMA RewriteIsSource ==
    ASSUME NEW s, IsSource(s)
    PROVE  IsSource(Rewrite(s)) /\ Rewrite(s).rev = s.rev
BY DEF IsSource, Rewrite

LEMMA ChoiceIsIn ==
    ASSUME NEW S, S # {}
    PROVE  (CHOOSE x \in S : TRUE) \in S
<1>1. \E x : x \in S /\ TRUE
  OBVIOUS
<1>. QED  BY <1>1, Zenon

LEMMA IdleFields ==
    /\ DOMAIN Idle = JobFields /\ Idle.op = "idle" /\ Idle.pc = "idle" /\ Idle.node \in Nodes
    /\ Idle.base = Git(0) /\ Idle.eff = Git(0) /\ Idle.then = "get" /\ Idle.prop = 0
    /\ Idle.todo = {} /\ Idle.applying = FALSE /\ Idle.stale = FALSE
BY VersionsAssumption, ChoiceIsIn DEF Idle, JobFields

LEMMA IdleIsGood ==
    ASSUME NEW pr, NEW fl, NEW ov, NEW ft
    PROVE  /\ Static(Idle, pr) /\ Live(Idle, fl, ov, pr, ft)
           /\ \A p : ~Carries(Idle, p)
BY IdleFields, GitIsSource DEF Static, Live, Holding, Decides, Carries

\* A unit that starts on its file.
LEMMA StartIsGood ==
    ASSUME NEW n \in Nodes, NEW pr, NEW fl, NEW ov, NEW ft, NEW src, src = fl[n], IsSource(src)
    PROVE  /\ Static(Starting(n, src), pr) /\ Live(Starting(n, src), fl, ov, pr, ft)
           /\ \A p : ~Carries(Starting(n, src), p)
<1>. DEFINE j == Starting(n, src)
<1>1. /\ DOMAIN j = JobFields /\ j.op = "start" /\ j.pc = "get" /\ j.node = n
      /\ j.base = src /\ j.eff = src /\ j.then = "get" /\ j.prop = 0
      /\ j.todo = {} /\ j.applying = FALSE /\ j.stale = FALSE
  BY IdleFields DEF Starting, JobFields
<1>. HIDE DEF j
<1>2. Static(j, pr) /\ Live(j, fl, ov, pr, ft) /\ \A p : ~Carries(j, p)
  BY <1>1 DEF Static, Live, Holding, Decides, Applies, Carries
<1>. QED  BY <1>2 DEF j

\* Two jobs that differ in where they are.
SameBut(k, j, pc) ==
    /\ DOMAIN k = JobFields /\ k.pc = pc /\ k.op = j.op /\ k.node = j.node /\ k.base = j.base
    /\ k.eff = j.eff /\ k.then = j.then /\ k.prop = j.prop /\ k.todo = j.todo
    /\ k.applying = j.applying /\ k.stale = j.stale

LEMMA MovedFields ==
    ASSUME NEW j, DOMAIN j = JobFields, NEW pc
    PROVE  SameBut([j EXCEPT !.pc = pc], j, pc)
BY DEF SameBut, JobFields

\* What a thread that was not overtaken knows of the proposals it decides.
Pends(j, pr) ==
    ~j.stale /\ Holding(j) => /\ Decides(j) => pr[j.prop].status = "pending"
                              /\ j.op = "list" => \A p \in j.todo : pr[p].status = "pending"

LEMMA LivePends ==
    ASSUME NEW pr, NEW fl, NEW ov, NEW ft, NEW j, Live(j, fl, ov, pr, ft)
    PROVE  Pends(j, pr)
BY DEF Live, Pends

\* A job that goes on holding what it has, past its reads.
LEMMA MovedIsGood ==
    ASSUME NEW pr, NEW fl, NEW ov, NEW ft, NEW j, Static(j, pr), Pends(j, pr),
           Holding(j), NEW pc \in {"expire", "mark", "audit", "reload"},
           pc = "mark" => j.op = "approve", pc = "expire" => j.op \in {"approve", "list"}
    PROVE  /\ Static([j EXCEPT !.pc = pc], pr)
           /\ Live([j EXCEPT !.pc = pc], fl, ov, pr, ft)
           /\ SameBut([j EXCEPT !.pc = pc], j, pc)
<1>. DEFINE k == [j EXCEPT !.pc = pc]
<1>1. SameBut(k, j, pc)
  BY MovedFields DEF Static
<1>. HIDE DEF k
<1>2. Static(k, pr)
  BY <1>1 DEF SameBut, Static, Holding, Decides
<1>3. Live(k, fl, ov, pr, ft)
  <2>1. Pends(k, pr)
    BY <1>1 DEF SameBut, Pends, Holding, Decides
  <2>2. ~Applies(k) /\ k.pc \notin {"get", "evict", "resolved"}
    BY <1>1 DEF SameBut, Applies
  <2>. QED  BY <2>1, <2>2 DEF Live, Pends
<1>. QED  BY <1>1, <1>2, <1>3 DEF k

\* A job that learns that it is overtaken, or that holds nothing.
LEMMA OvertakenIsGood ==
    ASSUME NEW pr, NEW fl, NEW ov, NEW ft, NEW j, Static(j, pr), NEW b \in BOOLEAN
    PROVE  /\ Static([j EXCEPT !.stale = b], pr)
           /\ b \/ ~Holding(j) \/ (~j.stale /\ Live(j, fl, ov, pr, ft))
                => Live([j EXCEPT !.stale = b], fl, ov, pr, ft)
           /\ \A p : Carries([j EXCEPT !.stale = b], p) <=> Carries(j, p)
           /\ [j EXCEPT !.stale = b].stale = b
           /\ [j EXCEPT !.stale = b].op = j.op /\ [j EXCEPT !.stale = b].prop = j.prop
<1>. DEFINE k == [j EXCEPT !.stale = b]
<1>1. /\ DOMAIN k = JobFields /\ k.pc = j.pc /\ k.op = j.op /\ k.node = j.node
      /\ k.base = j.base /\ k.eff = j.eff /\ k.then = j.then /\ k.prop = j.prop
      /\ k.todo = j.todo /\ k.applying = j.applying /\ k.stale = b
  BY DEF Static, JobFields
<1>. HIDE DEF k
<1>2. Static(k, pr) /\ (b \/ ~Holding(j) => Live(k, fl, ov, pr, ft))
  BY <1>1 DEF Static, Live, Holding, Decides
<1>4. ~j.stale /\ Live(j, fl, ov, pr, ft) => Live(k, fl, ov, pr, ft)
  BY <1>1 DEF Live, Holding, Decides, Applies
<1>3. \A p : Carries(k, p) <=> Carries(j, p)
  BY <1>1 DEF Carries
<1>. QED  BY <1>1, <1>2, <1>3, <1>4 DEF k

\* What a job knows stays true when a read of the bucket has failed meanwhile.
LEMMA LiveStays ==
    ASSUME NEW pr, NEW fl, NEW ov, NEW ft, NEW gt, ft \subseteq gt, NEW j,
           Live(j, fl, ov, pr, ft)
    PROVE  Live(j, fl, ov, pr, gt)
BY DEF Live

\* The next proposal of a list: those that are left are as they were.
LEMMA NextIsGood ==
    ASSUME NEW pr, NEW fl, NEW ov, NEW ft, NEW j, j.op = "list", DOMAIN j = JobFields,
           j.node \in Nodes, j.then = "get", j.stale \in BOOLEAN, j.applying = FALSE,
           IsSource(j.base), IsSource(j.eff), j.eff.rev = j.base.rev, j.todo \subseteq Props,
           \A p \in j.todo : /\ pr[p].status # "none"
                             /\ ~j.stale => pr[p].status = "pending"
    PROVE  /\ Static(NextOfList(j), pr) /\ Live(NextOfList(j), fl, ov, pr, ft)
           /\ \A p : ~Carries(NextOfList(j), p)
           /\ NextOfList(j).op # "propose"
<1>1. CASE j.todo = {}
  BY <1>1, IdleIsGood, IdleFields DEF NextOfList
<1>2. CASE j.todo # {}
  <2>. DEFINE p == CHOOSE q \in j.todo : TRUE
              k == [j EXCEPT !.prop = p, !.todo = j.todo \ {p}, !.pc = "read"]
  <2>1. p \in j.todo
    BY <1>2, ChoiceIsIn
  <2>2. NextOfList(j) = k
    BY <1>2 DEF NextOfList
  <2>. HIDE DEF p
  <2>3. /\ DOMAIN k = JobFields /\ k.pc = "read" /\ k.op = "list" /\ k.node = j.node
        /\ k.base = j.base /\ k.eff = j.eff /\ k.then = "get" /\ k.prop = p
        /\ k.todo = j.todo \ {p} /\ k.applying = FALSE /\ k.stale = j.stale
    BY DEF JobFields
  <2>. HIDE DEF k
  <2>4. p \in Props /\ k.todo \subseteq Props /\ p \notin k.todo
        /\ \A q \in k.todo \cup {p} : /\ pr[q].status # "none"
                                      /\ ~j.stale => pr[q].status = "pending"
    BY <2>1, <2>3
  <2>5. Static(k, pr)
    BY <2>3, <2>4 DEF Static, Holding, Decides
  <2>6. Live(k, fl, ov, pr, ft) /\ (\A q : ~Carries(k, q)) /\ k.op # "propose"
    BY <2>3, <2>4 DEF Live, Holding, Decides, Applies, Carries
  <2>. QED  BY <2>2, <2>5, <2>6
<1>. QED  BY <1>1, <1>2

\* What is in force has the revision of the file it was made for (resolve_source).
LEMMA EffectiveIsOf ==
    ASSUME NEW ov, IsSource(ov.src), ov # NoVersion => ov.src.rev = ov.parent.rev,
           NEW base, IsSource(base)
    PROVE  /\ IsSource(Effective(ov, base)) /\ Effective(ov, base).rev = base.rev
           /\ Effective(NoVersion, base) = base
BY DEF Effective, Valid

\* A job that has looked at the bucket runs, goes on or evicts.
LEMMA LookedIsGood ==
    ASSUME NEW pr, NEW fl, NEW ov, NEW ft, NEW j, Static(j, pr), Live(j, fl, ov, pr, ft),
           j.pc = "get", IsSource(ov.src), ov # NoVersion => ov.src.rev = ov.parent.rev
    PROVE  LET next == [j EXCEPT !.eff = Effective(ov, j.base)]
           IN  /\ next.eff.rev = next.base.rev /\ next.op = j.op
               /\ Static(Done(next), pr) /\ Live(Done(next), fl, ov, pr, ft)
               /\ ov # NoVersion /\ ~Valid(ov, j.base) =>
                    /\ Static([next EXCEPT !.pc = "evict"], pr)
                    /\ Live([next EXCEPT !.pc = "evict"], fl, ov, pr, ft)
<1>. DEFINE e == Effective(ov, j.base)
            next == [j EXCEPT !.eff = e]
<1>1. IsSource(e) /\ e.rev = j.base.rev /\ (~Valid(ov, j.base) => e = j.base)
  BY EffectiveIsOf DEF Static, Effective
<1>2. /\ DOMAIN next = JobFields /\ next.pc = j.pc /\ next.op = j.op /\ next.node = j.node
      /\ next.base = j.base /\ next.eff = e /\ next.then = j.then /\ next.prop = j.prop
      /\ next.todo = j.todo /\ next.applying = j.applying /\ next.stale = j.stale
  BY DEF Static, JobFields
<1>. DEFINE k == [next EXCEPT !.pc = "resolved"]
            l == [next EXCEPT !.pc = "evict"]
<1>3. SameBut(k, next, "resolved") /\ SameBut(l, next, "evict")
  BY <1>2, MovedFields
<1>4. e = Effective(ov, j.base)
  OBVIOUS
<1>. HIDE DEF e, k, l, next
<1>5. Static(k, pr)
  BY <1>1, <1>2, <1>3 DEF SameBut, Static, Holding, Decides
<1>6. Live(k, fl, ov, pr, ft)
  BY <1>1, <1>2, <1>3, <1>4 DEF SameBut, Live, Holding, Decides, Applies
<1>7. ASSUME ~Valid(ov, j.base) PROVE Static(l, pr) /\ Live(l, fl, ov, pr, ft)
  <2>1. Static(l, pr)
    BY <1>1, <1>2, <1>3, <1>7 DEF SameBut, Static, Holding, Decides
  <2>2. Live(l, fl, ov, pr, ft)
    BY <1>1, <1>2, <1>3, <1>4, <1>7 DEF SameBut, Live, Holding, Decides, Applies
  <2>. QED  BY <2>1, <2>2
<1>8. Done(next) = Idle \/ Done(next) = k
  BY DEF Done, k
<1>9. Static(Done(next), pr) /\ Live(Done(next), fl, ov, pr, ft)
  BY <1>5, <1>6, <1>8, IdleIsGood
<1>10. /\ next.eff.rev = next.base.rev /\ next.op = j.op
       /\ ov # NoVersion /\ ~Valid(ov, j.base) => Static(l, pr) /\ Live(l, fl, ov, pr, ft)
  BY <1>1, <1>2, <1>7
<1>. QED  BY <1>9, <1>10, Zenon DEF l, next, e

\* A job whose read of the bucket failed, or whose eviction is over.
LEMMA DoneIsGood ==
    ASSUME NEW pr, NEW fl, NEW ov, NEW ft, NEW j, Static(j, pr), Live(j, fl, ov, pr, ft),
           NEW nov, NEW gt,
           \/ j.pc = "get" /\ nov = ov /\ "get" \in gt
           \/ j.pc = "evict" /\ nov \in {ov, NoVersion} /\ ft \subseteq gt
    PROVE  Static(Done(j), pr) /\ Live(Done(j), fl, nov, pr, gt)
<1>. DEFINE k == [j EXCEPT !.pc = "resolved"]
<1>1. SameBut(k, j, "resolved")
  BY MovedFields DEF Static
<1>2. Done(j) = Idle \/ Done(j) = k
  BY DEF Done
<1>. HIDE DEF k
<1>3. Static(k, pr)
  BY <1>1 DEF SameBut, Static, Holding, Decides
<1>4. Live(k, fl, nov, pr, gt)
  <2>1. SUFFICES ASSUME ~j.stale PROVE Live(k, fl, nov, pr, gt)
    BY <1>1 DEF Live, SameBut
  <2>2. j.base = fl[j.node]
    BY <2>1 DEF Live, Holding
  <2>3. CASE j.pc = "get"
    BY <1>1, <2>1, <2>2, <2>3 DEF SameBut, Live, Holding, Decides, Applies
  <2>4. CASE j.pc = "evict"
    <3>1. /\ Effective(ov, j.base) = j.base /\ Effective(NoVersion, j.base) = j.base
          /\ j.eff = j.base
      BY <2>1, <2>4 DEF Live, Holding, Static, Effective, Valid
    <3>. QED  BY <1>1, <2>1, <2>2, <2>4, <3>1 DEF SameBut, Live, Holding, Decides, Applies
  <2>. QED  BY <2>3, <2>4
<1>. QED  BY <1>2, <1>3, <1>4, IdleIsGood

-----------------------------------------------------------------------------
(* Steps in general.                                                       *)

\* A proposal that next is about to make is no other thread's.
OwnProposal(a, next) ==
    a \in Reqs /\ next.op = "propose" =>
        \A q \in Reqs \ {a} : job[q].op = "propose" => job[q].prop # next.prop

\* One job goes on and the others stay.
LEMMA GoesKeepsJobs ==
    ASSUME JobsOk, NEW a \in Jobs, NEW next, Goes(a, next), UNCHANGED <<file, overlay, prop>>,
           faults \subseteq faults', Static(next, prop), Live(next, file, overlay, prop, faults'),
           OwnProposal(a, next)
    PROVE  JobsOk'
<1>1. DOMAIN job' = Jobs /\ \A j \in Jobs : job'[j] = IF j = a THEN next ELSE job[j]
  BY DEF Goes, JobsOk
<1>2. \A j \in Jobs : Live(job[j], file, overlay, prop, faults')
  BY LiveStays DEF JobsOk
<1>3. \A j \in Jobs : Static(job'[j], prop) /\ Live(job'[j], file, overlay, prop, faults')
  BY <1>1, <1>2 DEF JobsOk
<1>4. ASSUME NEW q \in Reqs, NEW r \in Reqs, q # r, job'[q].op = "propose", job'[r].op = "propose"
      PROVE  job'[q].prop # job'[r].prop
  BY <1>1, <1>4 DEF JobsOk, OwnProposal, Jobs
<1>. QED  BY <1>1, <1>3, <1>4 DEF JobsOk

\* The others as a write leaves them: what they hold is stale, or they hold nothing.
LEMMA WritesLeaves ==
    ASSUME JobsOk, NEW a \in Jobs, NEW next, Writes(a, next), NEW j \in Jobs, j # a
    PROVE  \E b \in BOOLEAN : /\ job'[j] = [job[j] EXCEPT !.stale = b]
                              /\ Holding(job[j]) => b
<1>. DEFINE b == job[j].stale \/ Holds(j)
<1>1. b \in BOOLEAN /\ (Holding(job[j]) => b)
  BY DEF JobsOk, Static, Holds, Holding
<1>2. job'[j] = [job[j] EXCEPT !.stale = b]
  BY DEF Writes
<1>. QED  BY <1>1, <1>2

LEMMA WritesKeepsJobs ==
    ASSUME JobsOk, NEW a \in Jobs, NEW next, Writes(a, next), Static(next, prop'),
           Live(next, file', overlay', prop', faults'), OwnProposal(a, next),
           \A p \in Props : prop[p].status # "none" => prop'[p].status # "none",
           \A j \in Jobs \ {a} : job[j].op = "propose" => prop'[job[j].prop].status = "none"
    PROVE  JobsOk'
<1>1. job'[a] = next /\ DOMAIN job' = Jobs
  BY DEF Writes
<1>2. ASSUME NEW j \in Jobs, j # a
      PROVE  /\ Static(job'[j], prop') /\ Live(job'[j], file', overlay', prop', faults')
             /\ job'[j].op = job[j].op /\ job'[j].prop = job[j].prop
  <2>1. PICK b \in BOOLEAN : job'[j] = [job[j] EXCEPT !.stale = b] /\ (Holding(job[j]) => b)
    BY <1>2, WritesLeaves
  <2>2. Static(job[j], prop')
    BY <1>2 DEF JobsOk, Static
  <2>3. \A c \in BOOLEAN :
          /\ Static([job[j] EXCEPT !.stale = c], prop')
          /\ c \/ ~Holding(job[j]) =>
                Live([job[j] EXCEPT !.stale = c], file', overlay', prop', faults')
          /\ [job[j] EXCEPT !.stale = c].op = job[j].op
          /\ [job[j] EXCEPT !.stale = c].prop = job[j].prop
    BY <2>2, OvertakenIsGood
  <2>. QED  BY <2>1, <2>3
<1>3. ASSUME NEW q \in Reqs, NEW r \in Reqs, q # r, job'[q].op = "propose", job'[r].op = "propose"
      PROVE  job'[q].prop # job'[r].prop
  BY <1>1, <1>2, <1>3 DEF JobsOk, OwnProposal, Jobs
<1>4. \A j \in Jobs : Static(job'[j], prop') /\ Live(job'[j], file', overlay', prop', faults')
  BY <1>1, <1>2
<1>. QED  BY <1>1, <1>3, <1>4 DEF JobsOk

\* The carriers of proposals as a write leaves them.
LEMMA WritesCarriers ==
    ASSUME JobsOk, NEW a \in Jobs, NEW next, Writes(a, next), NEW r \in Reqs, r # a, NEW p
    PROVE  /\ Carries(job'[r], p) <=> Carries(job[r], p)
           /\ Carries(job[r], p) => job'[r].stale
<1>1. PICK b \in BOOLEAN : job'[r] = [job[r] EXCEPT !.stale = b] /\ (Holding(job[r]) => b)
  BY WritesLeaves DEF Jobs
<1>2. \A c \in BOOLEAN :
        /\ \A q : Carries([job[r] EXCEPT !.stale = c], q) <=> Carries(job[r], q)
        /\ [job[r] EXCEPT !.stale = c].stale = c
  BY OvertakenIsGood DEF JobsOk, Jobs
<1>3. Carries(job[r], p) => Holding(job[r])
  BY DEF Carries, Holding
<1>. QED  BY <1>1, <1>2, <1>3

\* The queue when no proposal changes and carriers stay.
LEMMA QueueStands ==
    ASSUME QueueOk, faults \subseteq faults',
           \A p \in Props : /\ prop'[p].status = prop[p].status
                            /\ landed'[p].times = landed[p].times,
           \A r \in Reqs : \A p \in Props :
                /\ Carries(job'[r], p) <=> Carries(job[r], p)
                /\ Carries(job[r], p) /\ job[r].stale => job'[r].stale
    PROVE  QueueOk'
<1>1. SUFFICES ASSUME faults \cap {"mark", "put", "crash"} = {}, NEW p \in Props
               PROVE  Settled(p)'
  BY DEF QueueOk
<1>2. Settled(p)
  BY <1>1 DEF QueueOk
<1>. QED  BY <1>2 DEF Settled

\* One job goes on.
LEMMA GoesKeepsQueue ==
    ASSUME QueueOk, JobsOk, NEW a \in Jobs, NEW next, Goes(a, next), UNCHANGED <<prop, landed>>,
           faults \subseteq faults', next.stale = job[a].stale \/ ~\E p : Carries(job[a], p),
           \A p : Carries(next, p) <=> Carries(job[a], p)
    PROVE  QueueOk'
<1>1. \A j \in Jobs : job'[j] = IF j = a THEN next ELSE job[j]
  BY DEF Goes, JobsOk
<1>2. \A r \in Reqs : \A p \in Props :
         /\ Carries(job'[r], p) <=> Carries(job[r], p)
         /\ Carries(job[r], p) /\ job[r].stale => job'[r].stale
  BY <1>1 DEF Jobs
<1>. QED  BY <1>2, QueueStands

\* A write that leaves the proposal of no carrier of its own: those of others are overtaken.
LEMMA WritesKeepsQueue ==
    ASSUME QueueOk, JobsOk, NEW a \in Jobs, NEW next, Writes(a, next), UNCHANGED <<prop, landed>>,
           faults \subseteq faults', next.stale = job[a].stale \/ ~\E p : Carries(job[a], p),
           \A p : Carries(next, p) <=> Carries(job[a], p)
    PROVE  QueueOk'
<1>1. job'[a] = next
  BY DEF Writes
<1>2. \A r \in Reqs : \A p \in Props :
         /\ Carries(job'[r], p) <=> Carries(job[r], p)
         /\ Carries(job[r], p) /\ job[r].stale => job'[r].stale
  BY <1>1, WritesCarriers
<1>. QED  BY <1>2, QueueStands

\* Everything but the jobs and the units, when neither a source nor a proposal changes.
LEMMA RestStands ==
    ASSUME Core, UNCHANGED <<clustered, file, overlay, prop, landed>>, faults \subseteq faults'
    PROVE  SourcesOk' /\ PropsOk' /\ EvidenceOk'
BY DEF Core, SourcesOk, PropsOk, EvidenceOk

\* The units, when none of them runs another source.
LEMMA UnitsStand ==
    ASSUME Core, UNCHANGED <<runs, started>>, NEW r \in Reqs, NEW next,
           Goes(r, next) \/ Writes(r, next)
    PROVE  UnitsOk'
<1>1. ASSUME NEW n \in Nodes PROVE job'[n].op = job[n].op
  <2>0. n \in Jobs /\ r \in Jobs /\ n # r
    BY VersionsAssumption DEF Jobs
  <2>1. CASE Goes(r, next)
    BY <2>0, <2>1 DEF Goes, Core, JobsOk
  <2>2. CASE Writes(r, next)
    <3>1. \E b \in BOOLEAN : job'[n] = [job[n] EXCEPT !.stale = b]
      BY <2>0, <2>2, WritesLeaves DEF Core
    <3>2. DOMAIN job[n] = JobFields
      BY <2>0 DEF Core, JobsOk, Static
    <3>. QED  BY <3>1, <3>2 DEF JobFields
  <2>. QED  BY <2>1, <2>2
<1>. QED  BY <1>1 DEF Core, UnitsOk

-----------------------------------------------------------------------------
(* Versions.                                                               *)

\* A unit that has resolved runs what it resolved against its file (Resolved).
LEMMA RunsStand ==
    ASSUME Core, NEW a \in Jobs, NEW next, next.eff.rev = next.base.rev,
           Resolved(a, next) \/ UNCHANGED <<runs, started>>,
           NEW to, Goes(a, to) \/ Writes(a, to), a \in Nodes => to.op \in {"idle", "start"}
    PROVE  UnitsOk'
<1>1. ASSUME NEW n \in Nodes PROVE job'[n].op \in {"idle", "start"}
  <2>0. n \in Jobs /\ job[n].op \in {"idle", "start"}
    BY DEF Jobs, Core, UnitsOk
  <2>1. CASE Goes(a, to)
    BY <2>0, <2>1 DEF Goes, Core, JobsOk
  <2>2. CASE Writes(a, to) /\ n # a
    <3>1. \E b \in BOOLEAN : job'[n] = [job[n] EXCEPT !.stale = b]
      BY <2>0, <2>2, WritesLeaves DEF Core
    <3>2. DOMAIN job[n] = JobFields
      BY <2>0 DEF Core, JobsOk, Static
    <3>. QED  BY <2>0, <3>1, <3>2 DEF JobFields
  <2>3. CASE Writes(a, to) /\ n = a
    BY <2>3 DEF Writes
  <2>. QED  BY <2>1, <2>2, <2>3
<1>2. \/ UNCHANGED <<runs, started>>
      \/ /\ runs' = [runs EXCEPT ![a] = next.eff]
         /\ started' = [started EXCEPT ![a] = next.base]
  BY DEF Resolved
<1>. QED  BY <1>1, <1>2 DEF Core, UnitsOk

\* resolve_source, for a job that has read its file or a unit that begins (Get, WatchFires).
LEMMA LookKeeps ==
    ASSUME Core, NEW a \in Jobs, NEW j, Static(j, prop), Live(j, file, overlay, prop, faults),
           j.pc = "get", j = job[a] \/ (a \in Nodes /\ j.op = "start"), Look(a, j),
           UNCHANGED <<clustered, file, overlay, faults, propVars>>
    PROVE  Core'
<1>. DEFINE next == [j EXCEPT !.eff = Effective(overlay, j.base)]
            k == [next EXCEPT !.pc = "evict"]
<1>1. UNCHANGED <<prop, landed>>
  BY DEF propVars
<1>2. IsSource(overlay.src) /\ (overlay # NoVersion => overlay.src.rev = overlay.parent.rev)
  BY DEF Core, SourcesOk
<1>3. /\ next.eff.rev = next.base.rev /\ next.op = j.op
      /\ Static(Done(next), prop) /\ Live(Done(next), file, overlay, prop, faults)
      /\ overlay # NoVersion /\ ~Valid(overlay, j.base) =>
           Static(k, prop) /\ Live(k, file, overlay, prop, faults)
  BY <1>2, LookedIsGood, Zenon
<1>4. PICK to : /\ to \in {Done(next), k} /\ Goes(a, to)
                /\ Static(to, prop) /\ Live(to, file, overlay, prop, faults)
                /\ Resolved(a, next) \/ UNCHANGED <<runs, started>>
  BY <1>3 DEF Look
<1>5. /\ to.op \in {j.op, "idle"} /\ (to.op = "propose" => to.prop = j.prop)
      /\ to.pc \in {"resolved", "evict", "idle"}
  <2>1. /\ DOMAIN next = JobFields /\ next.op = j.op /\ next.prop = j.prop
    BY DEF Static, JobFields
  <2>. HIDE DEF next
  <2>2. /\ k.op = j.op /\ k.prop = j.prop /\ k.pc = "evict"
        /\ [next EXCEPT !.pc = "resolved"].op = j.op
        /\ [next EXCEPT !.pc = "resolved"].prop = j.prop
        /\ [next EXCEPT !.pc = "resolved"].pc = "resolved"
    BY <2>1 DEF JobFields
  <2>. QED  BY <1>4, <2>2, IdleFields DEF Done
<1>. HIDE DEF next, k
<1>6. a \in Nodes => job[a].op \in {"idle", "start"} /\ j.op \in {"idle", "start"}
  BY DEF Core, UnitsOk
<1>7. OwnProposal(a, to)
  BY <1>5, <1>6, VersionsAssumption DEF OwnProposal, Core, JobsOk, Jobs
<1>8. JobsOk'
  BY <1>1, <1>4, <1>7, GoesKeepsJobs DEF Core
<1>9. \A p : ~Carries(to, p) /\ ~Carries(job[a], p)
  BY <1>5, <1>6 DEF Carries
<1>10. QueueOk'
  BY <1>1, <1>4, <1>9, GoesKeepsQueue DEF Core
<1>11. UnitsOk'
  BY <1>3, <1>4, <1>5, <1>6, RunsStand
<1>. QED  BY <1>1, <1>8, <1>10, <1>11, RestStands DEF Core

\* The file is read (ReadFile).
LEMMA ReadKeeps ==
    ASSUME Core, UNCHANGED propVars, NEW a \in Jobs, ReadFile(a)
    PROVE  Core'
<1>. DEFINE j == job[a]
            src == file[j.node]
            k == [j EXCEPT !.base = src, !.eff = src, !.pc = j.then]
<1>1. /\ Goes(a, k) /\ j.pc = "read"
      /\ UNCHANGED <<clustered, file, overlay, runs, started, faults, prop, landed>>
  BY DEF ReadFile, propVars
<1>2. Static(j, prop) /\ Live(j, file, overlay, prop, faults)
  BY DEF Core, JobsOk
<1>3. src = file[j.node] /\ IsSource(src)
  BY <1>2 DEF Static, Core, SourcesOk
<1>. HIDE DEF src
<1>4. /\ DOMAIN k = JobFields /\ k.pc = j.then /\ k.op = j.op /\ k.node = j.node
      /\ k.base = src /\ k.eff = src /\ k.then = j.then /\ k.prop = j.prop
      /\ k.todo = j.todo /\ k.applying = j.applying /\ k.stale = j.stale
  BY <1>2 DEF Static, JobFields
<1>. HIDE DEF k
<1>5. Static(k, prop)
  BY <1>1, <1>2, <1>3, <1>4 DEF Static, Holding, Decides
<1>6. Live(k, file, overlay, prop, faults)
  BY <1>1, <1>2, <1>3, <1>4 DEF Static, Live, Holding, Decides, Applies
<1>7. OwnProposal(a, k)
  BY <1>4 DEF OwnProposal, Core, JobsOk
<1>8. JobsOk'
  BY <1>1, <1>5, <1>6, <1>7, GoesKeepsJobs DEF Core
<1>9. \A p : ~Carries(k, p) /\ ~Carries(job[a], p)
  BY <1>1, <1>2, <1>4 DEF Carries, Static
<1>10. QueueOk'
  BY <1>1, <1>9, GoesKeepsQueue DEF Core
<1>11. UnitsOk'
  <2>1. a \in Nodes => k.op \in {"idle", "start"}
    BY <1>4 DEF Core, UnitsOk
  <2>2. k.eff.rev = k.base.rev
    BY <1>4
  <2>. QED  BY <1>1, <2>1, <2>2, RunsStand
<1>. QED  BY <1>1, <1>8, <1>10, <1>11, RestStands DEF Core

\* The bucket is looked at, and an eviction ends (Get, GetFails, Evict, EvictFails).
LEMMA ResolveKeeps ==
    ASSUME Core, UNCHANGED propVars, NEW a \in Jobs,
           Get(a) \/ GetFails(a) \/ Evict(a) \/ EvictFails(a)
    PROVE  Core'
<1>1. UNCHANGED <<prop, landed>>
  BY DEF propVars
<1>2. Static(job[a], prop) /\ Live(job[a], file, overlay, prop, faults)
  BY DEF Core, JobsOk
<1>3. CASE Get(a)
  BY <1>2, <1>3, LookKeeps DEF Get
<1>4. CASE GetFails(a) \/ Evict(a) \/ EvictFails(a)
  <2>. DEFINE to == Done(job[a])
  <2>1. /\ (Goes(a, to) /\ overlay' = overlay) \/ (Writes(a, to) /\ overlay' = NoVersion)
        /\ Resolved(a, job[a]) /\ UNCHANGED <<clustered, file>>
        /\ faults \subseteq faults'
        /\ \/ job[a].pc = "get" /\ overlay' = overlay /\ "get" \in faults'
           \/ job[a].pc = "evict" /\ overlay' \in {overlay, NoVersion}
    BY <1>4 DEF GetFails, Evict, EvictFails, Fault
  <2>2. Static(to, prop) /\ Live(to, file, overlay', prop, faults')
    BY <1>2, <2>1, DoneIsGood
  <2>3. to.op \in {job[a].op, "idle"} /\ (to.op = "propose" => to.prop = job[a].prop)
        /\ to.pc \in {"resolved", "idle"}
    <3>1. LET k == [job[a] EXCEPT !.pc = "resolved"]
          IN  k.op = job[a].op /\ k.prop = job[a].prop /\ k.pc = "resolved"
      BY <1>2 DEF Static, JobFields
    <3>. QED  BY <3>1, IdleFields DEF Done
  <2>. HIDE DEF to
  <2>4. OwnProposal(a, to)
    BY <2>3 DEF OwnProposal, Core, JobsOk
  <2>5. JobsOk'
    <3>1. CASE Goes(a, to) /\ overlay' = overlay
      BY <1>1, <2>1, <2>2, <2>4, <3>1, GoesKeepsJobs DEF Core
    <3>2. CASE Writes(a, to)
      <4>1. \A j \in Jobs \ {a} : job[j].op = "propose" => prop'[job[j].prop].status = "none"
        BY <1>1 DEF Core, JobsOk, Static
      <4>. QED  BY <1>1, <2>1, <2>2, <2>4, <3>2, <4>1, WritesKeepsJobs DEF Core
    <3>. QED  BY <2>1, <3>1, <3>2
  <2>6. \A p : ~Carries(to, p) /\ ~Carries(job[a], p)
    BY <2>1, <2>3 DEF Carries
  <2>7. QueueOk'
    BY <1>1, <2>1, <2>6, GoesKeepsQueue, WritesKeepsQueue DEF Core
  <2>8. UnitsOk'
    <3>1. a \in Nodes => to.op \in {"idle", "start"}
      BY <2>3 DEF Core, UnitsOk
    <3>2. job[a].eff.rev = job[a].base.rev
      BY <1>2 DEF Static
    <3>. QED  BY <2>1, <3>1, <3>2, RunsStand
  <2>9. SourcesOk' /\ PropsOk' /\ EvidenceOk'
    <3>1. IsSource(NoVersion.src)
      BY GitIsSource DEF NoVersion
    <3>. QED  BY <1>1, <2>1, <3>1 DEF Core, SourcesOk, PropsOk, EvidenceOk
  <2>. QED  BY <2>5, <2>7, <2>8, <2>9 DEF Core
<1>. QED  BY <1>3, <1>4

\* The watch (WatchFires, WatchEnds, WatchOpens).
LEMMA WatchKeeps ==
    ASSUME Core, UNCHANGED propVars, NEW n \in Nodes,
           WatchFires(n) \/ WatchEnds(n) \/ WatchOpens(n)
    PROVE  Core'
<1>1. UNCHANGED <<prop, landed>>
  BY DEF propVars
<1>2. CASE WatchFires(n)
  <2>. DEFINE j == Starting(n, file[n])
  <2>0. n \in Jobs /\ IsSource(file[n])
    BY DEF Jobs, Core, SourcesOk
  <2>1. Static(j, prop) /\ Live(j, file, overlay, prop, faults)
    BY <2>0, StartIsGood
  <2>2. j.pc = "get" /\ j.op = "start"
    BY IdleFields DEF Starting, JobFields
  <2>3. Look(n, j) /\ UNCHANGED <<clustered, file, overlay, faults>>
    BY <1>2 DEF WatchFires
  <2>. HIDE DEF j
  <2>. QED  BY <2>0, <2>1, <2>2, <2>3, LookKeeps
<1>3. CASE WatchEnds(n) \/ WatchOpens(n)
  <2>1. /\ UNCHANGED <<clustered, file, overlay, runs, started, job>> /\ faults \subseteq faults'
    BY <1>3 DEF WatchEnds, WatchOpens, Fault
  <2>2. \A j \in Jobs : Live(job[j], file, overlay, prop, faults')
    BY <2>1, LiveStays DEF Core, JobsOk
  <2>3. JobsOk'
    BY <1>1, <2>1, <2>2 DEF Core, JobsOk
  <2>4. QueueOk'
    BY <1>1, <2>1, QueueStands DEF Core
  <2>5. UnitsOk'
    BY <2>1 DEF Core, UnitsOk
  <2>. QED  BY <1>1, <2>1, <2>3, <2>4, <2>5, RestStands DEF Core
<1>. QED  BY <1>2, <1>3

\* A deploy (Deploy): the instance's unit starts on the new file, and those that hold
\* something of the old one are overtaken.
LEMMA DeployKeeps ==
    ASSUME Core, UNCHANGED propVars, NEW n \in Nodes, Deploy(n)
    PROVE  Core'
<1>. DEFINE src == Git(file[n].rev + 1)
<1>1. /\ UNCHANGED <<prop, landed, clustered, overlay, runs, started, faults>>
      /\ file' = [file EXCEPT ![n] = src] /\ DOMAIN job' = Jobs /\ n \in Jobs
  BY DEF Deploy, propVars, Jobs
<1>2. IsSource(src) /\ src.rev \in 0..MaxRev
  <2>1. file[n].rev \in 0..MaxRev /\ file[n].rev < MaxRev
    BY DEF Deploy, Core, SourcesOk
  <2>2. file[n].rev + 1 \in 0..MaxRev
    BY <2>1, VersionsAssumption
  <2>. QED  BY <2>2, GitIsSource
<1>. HIDE DEF src
<1>3. SourcesOk' /\ file'[n] = src /\ \A m \in Nodes : m # n => file'[m] = file[m]
  BY <1>1, <1>2 DEF Core, SourcesOk
<1>4. job'[n] = Starting(n, src)
  BY <1>1, <1>3 DEF Deploy
<1>5. /\ Static(job'[n], prop) /\ Live(job'[n], file', overlay, prop, faults)
      /\ job'[n].op = "start"
  <2>1. Starting(n, src).op = "start"
    BY IdleFields DEF Starting, JobFields
  <2>. QED  BY <1>2, <1>3, <1>4, <2>1, StartIsGood
<1>6. ASSUME NEW j \in Jobs, j # n
      PROVE  /\ Static(job'[j], prop) /\ Live(job'[j], file', overlay, prop, faults)
             /\ \A p : Carries(job'[j], p) <=> Carries(job[j], p)
             /\ job[j].stale => job'[j].stale
             /\ job'[j].op = job[j].op /\ job'[j].prop = job[j].prop
  <2>. DEFINE b == job[j].stale \/ (Holds(j) /\ job[j].node = n)
  <2>1. Static(job[j], prop) /\ Live(job[j], file, overlay, prop, faults)
    BY DEF Core, JobsOk
  <2>2. /\ b \in BOOLEAN /\ (job[j].stale => b)
        /\ ~b /\ Holding(job[j]) => ~job[j].stale /\ job[j].node # n
    BY <2>1 DEF Static, Holds, Holding
  <2>3. job'[j] = [job[j] EXCEPT !.stale = b]
    BY <1>6 DEF Deploy
  <2>. HIDE DEF b
  <2>4. Holding(job[j]) /\ ~b => Live(job[j], file', overlay, prop, faults)
    <3>1. SUFFICES ASSUME ~b, Holding(job[j]) PROVE Live(job[j], file', overlay, prop, faults)
      OBVIOUS
    <3>2. file'[job[j].node] = file[job[j].node]
      BY <1>3, <2>1, <2>2, <3>1 DEF Static
    <3>. QED  BY <2>1, <3>2 DEF Live
  <2>5. ASSUME NEW c \in BOOLEAN
        PROVE  /\ Static([job[j] EXCEPT !.stale = c], prop)
               /\ c \/ ~Holding(job[j])
                    \/ (~job[j].stale /\ Live(job[j], file', overlay, prop, faults))
                  => Live([job[j] EXCEPT !.stale = c], file', overlay, prop, faults)
               /\ \A p : Carries([job[j] EXCEPT !.stale = c], p) <=> Carries(job[j], p)
               /\ [job[j] EXCEPT !.stale = c].stale = c
               /\ [job[j] EXCEPT !.stale = c].op = job[j].op
               /\ [job[j] EXCEPT !.stale = c].prop = job[j].prop
    BY <2>1, OvertakenIsGood
  <2>6. b \/ ~Holding(job[j]) \/ ~job[j].stale
    BY <2>2
  <2>. QED  BY <2>2, <2>3, <2>4, <2>5, <2>6
<1>7. JobsOk'
  <2>1. \A j \in Jobs : Static(job'[j], prop') /\ Live(job'[j], file', overlay', prop', faults')
    BY <1>1, <1>5, <1>6
  <2>2. ASSUME NEW q \in Reqs, NEW r \in Reqs, q # r, job'[q].op = "propose",
               job'[r].op = "propose"
        PROVE  job'[q].prop # job'[r].prop
    BY <1>5, <1>6, <2>2 DEF Core, JobsOk, Jobs
  <2>. QED  BY <1>1, <2>1, <2>2 DEF JobsOk
<1>8. QueueOk'
  <2>1. \A r \in Reqs : r \in Jobs /\ r # n
    BY VersionsAssumption DEF Jobs
  <2>2. \A r \in Reqs : \A p \in Props :
           /\ Carries(job'[r], p) <=> Carries(job[r], p)
           /\ Carries(job[r], p) /\ job[r].stale => job'[r].stale
    BY <1>6, <2>1
  <2>. QED  BY <1>1, <2>2, QueueStands DEF Core
<1>9. UnitsOk' /\ PropsOk' /\ EvidenceOk'
  <2>1. \A m \in Nodes : job'[m].op \in {"idle", "start"}
    BY <1>5, <1>6 DEF Core, UnitsOk, Jobs
  <2>. QED  BY <1>1, <2>1 DEF Core, UnitsOk, PropsOk, EvidenceOk
<1>. QED  BY <1>3, <1>7, <1>8, <1>9 DEF Core

\* A crash (Crash): the requests of the instance are gone, and its unit starts.
LEMMA CrashKeeps ==
    ASSUME Core, UNCHANGED propVars, NEW n \in Nodes, Crash(n)
    PROVE  Core'
<1>1. /\ UNCHANGED <<prop, landed, clustered, file, overlay, runs, started>>
      /\ faults' = faults \cup {"crash"} /\ DOMAIN job' = Jobs /\ n \in Jobs
  BY DEF Crash, Fault, propVars, Jobs
<1>2. /\ Static(Starting(n, file[n]), prop)
      /\ Live(Starting(n, file[n]), file, overlay, prop, faults')
      /\ Starting(n, file[n]).op = "start"
  <2>1. Starting(n, file[n]).op = "start"
    BY IdleFields DEF Starting, JobFields
  <2>. QED  BY <2>1, StartIsGood DEF Core, SourcesOk
<1>3. ASSUME NEW j \in Jobs
      PROVE  /\ Static(job'[j], prop) /\ Live(job'[j], file, overlay, prop, faults')
             /\ \/ job'[j] = job[j] \/ job'[j].op = "idle"
                \/ job'[j].op = "start"
  <2>1. job'[j] = Starting(n, file[n]) \/ job'[j] = Idle \/ job'[j] = job[j]
    BY DEF Crash
  <2>2. Static(job[j], prop) /\ Live(job[j], file, overlay, prop, faults')
    BY <1>1, LiveStays DEF Core, JobsOk
  <2>. QED  BY <1>2, <2>1, <2>2, IdleIsGood, IdleFields
<1>4. JobsOk'
  <2>1. \A j \in Jobs : Static(job'[j], prop') /\ Live(job'[j], file', overlay', prop', faults')
    BY <1>1, <1>3
  <2>2. ASSUME NEW q \in Reqs, NEW r \in Reqs, q # r, job'[q].op = "propose",
               job'[r].op = "propose"
        PROVE  job'[q].prop # job'[r].prop
    BY <1>3, <2>2 DEF Core, JobsOk, Jobs
  <2>. QED  BY <1>1, <2>1, <2>2 DEF JobsOk
<1>5. QueueOk'
  BY <1>1 DEF QueueOk
<1>6. UnitsOk'
  BY <1>1, <1>3 DEF Core, UnitsOk, Jobs
<1>. QED  BY <1>1, <1>4, <1>5, <1>6, RestStands DEF Core

-----------------------------------------------------------------------------
(* Proposals.                                                              *)

\* A thread that goes on, when no source and no proposal changes.
LEMMA StepKeeps ==
    ASSUME Core, NEW r \in Reqs, NEW next, Goes(r, next) \/ Writes(r, next),
           UNCHANGED <<clustered, file, overlay, runs, started, prop, landed>>,
           faults \subseteq faults', Static(next, prop),
           Live(next, file, overlay, prop, faults'), OwnProposal(r, next), QueueOk'
    PROVE  Core'
<1>1. r \in Jobs
  BY DEF Jobs
<1>2. JobsOk'
  <2>1. CASE Goes(r, next)
    BY <1>1, <2>1, GoesKeepsJobs DEF Core
  <2>2. CASE Writes(r, next)
    <3>1. \A j \in Jobs \ {r} : job[j].op = "propose" => prop'[job[j].prop].status = "none"
      BY DEF Core, JobsOk, Static
    <3>. QED  BY <1>1, <2>2, <3>1, WritesKeepsJobs DEF Core
  <2>. QED  BY <2>1, <2>2
<1>3. UnitsOk'
  BY UnitsStand
<1>. QED  BY <1>2, <1>3, RestStands DEF Core

\* A thread that carries no approval goes on, and carries none.
LEMMA PlainStepKeeps ==
    ASSUME Core, NEW r \in Reqs, NEW next, Goes(r, next),
           UNCHANGED <<clustered, file, overlay, runs, started, prop, landed>>,
           faults \subseteq faults', Static(next, prop),
           Live(next, file, overlay, prop, faults'), OwnProposal(r, next),
           \A p : ~Carries(job[r], p) /\ ~Carries(next, p)
    PROVE  Core'
<1>1. QueueOk'
  BY GoesKeepsQueue DEF Core, Jobs
<1>. QED  BY <1>1, StepKeeps

LEMMA IdleKeeps ==
    ASSUME Core, NEW r \in Reqs, Goes(r, Idle),
           UNCHANGED <<clustered, file, overlay, runs, started, prop, landed>>,
           faults \subseteq faults', \A p : ~Carries(job[r], p)
    PROVE  Core'
<1>1. Static(Idle, prop) /\ Live(Idle, file, overlay, prop, faults') /\ \A p : ~Carries(Idle, p)
  BY IdleIsGood
<1>2. OwnProposal(r, Idle)
  BY IdleFields DEF OwnProposal
<1>. QED  BY <1>1, <1>2, PlainStepKeeps

\* A decision begins: only a pending proposal is decided (Fetch).
LEMMA FetchKeeps ==
    ASSUME Core, NEW r \in Reqs, Fetch(r)
    PROVE  Core'
<1>1. /\ job[r].pc = "fetch" /\ job[r].op \in {"approve", "reject"}
      /\ UNCHANGED <<clustered, file, overlay, runs, started, prop, landed, faults>>
  BY DEF Fetch, propVars
<1>2. Static(job[r], prop)
  BY DEF Core, JobsOk, Jobs
<1>3. \A p : ~Carries(job[r], p)
  BY <1>1 DEF Carries
<1>4. CASE Goes(r, Idle)
  BY <1>1, <1>3, <1>4, IdleKeeps
<1>5. ASSUME NEW pc \in {"read", "mark"}, Goes(r, [job[r] EXCEPT !.pc = pc]),
             prop[job[r].prop].status = "pending", pc = "mark" => job[r].op = "reject"
      PROVE  Core'
  <2>. DEFINE k == [job[r] EXCEPT !.pc = pc]
  <2>1. SameBut(k, job[r], pc) /\ Goes(r, k)
    BY <1>2, <1>5, MovedFields DEF Static
  <2>. HIDE DEF k
  <2>2. Static(k, prop)
    BY <1>1, <1>2, <2>1 DEF SameBut, Static, Holding, Decides
  <2>3. Live(k, file, overlay, prop, faults')
    BY <1>1, <1>2, <1>5, <2>1 DEF SameBut, Static, Live, Holding, Decides, Applies
  <2>4. OwnProposal(r, k) /\ \A p : ~Carries(k, p)
    BY <1>1, <1>5, <2>1 DEF SameBut, OwnProposal, Carries
  <2>. QED  BY <1>1, <1>3, <2>1, <2>2, <2>3, <2>4, PlainStepKeeps
<1>6. \/ Goes(r, Idle)
      \/ /\ prop[job[r].prop].status = "pending"
         /\ Goes(r, [job[r] EXCEPT !.pc = "read"])
      \/ /\ prop[job[r].prop].status = "pending" /\ job[r].op = "reject"
         /\ Goes(r, [job[r] EXCEPT !.pc = "mark"])
  BY <1>1 DEF Fetch
<1>. QED  BY <1>4, <1>5, <1>6

\* A list begins with what is pending (FetchList).
LEMMA FetchListKeeps ==
    ASSUME Core, NEW r \in Reqs, FetchList(r)
    PROVE  Core'
<1>. DEFINE todo == {p \in Props : prop[p].status = "pending"}
            j == [job[r] EXCEPT !.todo = todo]
<1>1. /\ job[r].pc = "fetch" /\ job[r].op = "list" /\ Goes(r, NextOfList(j))
      /\ UNCHANGED <<clustered, file, overlay, runs, started, prop, landed, faults>>
  BY DEF FetchList, propVars
<1>2. Static(job[r], prop)
  BY DEF Core, JobsOk, Jobs
<1>3. todo \subseteq Props /\ \A p \in todo : prop[p].status = "pending"
  OBVIOUS
<1>. HIDE DEF todo
<1>4. /\ DOMAIN j = JobFields /\ j.op = "list" /\ j.node = job[r].node
      /\ j.base = job[r].base /\ j.eff = job[r].eff /\ j.then = job[r].then
      /\ j.todo = todo /\ j.applying = job[r].applying /\ j.stale = job[r].stale
  BY <1>1, <1>2 DEF Static, JobFields
<1>. HIDE DEF j
<1>5. j.applying = FALSE /\ j.then = "get"
  BY <1>1, <1>2, <1>4 DEF Static
<1>6. /\ Static(NextOfList(j), prop) /\ Live(NextOfList(j), file, overlay, prop, faults)
      /\ \A p : ~Carries(NextOfList(j), p)
      /\ NextOfList(j).op # "propose"
  <2>1. /\ j.node \in Nodes /\ j.stale \in BOOLEAN /\ IsSource(j.base) /\ IsSource(j.eff)
        /\ j.eff.rev = j.base.rev /\ j.todo \subseteq Props
        /\ \A p \in j.todo : /\ prop[p].status # "none"
                             /\ ~j.stale => prop[p].status = "pending"
    BY <1>2, <1>3, <1>4 DEF Static
  <2>. QED  BY <1>4, <1>5, <2>1, NextIsGood
<1>7. OwnProposal(r, NextOfList(j)) /\ \A p : ~Carries(job[r], p)
  BY <1>1, <1>6 DEF OwnProposal, Carries
<1>. QED  BY <1>1, <1>6, <1>7, PlainStepKeeps

\* A rollback finds its value in the trail, or ends (ReadTrail).
LEMMA TrailKeeps ==
    ASSUME Core, NEW r \in Reqs, ReadTrail(r)
    PROVE  Core'
<1>1. /\ job[r].pc = "trail"
      /\ UNCHANGED <<clustered, file, overlay, runs, started, prop, landed, faults>>
  BY DEF ReadTrail, propVars
<1>2. Static(job[r], prop) /\ job[r].op = "rollback"
  BY <1>1 DEF Core, JobsOk, Jobs, Static
<1>3. \A p : ~Carries(job[r], p)
  BY <1>1 DEF Carries
<1>4. Goes(r, Idle) \/ \E v : Goes(r, [job[r] EXCEPT !.val = v, !.pc = "read"])
  BY DEF ReadTrail
<1>5. CASE Goes(r, Idle)
  BY <1>1, <1>3, <1>5, IdleKeeps
<1>6. ASSUME NEW v, Goes(r, [job[r] EXCEPT !.val = v, !.pc = "read"])
      PROVE  Core'
  <2>. DEFINE k == [job[r] EXCEPT !.val = v, !.pc = "read"]
  <2>1. SameBut(k, job[r], "read") /\ Goes(r, k)
    BY <1>2, <1>6 DEF SameBut, Static, JobFields
  <2>. HIDE DEF k
  <2>2. Static(k, prop)
    BY <1>1, <1>2, <2>1 DEF SameBut, Static, Holding, Decides
  <2>3. Live(k, file, overlay, prop, faults')
    BY <1>1, <1>2, <2>1 DEF SameBut, Static, Live, Holding, Decides, Applies
  <2>4. OwnProposal(r, k) /\ \A p : ~Carries(k, p)
    BY <1>2, <2>1 DEF SameBut, OwnProposal, Carries
  <2>. QED  BY <1>1, <1>3, <2>1, <2>2, <2>3, <2>4, PlainStepKeeps
<1>. QED  BY <1>4, <1>5, <1>6

\* A list goes on to its next proposal.
LEMMA ListGoesOn ==
    ASSUME NEW pr, NEW nr, NEW fl, NEW ov, NEW ft, NEW j, Static(j, pr), j.op = "list",
           Holding(j), ~j.stale => \A p \in j.todo : pr[p].status = "pending",
           \A p \in Props : p # j.prop => nr[p].status = pr[p].status
    PROVE  /\ Static(NextOfList(j), nr) /\ Live(NextOfList(j), fl, ov, nr, ft)
           /\ \A p : ~Carries(NextOfList(j), p)
           /\ NextOfList(j).op # "propose"
<1>1. j.applying = FALSE /\ j.then = "get"
  BY DEF Static
<1>2. /\ DOMAIN j = JobFields /\ j.node \in Nodes /\ j.stale \in BOOLEAN
      /\ IsSource(j.base) /\ IsSource(j.eff) /\ j.eff.rev = j.base.rev /\ j.todo \subseteq Props
  BY DEF Static
<1>3. \A p \in j.todo : /\ nr[p].status # "none"
                        /\ ~j.stale => nr[p].status = "pending"
  BY <1>2 DEF Static
<1>. QED  BY <1>1, <1>2, <1>3, NextIsGood

\* An approval whose baseline stands reads again: it knows what it applies to.
LEMMA ApplyingIsGood ==
    ASSUME NEW j, Static(j, prop), Live(j, file, overlay, prop, faults), j.pc = "resolved",
           ~j.applying, j.op = "approve", j.eff = prop[j.prop].baseline
    PROVE  /\ Static(Applying(j), prop) /\ Live(Applying(j), file, overlay, prop, faults)
           /\ \A p : ~Carries(Applying(j), p)
           /\ Applying(j).op = "approve"
<1>. DEFINE to == IF clustered /\ prop[j.prop].kind = "set_literal" THEN "get" ELSE "resolved"
            k == [j EXCEPT !.applying = TRUE, !.pc = "read", !.then = to]
<1>1. to \in {"get", "resolved"}
  OBVIOUS
<1>2. Applying(j) = k
  BY DEF Applying
<1>. HIDE DEF to
<1>3. /\ DOMAIN k = JobFields /\ k.pc = "read" /\ k.op = j.op /\ k.node = j.node
      /\ k.base = j.base /\ k.eff = j.eff /\ k.then = to /\ k.prop = j.prop
      /\ k.todo = j.todo /\ k.applying = TRUE /\ k.stale = j.stale
  BY DEF Static, JobFields
<1>. HIDE DEF k
<1>4. Static(k, prop)
  BY <1>1, <1>3 DEF Static, Holding, Decides
<1>5. Live(k, file, overlay, prop, faults)
  <2>1. SUFFICES ASSUME ~j.stale PROVE Live(k, file, overlay, prop, faults)
    BY <1>3 DEF Live
  <2>2. /\ prop[j.prop].baseline.rev = file[j.node].rev
        /\ "get" \notin faults => Effective(overlay, file[j.node]) = prop[j.prop].baseline
        /\ prop[j.prop].status = "pending"
    BY <2>1 DEF Static, Live, Holding, Decides
  <2>. QED  BY <1>3, <2>2 DEF Live, Holding, Decides, Applies
<1>6. (\A p : ~Carries(k, p)) /\ k.op = "approve"
  BY <1>3 DEF Carries
<1>. QED  BY <1>2, <1>4, <1>5, <1>6

\* The check of the baseline (Compare).
LEMMA CompareKeeps ==
    ASSUME Core, NEW r \in Reqs, Compare(r)
    PROVE  Core'
<1>1. /\ job[r].pc = "resolved" /\ ~job[r].applying /\ job[r].op \in {"approve", "list"}
      /\ UNCHANGED <<clustered, file, overlay, runs, started, prop, landed, faults>>
  BY DEF Compare, propVars
<1>2. Static(job[r], prop) /\ Live(job[r], file, overlay, prop, faults)
  BY DEF Core, JobsOk, Jobs
<1>3. Holding(job[r]) /\ \A p : ~Carries(job[r], p)
  BY <1>1 DEF Holding, Carries
<1>4. \/ Goes(r, [job[r] EXCEPT !.pc = "expire"])
      \/ job[r].op = "list" /\ Goes(r, NextOfList(job[r]))
      \/ /\ job[r].op = "approve" /\ job[r].eff = prop[job[r].prop].baseline
         /\ Goes(r, Applying(job[r]))
  BY <1>1 DEF Compare
<1>5. PICK next : /\ Goes(r, next) /\ Static(next, prop)
                  /\ Live(next, file, overlay, prop, faults)
                  /\ next.op # "propose" /\ \A p : ~Carries(next, p)
  <2>1. CASE Goes(r, [job[r] EXCEPT !.pc = "expire"])
    <3>. DEFINE k == [job[r] EXCEPT !.pc = "expire"]
    <3>1. /\ Static(k, prop) /\ Live(k, file, overlay, prop, faults)
          /\ SameBut(k, job[r], "expire")
      BY <1>1, <1>2, <1>3, LivePends, MovedIsGood
    <3>2. Goes(r, k)
      BY <2>1
    <3>. HIDE DEF k
    <3>. QED  BY <1>1, <3>1, <3>2 DEF SameBut, Carries
  <2>2. CASE job[r].op = "list" /\ Goes(r, NextOfList(job[r]))
    <3>1. /\ Static(NextOfList(job[r]), prop)
          /\ Live(NextOfList(job[r]), file, overlay, prop, faults)
          /\ \A p : ~Carries(NextOfList(job[r]), p)
          /\ NextOfList(job[r]).op # "propose"
      <4>1. ~job[r].stale => \A q \in job[r].todo : prop[q].status = "pending"
        BY <1>2, <1>3, <2>2 DEF Live
      <4>. QED  BY <1>2, <1>3, <2>2, <4>1, ListGoesOn
    <3>. QED  BY <2>2, <3>1
  <2>3. CASE /\ job[r].op = "approve" /\ job[r].eff = prop[job[r].prop].baseline
             /\ Goes(r, Applying(job[r]))
    BY <1>1, <1>2, <2>3, ApplyingIsGood
  <2>. QED  BY <1>4, <2>1, <2>2, <2>3
<1>6. OwnProposal(r, next)
  BY <1>5 DEF OwnProposal
<1>. QED  BY <1>1, <1>3, <1>5, <1>6, PlainStepKeeps

\* The bucket cannot be written (MarkFails).
LEMMA MarkFailsKeeps ==
    ASSUME Core, NEW r \in Reqs, MarkFails(r)
    PROVE  Core'
<1>1. /\ job[r].pc \in {"mark", "expire"} /\ faults' = faults \cup {"mark"}
      /\ UNCHANGED <<clustered, file, overlay, runs, started, prop, landed>>
      /\ Goes(r, IF job[r].op = "list" THEN NextOfList(job[r]) ELSE Idle)
  BY DEF MarkFails, Fault, propVars
<1>2. Static(job[r], prop) /\ Live(job[r], file, overlay, prop, faults) /\ Holding(job[r])
  BY <1>1 DEF Core, JobsOk, Jobs, Holding
<1>3. PICK next : /\ Goes(r, next) /\ Static(next, prop)
                  /\ Live(next, file, overlay, prop, faults') /\ next.op # "propose"
  <2>1. CASE job[r].op = "list"
    <3>1. ~job[r].stale => \A q \in job[r].todo : prop[q].status = "pending"
      BY <1>2, <2>1 DEF Live
    <3>2. /\ Static(NextOfList(job[r]), prop)
          /\ Live(NextOfList(job[r]), file, overlay, prop, faults')
          /\ NextOfList(job[r]).op # "propose"
      BY <1>2, <2>1, <3>1, ListGoesOn
    <3>. QED  BY <1>1, <2>1, <3>2
  <2>2. CASE job[r].op # "list"
    BY <1>1, <2>2, IdleIsGood, IdleFields
  <2>. QED  BY <2>1, <2>2
<1>4. QueueOk'
  BY <1>1 DEF QueueOk
<1>5. OwnProposal(r, next)
  BY <1>3 DEF OwnProposal
<1>. QED  BY <1>1, <1>3, <1>4, <1>5, StepKeeps

\* set_status (Expire, Mark): a proposal is decided once, by a thread nobody overtook.
LEMMA SetStatusKeeps ==
    ASSUME Core, ~raced', NEW r \in Reqs, NEW s \in {"expired", "rejected", "approved"},
           SetStatus(r, s), job[r].pc \in {"mark", "expire"},
           s = "approved" <=> job[r].pc = "mark" /\ job[r].op = "approve"
    PROVE  Core'
<1>. DEFINE p == job[r].prop
            next == IF job[r].op = "list" THEN NextOfList(job[r]) ELSE Idle
<1>1. /\ Writes(r, next) /\ prop' = [prop EXCEPT ![p].status = s]
      /\ UNCHANGED <<clustered, file, overlay, runs, started, landed, faults>>
  BY DEF SetStatus
<1>2. ~job[r].stale /\ r \in Jobs
  BY <1>1 DEF Writes, Jobs
<1>3. Static(job[r], prop) /\ Live(job[r], file, overlay, prop, faults) /\ Holding(job[r])
  BY DEF Core, JobsOk, Jobs, Holding
<1>4. Decides(job[r]) /\ p \in Props /\ prop[p].status = "pending"
  BY <1>2, <1>3 DEF Static, Live
<1>5. /\ DOMAIN prop' = Props
      /\ prop'[p].status = s
      /\ \A q \in Props : q # p => prop'[q].status = prop[q].status
      /\ \A q \in Props : /\ DOMAIN prop'[q] = DOMAIN prop[q]
                          /\ prop'[q].baseline = prop[q].baseline
  BY <1>1, <1>4 DEF Core, PropsOk
<1>6. /\ Static(next, prop') /\ Live(next, file', overlay', prop', faults')
      /\ (\A q : ~Carries(next, q)) /\ next.op # "propose"
  <2>1. CASE job[r].op = "list"
    <3>1. \A q \in Props : q # job[r].prop => prop'[q].status = prop[q].status
      BY <1>5
    <3>2. /\ Static(NextOfList(job[r]), prop')
          /\ Live(NextOfList(job[r]), file', overlay', prop', faults')
          /\ \A q : ~Carries(NextOfList(job[r]), q)
          /\ NextOfList(job[r]).op # "propose"
      <4>1. ~job[r].stale => \A q \in job[r].todo : prop[q].status = "pending"
        BY <1>3, <2>1 DEF Live
      <4>. QED  BY <1>3, <2>1, <3>1, <4>1, ListGoesOn
    <3>. QED  BY <2>1, <3>2
  <2>2. CASE job[r].op # "list"
    BY <2>2, IdleIsGood, IdleFields
  <2>. QED  BY <2>1, <2>2
<1>. HIDE DEF next
<1>7. JobsOk'
  <2>1. OwnProposal(r, next)
    BY <1>6 DEF OwnProposal
  <2>2. \A j \in Jobs \ {r} : job[j].op = "propose" => prop'[job[j].prop].status = "none"
    BY <1>4, <1>5 DEF Core, JobsOk, Static
  <2>3. \A q \in Props : prop[q].status # "none" => prop'[q].status # "none"
    BY <1>5
  <2>. QED  BY <1>1, <1>2, <1>6, <2>1, <2>2, <2>3, WritesKeepsJobs DEF Core
<1>8. /\ job'[r] = next
      /\ \A c \in Reqs \ {r} : \A q : /\ Carries(job'[c], q) <=> Carries(job[c], q)
                                      /\ Carries(job[c], q) => job'[c].stale
  <2>1. job'[r] = next
    BY <1>1, <1>2 DEF Writes
  <2>2. ASSUME NEW c \in Reqs \ {r}, NEW q
        PROVE  /\ Carries(job'[c], q) <=> Carries(job[c], q)
               /\ Carries(job[c], q) => job'[c].stale
    BY <1>1, <1>2, WritesCarriers DEF Core
  <2>. QED  BY <2>1, <2>2
<1>9. Carries(job[r], p) <=> s = "approved"
  BY <1>4 DEF Carries
<1>10. \A q : q # p => ~Carries(job[r], q)
  BY DEF Carries
<1>11. QueueOk'
  <2>1. SUFFICES ASSUME faults \cap {"mark", "put", "crash"} = {}, NEW q \in Props
                 PROVE  Settled(q)'
    BY <1>1 DEF QueueOk
  <2>2. Settled(q) /\ landed' = landed
    BY <1>1, <2>1 DEF Core, QueueOk
  <2>3. CASE \E c \in Reqs \ {r} : Carries(job[c], q)
    BY <1>8, <2>3 DEF Settled
  <2>4. CASE ~\E c \in Reqs \ {r} : Carries(job[c], q)
    <3>1. \A c \in Reqs : ~Carries(job'[c], q)
      BY <1>6, <1>8, <2>4
    <3>2. CASE q # p
      BY <1>5, <1>10, <2>2, <2>4, <3>1, <3>2 DEF Settled
    <3>3. CASE q = p /\ s = "approved"
      <4>1. landed[p].times = 1
        BY <1>2, <1>9, <2>2, <2>4, <3>3 DEF Settled
      <4>. QED  BY <1>5, <2>2, <3>1, <3>3, <4>1 DEF Settled
    <3>4. CASE q = p /\ s # "approved"
      <4>1. landed[p].times = 0
        BY <1>4, <1>9, <2>2, <2>4, <3>4 DEF Settled
      <4>. QED  BY <1>5, <2>2, <3>1, <3>4, <4>1 DEF Settled
    <3>. QED  BY <3>2, <3>3, <3>4
  <2>. QED  BY <2>3, <2>4
<1>12. PropsOk' /\ EvidenceOk'
  BY <1>1, <1>4, <1>5 DEF Core, PropsOk, EvidenceOk
<1>13. UnitsOk' /\ SourcesOk'
  BY <1>1, UnitsStand DEF Core, SourcesOk
<1>. QED  BY <1>7, <1>11, <1>12, <1>13 DEF Core

LEMMA MarkKeeps ==
    ASSUME Core, ~raced', NEW r \in Reqs, Expire(r) \/ Mark(r)
    PROVE  Core'
<1>1. Static(job[r], prop)
  BY DEF Core, JobsOk, Jobs
<1>2. CASE Expire(r)
  BY <1>2, SetStatusKeeps DEF Expire
<1>3. CASE Mark(r)
  <2>1. job[r].op \in {"approve", "reject"}
    BY <1>1, <1>3 DEF Mark, Static, Decides
  <2>. QED  BY <1>3, <2>1, SetStatusKeeps DEF Mark
<1>. QED  BY <1>2, <1>3

\* A proposal is made, for the first time (Submit).
LEMMA SubmitKeeps ==
    ASSUME Core, ~raced', NEW r \in Reqs, NEW kind, Submit(r, kind)
    PROVE  Core'
<1>. DEFINE p == job[r].prop
            new == [kind |-> kind, lit |-> job[r].lit, baseline |-> job[r].eff,
                    status |-> "pending"]
<1>1. /\ Writes(r, Idle) /\ prop' = [prop EXCEPT ![p] = new] /\ job[r].op = "propose"
      /\ UNCHANGED <<clustered, file, overlay, runs, started, landed, faults>>
  BY DEF Submit
<1>2. Static(job[r], prop) /\ r \in Jobs
  BY DEF Core, JobsOk, Jobs
<1>3. /\ p \in Props /\ prop[p].status = "none" /\ landed[p].times = 0
      /\ IsSource(new.baseline) /\ new.status = "pending"
      /\ DOMAIN new = {"kind", "lit", "baseline", "status"}
  BY <1>1, <1>2 DEF Static, Core, PropsOk
<1>. HIDE DEF new
<1>4. /\ DOMAIN prop' = Props /\ prop'[p] = new
      /\ \A q \in Props : q # p => prop'[q] = prop[q]
  BY <1>1, <1>3 DEF Core, PropsOk
<1>5. JobsOk'
  <2>1. OwnProposal(r, Idle) /\ Static(Idle, prop') /\ Live(Idle, file', overlay', prop', faults')
    BY IdleFields, IdleIsGood DEF OwnProposal
  <2>2. ASSUME NEW j \in Jobs \ {r}, job[j].op = "propose"
        PROVE  prop'[job[j].prop].status = "none"
    <3>1. j \in Reqs
      BY <2>2 DEF Core, UnitsOk, Jobs
    <3>2. job[j].prop \in Props /\ job[j].prop # p /\ prop[job[j].prop].status = "none"
      BY <1>1, <2>2, <3>1 DEF Core, JobsOk, Static
    <3>. QED  BY <1>4, <3>2
  <2>3. \A q \in Props : prop[q].status # "none" => prop'[q].status # "none"
    BY <1>3, <1>4
  <2>. QED  BY <1>1, <1>2, <2>1, <2>2, <2>3, WritesKeepsJobs DEF Core
<1>6. ASSUME NEW c \in Reqs PROVE ~Carries(job[c], p)
  <2>1. Static(job[c], prop)
    BY DEF Core, JobsOk, Jobs
  <2>. QED  BY <1>3, <2>1 DEF Carries, Static, Decides
<1>7. /\ \A q : ~Carries(job'[r], q) /\ ~Carries(job[r], q)
      /\ \A c \in Reqs \ {r} : \A q : /\ Carries(job'[c], q) <=> Carries(job[c], q)
                                      /\ Carries(job[c], q) => job'[c].stale
  <2>1. \A q : ~Carries(job'[r], q) /\ ~Carries(job[r], q)
    BY <1>1, <1>2, IdleIsGood DEF Writes, Carries
  <2>2. ASSUME NEW c \in Reqs \ {r}, NEW q
        PROVE  /\ Carries(job'[c], q) <=> Carries(job[c], q)
               /\ Carries(job[c], q) => job'[c].stale
    BY <1>1, <1>2, WritesCarriers DEF Core
  <2>. QED  BY <2>1, <2>2
<1>8. QueueOk'
  <2>1. SUFFICES ASSUME faults \cap {"mark", "put", "crash"} = {}, NEW q \in Props
                 PROVE  Settled(q)'
    BY <1>1 DEF QueueOk
  <2>2. Settled(q) /\ landed' = landed
    BY <1>1, <2>1 DEF Core, QueueOk
  <2>3. CASE q = p
    BY <1>3, <1>4, <1>6, <1>7, <2>2, <2>3 DEF Settled
  <2>4. CASE q # p
    BY <1>4, <1>7, <2>2, <2>4 DEF Settled
  <2>. QED  BY <2>3, <2>4
<1>9. PropsOk' /\ EvidenceOk'
  BY <1>1, <1>3, <1>4 DEF Core, PropsOk, EvidenceOk
<1>10. UnitsOk' /\ SourcesOk'
  BY <1>1, UnitsStand DEF Core, SourcesOk
<1>. QED  BY <1>5, <1>8, <1>9, <1>10 DEF Core

-----------------------------------------------------------------------------
(* Writes of a source.                                                     *)

\* A thread that is ready to write is no other's, holds its source, and carries nothing yet.
LEMMA ReadyIs ==
    ASSUME Core, NEW r \in Reqs, Ready(r)
    PROVE  /\ Static(job[r], prop) /\ Live(job[r], file, overlay, prop, faults)
           /\ Holding(job[r]) /\ job[r].pc = "resolved" /\ r \in Jobs
           /\ job[r].op # "propose" /\ \A p : ~Carries(job[r], p)
           /\ job[r].op = "approve" => Applies(job[r]) /\ job[r].prop \in Props
<1>1. Static(job[r], prop) /\ Live(job[r], file, overlay, prop, faults)
  BY DEF Core, JobsOk, Jobs
<1>2. job[r].pc = "resolved" /\ Holding(job[r]) /\ \A p : ~Carries(job[r], p)
  BY DEF Ready, Holding, Carries
<1>3. job[r].op # "propose" /\ (job[r].op = "approve" => job[r].applying)
  BY <1>1 DEF Ready, Static
<1>4. job[r].op = "approve" => Applies(job[r]) /\ job[r].prop \in Props
  BY <1>1, <1>2, <1>3 DEF Static, Applies, Decides
<1>. QED  BY <1>1, <1>2, <1>3, <1>4 DEF Jobs

\* What it writes is of the revision of the file it has read.
LEMMA NewSourceIsOf ==
    ASSUME Core, NEW r \in Reqs, Ready(r), ~job[r].stale
    PROVE  IsSource(NewSource(r)) /\ NewSource(r).rev = job[r].base.rev
<1>. DEFINE j == job[r]
<1>1. /\ Static(j, prop) /\ Live(j, file, overlay, prop, faults) /\ Holding(j)
      /\ j.pc = "resolved" /\ (j.op = "approve" => Applies(j) /\ j.prop \in Props)
  BY ReadyIs
<1>2. IsSource(j.base) /\ IsSource(j.eff) /\ j.eff.rev = j.base.rev
  BY <1>1 DEF Static
<1>3. CASE j.op = "approve"
  <2>1. /\ prop[j.prop].baseline.rev = j.base.rev /\ IsSource(prop[j.prop].baseline)
    BY <1>1, <1>3 DEF Live, Core, PropsOk
  <2>2. \/ NewSource(r) = Set(j.eff, prop[j.prop].lit, 1)
        \/ NewSource(r) = Rewrite(prop[j.prop].baseline)
        \/ NewSource(r) = Rewrite(j.base)
    BY <1>3 DEF NewSource
  <2>. QED  BY <1>2, <2>1, <2>2, SetIsSource, RewriteIsSource
<1>4. CASE j.op # "approve"
  <2>1. NewSource(r) = Set(j.eff, j.lit, j.val) \/ NewSource(r) = Rewrite(j.base)
    BY <1>4 DEF NewSource
  <2>. QED  BY <1>2, <2>1, SetIsSource, RewriteIsSource
<1>. QED  BY <1>3, <1>4

\* A write by a thread nobody overtook, wherever the source goes and the thread after it
\* (Put, PutUnanswered, WriteFile): an approval lands on what its evidence saw.
LEMMA WriteKeeps ==
    ASSUME Core, ~raced', NEW r \in Reqs, Ready(r), NEW on, Note(r, on), NEW next,
           Writes(r, next), UNCHANGED <<clustered, runs, started>>, faults \subseteq faults',
           SourcesOk', Static(next, prop), Live(next, file', overlay', prop, faults'),
           next.op # "propose",
           job[r].op = "approve" => on = Effective(overlay, file[job[r].node]),
           \/ "put" \in faults'
           \/ \A p : Carries(next, p) <=> job[r].op = "approve" /\ p = job[r].prop
    PROVE  Core'
<1>. DEFINE p == job[r].prop
            j == job[r]
<1>1. /\ Static(j, prop) /\ Live(j, file, overlay, prop, faults) /\ Holding(j)
      /\ r \in Jobs /\ (\A q : ~Carries(j, q))
      /\ j.op = "approve" => Applies(j) /\ p \in Props
  BY ReadyIs
<1>2. ~j.stale /\ prop' = prop
  BY DEF Writes, Note
<1>3. j.op # "approve" => landed' = landed
  BY DEF Note
<1>4. ASSUME j.op = "approve"
      PROVE  /\ landed' = [landed EXCEPT ![p] = [times |-> landed[p].times + 1, on |-> on]]
             /\ prop[p].status = "pending"
             /\ "get" \notin faults => on = prop[p].baseline
  <2>1. landed' = [landed EXCEPT ![p] = [times |-> landed[p].times + 1, on |-> on]]
    BY <1>4 DEF Note
  <2>. QED  BY <1>1, <1>2, <1>4, <2>1 DEF Live, Decides
<1>5. JobsOk'
  <2>1. OwnProposal(r, next)
    BY DEF OwnProposal
  <2>2. \A i \in Jobs \ {r} : job[i].op = "propose" => prop'[job[i].prop].status = "none"
    BY <1>2 DEF Core, JobsOk, Static
  <2>. QED  BY <1>1, <1>2, <2>1, <2>2, WritesKeepsJobs DEF Core
<1>6. UnitsOk'
  BY UnitsStand
<1>7. PropsOk' /\ EvidenceOk'
  <2>1. CASE j.op # "approve"
    BY <1>2, <1>3, <2>1 DEF Core, PropsOk, EvidenceOk
  <2>2. CASE j.op = "approve"
    <3>1. /\ DOMAIN landed' = Props /\ landed'[p].times = landed[p].times + 1
          /\ landed'[p].on = on /\ \A q \in Props : q # p => landed'[q] = landed[q]
      BY <1>1, <1>4, <2>2 DEF Core, PropsOk
    <3>2. p \in Props /\ landed[p].times + 1 \in Nat
      BY <1>1, <2>2 DEF Core, PropsOk
    <3>3. PropsOk'
      BY <1>2, <1>4, <2>2, <3>1, <3>2 DEF Core, PropsOk
    <3>4. EvidenceOk'
      BY <1>2, <1>4, <2>2, <3>1, <3>2 DEF Core, EvidenceOk
    <3>. QED  BY <3>3, <3>4
  <2>. QED  BY <2>1, <2>2
<1>8. QueueOk'
  <2>1. SUFFICES ASSUME faults' \cap {"mark", "put", "crash"} = {}, NEW q \in Props
                 PROVE  Settled(q)'
    BY DEF QueueOk
  <2>2. Settled(q)
    BY <2>1 DEF Core, QueueOk
  <2>3. /\ job'[r] = next
        /\ \A c \in Reqs \ {r} : /\ Carries(job'[c], q) <=> Carries(job[c], q)
                                 /\ Carries(job[c], q) => job'[c].stale
    <3>1. job'[r] = next
      BY <1>1 DEF Writes
    <3>2. ASSUME NEW c \in Reqs \ {r}
          PROVE  /\ Carries(job'[c], q) <=> Carries(job[c], q)
                 /\ Carries(job[c], q) => job'[c].stale
      BY <1>1, WritesCarriers DEF Core
    <3>. QED  BY <3>1, <3>2
  <2>4. CASE \E c \in Reqs \ {r} : Carries(job[c], q)
    BY <2>3, <2>4 DEF Settled
  <2>5. CASE ~\E c \in Reqs \ {r} : Carries(job[c], q)
    <3>1. \A c \in Reqs : ~Carries(job[c], q)
      BY <1>1, <2>5
    <3>2. \A c \in Reqs : c # r => ~Carries(job'[c], q)
      BY <2>3, <2>5
    <3>3. Carries(job'[r], q) <=> j.op = "approve" /\ q = p
      BY <2>1, <2>3
    <3>4. CASE j.op = "approve" /\ q = p
      <4>1. landed[q].times = 0
        BY <1>4, <2>2, <3>1, <3>4 DEF Settled
      <4>2. landed'[q].times = 1 /\ prop'[q].status = "pending"
        BY <1>2, <1>4, <3>4, <4>1 DEF Core, PropsOk
      <4>3. \A c \in Reqs : Carries(job'[c], q) <=> c = r
        BY <3>2, <3>3, <3>4
      <4>. QED  BY <4>2, <4>3 DEF Settled
    <3>5. CASE ~(j.op = "approve" /\ q = p)
      <4>1. landed'[q].times = landed[q].times
        BY <1>3, <1>4, <3>5 DEF Core, PropsOk
      <4>2. \A c \in Reqs : ~Carries(job'[c], q)
        BY <3>2, <3>3, <3>5
      <4>. QED  BY <1>2, <2>2, <3>1, <4>1, <4>2 DEF Settled
    <3>. QED  BY <3>4, <3>5
  <2>. QED  BY <2>4, <2>5
<1>. QED  BY <1>5, <1>6, <1>7, <1>8 DEF Core

\* Where a thread goes once it has written: an approval carries its proposal on.
LEMMA AfterWriteIs ==
    ASSUME Core, NEW r \in Reqs, Ready(r), NEW fl, NEW ov, NEW ft, NEW next,
           \/ next = AfterWrite(r)
           \/ next = [job[r] EXCEPT !.pc = "reload"]
    PROVE  /\ Static(next, prop) /\ Live(next, fl, ov, prop, ft) /\ next.op # "propose"
           /\ \A p : Carries(next, p) <=> job[r].op = "approve" /\ p = job[r].prop
<1>1. /\ Static(job[r], prop) /\ Pends(job[r], prop)
      /\ Holding(job[r]) /\ job[r].op # "propose"
  BY ReadyIs, LivePends
<1>2. ASSUME NEW pc \in {"audit", "reload", "mark"}, pc = "mark" => job[r].op = "approve",
             next = [job[r] EXCEPT !.pc = pc]
      PROVE  /\ Static(next, prop) /\ Live(next, fl, ov, prop, ft) /\ next.op # "propose"
             /\ \A p : Carries(next, p) <=> job[r].op = "approve" /\ p = job[r].prop
  <2>1. /\ Static(next, prop) /\ Live(next, fl, ov, prop, ft) /\ SameBut(next, job[r], pc)
    BY <1>1, <1>2, MovedIsGood
  <2>. QED  BY <1>1, <2>1 DEF SameBut, Carries
<1>3. \/ next = [job[r] EXCEPT !.pc = "audit"] \/ next = [job[r] EXCEPT !.pc = "reload"]
      \/ job[r].op = "approve" /\ next = [job[r] EXCEPT !.pc = "mark"]
      \/ job[r].op # "approve" /\ next = Idle
  BY DEF AfterWrite
<1>4. CASE job[r].op # "approve" /\ next = Idle
  BY <1>4, IdleIsGood, IdleFields
<1>. QED  BY <1>2, <1>3, <1>4

\* put_version, answered or not (Put, PutUnanswered).
LEMMA PutKeeps ==
    ASSUME Core, ~raced', NEW r \in Reqs, Put(r) \/ PutUnanswered(r)
    PROVE  Core'
<1>. DEFINE on == Effective(overlay, file[job[r].node])
            src == NewSource(r)
            base == job[r].base
<1>1. /\ Ready(r) /\ clustered /\ Note(r, on)
      /\ overlay' = [src |-> src, parent |-> base]
      /\ UNCHANGED <<clustered, file, runs, started>> /\ faults \subseteq faults'
      /\ Writes(r, AfterWrite(r)) \/ (Writes(r, Idle) /\ "put" \in faults')
  BY DEF Put, PutUnanswered, Fault
<1>2. ~job[r].stale
  BY <1>1 DEF Writes
<1>3. IsSource(src) /\ src.rev = base.rev
  BY <1>1, <1>2, NewSourceIsOf
<1>4. on = Effective(overlay, file[job[r].node])
  OBVIOUS
<1>. HIDE DEF on, src, base
<1>5. SourcesOk'
  BY <1>1, <1>3 DEF Core, SourcesOk
<1>6. CASE Writes(r, AfterWrite(r))
  <2>. DEFINE next == AfterWrite(r)
  <2>1. /\ Static(next, prop) /\ Live(next, file', overlay', prop, faults')
        /\ next.op # "propose"
        /\ \A p : Carries(next, p) <=> job[r].op = "approve" /\ p = job[r].prop
    BY <1>1, AfterWriteIs
  <2>2. Writes(r, next)
    BY <1>6
  <2>. HIDE DEF next
  <2>. QED  BY <1>1, <1>4, <1>5, <2>1, <2>2, WriteKeeps
<1>7. CASE Writes(r, Idle) /\ "put" \in faults'
  <2>1. Static(Idle, prop) /\ Live(Idle, file', overlay', prop, faults') /\ Idle.op # "propose"
    BY IdleIsGood, IdleFields
  <2>. QED  BY <1>1, <1>4, <1>5, <1>7, <2>1, WriteKeeps
<1>. QED  BY <1>1, <1>6, <1>7

\* Nothing is stored (PutFails).
LEMMA PutFailsKeeps ==
    ASSUME Core, NEW r \in Reqs, PutFails(r)
    PROVE  Core'
<1>1. /\ Ready(r) /\ Goes(r, Idle) /\ faults \subseteq faults'
      /\ UNCHANGED <<clustered, file, overlay, runs, started, prop, landed>>
  BY DEF PutFails, Fault, propVars
<1>2. \A p : ~Carries(job[r], p)
  BY <1>1, ReadyIs
<1>. QED  BY <1>1, <1>2, IdleKeeps

\* A single instance writes its file, and no version is in its way (WriteFile).
LEMMA WriteFileKeeps ==
    ASSUME Core, ~raced', NEW r \in Reqs, WriteFile(r)
    PROVE  Core'
<1>. DEFINE n == job[r].node
            src == NewSource(r)
            next == IF Kind(r) = "set_literal" THEN AfterWrite(r)
                    ELSE [job[r] EXCEPT !.pc = "reload"]
<1>1. /\ Ready(r) /\ ~clustered /\ Note(r, file[n]) /\ file' = [file EXCEPT ![n] = src]
      /\ UNCHANGED <<clustered, overlay, runs, started, faults>> /\ Writes(r, next)
  BY DEF WriteFile
<1>2. ~job[r].stale
  BY <1>1 DEF Writes
<1>3. IsSource(src) /\ src.rev \in 0..MaxRev /\ overlay = NoVersion
  <2>1. job[r].base = file[n] /\ n \in Nodes
    BY <1>1, <1>2, ReadyIs DEF Live, Static
  <2>. QED  BY <1>1, <1>2, <2>1, NewSourceIsOf DEF Core, SourcesOk
<1>4. SourcesOk'
  <2>. HIDE DEF n, src
  <2>. QED  BY <1>1, <1>3 DEF Core, SourcesOk
<1>5. file[n] = Effective(overlay, file[n])
  BY <1>3 DEF Effective, Valid
<1>6. /\ Static(next, prop) /\ Live(next, file', overlay', prop, faults')
      /\ next.op # "propose"
      /\ \A p : Carries(next, p) <=> job[r].op = "approve" /\ p = job[r].prop
  <2>1. \/ next = AfterWrite(r)
        \/ next = [job[r] EXCEPT !.pc = "reload"]
    OBVIOUS
  <2>. HIDE DEF next
  <2>. QED  BY <1>1, <2>1, AfterWriteIs
<1>. HIDE DEF next
<1>. QED  BY <1>1, <1>4, <1>5, <1>6, WriteKeeps

\* record_promote, whether or not it succeeds (RecordPromote, RecordFails).
LEMMA RecordKeeps ==
    ASSUME Core, ~raced', NEW r \in Reqs, RecordPromote(r) \/ RecordFails(r)
    PROVE  Core'
<1>. DEFINE next == AfterAudit(r)
<1>1. /\ job[r].pc = "audit" /\ faults \subseteq faults'
      /\ Goes(r, next) \/ Writes(r, next)
      /\ UNCHANGED <<clustered, file, overlay, runs, started, prop, landed>>
  BY DEF RecordPromote, RecordFails, Fault, propVars
<1>2. /\ Static(job[r], prop) /\ Pends(job[r], prop) /\ Holding(job[r]) /\ r \in Jobs
  BY <1>1, LivePends DEF Core, JobsOk, Jobs, Holding
<1>3. \/ job[r].op # "approve" /\ next = Idle
      \/ \E pc \in {"reload", "mark"} : /\ next = [job[r] EXCEPT !.pc = pc]
                                        /\ pc = "mark" => job[r].op = "approve"
  BY DEF AfterAudit
<1>. HIDE DEF next
<1>4. /\ Static(next, prop) /\ Live(next, file, overlay, prop, faults')
      /\ next.op = "propose" => job[r].op = "propose" /\ next.prop = job[r].prop
      /\ \A p : Carries(next, p) <=> Carries(job[r], p)
      /\ next.stale = job[r].stale \/ ~\E p : Carries(job[r], p)
  <2>1. CASE job[r].op # "approve" /\ next = Idle
    BY <2>1, IdleIsGood, IdleFields DEF Carries
  <2>2. ASSUME NEW pc \in {"reload", "mark"}, next = [job[r] EXCEPT !.pc = pc],
               pc = "mark" => job[r].op = "approve"
        PROVE  /\ Static(next, prop) /\ Live(next, file, overlay, prop, faults')
               /\ SameBut(next, job[r], pc)
    BY <1>2, <2>2, MovedIsGood
  <2>3. CASE \E pc \in {"reload", "mark"} : /\ next = [job[r] EXCEPT !.pc = pc]
                                            /\ pc = "mark" => job[r].op = "approve"
    BY <1>1, <2>2, <2>3 DEF SameBut, Carries
  <2>. QED  BY <1>3, <2>1, <2>3
<1>5. OwnProposal(r, next)
  BY <1>4 DEF OwnProposal, Core, JobsOk
<1>6. QueueOk'
  BY <1>1, <1>2, <1>4, GoesKeepsQueue, WritesKeepsQueue DEF Core
<1>. QED  BY <1>1, <1>4, <1>5, <1>6, StepKeeps

\* The reload after a write starts the unit on the file (Reload).
LEMMA ReloadKeeps ==
    ASSUME Core, NEW r \in Reqs, Reload(r)
    PROVE  Core'
<1>. DEFINE n == job[r].node
            next == IF job[r].op = "approve" THEN [job[r] EXCEPT !.pc = "mark"] ELSE Idle
            unit == Starting(n, file[n])
<1>1. /\ job[r].pc = "reload" /\ job' = [job EXCEPT ![r] = next, ![n] = unit]
      /\ UNCHANGED <<clustered, file, overlay, runs, started, faults, prop, landed>>
  BY DEF Reload, propVars
<1>2. /\ Static(job[r], prop) /\ Pends(job[r], prop) /\ Holding(job[r]) /\ r \in Jobs
  BY <1>1, LivePends DEF Core, JobsOk, Jobs, Holding
<1>3. n \in Nodes /\ n \in Jobs /\ n # r /\ n \notin Reqs
  BY <1>2, VersionsAssumption DEF Static, Jobs
<1>4. /\ Static(unit, prop) /\ Live(unit, file, overlay, prop, faults) /\ unit.op = "start"
  <2>1. unit.op = "start"
    BY IdleFields DEF Starting, JobFields
  <2>2. IsSource(file[n])
    BY <1>3 DEF Core, SourcesOk
  <2>. QED  BY <1>3, <2>1, <2>2, StartIsGood
<1>5. /\ Static(next, prop) /\ Live(next, file, overlay, prop, faults)
      /\ next.op # "propose" /\ (\A p : Carries(next, p) <=> Carries(job[r], p))
      /\ next.stale = job[r].stale \/ ~\E p : Carries(job[r], p)
  <2>1. CASE job[r].op = "approve"
    <3>1. /\ Static(next, prop) /\ Live(next, file, overlay, prop, faults)
          /\ SameBut(next, job[r], "mark")
      BY <1>2, <2>1, MovedIsGood
    <3>. HIDE DEF next
    <3>. QED  BY <1>1, <2>1, <3>1 DEF SameBut, Carries
  <2>2. CASE job[r].op # "approve"
    BY <2>2, IdleIsGood, IdleFields DEF Carries
  <2>. QED  BY <2>1, <2>2
<1>. HIDE DEF n, next, unit
<1>6. /\ DOMAIN job' = Jobs /\ job'[r] = next /\ job'[n] = unit
      /\ \A j \in Jobs : j # r /\ j # n => job'[j] = job[j]
  BY <1>1, <1>2, <1>3 DEF Core, JobsOk
<1>7. JobsOk'
  <2>1. \A j \in Jobs : Static(job'[j], prop') /\ Live(job'[j], file', overlay', prop', faults')
    BY <1>1, <1>4, <1>5, <1>6 DEF Core, JobsOk
  <2>2. ASSUME NEW p \in Reqs, NEW q \in Reqs, p # q, job'[p].op = "propose",
               job'[q].op = "propose"
        PROVE  job'[p].prop # job'[q].prop
    BY <1>3, <1>5, <1>6, <2>2 DEF Core, JobsOk, Jobs
  <2>. QED  BY <1>6, <2>1, <2>2 DEF JobsOk
<1>8. QueueOk'
  <2>1. \A c \in Reqs : \A p \in Props :
           /\ Carries(job'[c], p) <=> Carries(job[c], p)
           /\ Carries(job[c], p) /\ job[c].stale => job'[c].stale
    BY <1>3, <1>5, <1>6 DEF Jobs
  <2>. QED  BY <1>1, <2>1, QueueStands DEF Core
<1>9. UnitsOk'
  <2>1. \A m \in Nodes : job'[m].op \in {"idle", "start"}
    BY <1>3, <1>4, <1>6, VersionsAssumption DEF Core, UnitsOk, Jobs
  <2>. QED  BY <1>1, <2>1 DEF Core, UnitsOk
<1>. QED  BY <1>1, <1>7, <1>8, <1>9, RestStands DEF Core

-----------------------------------------------------------------------------
(* A request begins.                                                       *)

\* A request is let in and, unless it looks at something else first, reads the file (Begin).
LEMMA BeginKeeps ==
    ASSUME Core, NEW r \in Reqs, NEW d \in DoorOps, NEW who, NEW l,
           NEW p \in IF d.op \in {"approve", "reject", "propose"} THEN Props ELSE {0},
           Begin(r, d, who, l, p)
    PROVE  Core'
<1>. DEFINE n == IF clustered THEN HomeOf[r] ELSE CHOOSE m \in Instances : TRUE
            local == ~clustered /\ d.op \in {"set", "rollback"}
            at == IF local /\ d.pc = "get" THEN "resolved" ELSE d.pc
            to == IF local THEN "resolved" ELSE "get"
            op == d.op
            src == file[n]
            j == [Idle EXCEPT !.op = op, !.node = n, !.lit = l, !.prop = p, !.val = 1,
                              !.base = src, !.eff = src, !.pc = at, !.then = to]
<1>1. /\ Goes(r, j) /\ job[r].pc = "idle"
      /\ UNCHANGED <<clustered, file, overlay, runs, started, prop, landed, faults>>
      /\ op \in {"approve", "reject"} => prop[p].status # "none"
      /\ op = "propose" => prop[p].status = "none" /\ \A q \in Reqs : job[q].prop # p
  BY DEF Begin
<1>2. n \in Nodes
  <2>1. CASE clustered
    BY <2>1, VersionsAssumption
  <2>2. CASE ~clustered
    <3>1. Instances # {} /\ Instances \subseteq Nodes
      BY <2>2, VersionsAssumption, ChoiceIsIn DEF Instances
    <3>. QED  BY <2>2, <3>1, ChoiceIsIn
  <2>. QED  BY <2>1, <2>2
<1>3. src = file[n] /\ IsSource(src) /\ to \in {"get", "resolved"}
  BY <1>2 DEF Core, SourcesOk
<1>4. \/ op = "set" /\ (at = "get" \/ (at = "resolved" /\ to = "resolved"))
      \/ op = "rewrite" /\ at = "resolved"
      \/ op = "rollback" /\ at = "trail"
      \/ op = "propose" /\ at = "get" /\ p \in Props
      \/ op = "list" /\ at = "fetch" /\ to = "get"
      \/ op \in {"approve", "reject"} /\ at = "fetch" /\ to = "get" /\ p \in Props
  BY DEF DoorOps
<1>5. j = [Idle EXCEPT !.op = op, !.node = n, !.lit = l, !.prop = p, !.val = 1,
                       !.base = src, !.eff = src, !.pc = at, !.then = to]
  OBVIOUS
<1>. HIDE DEF n, local, at, to, op, src, j
<1>6. /\ DOMAIN j = JobFields /\ j.op = op /\ j.pc = at /\ j.node = n /\ j.base = src
      /\ j.eff = src /\ j.then = to /\ j.prop = p /\ j.todo = {}
      /\ j.applying = FALSE /\ j.stale = FALSE
  BY <1>5, IdleFields DEF JobFields
<1>7. Static(j, prop)
  BY <1>1, <1>2, <1>3, <1>4, <1>6 DEF Static, Holding, Decides
<1>8. Live(j, file, overlay, prop, faults')
  BY <1>1, <1>3, <1>4, <1>6 DEF Live, Holding, Decides, Applies
<1>9. /\ OwnProposal(r, j) /\ \A q : ~Carries(job[r], q) /\ ~Carries(j, q)
  BY <1>1, <1>4, <1>6 DEF OwnProposal, Carries
<1>. QED  BY <1>1, <1>7, <1>8, <1>9, PlainStepKeeps

-----------------------------------------------------------------------------
(* The invariant holds at the start and every step keeps it.               *)

LEMMA InitIsGood == Init => Core
<1>. SUFFICES ASSUME Init PROVE Core
  OBVIOUS
<1>0. 0 \in 0..MaxRev
  BY VersionsAssumption
<1>1. IsSource(Git(0)) /\ IsSource(NoVersion.src) /\ Git(0).rev \in 0..MaxRev
  BY <1>0, GitIsSource DEF NoVersion
<1>2. SourcesOk
  BY <1>1 DEF Init, VersionsInit, SourcesOk
<1>3. DOMAIN job = Jobs /\ \A j \in Jobs : job[j] = Idle
  BY DEF Init, VersionsInit
<1>4. JobsOk
  BY <1>3, IdleIsGood, IdleFields DEF JobsOk, Jobs
<1>5. UnitsOk
  BY <1>3, IdleFields DEF Init, VersionsInit, UnitsOk, Jobs
<1>6. \A p \in Props :
         /\ DOMAIN prop[p] = {"kind", "lit", "baseline", "status"} /\ prop[p].baseline = Git(0)
         /\ prop[p].status \in {"none", "pending"}
         /\ landed[p].times = 0
  BY DEF Init, NoProposal, NotLanded
<1>7. PropsOk /\ EvidenceOk
  BY <1>1, <1>6 DEF Init, PropsOk, EvidenceOk
<1>8. QueueOk
  BY <1>3, <1>6, IdleIsGood DEF QueueOk, Settled, Jobs
<1>. QED  BY <1>2, <1>4, <1>5, <1>7, <1>8 DEF Core

LEMMA UnchangedKeeps ==
    ASSUME Core, UNCHANGED vars
    PROVE  Core'
<1>1. UNCHANGED <<clustered, file, overlay, runs, started, job, faults, prop, landed>>
  BY DEF vars, verVars, propVars
<1>2. SourcesOk' /\ UnitsOk'
  BY <1>1 DEF Core, SourcesOk, UnitsOk
<1>3. JobsOk'
  BY <1>1 DEF Core, JobsOk
<1>4. PropsOk' /\ EvidenceOk'
  BY <1>1 DEF Core, PropsOk, EvidenceOk
<1>5. QueueOk'
  BY <1>1 DEF Core, QueueOk, Settled
<1>. QED  BY <1>2, <1>3, <1>4, <1>5 DEF Core

\* Once a writer was overtaken, raced says so for good.
LEMMA RacedStays ==
    ASSUME raced, [Next]_vars
    PROVE  raced'
<1>1. ASSUME NEW r \in Reqs, Step(r) PROVE raced'
  <2>1. CASE Fetch(r) \/ FetchList(r) \/ ReadTrail(r) \/ Compare(r)
    BY <2>1 DEF Fetch, FetchList, ReadTrail, Compare, Goes
  <2>2. CASE Expire(r) \/ Mark(r) \/ MarkFails(r) \/ \E kind \in {"set_literal", "version"} : Submit(r, kind)
    BY <2>2 DEF Expire, Mark, SetStatus, MarkFails, Submit, Goes, Writes
  <2>3. CASE Put(r) \/ PutFails(r) \/ PutUnanswered(r) \/ WriteFile(r)
    BY <2>3 DEF Put, PutFails, PutUnanswered, WriteFile, Goes, Writes
  <2>4. CASE RecordPromote(r) \/ RecordFails(r) \/ Reload(r)
    BY <2>4 DEF RecordPromote, RecordFails, Reload, Goes, Writes
  <2>. QED  BY <1>1, <2>1, <2>2, <2>3, <2>4 DEF Step
<1>2. ASSUME NEW r, NEW d, NEW who, NEW l, NEW p, Begin(r, d, who, l, p)
      PROVE  raced'
  BY <1>2 DEF Begin, Goes
<1>3. CASE VersionsNext
  <2>1. ASSUME NEW a \in Jobs, ReadFile(a) \/ Get(a) \/ GetFails(a) \/ Evict(a) \/ EvictFails(a)
        PROVE  raced'
    BY <2>1 DEF ReadFile, Get, Look, GetFails, Evict, EvictFails, Goes, Writes
  <2>2. ASSUME NEW n \in Nodes,
               WatchFires(n) \/ WatchEnds(n) \/ WatchOpens(n) \/ Deploy(n) \/ Crash(n)
        PROVE  raced'
    BY <2>2 DEF WatchFires, Look, WatchEnds, WatchOpens, Deploy, Crash, Goes
  <2>. QED  BY <1>3, <2>1, <2>2 DEF VersionsNext
<1>. QED  BY <1>1, <1>2, <1>3 DEF Next, vars, verVars

LEMMA StepsKeep ==
    ASSUME Core, ~raced', [Next]_vars
    PROVE  Core'
<1>1. ASSUME NEW r \in Reqs, Step(r) PROVE Core'
  <2>1. CASE Fetch(r) \/ FetchList(r) \/ ReadTrail(r) \/ Compare(r)
    BY <2>1, FetchKeeps, FetchListKeeps, TrailKeeps, CompareKeeps
  <2>2. CASE Expire(r) \/ Mark(r) \/ MarkFails(r) \/ \E kind \in {"set_literal", "version"} : Submit(r, kind)
    BY <2>2, MarkKeeps, MarkFailsKeeps, SubmitKeeps
  <2>3. CASE Put(r) \/ PutFails(r) \/ PutUnanswered(r) \/ WriteFile(r)
    BY <2>3, PutKeeps, PutFailsKeeps, WriteFileKeeps
  <2>4. CASE RecordPromote(r) \/ RecordFails(r) \/ Reload(r)
    BY <2>4, RecordKeeps, ReloadKeeps
  <2>. QED  BY <1>1, <2>1, <2>2, <2>3, <2>4 DEF Step
<1>2. CASE VersionsNext /\ UNCHANGED propVars
  BY <1>2, ReadKeeps, ResolveKeeps, WatchKeeps, DeployKeeps, CrashKeeps DEF VersionsNext
<1>3. ASSUME NEW r \in Reqs, NEW d \in DoorOps, NEW who, NEW l,
             NEW p \in IF d.op \in {"approve", "reject", "propose"} THEN Props ELSE {0},
             Begin(r, d, who, l, p)
      PROVE  Core'
  BY <1>3, BeginKeeps
<1>. QED  BY <1>1, <1>2, <1>3, UnchangedKeeps DEF Next

LEMMA CoreStands == Core => ChangesStand
<1>. SUFFICES ASSUME Core PROVE ChangesStand
  OBVIOUS
<1>1. GitWins
  <2>1. Instances \subseteq Nodes
    BY VersionsAssumption, ChoiceIsIn DEF Instances
  <2>. QED  BY <2>1 DEF Core, UnitsOk, GitWins
<1>2. LandsOnEvidence
  BY DEF Core, EvidenceOk, LandsOnEvidence
<1>3. StatusIsTrue
  <2>. SUFFICES ASSUME faults \cap {"mark", "put", "crash"} = {}, NEW p \in Props,
                       \A r \in Reqs : job[r].prop # p
                PROVE  /\ prop[p].status \in {"rejected", "expired"} => landed[p].times = 0
                       /\ prop[p].status = "approved" => landed[p].times = 1
    BY DEF StatusIsTrue
  <2>1. Settled(p) /\ \A r \in Reqs : ~Carries(job[r], p)
    BY DEF Core, QueueOk, Carries
  <2>. QED  BY <2>1 DEF Settled
<1>. QED  BY <1>1, <1>2, <1>3 DEF ChangesStand

\* Changes stand, for any number of instances, threads and proposals, whatever fails, as long
\* as no writer is overtaken between its read and its write: a unit runs nothing made for
\* another revision than its file's (resolve_source), an approved change lands on the source
\* its evidence saw (decide_proposal, apply_approved), and the status of a proposal tells
\* whether it was applied (set_status).
THEOREM ApprovedChangesStand == Spec => []ChangesStand
<1>1. Init => IInv
  BY InitIsGood DEF IInv
<1>2. IInv /\ [Next]_vars => IInv'
  BY RacedStays, StepsKeep DEF IInv
<1>3. IInv => ChangesStand
  <2>1. raced => ChangesStand
    BY DEF ChangesStand, GitWins, LandsOnEvidence, StatusIsTrue
  <2>. QED  BY <2>1, CoreStands DEF IInv
<1>. QED  BY <1>1, <1>2, <1>3, PTL DEF Spec

-----------------------------------------------------------------------------
(* What a version becomes.  A promote adds to the version in force because *)
(* in a cluster a thread that writes a literal has looked at the bucket.   *)

\* A thread that writes a literal of its own or of a proposal resolves the version first.
LooksFirst(j, pr) ==
    j.op \in {"set", "rollback"} \/ (j.applying /\ pr[j.prop].kind = "set_literal")
        => j.then = "get"
LookOk == clustered => \A r \in Reqs : LooksFirst(job[r], prop)

\* The fields LooksFirst is about.
Same(k, j) == k.op = j.op /\ k.applying = j.applying /\ k.then = j.then /\ k.prop = j.prop

LEMMA PcIsSame ==
    ASSUME NEW j, DOMAIN j = JobFields, NEW c
    PROVE  Same([j EXCEPT !.pc = c], j)
BY DEF Same, JobFields

\* A thread goes on, and no proposal that is being applied changes its kind.
LEMMA LookStands ==
    ASSUME Core, LookOk, UNCHANGED clustered, NEW a \in Jobs, NEW next,
           Goes(a, next) \/ Writes(a, next),
           clustered => Same(next, job[a]) \/ LooksFirst(next, prop'),
           \A r \in Reqs : job[r].applying => prop'[job[r].prop].kind = prop[job[r].prop].kind
    PROVE  LookOk'
<1>. SUFFICES ASSUME clustered, NEW r \in Reqs PROVE LooksFirst(job'[r], prop')
  BY DEF LookOk
<1>1. r \in Jobs /\ DOMAIN job[r] = JobFields /\ DOMAIN job = Jobs
  BY DEF Jobs, Core, JobsOk, Static
<1>2. Same(job'[r], job[r]) \/ LooksFirst(job'[r], prop')
  <2>1. CASE r = a
    BY <1>1, <2>1 DEF Goes, Writes
  <2>2. CASE r # a /\ Goes(a, next)
    BY <1>1, <2>2 DEF Goes, Same
  <2>3. CASE r # a /\ Writes(a, next)
    <3>1. \E b \in BOOLEAN : job'[r] = [job[r] EXCEPT !.stale = b]
      BY <1>1, <2>3, WritesLeaves DEF Core
    <3>. QED  BY <1>1, <3>1 DEF Same, JobFields
  <2>. QED  BY <2>1, <2>2, <2>3
<1>3. CASE Same(job'[r], job[r])
  BY <1>3 DEF LookOk, LooksFirst, Same
<1>. QED  BY <1>2, <1>3

\* An idle thread, and one on its way through a list, looks first when it writes at all.
LEMMA PlainLooks ==
    ASSUME NEW pr
    PROVE  /\ LooksFirst(Idle, pr)
           /\ \A n, src : LooksFirst(Starting(n, src), pr)
           /\ \A j : DOMAIN j = JobFields /\ j.op = "list" /\ ~j.applying
                        => LooksFirst(NextOfList(j), pr)
<1>1. LooksFirst(Idle, pr)
  BY IdleFields DEF LooksFirst
<1>2. ASSUME NEW n, NEW src PROVE LooksFirst(Starting(n, src), pr)
  <2>1. Starting(n, src).then = "get"
    BY IdleFields DEF Starting, JobFields
  <2>. QED  BY <2>1 DEF LooksFirst
<1>3. ASSUME NEW j, DOMAIN j = JobFields, j.op = "list", ~j.applying
      PROVE  LooksFirst(NextOfList(j), pr)
  <2>. DEFINE p == CHOOSE q \in j.todo : TRUE
              k == [j EXCEPT !.prop = p, !.todo = j.todo \ {p}, !.pc = "read"]
  <2>1. NextOfList(j) = Idle \/ NextOfList(j) = k
    BY DEF NextOfList
  <2>. HIDE DEF p
  <2>2. k.op = "list" /\ k.applying = j.applying
    BY <1>3 DEF JobFields
  <2>. HIDE DEF k
  <2>. QED  BY <1>1, <1>3, <2>1, <2>2 DEF LooksFirst
<1>. QED  BY <1>1, <1>2, <1>3

\* A thread of Versions goes on with what it has, or starts again.
LEMMA LookInVersions ==
    ASSUME Core, LookOk, VersionsNext, UNCHANGED propVars
    PROVE  LookOk'
<1>0. UNCHANGED prop /\ \A a \in Jobs : DOMAIN job[a] = JobFields
  BY DEF propVars, Core, JobsOk, Static
<1>1. ASSUME NEW a \in Jobs, ReadFile(a) PROVE LookOk'
  <2>. DEFINE k == [job[a] EXCEPT !.base = file[job[a].node], !.eff = file[job[a].node],
                                  !.pc = job[a].then]
  <2>1. Goes(a, k) /\ UNCHANGED clustered
    BY <1>1 DEF ReadFile
  <2>2. Same(k, job[a])
    BY <1>0 DEF Same, JobFields
  <2>. HIDE DEF k
  <2>. QED  BY <1>0, <2>1, <2>2, LookStands
<1>2. ASSUME NEW j, DOMAIN j = JobFields
      PROVE  Same(Done(j), j) \/ LooksFirst(Done(j), prop')
  BY <1>2, PcIsSame, PlainLooks DEF Done
<1>3. ASSUME NEW a \in Jobs, GetFails(a) \/ Evict(a) \/ EvictFails(a) PROVE LookOk'
  <2>1. (Goes(a, Done(job[a])) \/ Writes(a, Done(job[a]))) /\ UNCHANGED clustered
    BY <1>3 DEF GetFails, Evict, EvictFails
  <2>2. Same(Done(job[a]), job[a]) \/ LooksFirst(Done(job[a]), prop')
    BY <1>0, <1>2
  <2>. QED  BY <1>0, <2>1, <2>2, LookStands
<1>4. ASSUME NEW a \in Jobs, NEW j, DOMAIN j = JobFields, Look(a, j), UNCHANGED clustered,
             j = job[a] \/ j.then = "get"
      PROVE  LookOk'
  <2>. DEFINE next == [j EXCEPT !.eff = Effective(overlay, j.base)]
              k == [next EXCEPT !.pc = "evict"]
  <2>1. DOMAIN next = JobFields /\ Same(next, j)
    BY <1>4 DEF Same, JobFields
  <2>2. Goes(a, Done(next)) \/ Goes(a, k)
    BY <1>4 DEF Look
  <2>. HIDE DEF next
  <2>3. Same(k, next)
    BY <2>1, PcIsSame
  <2>. HIDE DEF k
  <2>4. Same(Done(next), next) \/ LooksFirst(Done(next), prop')
    BY <1>2, <2>1
  <2>5. PICK to : Goes(a, to) /\ (Same(to, j) \/ LooksFirst(to, prop'))
    BY <2>1, <2>2, <2>3, <2>4 DEF Same
  <2>6. Same(to, job[a]) \/ LooksFirst(to, prop')
    BY <1>4, <2>5 DEF Same, LooksFirst
  <2>. QED  BY <1>0, <1>4, <2>5, <2>6, LookStands
<1>5. ASSUME NEW a \in Jobs, Get(a) PROVE LookOk'
  BY <1>0, <1>4, <1>5 DEF Get
<1>6. ASSUME NEW n \in Nodes, WatchFires(n) PROVE LookOk'
  <2>. DEFINE j == Starting(n, file[n])
  <2>1. DOMAIN j = JobFields /\ j.then = "get"
    BY IdleFields DEF Starting, JobFields
  <2>2. Look(n, j) /\ UNCHANGED clustered /\ n \in Jobs
    BY <1>6 DEF WatchFires, Jobs
  <2>. HIDE DEF j
  <2>. QED  BY <1>4, <2>1, <2>2
<1>7. ASSUME NEW n \in Nodes, WatchEnds(n) \/ WatchOpens(n) PROVE LookOk'
  BY <1>0, <1>7 DEF WatchEnds, WatchOpens, LookOk
<1>8. ASSUME NEW n \in Nodes, Deploy(n) \/ Crash(n) PROVE LookOk'
  <2>0. UNCHANGED clustered
    BY <1>8 DEF Deploy, Crash
  <2>. SUFFICES ASSUME clustered, NEW r \in Reqs PROVE LooksFirst(job'[r], prop')
    BY <2>0 DEF LookOk
  <2>1. r \in Jobs /\ r # n /\ LooksFirst(job[r], prop) /\ UNCHANGED prop
    BY <1>0, VersionsAssumption DEF Jobs, LookOk
  <2>2. CASE Deploy(n)
    <3>1. PICK b : job'[r] = [job[r] EXCEPT !.stale = b]
      BY <2>1, <2>2 DEF Deploy
    <3>2. Same(job'[r], job[r])
      BY <1>0, <2>1, <3>1 DEF Same, JobFields
    <3>. QED  BY <2>1, <3>2 DEF Same, LooksFirst
  <2>3. CASE Crash(n)
    <3>1. job'[r] = Idle \/ job'[r] = job[r]
      BY <2>1, <2>3 DEF Crash
    <3>. QED  BY <2>1, <3>1, PlainLooks DEF LooksFirst
  <2>. QED  BY <1>8, <2>2, <2>3
<1>9. ASSUME NEW a \in Jobs, ReadFile(a) \/ Get(a) \/ GetFails(a) \/ Evict(a) \/ EvictFails(a)
      PROVE  LookOk'
  BY <1>1, <1>3, <1>5, <1>9
<1>10. ASSUME NEW n \in Nodes,
              WatchFires(n) \/ WatchEnds(n) \/ WatchOpens(n) \/ Deploy(n) \/ Crash(n)
       PROVE  LookOk'
  BY <1>6, <1>7, <1>8, <1>10
<1>. QED  BY <1>9, <1>10 DEF VersionsNext

\* A request that begins in a cluster looks first.
LEMMA LookAtBegin ==
    ASSUME Core, LookOk, NEW r \in Reqs, NEW d \in DoorOps, NEW who, NEW l, NEW p,
           Begin(r, d, who, l, p)
    PROVE  LookOk'
<1>. DEFINE n == IF clustered THEN HomeOf[r] ELSE CHOOSE m \in Instances : TRUE
            local == ~clustered /\ d.op \in {"set", "rollback"}
            at == IF local /\ d.pc = "get" THEN "resolved" ELSE d.pc
            to == IF local THEN "resolved" ELSE "get"
            op == d.op
            src == file[n]
            j == [Idle EXCEPT !.op = op, !.node = n, !.lit = l, !.prop = p, !.val = 1,
                              !.base = src, !.eff = src, !.pc = at, !.then = to]
<1>1. Goes(r, j) /\ UNCHANGED <<clustered, prop>>
  BY DEF Begin
<1>2. clustered => to = "get"
  OBVIOUS
<1>3. j = [Idle EXCEPT !.op = op, !.node = n, !.lit = l, !.prop = p, !.val = 1,
                       !.base = src, !.eff = src, !.pc = at, !.then = to]
  OBVIOUS
<1>. HIDE DEF n, local, at, to, op, src, j
<1>4. j.then = to
  BY <1>3, IdleFields DEF JobFields
<1>5. clustered => LooksFirst(j, prop')
  BY <1>2, <1>4 DEF LooksFirst
<1>. QED  BY <1>1, <1>5, LookStands DEF Jobs

\* A request goes on: only an approval that passed its check changes what it reads.
LEMMA LookInStep ==
    ASSUME Core, LookOk, NEW r \in Reqs, Step(r)
    PROVE  LookOk'
<1>0. /\ r \in Jobs /\ UNCHANGED clustered /\ DOMAIN job[r] = JobFields
      /\ job[r].op = "list" => ~job[r].applying
  <2>1. UNCHANGED clustered
    BY DEF Step, Fetch, FetchList, ReadTrail, Compare, Expire, Mark, SetStatus, MarkFails, Put,
           PutFails, PutUnanswered, WriteFile, RecordPromote, RecordFails, Reload, Submit
  <2>. QED  BY <2>1 DEF Jobs, Core, JobsOk, Static
<1>1. \A c : Same([job[r] EXCEPT !.pc = c], job[r])
  BY <1>0, PcIsSame
<1>2. LooksFirst(Idle, prop')
  BY PlainLooks
<1>3. ASSUME NEW q \in Reqs, job[q].applying
      PROVE  prop'[job[q].prop].kind = prop[job[q].prop].kind
  <2>1. /\ job[q].prop \in Props /\ prop[job[q].prop].status # "none" /\ DOMAIN prop = Props
        /\ DOMAIN prop[job[q].prop] = {"kind", "lit", "baseline", "status"}
    BY <1>3 DEF Core, JobsOk, PropsOk, Static, Decides, Jobs
  <2>2. CASE UNCHANGED prop
    BY <2>2
  <2>3. ASSUME NEW status, SetStatus(r, status)
        PROVE  prop'[job[q].prop].kind = prop[job[q].prop].kind
    BY <2>1, <2>3 DEF SetStatus
  <2>4. ASSUME NEW kind, Submit(r, kind)
        PROVE  prop'[job[q].prop].kind = prop[job[q].prop].kind
    <3>1. job[r].prop # job[q].prop
      BY <1>0, <2>1, <2>4 DEF Submit, Core, JobsOk, Static
    <3>. QED  BY <2>1, <2>4, <3>1 DEF Submit
  <2>5. CASE Put(r) \/ PutUnanswered(r) \/ WriteFile(r)
    BY <2>2, <2>5 DEF Put, PutUnanswered, WriteFile, Note
  <2>6. CASE \/ Fetch(r) \/ FetchList(r) \/ ReadTrail(r) \/ Compare(r) \/ MarkFails(r)
             \/ PutFails(r) \/ RecordPromote(r) \/ RecordFails(r) \/ Reload(r)
    BY <2>2, <2>6 DEF Fetch, FetchList, ReadTrail, Compare, MarkFails, PutFails, RecordPromote,
                      RecordFails, Reload, propVars
  <2>. QED  BY <2>3, <2>4, <2>5, <2>6 DEF Step, Expire, Mark
<1>4. SUFFICES \/ LookOk'
               \/ \E next : /\ Goes(r, next) \/ Writes(r, next)
                            /\ clustered => Same(next, job[r]) \/ LooksFirst(next, prop')
  BY <1>0, <1>3, LookStands
<1>5. CASE Fetch(r)
  BY <1>1, <1>2, <1>5 DEF Fetch
<1>6. CASE FetchList(r)
  <2>. DEFINE j == [job[r] EXCEPT !.todo = {p \in Props : prop[p].status = "pending"}]
  <2>1. DOMAIN j = JobFields /\ j.op = "list" /\ ~j.applying
    BY <1>0, <1>6 DEF FetchList, JobFields
  <2>2. Goes(r, NextOfList(j))
    BY <1>6 DEF FetchList
  <2>. HIDE DEF j
  <2>. QED  BY <2>1, <2>2, PlainLooks
<1>7. CASE ReadTrail(r)
  <2>1. PICK v : Goes(r, Idle) \/ Goes(r, [job[r] EXCEPT !.val = v, !.pc = "read"])
    BY <1>7 DEF ReadTrail
  <2>2. Same([job[r] EXCEPT !.val = v, !.pc = "read"], job[r])
    BY <1>0 DEF Same, JobFields
  <2>. QED  BY <1>2, <2>1, <2>2
<1>8. job[r].op = "list" => LooksFirst(NextOfList(job[r]), prop')
  BY <1>0, PlainLooks
<1>9. CASE Compare(r)
  <2>1. ASSUME job[r].op = "approve" PROVE LooksFirst(Applying(job[r]), prop') \/ ~clustered
    <3>. DEFINE to == IF clustered /\ prop[job[r].prop].kind = "set_literal"
                      THEN "get" ELSE "resolved"
                k == [job[r] EXCEPT !.applying = TRUE, !.pc = "read", !.then = to]
    <3>1. Applying(job[r]) = k
      BY DEF Applying
    <3>2. to = "get" \/ ~clustered \/ prop[job[r].prop].kind # "set_literal"
      OBVIOUS
    <3>. HIDE DEF to
    <3>3. k.op = "approve" /\ k.then = to /\ k.prop = job[r].prop
      BY <1>0, <2>1 DEF JobFields
    <3>. HIDE DEF k
    <3>4. UNCHANGED prop
      BY <1>9 DEF Compare, propVars
    <3>. QED  BY <3>1, <3>2, <3>3, <3>4 DEF LooksFirst
  <2>2. \/ Goes(r, [job[r] EXCEPT !.pc = "expire"])
        \/ job[r].op = "list" /\ Goes(r, NextOfList(job[r]))
        \/ job[r].op = "approve" /\ Goes(r, Applying(job[r]))
    BY <1>9 DEF Compare
  <2>. QED  BY <1>1, <1>8, <2>1, <2>2
<1>10. CASE Expire(r) \/ Mark(r) \/ MarkFails(r)
  <2>. DEFINE next == IF job[r].op = "list" THEN NextOfList(job[r]) ELSE Idle
  <2>1. Goes(r, next) \/ Writes(r, next)
    BY <1>10 DEF Expire, Mark, SetStatus, MarkFails
  <2>2. LooksFirst(next, prop')
    BY <1>2, <1>8
  <2>. HIDE DEF next
  <2>. QED  BY <2>1, <2>2
<1>11. CASE Put(r) \/ PutUnanswered(r) \/ PutFails(r) \/ WriteFile(r)
  <2>1. \E next : /\ next \in {Idle, AfterWrite(r), [job[r] EXCEPT !.pc = "reload"]}
                  /\ Goes(r, next) \/ Writes(r, next)
    BY <1>11 DEF Put, PutUnanswered, PutFails, WriteFile
  <2>2. Same(AfterWrite(r), job[r]) \/ LooksFirst(AfterWrite(r), prop')
    BY <1>1, <1>2 DEF AfterWrite
  <2>. QED  BY <1>1, <1>2, <2>1, <2>2
<1>12. CASE RecordPromote(r) \/ RecordFails(r)
  <2>1. Goes(r, AfterAudit(r)) \/ Writes(r, AfterAudit(r))
    BY <1>12 DEF RecordPromote, RecordFails
  <2>2. Same(AfterAudit(r), job[r]) \/ LooksFirst(AfterAudit(r), prop')
    BY <1>1, <1>2 DEF AfterAudit
  <2>. QED  BY <2>1, <2>2
<1>13. CASE Reload(r)
  <2>. SUFFICES ASSUME clustered, NEW q \in Reqs PROVE LooksFirst(job'[q], prop')
    BY <1>0 DEF LookOk
  <2>1. q \in Jobs /\ q # job[r].node /\ LooksFirst(job[q], prop) /\ UNCHANGED prop
    BY <1>0, <1>13, VersionsAssumption DEF Reload, propVars, Jobs, LookOk, Core, JobsOk, Static
  <2>2. \/ job'[q] = job[q] \/ job'[q] = Idle
        \/ q = r /\ job'[q] = [job[r] EXCEPT !.pc = "mark"]
    BY <1>13, <2>1 DEF Reload, Core, JobsOk
  <2>3. CASE q = r /\ job'[q] = [job[r] EXCEPT !.pc = "mark"]
    <3>1. Same(job'[q], job[q])
      BY <1>1, <2>3
    <3>. QED  BY <2>1, <3>1 DEF Same, LooksFirst
  <2>4. CASE job'[q] = job[q]
    BY <2>1, <2>4 DEF LooksFirst
  <2>. QED  BY <1>2, <2>2, <2>3, <2>4
<1>14. ASSUME NEW kind, Submit(r, kind)
       PROVE  \E next : /\ Goes(r, next) \/ Writes(r, next)
                        /\ clustered => Same(next, job[r]) \/ LooksFirst(next, prop')
  BY <1>2, <1>14 DEF Submit
<1>. QED  BY <1>5, <1>6, <1>7, <1>9, <1>10, <1>11, <1>12, <1>13, <1>14 DEF Step

LEMMA AllLook ==
    ASSUME Core, LookOk, [Next]_vars
    PROVE  LookOk'
<1>1. CASE UNCHANGED vars
  BY <1>1 DEF vars, verVars, propVars, LookOk
<1>. QED  BY <1>1, LookInVersions, LookInStep, LookAtBegin DEF Next

-----------------------------------------------------------------------------
(* The steps that change the version.                                      *)

LEMMA OnlyThese ==
    ASSUME [Next]_vars, overlay' # overlay
    PROVE  \/ \E a \in Jobs : Evict(a)
           \/ \E r \in Reqs : Put(r) \/ PutUnanswered(r)
<1>1. ASSUME NEW r \in Reqs, Step(r) PROVE Put(r) \/ PutUnanswered(r)
  BY <1>1 DEF Step, Fetch, FetchList, ReadTrail, Compare, Expire, Mark, SetStatus, MarkFails,
              PutFails, WriteFile, RecordPromote, RecordFails, Reload, Submit
<1>2. CASE VersionsNext
  BY <1>2 DEF VersionsNext, ReadFile, Get, GetFails, EvictFails, WatchFires, WatchEnds,
              WatchOpens, Deploy, Crash
<1>3. ASSUME NEW r, NEW d, NEW who, NEW l, NEW p, Begin(r, d, who, l, p) PROVE FALSE
  BY <1>3 DEF Begin
<1>4. CASE UNCHANGED vars
  BY <1>4 DEF vars, verVars
<1>. QED  BY <1>1, <1>2, <1>3, <1>4 DEF Next

\* A version that is put forks from the file of its writer's instance, and so is one.
LEMMA PutIsAVersion ==
    ASSUME Core, ~raced', NEW r \in Reqs, Put(r) \/ PutUnanswered(r)
    PROVE  /\ Ready(r) /\ clustered /\ ~job[r].stale
           /\ overlay'.src = NewSource(r) /\ overlay'.parent = job[r].base
           /\ job[r].base = file[job[r].node] /\ overlay' # NoVersion
<1>1. /\ Ready(r) /\ clustered /\ ~job[r].stale
      /\ overlay' = [src |-> NewSource(r), parent |-> job[r].base]
  BY DEF Put, PutUnanswered, Writes
<1>2. job[r].base = file[job[r].node] /\ job[r].node \in Nodes
  BY <1>1, ReadyIs DEF Live, Static
<1>3. job[r].base.rev \in 0..MaxRev
  BY <1>2 DEF Core, SourcesOk
<1>4. job[r].base # Git(MaxRev + 1)
  <2>1. MaxRev + 1 \notin 0..MaxRev
    BY VersionsAssumption
  <2>. QED  BY <1>3, <2>1, GitIsSource
<1>. QED  BY <1>1, <1>2, <1>4 DEF NoVersion

LEMMA EvictionIsOfStale ==
    ASSUME Core, ~raced', [Next]_vars, overlay # NoVersion, overlay' = NoVersion
    PROVE  \E a \in Jobs : job[a].pc = "evict" /\ overlay.parent # file[job[a].node]
<1>1. PICK a \in Jobs : Evict(a)
  BY OnlyThese, PutIsAVersion
<1>2. job[a].pc = "evict" /\ ~job[a].stale
  BY <1>1 DEF Evict, Writes
<1>3. ~Valid(overlay, file[job[a].node])
  BY <1>2 DEF Core, JobsOk, Live, Holding
<1>. QED  BY <1>2, <1>3 DEF Valid

LEMMA PromoteAddsUp ==
    ASSUME Core, LookOk, ~raced', [Next]_vars, overlay # NoVersion, overlay' # NoVersion,
           overlay'.parent = overlay.parent, "get" \notin faults,
           \A r \in Reqs : Kind(r) = "set_literal"
    PROVE  \E l \in Lits : \A m \in Lits \ {l} : overlay'.src.lits[m] = overlay.src.lits[m]
<1>1. Lits # {}
  BY VersionsAssumption
<1>2. CASE overlay' = overlay
  BY <1>1, <1>2
<1>3. CASE overlay' # overlay
  <2>1. PICK r \in Reqs : Put(r) \/ PutUnanswered(r)
    BY <1>3, OnlyThese DEF Evict
  <2>. DEFINE j == job[r]
  <2>2. /\ Ready(r) /\ clustered /\ ~j.stale /\ j.base = file[j.node]
        /\ overlay'.src = NewSource(r) /\ overlay.parent = j.base
    BY <2>1, PutIsAVersion
  <2>3. Static(j, prop) /\ Live(j, file, overlay, prop, faults) /\ Holding(j) /\ j.pc = "resolved"
    BY <2>2, ReadyIs
  <2>4. j.then = "get" /\ j.op # "rewrite"
    <3>1. j.op # "rewrite"
      BY DEF Kind
    <3>2. CASE j.op = "approve"
      <4>1. j.applying /\ prop[j.prop].kind = "set_literal"
        BY <2>2, <3>2 DEF Ready, Kind
      <4>. QED  BY <2>2, <3>1, <4>1 DEF LookOk, LooksFirst
    <3>3. CASE j.op # "approve"
      <4>1. j.op \in {"set", "rollback"}
        BY <2>2, <2>3, <3>1, <3>3 DEF Ready, Static
      <4>. QED  BY <2>2, <3>1, <4>1 DEF LookOk, LooksFirst
    <3>. QED  BY <3>2, <3>3
  <2>5. j.eff = overlay.src
    BY <2>2, <2>3, <2>4 DEF Live, Effective, Valid
  <2>6. IsSource(overlay.src)
    BY DEF Core, SourcesOk
  <2>7. PICK l, v : NewSource(r) = Set(overlay.src, l, v)
    BY <2>5 DEF NewSource
  <2>8. ASSUME NEW m \in Lits, m # l PROVE overlay'.src.lits[m] = overlay.src.lits[m]
    BY <2>2, <2>6, <2>7, <2>8 DEF IsSource, Set
  <2>. QED  BY <1>1, <2>8
<1>. QED  BY <1>2, <1>3

\* Versions follow on each other, for any number of instances, threads, literals and proposals,
\* as long as no writer is overtaken: a promote keeps every literal of the version in force but
\* the one it sets (promote_version resolves before it writes), and an eviction removes only
\* a version that forked from another file than its instance has (resolve_source).
THEOREM VersionsFollow == Spec => PromotesAddUp /\ EvictsOnlyStale
<1>. DEFINE JInv == IInv /\ (raced \/ LookOk)
<1>1. Init => JInv
  <2>1. Init => LookOk
    <3>. SUFFICES ASSUME Init, NEW r \in Reqs PROVE LooksFirst(job[r], prop)
      BY DEF LookOk
    <3>1. job[r] = Idle
      BY DEF Init, VersionsInit, Jobs
    <3>. QED  BY <3>1, PlainLooks
  <2>. QED  BY <2>1, InitIsGood DEF IInv
<1>2. JInv /\ [Next]_vars => JInv'
  BY RacedStays, StepsKeep, AllLook DEF IInv
<1>3. JInv /\ [Next]_vars =>
        [ (/\ overlay # NoVersion /\ overlay' # NoVersion
           /\ overlay'.parent = overlay.parent
           /\ ~raced' /\ "get" \notin faults
           /\ \A r \in Reqs : Kind(r) = "set_literal")
          => \E l \in Lits : \A m \in Lits \ {l} :
                 overlay'.src.lits[m] = overlay.src.lits[m] ]_vars
  BY RacedStays, PromoteAddsUp DEF IInv
<1>4. JInv /\ [Next]_vars =>
        [ (overlay # NoVersion /\ overlay' = NoVersion /\ ~raced')
          => \E a \in Jobs : job[a].pc = "evict" /\ overlay.parent # file[job[a].node] ]_vars
  BY RacedStays, EvictionIsOfStale DEF IInv
<1>. HIDE DEF JInv
<1>. QED  BY <1>1, <1>2, <1>3, <1>4, PTL DEF Spec, PromotesAddUp, EvictsOnlyStale
=============================================================================
