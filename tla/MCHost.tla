------------------------------- MODULE MCHost -------------------------------
(* What one instance does besides running units: governed change (Proposals, on   *)
(* Versions and Doors), its doors (Doors), the secret store (SecretStore), and    *)
(* the script language (Vjs, VjsExpr, VjsLiterals).  They share no state but what *)
(* Proposals composes: part is the one that moves.                                *)
EXTENDS Proposals, VjsSamples

CONSTANTS n1, n2, q1, q2, l1, l2

\* Two instances with a request thread on each, working on a literal of its own.
HomeIs == q1 :> n1 @@ q2 :> n2
LitsAre == q1 :> {l1} @@ q2 :> {l2}

VARIABLES
    part,
    store, pc, ref, map, inode, content, path, tmp, unit, meant, overlap, misses, calls,
    flow, disk, exports, engine, out, fresh, edits,
    toks,
    src, want, sets,
    request

\* Two callers, two references, and a unit that uses one of them.
Sec == INSTANCE SecretStore WITH
    Callers <- {1, 2}, Refs <- {"r", "s"}, Unit <- "r", MaxEvents <- 2,
    faults <- misses, events <- calls
secVars == <<store, pc, ref, map, inode, content, path, tmp, unit, meant, overlap, misses,
             calls>>

Eng == INSTANCE Vjs WITH
    Home <- "a", Capitals <- {"OUT"}, Flows <- SampleFlows, Events <- SampleEvents,
    Services <- SampleServices, Body <- SampleBody, Exportable <- SampleExportable,
    MAX_DEPTH <- 2, MaxEdits <- 1
engVars == <<flow, disk, exports, engine, out, fresh, edits>>

\* One operator of each power, and two where it matters.
Expr == INSTANCE VjsExpr WITH
    Operators <- {"or", "and", "??", "==", "+", "-", "*"}, MaxTokens <- 6

Lit == INSTANCE VjsLiterals WITH
    Sources <- SampleSources, NewValues <- SampleValues, NewKeys <- SampleKeys, MaxSets <- 3
litVars == <<src, want, sets>>

\* The one that does not move is where its specification begins.
HostInit ==
    /\ part \in {"change", "secrets", "engine", "expr", "literals", "doors"}
    /\ Init
    /\ part # "change" => /\ ~clustered /\ ~governed
                          /\ prop = [p \in Props |-> NoProposal]
    /\ Sec!Init
    /\ part # "secrets" => store = "file" /\ ref = [c \in {1, 2} |-> "r"]
    /\ Eng!Init
    /\ part # "engine" => flow = 1 /\ exports = [p \in {"b"} |-> {}]
    /\ Expr!Init
    /\ Lit!Init
    /\ part # "literals" => src = CHOOSE s \in SampleSources : TRUE
    /\ request \in
         IF part = "doors"
         THEN [door: AllDoors, env: Environments, creds: Credentials]
         ELSE {"none"}

HostNext ==
    /\ \/ part = "change"   /\ Next      /\ UNCHANGED <<secVars, engVars, toks, litVars>>
       \/ part = "secrets"  /\ Sec!Next  /\ UNCHANGED <<vars, engVars, toks, litVars>>
       \/ part = "engine"   /\ Eng!Next  /\ UNCHANGED <<vars, secVars, toks, litVars>>
       \/ part = "expr"     /\ Expr!Next /\ UNCHANGED <<vars, secVars, engVars, litVars>>
       \/ part = "literals" /\ Lit!Next  /\ UNCHANGED <<vars, secVars, engVars, toks>>
    /\ UNCHANGED <<part, request>>

\* The fairness of each part, for the part that moves.
HostFairness ==
    /\ WF_vars(part = "change" /\ Progress)
    /\ WF_secVars(part = "secrets" /\ Sec!Under)

HostVars == <<part, vars, secVars, engVars, toks, litVars, request>>
HostSpec == HostInit /\ [][HostNext]_HostVars /\ HostFairness

-----------------------------------------------------------------------------
\* Every part has the states the code gives it.
HostTypeOK ==
    CASE part = "change"  -> TypeOK
      [] part = "secrets" -> Sec!TypeOK
      [] part = "engine"  -> Eng!TypeOK
      [] OTHER -> edits = 0 /\ job = [j \in Jobs |-> Idle]

\* The gates before the handlers (Doors), for every request to an instance in every
\* environment: governed changes need an approval, an instance of a cluster writes nothing
\* of its own, a person gets through, and a tool asks for what its route asks.
DoorsAgree ==
    part = "doors" =>
        LET d == request.door  e == request.env  c == request.creds IN
        /\ GovernedNeedsApproval(d, e, c) /\ ClusterWritesAreShared(d, e, c)
        /\ HumanGetsThrough(d, e, c) /\ TwinsAgree(d, e, c)

\* Promotes keep the literals promoted before, an eviction removes a stale version only, and
\* a rollback restores what the audit trail has (Proposals).
ChangesAddUp == PromotesAddUp /\ EvictsOnlyStale /\ RollbackRestores

\* The secret store (SecretStore): a get beside one set sees a whole file, and one set loses
\* no other secret.
SecretsAreKept == part = "secrets" => Sec!GetNeverTornAlone /\ Sec!NoSecretLost

\* In the end every instance runs its effective source, through a watch that ends and
\* evictions that cross, and the units run on the secret last set.
HostCatchesUp == Converges /\ []<>(part = "secrets" => Sec!UpToDate)

\* The script engine (Vjs): runs leave the engine as they found it, also when they fail,
\* private services stay private, and a round sees the files as they are.
EngineKeepsFaith ==
    part = "engine" => Eng!EngineAsFound /\ Eng!PrivateStaysPrivate /\ Eng!RoundsAreFresh

\* What is read off a program before it runs is true of its runs: one that is said to write
\* nothing does not, it asks for the secrets listed, and its rules are those shown.
ReadingsAreTrue ==
    part = "engine" =>
        Eng!PureReadsAreSilent /\ Eng!SecretsAreListed /\ Eng!PlainRulesAreFaithful

\* The language as text: expressions group as they read (VjsExpr), and edits of the
\* surface set what they say and nothing else (VjsLiterals).
TextIsAsRead ==
    /\ part = "expr"     => Expr!GroupsAsItReads
    /\ part = "literals" => Lit!SurfaceIsAsSet
=============================================================================
