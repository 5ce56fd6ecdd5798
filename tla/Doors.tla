------------------------------- MODULE Doors --------------------------------
(***************************************************************************)
(* The doors of one instance (core/src/main.rs): the routes handle_request *)
(* serves, the tools mcp_call serves behind POST /mcp, and the gates a     *)
(* request passes before its handler does anything.                        *)
(*                                                                         *)
(* An environment says which of VEJAS_TOKEN, VEJAS_APPROVAL_TOKEN,         *)
(* VEJAS_REQUIRE_APPROVAL and VEJAS_CLUSTER are set, and whether the       *)
(* secret store is a shared one.  A request carries a set of credentials,  *)
(* "bearer" (VEJAS_TOKEN) and "approval" (VEJAS_APPROVAL_TOKEN).           *)
(***************************************************************************)

Environments == [token: BOOLEAN, approvalToken: BOOLEAN, governed: BOOLEAN,
                 clustered: BOOLEAN, vault: BOOLEAN]
Credentials  == SUBSET {"bearer", "approval"}

-----------------------------------------------------------------------------
\* GET: everything the panel and a monitor read.
Pages ==
    {"/", "/panel", "/healthz", "/evictions", "/metrics", "/topology", "/graph",
     "/surface", "/events", "/dlq", "/drivers", "/secrets", "/preview", "/rules",
     "/file", "/fixture", "/surface/canary", "/proposals"}

\* The flows served under /api/: by a read method or not, writing the bus or not.
ApiReads  == {"api GET", "api GET emits"}
ApiRoutes == ApiReads \cup {"api POST"}

\* POST: what is tried out in the shadow, or is safe on one instance.
Trials ==
    {"/connectors/test", "/surface/replay", "/surface/timetravel",
     "/surface/canary/start", "/surface/canary/stop", "/reload"}

\* POST: handlers that write files of this instance.
FileWrites == {"/events/golden", "/provision", "/file/set", "/fixture/set",
               "/surface/rollback", "/flows/new", "/connectors/new"}

\* POST: handlers of the human.
Decisions   == {"/proposals/approve", "/proposals/reject"}
DeadLetters == {"/dlq/replay", "/dlq/purge"}

\* Tools that read, try out, propose, or call a connector's remote side.
OpenTools ==
    {"vejas_topology", "vejas_graph", "vejas_surface", "vejas_read",
     "vejas_language", "vejas_vpl_check", "vejas_events", "vejas_replay_literal",
     "vejas_time_travel", "vejas_canary_start", "vejas_canary_status",
     "vejas_canary_stop", "vejas_propose", "vejas_proposals", "vejas_preview",
     "vejas_run_flow", "vejas_reload", "vejas_drivers", "vejas_secrets",
     "vejas_test_connector", "sap_list", "sap_describe", "sap_call",
     "sap_send_idoc", "vejas_dlq", "a flow's own tool"}
FileTools       == {"vejas_write_flow", "vejas_rollback_literal", "vejas_new_flow",
                    "vejas_new_connector", "vejas_provision"}
DeadLetterTools == {"vejas_dlq_replay", "vejas_dlq_purge"}

Tools == OpenTools \cup FileTools \cup DeadLetterTools
           \cup {"vejas_set_literal", "vejas_set_secret"}
Routes == Pages \cup ApiRoutes \cup Trials \cup FileWrites \cup Decisions
            \cup DeadLetters \cup {"/surface/set", "/secrets/set"}
AllDoors == Routes \cup Tools

-----------------------------------------------------------------------------
Bearer(c)      == "bearer" \in c
\* approval_authorized: there is no approval without a token to compare with.
Approved(e, c) == e.approvalToken /\ "approval" \in c

\* is_human_route
HumanRoutes == DeadLetters \cup Decisions

\* is_read_method; the tools come in by POST /mcp.
ReadDoors == Pages \cup ApiReads

\* The write gate at the top of handle_request.
WriteGate(d, e, c) ==
    /\ e.token
    /\ d \notin ReadDoors
    /\ ~Bearer(c)
    /\ ~(d \in HumanRoutes /\ Approved(e, c))

\* A GET of a flow that emits writes the bus.
ApiGate(d, e, c) == d = "api GET emits" /\ e.token /\ ~Bearer(c)

\* approval_gate, and the doors that ask it first.
\* Mutant: vejas_set_literal without the gate of its twin /surface/set.
ApprovalGatedButLiterals ==
    FileWrites \cup FileTools \cup {"/surface/set", "/secrets/set", "vejas_set_secret"}
ApprovalGated ==
    FileWrites \cup FileTools
      \cup {"/surface/set", "/secrets/set", "vejas_set_literal", "vejas_set_secret"}
ApprovalGate(d, e) == d \in ApprovalGated /\ e.governed

\* cluster_write_guard, and the same rule for a secret store of one instance.
ClusterGuard(d, e) ==
    /\ e.clustered
    /\ \/ d \in FileWrites \cup FileTools
       \/ d \in {"/secrets/set", "vejas_set_secret"} /\ ~e.vault

\* A decision takes its own credential, whatever the mode.
DecisionGate(d, e, c) == d \in Decisions /\ ~Approved(e, c)

\* dlq_http_gate and dlq_agent_gate.
DlqGate(d, e, c) ==
    /\ e.governed
    /\ \/ d \in DeadLetters /\ ~Approved(e, c)
       \/ d \in DeadLetterTools

\* The request reaches its handler.
Served(d, e, c) ==
    ~ (\/ WriteGate(d, e, c)    \/ ApiGate(d, e, c) \/ DecisionGate(d, e, c)
       \/ ApprovalGate(d, e)    \/ ClusterGuard(d, e)
       \/ DlqGate(d, e, c))

-----------------------------------------------------------------------------
\* What a handler may change.
WritesFiles(d, e) ==
    \/ d \in FileWrites \cup FileTools
    \/ d \in {"/surface/set", "vejas_set_literal"} /\ ~e.clustered
    \/ d \in {"/secrets/set", "vejas_set_secret"} /\ ~e.vault
    \/ d = "/proposals/approve" /\ ~e.clustered
WritesVersions(d, e) ==
    d \in {"/surface/set", "vejas_set_literal", "/proposals/approve"} /\ e.clustered
Changes(d, e) ==
    \/ WritesFiles(d, e) \/ WritesVersions(d, e)
    \/ d \in DeadLetters \cup DeadLetterTools \cup {"/secrets/set", "vejas_set_secret"}

\* The tool that does what a route does.
Twins ==
    {<<"/surface/set", "vejas_set_literal">>, <<"/secrets/set", "vejas_set_secret">>,
     <<"/surface/rollback", "vejas_rollback_literal">>,
     <<"/flows/new", "vejas_new_flow">>, <<"/connectors/new", "vejas_new_connector">>,
     <<"/provision", "vejas_provision">>, <<"/file/set", "vejas_write_flow">>,
     <<"/dlq/replay", "vejas_dlq_replay">>, <<"/dlq/purge", "vejas_dlq_purge">>,
     <<"/reload", "vejas_reload">>, <<"/surface/canary/start", "vejas_canary_start">>}

\* VEJAS_REQUIRE_APPROVAL: no door changes anything for a request that does not come with
\* the approval token, whichever of the gates stands before it.
GovernedNeedsApproval(d, e, c) ==
    e.governed /\ Served(d, e, c) /\ Changes(d, e) => Approved(e, c)

\* VEJAS_CLUSTER: no door writes a file of one instance, which the others would not see.
ClusterWritesAreShared(d, e, c) ==
    e.clustered /\ Served(d, e, c) => ~WritesFiles(d, e)

\* A human who has the approval token and not the other one gets through on the routes
\* that are theirs: the gates are not in each other's way.
HumanGetsThrough(d, e, c) ==
    d \in HumanRoutes /\ Approved(e, c) => Served(d, e, c)

\* A tool is refused where the route that does the same is, and served where it is, but
\* for the dead letters, which governed mode leaves to the human.
TwinsAgree(d, e, c) ==
    \A twin \in Twins :
        \/ Served(twin[1], e, c) = Served(twin[2], e, c)
        \/ twin[1] \in DeadLetters /\ Approved(e, c)
=============================================================================
