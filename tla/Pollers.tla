------------------------------ MODULE Pollers -------------------------------
(***************************************************************************)
(* The sources that act on a tick (core/src/connectors.rs): interval,      *)
(* http-poll and oauth-poll, which walks the pages of its endpoints with a *)
(* cached token and fills in the items of a list one by one.               *)
(*                                                                         *)
(* The remote side is a chain of pages per endpoint, which may have no     *)
(* end, and a token it accepts, which it may replace at any time.          *)
(***************************************************************************)
EXTENDS Naturals, Sequences, FiniteSets

CONSTANTS
    Endpoints, \* how many: plain ones, then those to expand
    Chain,     \* pages of each endpoint, 0 when the last page links to itself
    Items,     \* items of each page to expand, 0 for a plain endpoint
    MAX_PAGES,
    MaxEvents  \* bound: faults, and tokens replaced

VARIABLES
    kind,    \* "timer", "http" or "oauth"
    alive,   \* ctx.alive()
    pc,      \* where run is
    ep, page, item, \* the endpoint, page and item it is at
    cached,  \* TokenCache.cached, 0 for None
    retried, \* authed_get has used its one retry
    good,    \* the token the remote side accepts
    sent,    \* the pages published this tick, as <<endpoint, page, items filled in>>
    filled,  \* items of the current page that have their detail
    hurt,    \* the kinds of faults of this tick
    events
vars == <<kind, alive, pc, ep, page, item, cached, retried, good, sent, filled, hurt, events>>

Happens     == events < MaxEvents /\ events' = events + 1
Fault(k)    == hurt' = hurt \cup {k} /\ Happens
Pages(e)    == IF Chain[e] = 0 \/ Chain[e] > MAX_PAGES THEN MAX_PAGES ELSE Chain[e]

Init ==
    /\ kind \in {"timer", "http", "oauth"}
    /\ alive = TRUE /\ pc = "sleep"
    /\ ep = 1 /\ page = 1 /\ item = 0
    /\ cached = 0 /\ retried = FALSE /\ good = 1
    /\ sent = <<>> /\ filled = {} /\ hurt = {} /\ events = 0

-----------------------------------------------------------------------------
\* The interval is over.
Tick ==
    /\ alive /\ pc = "sleep"
    /\ pc' = CASE kind = "timer" -> "publish" [] kind = "http" -> "get" [] kind = "oauth" -> "check"
    /\ ep' = 1 /\ page' = 1 /\ item' = 0
    /\ sent' = <<>> /\ filled' = {} /\ hurt' = {} /\ retried' = FALSE
    /\ UNCHANGED <<kind, alive, cached, good, events>>

\* bearer(): the cached token while its time lasts, else a new one.
Bearer(next) ==
    /\ cached' = IF cached = 0 THEN good ELSE cached
    /\ pc' = next
Expires ==
    /\ pc \in {"sleep", "alive"} /\ cached # 0
    /\ cached' = 0
    /\ UNCHANGED <<kind, alive, pc, ep, page, item, retried, good, sent, filled, hurt, events>>

\* Once a tick a token that cannot be had fails the run: a new one starts from nothing.
Check ==
    /\ pc = "check"
    /\ Bearer("alive")
    /\ UNCHANGED <<kind, alive, ep, page, item, retried, good, sent, filled, hurt, events>>
CheckFails ==
    /\ pc = "check" /\ cached = 0
    /\ Fault("token")
    /\ pc' = "sleep"
    /\ UNCHANGED <<kind, alive, ep, page, item, cached, retried, good, sent, filled>>

\* ctx.alive(), before every page and every item.
SeeAlive ==
    /\ pc = "alive"
    /\ pc' = IF alive THEN "bearer" ELSE "stopped"
    /\ retried' = FALSE
    /\ UNCHANGED <<kind, alive, ep, page, item, cached, good, sent, filled, hurt, events>>
SeeStop ==
    /\ pc = "sleep" /\ ~alive
    /\ pc' = "stopped"
    /\ UNCHANGED <<kind, alive, ep, page, item, cached, retried, good, sent, filled, hurt, events>>

-----------------------------------------------------------------------------
\* On to the next endpoint, or the tick is over.
NextEndpoint ==
    /\ page' = 1 /\ item' = 0 /\ filled' = {}
    /\ IF ep < Endpoints /\ kind = "oauth" THEN ep' = ep + 1 /\ pc' = "alive"
       ELSE ep' = ep /\ pc' = "sleep"
\* The list of a page is there: its items first, then it is published.
NextItem(done) ==
    /\ filled' = done
    /\ IF kind = "oauth" /\ item < Items[ep] THEN item' = item + 1 /\ pc' = "alive"
       ELSE item' = item /\ pc' = "publish"
    /\ UNCHANGED <<ep, page>>

\* authed_get: the answer, or a 401 and one more try with a new token.
\* Mutant: a 401 is an answer like any other.
Answered == IF item = 0 THEN NextItem({}) ELSE NextItem(filled \cup {item})
GiveUp   == IF item = 0 THEN NextEndpoint ELSE NextItem(filled)
Reply(try) ==
    /\ pc = "get"
    /\ IF kind # "oauth" \/ cached = good
       THEN Answered /\ UNCHANGED <<cached, retried>>
       ELSE IF try /\ ~retried
       THEN cached' = 0 /\ retried' = TRUE /\ pc' = "bearer" /\ UNCHANGED <<ep, page, item, filled>>
       ELSE GiveUp /\ UNCHANGED <<cached, retried>>
    /\ UNCHANGED <<kind, alive, good, sent, hurt, events>>
GetNoRetry == Reply(FALSE)
Get        == Reply(TRUE)
Authorize ==
    /\ pc = "bearer"
    /\ Bearer("get")
    /\ UNCHANGED <<kind, alive, ep, page, item, retried, good, sent, filled, hurt, events>>

\* No token, no connection, an error status, a body that is not JSON.
GetFails ==
    /\ pc = "get" \/ (pc = "bearer" /\ cached = 0)
    /\ Fault("get")
    /\ GiveUp
    /\ UNCHANGED <<kind, alive, cached, retried, good, sent>>

\* publish_page and next_url.
MorePages == page < MAX_PAGES /\ (Chain[ep] = 0 \/ page < Chain[ep])
Publish ==
    /\ pc = "publish"
    /\ sent' = Append(sent, <<ep, page, filled>>)
    /\ IF kind = "oauth" /\ MorePages
       THEN page' = page + 1 /\ item' = 0 /\ filled' = {} /\ pc' = "alive" /\ ep' = ep
       ELSE NextEndpoint
    /\ UNCHANGED <<kind, alive, cached, retried, good, hurt, events>>
\* http-poll goes on to the next tick; the others fail and start again.
PublishFails ==
    /\ pc = "publish"
    /\ Fault("publish")
    /\ pc' = "sleep"
    /\ cached' = IF kind = "oauth" THEN 0 ELSE cached
    /\ UNCHANGED <<kind, alive, ep, page, item, retried, good, sent, filled>>

\* The remote side stops accepting the token it gave out; the token of a retry may be overtaken.
Replace ==
    /\ kind = "oauth"
    /\ Happens
    /\ good' = good + 1
    /\ hurt' = IF pc = "get" /\ retried THEN hurt \cup {"overtaken"} ELSE hurt
    /\ UNCHANGED <<kind, alive, pc, ep, page, item, cached, retried, sent, filled>>
Stop ==
    /\ alive
    /\ Happens
    /\ alive' = FALSE
    /\ UNCHANGED <<kind, pc, ep, page, item, cached, retried, good, sent, filled, hurt>>

Steps == Tick \/ Check \/ SeeAlive \/ SeeStop \/ Authorize \/ Get \/ Publish
Next == Steps \/ Expires \/ CheckFails \/ GetFails \/ PublishFails \/ Replace \/ Stop
Spec == Init /\ [][Next]_vars /\ WF_vars(Steps)

-----------------------------------------------------------------------------
\* run never goes past its cap, its endpoints or the items of a page.
TypeOK ==
    /\ pc \in {"sleep", "check", "alive", "bearer", "get", "publish", "stopped"}
    /\ ep \in 1..Endpoints /\ page \in 1..MAX_PAGES /\ item \in 0..Items[ep]
    /\ filled \subseteq 1..Items[ep] /\ cached \in 0..good

\* What an endpoint publishes in a tick is the beginning of its chain, each page once
\* and in order, whatever fails on the way.
PagesAreAPrefix ==
    \A e \in 1..Endpoints :
        LET mine == SelectSeq(sent, LAMBDA s : s[1] = e)
        IN  Len(mine) <= Pages(e) /\ \A i \in DOMAIN mine : mine[i][2] = i

\* A tick without a fault ends with every page of every endpoint published and every item
\* filled in, however often the remote side replaces its token: authed_get's one retry
\* hides it, unless the token of the retry is itself overtaken on its way.
LastOne   == IF kind = "oauth" THEN Endpoints ELSE 1
FullTick  == \A e \in 1..LastOne : \A p \in 1..(IF kind = "oauth" THEN Pages(e) ELSE 1) :
                 \E i \in DOMAIN sent : sent[i] = <<e, p, IF kind = "oauth" THEN 1..Items[e] ELSE {}>>
TickIsComplete ==
    [][pc # "sleep" /\ pc' = "sleep" /\ hurt' = {} => FullTick']_vars

\* A fault costs pages of its own tick at most: unless it is stopped, a poller comes round
\* to complete ticks again, past endless chains and failing endpoints; and once stopped
\* it ends.
CameRound  == IF alive THEN pc = "sleep" /\ FullTick ELSE pc = "stopped"
ComesRound == []<>CameRound
=============================================================================
