-------------------------------- MODULE Vjs ---------------------------------
(***************************************************************************)
(* The script engine (core/src/vjs.rs): what a flow does with an event,    *)
(* the services it invokes in its own and in other packages, and what the  *)
(* static readings of a program (writes_bus, secret_refs, flow_rules) say  *)
(* of it before it runs.                                                   *)
(*                                                                         *)
(* The syntax is a tree of tuples with the constructor's name first.       *)
(* Values are <<"null">>, <<"bool", b>>, <<"num", n>>, <<"str", atoms>>,   *)
(* <<"arr", items>> and <<"obj", fields>>; a string is the sequence of the *)
(* pieces it was put together from.  Subtraction, multiplication, division,*)
(* the order of strings and the string builtins are left out.              *)
(*                                                                         *)
(* The state machine is a unit's use of one engine: a fetch round forgets  *)
(* what is cached, its events run, and meanwhile files change on disk.     *)
(***************************************************************************)
EXTENDS Integers, Sequences, FiniteSets, SequencesExt

CONSTANTS
    Home,       \* the package of the flow
    Capitals,   \* the names written in capitals
    Flows,      \* sequence of flows, each a block of statements
    Events,     \* sequence of events, each the fields of an object
    Services,   \* <<package, service>> pairs there may be a file for
    Body,       \* Body[s][v]: version v of the file of service s
    Exportable, \* packages with a manifest -> the EXPORTS lists it may have
    MAX_DEPTH,  \* 32 in the code
    MaxEdits    \* bound: edits on disk

VARIABLES
    flow,    \* the flow the unit runs
    disk,    \* the version of each service's file, 0 when there is none
    exports, \* the EXPORTS list of each manifest on disk
    engine,  \* the Engine
    out,     \* what the last run came to
    fresh,   \* the services and lists there were since the round began
    edits
vars == <<flow, disk, exports, engine, out, fresh, edits>>

Null    == <<"null">>
Bool(b) == <<"bool", b>>
Num(n)  == <<"num", n>>
Str(s)  == <<"str", s>>
Arr(s)  == <<"arr", s>>
Obj(f)  == <<"obj", f>>
Empty   == [x \in {} |-> Null]
Put(f, x, v) == [y \in DOMAIN f \cup {x} |-> IF y = x THEN v ELSE f[y]]
Read(f, x)   == IF x \in DOMAIN f THEN f[x] ELSE Null
Over(f, g)   == [y \in DOMAIN f \cup DOMAIN g |-> IF y \in DOMAIN g THEN g[y] ELSE f[y]]

truthy(v) ==
    CASE v[1] = "null" -> FALSE
      [] v[1] = "bool" -> v[2]
      [] v[1] = "num"  -> v[2] # 0
      [] v[1] \in {"str", "arr"} -> v[2] # <<>>
      [] v[1] = "obj"  -> TRUE
to_display(v) == CASE v[1] = "null" -> <<>> [] v[1] = "str" -> v[2] [] OTHER -> <<"json">>

\* No whitespace and no control character.
valid_subject(s) == s # <<>> /\ "\n" \notin ToSet(s)

-----------------------------------------------------------------------------
\* The syntax.  The expressions inside an expression, and inside a statement.
Parts(e) ==
    CASE e[1] \in {"lit", "var"} -> <<>>
      [] e[1] \in {"fstr", "arr"} -> e[2]
      [] e[1] \in {"doc", "call"} -> e[3]
      [] e[1] = "invoke" -> e[4]
      [] e[1] \in {"field", "proj"} -> <<e[2]>>
      [] e[1] \in {"index", "filter"} -> <<e[2], e[3]>>
      [] e[1] = "not" -> <<e[2]>>
      [] e[1] = "bin" -> <<e[3], e[4]>>
Exprs(s) ==
    CASE s[1] = "assign" -> <<s[3]>>
      [] s[1] = "merge"  -> s[4]
      [] s[1] = "if"     -> [i \in DOMAIN s[2] |-> s[2][i][1]]
      [] s[1] = "for"    -> <<s[3]>>
      [] s[1] \in {"emit", "respond"} -> <<s[2], s[3]>>
Blocks(s) ==
    CASE s[1] = "if"  -> [i \in DOMAIN s[2] |-> s[2][i][2]] \o s[3]
      [] s[1] = "for" -> <<s[4]>>
      [] OTHER -> <<>>

\* expr_writes_bus and stmts_write_bus: an emit or an invoke, wherever it is.
RECURSIVE expr_writes_bus(_), stmts_write_bus(_)
expr_writes_bus(e) == e[1] = "invoke" \/ \E i \in DOMAIN Parts(e) : expr_writes_bus(Parts(e)[i])
stmts_write_bus(b) == \E i \in DOMAIN b :
    \/ b[i][1] \in {"emit", "merge"}
    \/ \E j \in DOMAIN Exprs(b[i])  : expr_writes_bus(Exprs(b[i])[j])
    \/ \E j \in DOMAIN Blocks(b[i]) : stmts_write_bus(Blocks(b[i])[j])

\* walk_expr and walk_stmts: the references secret() is called with, as literals.
RECURSIVE walk_expr(_), walk_stmts(_)
walk_expr(e) ==
    (IF e[1] = "call" /\ e[2] = "secret" /\ e[3] # <<>> /\ e[3][1][1] = "lit"
     THEN {e[3][1][2]} ELSE {})
      \cup UNION {walk_expr(Parts(e)[i]) : i \in DOMAIN Parts(e)}
\* Mutant: the conditions of an if are not looked at.
WalkButConditions(b) == UNION {
    (IF b[i][1] = "if" THEN {} ELSE UNION {walk_expr(Exprs(b[i])[j]) : j \in DOMAIN Exprs(b[i])})
      \cup UNION {walk_stmts(Blocks(b[i])[j]) : j \in DOMAIN Blocks(b[i])} : i \in DOMAIN b}
walk_stmts(b) == UNION {
    UNION {walk_expr(Exprs(b[i])[j]) : j \in DOMAIN Exprs(b[i])}
      \cup UNION {walk_stmts(Blocks(b[i])[j]) : j \in DOMAIN Blocks(b[i])} : i \in DOMAIN b}

\* The surface of a flow: the literals its top level gives to names in capitals.
Surface(b) == SelectSeq(b, LAMBDA s :
    s[1] = "assign" /\ Len(s[2]) = 1 /\ s[2][1] \in Capitals /\ s[3][1] = "lit")

\* resolve_subject: a string literal, or the first constant of that name.
resolve_subject(e, surface) ==
    LET named == SelectSeq(surface, LAMBDA s : s[2][1] = e[2])
    IN  CASE e[1] = "lit" /\ e[2][1] = "str" -> <<e[2][2]>>
          [] e[1] = "var" /\ named # <<>> /\ named[1][3][2][1] = "str" -> <<named[1][3][2][2]>>
          [] OTHER -> <<>>

\* render_action: the subjects shown for a body, <<>> when it is shown raw.
render_action(body, surface) ==
    LET shown == SelectSeq(body, LAMBDA s : s[1] \in {"emit", "respond"})
        said  == [i \in DOMAIN shown |-> IF shown[i][1] = "respond" THEN <<<<"respond">>>>
                                         ELSE resolve_subject(shown[i][2], surface)]
    IN  IF \/ \E i \in DOMAIN body : body[i][1] \in {"if", "for"}
           \/ \E i \in DOMAIN said : said[i] = <<>>
        THEN <<>> ELSE FlattenSeq(said)

\* render_guard: one comparison of two operands that are plain navigation.
RECURSIVE render_atom(_)
render_atom(e) ==
    \/ e[1] \in {"var", "lit"}
    \/ e[1] = "field" /\ ~e[4] /\ render_atom(e[2])
    \/ e[1] = "index" /\ render_atom(e[2]) /\ render_atom(e[3])
render_guard(e) == e[1] = "bin" /\ e[2] \in {"==", "<", "in"} /\ render_atom(e[3]) /\ render_atom(e[4])

-----------------------------------------------------------------------------
\* A run under way: Ctx and the Engine it borrows, and, for the properties, the
\* package whose file holds the code that runs and what the run made use of.
Start(ev, eng) ==
    [ok |-> TRUE, val |-> Null, vals |-> <<>>, vars |-> Put(ev, "event", Obj(ev)), emits |-> <<>>,
     response |-> <<>>, eng |-> eng, home |-> eng.caller_pkg,
     called |-> {}, read |-> {}, lists |-> {}, secrets |-> {}]
Fail(m)    == [m EXCEPT !.ok = FALSE]
Is(m, v)   == [m EXCEPT !.val = v]
\* The ? of the code: on with what came out, unless it is an error.
Then(r, Go(_)) == IF r.ok THEN Go(r) ELSE r

\* resolve and exports_of: another package's service has to be on the list its
\* manifest had when this engine first looked.
resolve(name, m) ==
    LET eng  == m.eng
        pkg  == IF name[1] = "" THEN eng.caller_pkg ELSE name[1]
        list == IF pkg \in DOMAIN eng.exports THEN eng.exports[pkg] ELSE exports[pkg]
        seen == [m EXCEPT !.eng.exports = Put(@, pkg, list), !.lists = @ \cup {<<pkg, list>>},
                          !.val = <<pkg, name[2]>>]
    IN  CASE pkg = eng.caller_pkg -> Is(m, <<pkg, name[2]>>)
          [] pkg # eng.caller_pkg /\ pkg \notin DOMAIN eng.exports \cup DOMAIN exports -> Fail(m)
          [] OTHER -> IF name[2] \in list THEN seen ELSE Fail(seen)

\* service_stmts: the file as it was when this engine first read it.
\* Mutant: that there is none is kept too.
ServiceStmtsKeepMisses(s, m) ==
    LET v == IF s \in DOMAIN m.eng.cache THEN m.eng.cache[s]
             ELSE IF s \in Services THEN disk[s] ELSE 0
        seen == [m EXCEPT !.eng.cache = Put(@, s, v), !.read = @ \cup {<<s, v>>}]
    IN  IF v = 0 THEN Fail(seen) ELSE seen
service_stmts(s, m) ==
    LET v == IF s \in DOMAIN m.eng.cache THEN m.eng.cache[s]
             ELSE IF s \in Services THEN disk[s] ELSE 0
    IN  IF v = 0 THEN Fail(m)
        ELSE [m EXCEPT !.eng.cache = Put(@, s, v), !.read = @ \cup {<<s, v>>}]

RECURSIVE eval(_, _), exec_block(_, _)

\* run_service: the service's own invokes are resolved in its package.
Enters(m)   == [m EXCEPT !.eng.depth = @ + 1]
Inside(s, args, m) ==
    [m EXCEPT !.vars = Put(args, "event", Obj(args)), !.emits = <<>>, !.response = <<>>,
              !.home = s[1], !.called = @ \cup {<<m.home, s>>}, !.eng.caller_pkg = s[1]]
\* Mutant: a service that fails leaves its depth behind.
LeavesOnSuccess(m) == IF m.ok THEN [m EXCEPT !.eng.depth = @ - 1] ELSE m
Leaves(m)   == [m EXCEPT !.eng.depth = @ - 1]
Returns(inner, m) ==
    Is(Leaves([inner EXCEPT !.eng.caller_pkg = m.eng.caller_pkg, !.home = m.home,
                 !.vars = m.vars, !.response = m.response,
                 !.emits = IF inner.ok THEN m.emits \o @ ELSE m.emits]),
       Obj([x \in DOMAIN inner.vars \ {"event"} |-> inner.vars[x]]))
RunCode(s, args, code, m) ==
    IF code.ok THEN Returns(exec_block(Body[s][code.eng.cache[s]], Inside(s, args, code)), m)
    ELSE Leaves(code)
run_service(name, args, m) ==
    IF m.eng.depth >= MAX_DEPTH THEN Fail(m)
    ELSE Then(resolve(name, m), LAMBDA r : RunCode(r.val, args, service_stmts(r.val, Enters(r)), m))

\* Expressions one after the other, up to the first that fails.
Collect(vals, r) == [r EXCEPT !.vals = Append(vals, r.val)]
EvalAll(es, m) ==
    FoldLeft(LAMBDA a, e : Then(a, LAMBDA b : Collect(b.vals, eval(e, b))),
             [m EXCEPT !.vals = <<>>], es)
Fields(keys, vals) == [k \in ToSet(keys) |-> vals[CHOOSE i \in DOMAIN keys :
                          keys[i] = k /\ \A j \in i+1..Len(keys) : keys[j] # k]]
Invoke(name, keys, args, m) ==
    Then(EvalAll(args, m), LAMBDA a : run_service(name, Fields(keys, a.vals), a))

\* base[cond]: an item's fields are variables while its condition is evaluated.
Bound(item) == IF item[1] = "obj" THEN item[2] ELSE Empty
Sift(item, before, r) ==
    Then(r, LAMBDA t :
        [t EXCEPT !.vals = IF truthy(t.val) THEN Append(before.vals, item) ELSE before.vals,
                  !.vars = [x \in (DOMAIN @ \ DOMAIN Bound(item)) \cup DOMAIN before.vars |->
                              IF x \in DOMAIN Bound(item) THEN before.vars[x] ELSE @[x]]])
Filter(items, cond, m) ==
    FoldLeft(LAMBDA a, item : Then(a, LAMBDA b :
                 Sift(item, b, eval(cond, [b EXCEPT !.vars = Over(@, Bound(item))]))),
             [m EXCEPT !.vals = <<>>], items)

Field(b, f, safe, m) ==
    CASE b[1] = "obj"  -> Is(m, Read(b[2], f))
      [] b[1] = "arr"  -> Is(m, Arr([i \in DOMAIN b[2] |->
                              IF b[2][i][1] = "obj" THEN Read(b[2][i][2], f) ELSE Null]))
      [] b[1] = "null" \/ (b[1] \in {"bool", "num", "str"} /\ safe) -> Is(m, Null)
      [] OTHER -> Fail(m)
\* The objects' keys are names: a name is the string of one piece.
Index(b, k) ==
    CASE b[1] = "obj" /\ k[1] = "str" /\ Len(k[2]) = 1 -> Read(b[2], k[2][1])
      [] b[1] = "arr" /\ k[1] = "num" /\ k[2] \in 0..Len(b[2]) - 1 -> b[2][k[2] + 1]
      [] OTHER -> Null
Binary(op, a, b) ==
    CASE op = "==" -> Bool(a = b)
      [] op = "<"  -> Bool(a[1] = "num" /\ b[1] = "num" /\ a[2] < b[2])
      [] op = "in" -> Bool(CASE b[1] = "arr" -> \E i \in DOMAIN b[2] : b[2][i] = a
                             [] b[1] = "str" -> a[1] = "str" /\ \E i, j \in 0..Len(b[2]) : SubSeq(b[2], i + 1, j) = a[2]
                             [] b[1] = "obj" -> a[1] = "str" /\ Len(a[2]) = 1 /\ a[2][1] \in DOMAIN b[2]
                             [] OTHER -> FALSE)
      [] op = "+"  -> CASE a[1] = "num" /\ b[1] = "num" -> Num(a[2] + b[2])
                        [] a[1] = "arr" /\ b[1] = "arr" -> Arr(a[2] \o b[2])
                        [] OTHER -> Str(to_display(a) \o to_display(b))
\* and, or and ??: whether the left operand's value is the expression's.
Decides(op, v) ==
    CASE op = "and" -> ~truthy(v) [] op = "or" -> truthy(v) [] op = "??" -> v # Null

\* What fstr, arr, doc and index make of their parts, and a call of its arguments.
Built(e, vals) ==
    CASE e[1] = "fstr"  -> Str(FlattenSeq([i \in DOMAIN vals |-> to_display(vals[i])]))
      [] e[1] = "arr"   -> Arr(vals)
      [] e[1] = "doc"   -> Obj(Fields(e[2], vals))
      [] e[1] = "index" -> Index(vals[1], vals[2])
Call(e, a) ==
    CASE e[2] = "secret" /\ a.vals # <<>> /\ a.vals[1][1] = "str" ->
           [Is(a, Str(<<"value">>)) EXCEPT !.secrets = @ \cup
               (IF e[3][1][1] = "lit" THEN {a.vals[1]} ELSE {})]
      [] e[2] = "str" -> Is(a, Str(to_display(a.vals[1])))
      [] OTHER -> Fail(a)

eval(e, m) ==
    CASE e[1] = "lit" -> Is(m, e[2])
      [] e[1] = "var" -> Is(m, Read(m.vars, e[2]))
      [] e[1] \in {"fstr", "arr", "doc", "index"} ->
           Then(EvalAll(Parts(e), m), LAMBDA a : Is(a, Built(e, a.vals)))
      [] e[1] = "invoke" -> Invoke(e[2], e[3], e[4], m)
      [] e[1] = "field"  -> Then(eval(e[2], m), LAMBDA b : Field(b.val, e[3], e[4], b))
      [] e[1] = "proj"   -> eval(e[2], m)
      [] e[1] = "filter" ->
           Then(eval(e[2], m), LAMBDA b :
               IF b.val[1] # "arr" THEN Is(b, Arr(<<>>))
               ELSE Then(Filter(b.val[2], e[3], b), LAMBDA f : Is(f, Arr(f.vals))))
      [] e[1] = "call" -> Then(EvalAll(e[3], m), LAMBDA a : Call(e, a))
      [] e[1] = "not"  -> Then(eval(e[2], m), LAMBDA b : Is(b, Bool(~truthy(b.val))))
      [] e[1] = "bin" /\ e[2] \in {"and", "or", "??"} ->
           Then(eval(e[3], m), LAMBDA l : IF Decides(e[2], l.val) THEN l ELSE eval(e[4], l))
      [] OTHER -> Then(EvalAll(<<e[3], e[4]>>, m),
                       LAMBDA a : Is(a, Binary(e[2], a.vals[1], a.vals[2])))

\* set_path: what is not an object on the way becomes one.
RECURSIVE set_path(_, _, _)
set_path(root, path, v) ==
    LET o == IF root[1] = "obj" THEN root[2] ELSE Empty
    IN  IF path = <<>> THEN v
        ELSE Obj(Put(o, path[1], set_path(Read(o, path[1]), Tail(path), v)))

\* The arm that is taken, evaluating the conditions up to it.
Tried(i, c) == [c EXCEPT !.vals = IF c.ok /\ truthy(c.val) THEN <<i>> ELSE <<>>]
Chosen(arms, m) ==
    FoldLeft(LAMBDA a, i : IF a.vals # <<>> THEN a
                           ELSE Then(a, LAMBDA b : Tried(i, eval(arms[i][1], b))),
             [m EXCEPT !.vals = <<>>], [i \in DOMAIN arms |-> i])

exec(s, m) ==
    CASE s[1] = "assign" ->
           Then(eval(s[3], m), LAMBDA r :
               [r EXCEPT !.vars = Put(@, s[2][1], set_path(Read(@, s[2][1]), Tail(s[2]), r.val))])
      [] s[1] = "merge" ->
           Then(Invoke(s[2], s[3], s[4], m), LAMBDA r : [r EXCEPT !.vars = Over(@, r.val[2])])
      [] s[1] = "if" ->
           Then(Chosen(s[2], m), LAMBDA c :
               CASE c.vals # <<>> -> exec_block(s[2][c.vals[1]][2], c)
                 [] OTHER -> IF s[3] = <<>> THEN c ELSE exec_block(s[3][1], c))
      [] s[1] = "for" ->
           Then(eval(s[3], m), LAMBDA r :
               IF r.val[1] # "arr" THEN r
               ELSE FoldLeft(LAMBDA a, item : Then(a, LAMBDA b :
                                 exec_block(s[4], [b EXCEPT !.vars = Put(@, s[2], item)])),
                             r, r.val[2]))
      [] s[1] = "emit" ->
           Then(eval(s[2], m), LAMBDA j :
               IF ~(j.val[1] = "str" /\ valid_subject(j.val[2])) THEN Fail(j)
               ELSE Then(eval(s[3], j), LAMBDA r : [r EXCEPT !.emits = Append(@, j.val[2])]))
      [] s[1] = "respond" ->
           Then(EvalAll(<<s[2], s[3]>>, m), LAMBDA a : [a EXCEPT !.response = a.vals])
exec_block(b, m) == FoldLeft(LAMBDA a, s : Then(a, LAMBDA g : exec(s, g)), m, b)

run(b, ev, eng) == exec_block(b, Start(ev, eng))

-----------------------------------------------------------------------------
\* Engine::with_secrets
NewEngine == [caller_pkg |-> Home, depth |-> 0, cache |-> [s \in {} |-> 0], exports |-> [p \in {} |-> {}]]
OnDisk    == [files |-> {<<s, disk[s]>> : s \in Services},
              lists |-> {<<p, exports[p]>> : p \in DOMAIN exports}]
NothingRun == [ok |-> TRUE, emits |-> <<>>, called |-> {}, read |-> {}, lists |-> {}, secrets |-> {}]
Outcome(m) == [k \in DOMAIN NothingRun |-> m[k]]

Init ==
    /\ flow \in DOMAIN Flows
    /\ disk = [s \in Services |-> 1]
    /\ exports \in [DOMAIN Exportable -> UNION {Exportable[p] : p \in DOMAIN Exportable}]
    /\ engine = NewEngine
    /\ out = NothingRun
    /\ fresh = OnDisk
    /\ edits = 0

\* invalidate, at the top of every fetch round.
invalidate(eng) == [eng EXCEPT !.cache = NewEngine.cache, !.exports = NewEngine.exports]
Round ==
    /\ engine' = invalidate(engine)
    /\ fresh' = OnDisk
    /\ out' = NothingRun
    /\ UNCHANGED <<flow, disk, exports, edits>>

Handle(i) ==
    LET m == run(Flows[flow], Events[i], engine)
    IN  /\ out' = Outcome(m)
        /\ engine' = m.eng
        /\ UNCHANGED <<flow, disk, exports, fresh, edits>>

EditService(s) ==
    /\ edits < MaxEdits
    /\ \E v \in 0..Len(Body[s]) : v # disk[s] /\ disk' = [disk EXCEPT ![s] = v]
    /\ edits' = edits + 1
    /\ fresh' = [fresh EXCEPT !.files = @ \cup {<<s, disk'[s]>>}]
    /\ UNCHANGED <<flow, exports, engine, out>>
EditManifest(p) ==
    /\ edits < MaxEdits
    /\ \E l \in Exportable[p] : l # exports[p] /\ exports' = [exports EXCEPT ![p] = l]
    /\ edits' = edits + 1
    /\ fresh' = [fresh EXCEPT !.lists = @ \cup {<<p, exports'[p]>>}]
    /\ UNCHANGED <<flow, disk, engine, out>>

Next ==
    \/ Round
    \/ \E i \in DOMAIN Events : Handle(i)
    \/ \E s \in Services : EditService(s)
    \/ \E p \in DOMAIN exports : EditManifest(p)
Spec == Init /\ [][Next]_vars

-----------------------------------------------------------------------------
\* The engine's tables hold services and lists that were once on disk.
TypeOK ==
    /\ flow \in DOMAIN Flows /\ disk \in [Services -> Nat] /\ edits \in 0..MaxEdits
    /\ engine.depth \in 0..MAX_DEPTH /\ engine.caller_pkg \in {s[1] : s \in Services}
    /\ \A s \in DOMAIN engine.cache : s \in Services /\ engine.cache[s] \in 1..Len(Body[s])
    /\ \A p \in DOMAIN engine.exports : engine.exports[p] \in Exportable[p]

\* Whatever a run came to, it hands the engine back at depth 0 and in the flow's own
\* package: one engine serves every event of an attempt, and run_service has three
\* ways out.
EngineAsFound == engine.depth = 0 /\ engine.caller_pkg = Home

\* A service runs for code of its own package, or of another package when the list
\* the engine holds names it, however deep the chain of invokes.
PrivateStaysPrivate ==
    \A c \in out.called :
        \/ c[2][1] = c[1]
        \/ \E l \in out.lists : l[1] = c[2][1] /\ c[2][2] \in l[2]

\* A run uses services and lists as they were at some time since the round began:
\* an edit on disk is picked up by the next round.
RoundsAreFresh == out.read \subseteq fresh.files /\ out.lists \subseteq fresh.lists

\* A flow that writes_bus takes for a pure read emits nothing, not even from a
\* service: it is what a read of its /api route may run without the token.
PureReadsAreSilent == out.emits # <<>> => stmts_write_bus(Flows[flow])

\* Every secret a run reads by a literal reference is in the secret_refs of the flow
\* or of a service it ran: the inventory is exhaustive.
SecretsAreListed ==
    out.secrets \subseteq
        walk_stmts(Flows[flow]) \cup UNION {walk_stmts(Body[r[1]][r[2]]) : r \in out.read}

\* The arm of the i-th statement an event takes, as flow_rules shows it and as it runs.
\* It is excepted where the arm ran a service or the constants are not as declared.
RuleHolds(b, i, m) ==
    LET c    == Chosen(b[i][2], m)
        arms == IF c.vals # <<>> THEN <<b[i][2][c.vals[1]]>> ELSE <<>>
        body == IF arms # <<>> THEN arms[1][2] ELSE IF b[i][3] # <<>> THEN b[i][3][1] ELSE <<>>
        then == render_action(body, Surface(b))
        done == exec_block(body, c)
        asDeclared == \A j \in DOMAIN Surface(b) :
            LET d == Surface(b)[j] IN c.vars[d[2][1]] = d[3][2] /\ done.vars[d[2][1]] = d[3][2]
    IN  \/ ~(c.ok /\ done.ok) \/ then = <<>> \/ (arms # <<>> /\ ~render_guard(arms[1][1]))
        \/ ~(done.called = {} /\ asDeclared)
        \/ done.emits = m.emits \o SelectSeq(then, LAMBDA t : t # <<"respond">>)
RulesHold(b) ==
    \A i \in DOMAIN b : b[i][1] = "if" =>
        \A j \in DOMAIN Events :
            LET m == exec_block(SubSeq(b, 1, i - 1), Start(Events[j], engine))
            IN  m.ok => RuleHolds(b, i, m)

\* A rule the panel shows as a sentence ("faithful or raw, never a lossy paraphrase",
\* flow_rules) names the subjects its arm emits to, in order,
\* where the arm invokes no service and no constant is given a second value.
PlainRulesAreFaithful == RulesHold(Flows[flow])
=============================================================================
