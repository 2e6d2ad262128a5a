---------------------------- MODULE Routing ----------------------------
(* One host's listener rules, from the panel's rows to what Caddy answers: *)
(* the handlers that number and reorder rules (internal/db/rules.go,       *)
(* internal/api/rules.go), the renderer that turns rows into Caddy routes  *)
(* (internal/caddycfg/caddycfg.go), and Caddy's first-match walk through   *)
(* the rendered handler chain.                                             *)
EXTENDS Integers, SequencesExt

CONSTANTS
    Ids,        \* the row ids the rules table can hand out, 1..n
    Callers,    \* concurrent requests that create a rule without a priority
    Bodies,     \* rule bodies: [when |-> sequence of matchers, do |-> action]
    Priorities, \* priorities a request may name
    Requests,   \* what a client may send to the host
    None,
    MaxPriority, \* the largest a request may name; 50000 in the code
    Stride,     \* the distance of two assigned priorities; 10 in the code
    Park,       \* where ReorderRules parks a row; 100000 in the code
    MaxChanges  \* bound on changes

ASSUME RoutingAssumption ==
    /\ Ids \subseteq Nat \ {0} /\ Priorities \subseteq Nat \ {0}
    /\ MaxPriority \in Nat \ {0} /\ Stride \in Nat \ {0} /\ Park \in Nat /\ MaxChanges \in Nat

VARIABLES
    rules,      \* id -> [prio, on, body], the host's rows of the rules table
    nextId,     \* sqlite_sequence of the rules table
    up,         \* group -> whether it has an enabled target
    lan,        \* hosts.lan_only
    gates,      \* the pre-handlers switched on for the host
    picked,     \* caller -> the priority nextPriority answered, or None
    wanted,     \* the list of the last reorder that named every rule once
    changes

vars == <<rules, nextId, up, lan, gates, picked, wanted, changes>>

Groups == {"default", "other"}
Handlers == <<"crowdsec", "appsec", "rate_limit", "waf", "forward_auth">>

-----------------------------------------------------------------------------
(* Rendering *)

\* The rows of a set of ids by ascending priority.
ByPriority(ids) ==
    SetToSortSeq(ids, LAMBDA i, j : rules[i].prio < rules[j].prio)

ListEnabledRulesByHost == ByPriority({i \in DOMAIN rules : rules[i].on})

\* The field of a Caddy match block that a matcher is folded into.
Field(m) ==
    CASE m.type \in {"path", "path_exact"} -> "path"
      [] m.type = "header" /\ m.mode = "regex" -> "header_regexp"
      [] m.type = "host_header" -> "host"
      [] OTHER -> m.type

Slot(m) == [field |-> Field(m), name |-> m.name]
HostSlot == [field |-> "host", name |-> ""]
DefaultMatch == [slots |-> HostSlot :> {"h"}, nots |-> {}]

\* One matcher folded into the block: a regexp of one name and the host list
\* replace what the block had, every other value list grows.
FoldMatcher(block, m) ==
    LET s == Slot(m)
        old == IF s \in DOMAIN block.slots THEN block.slots[s] ELSE {}
    IN  IF m.negate
        THEN [block EXCEPT !.nots = @ \cup {[field |-> s.field, values |-> m.values]}]
        ELSE [block EXCEPT !.slots =
                 (s :> IF s.field \in {"host", "header_regexp"} THEN m.values
                       ELSE old \cup m.values) @@ @]

\* The match block of a rule. An empty list is left out of the JSON, and then
\* constrains nothing.
translateMatchers(when) ==
    LET block == FoldLeft(FoldMatcher, DefaultMatch, when)
    IN  [block EXCEPT !.slots = Restrict(@, {s \in DOMAIN block.slots :
            s.field = "remote_ip" \/ block.slots[s] # {}})]

\* A group without an enabled target yields no reverse_proxy.
reverseProxyFromTG(g) == up[g]

\* What a rule's action answers, or None when the rule is left out.
translateAction(do) ==
    CASE do = "forward" ->
            IF reverseProxyFromTG("other") THEN "other" ELSE None
      [] do = "rewrite" ->
            IF reverseProxyFromTG("default") THEN "rewritten" ELSE None
      [] OTHER -> do

buildLanOnlyGate ==
    [match |-> [slots |-> <<>>, nots |-> {[field |-> "client_ip", values |-> {"lan"}]}],
     answer |-> "lan_only"]

buildDefaultRoute ==
    [match |-> [slots |-> <<>>, nots |-> {}],
     answer |-> IF reverseProxyFromTG("default") THEN "default" ELSE "no backend"]

buildRuleRoute(i) ==
    [match |-> translateMatchers(rules[i].body.when),
     answer |-> translateAction(rules[i].body.do)]

RuleRoutes ==
    LET on == ListEnabledRulesByHost
    IN  SelectSeq([n \in DOMAIN on |-> buildRuleRoute(on[n])],
                  LAMBDA r : r.answer # None)

\* Mutant: the gate is put behind the rules.
GateLast ==
    RuleRoutes \o (IF lan THEN <<buildLanOnlyGate>> ELSE <<>>)
        \o <<buildDefaultRoute>>

\* The inner routes of the host's subroute.
InnerRoutes ==
    (IF lan THEN <<buildLanOnlyGate>> ELSE <<>>) \o RuleRoutes
        \o <<buildDefaultRoute>>

\* The pre-handlers HostsToCaddyConfig emits, in its order; AppSec rides on
\* the bouncer.
PreHandlers ==
    SelectSeq(Handlers, LAMBDA x : /\ x \in gates
                                   /\ x = "appsec" => "crowdsec" \in gates)

-----------------------------------------------------------------------------
(* Caddy's walk *)

\* A request's value for a field of a match block.
Attr(r, s) ==
    CASE s.field = "host" -> "h"
      [] s.field = "path" -> r.path
      [] s.field \in {"header", "header_regexp"} -> r.header
      [] s.field = "remote_ip" -> r.peer
      [] OTHER -> r.client

Matches(block, r) ==
    /\ \A s \in DOMAIN block.slots : Attr(r, s) \in block.slots[s]
    /\ \A n \in block.nots : Attr(r, n) \notin n.values

\* The handlers that see a request: up to the first that turns it away.
Seen(r) ==
    LET pre == PreHandlers
        stop == SelectInSeq(pre, LAMBDA x : x \in r.trips)
    IN  IF stop = 0 THEN pre ELSE SubSeq(pre, 1, stop)

FirstMatch(routes, r) ==
    routes[SelectInSeq(routes, LAMBDA x : Matches(x.match, r))].answer

Answer(routes, r) ==
    LET seen == Seen(r)
    IN  IF seen # <<>> /\ Last(seen) \in r.trips THEN Last(seen)
        ELSE FirstMatch(routes, r)

-----------------------------------------------------------------------------
(* The panel's handlers *)

nextPriority ==
    IF DOMAIN rules = {} THEN Stride
    ELSE CHOOSE p \in {rules[i].prio + Stride : i \in DOMAIN rules} :
             \A i \in DOMAIN rules : rules[i].prio + Stride =< p

\* Rule.Validate, at the API only.
Validate(p, b) ==
    /\ p =< MaxPriority
    /\ b.when # <<>> /\ \A n \in DOMAIN b.when : b.when[n].values # {}

Taken(p, but) == \E i \in DOMAIN rules \ but : rules[i].prio = p

Init ==
    /\ rules = <<>> /\ nextId = 1
    /\ up = [g \in Groups |-> TRUE]
    /\ lan \in BOOLEAN
    /\ gates \in {{}, Range(Handlers), {"appsec", "forward_auth"}}
    /\ picked = [c \in Callers |-> None]
    /\ wanted = <<>> /\ changes = 0

Changed ==
    /\ changes < MaxChanges /\ changes' = changes + 1

Insert(row) ==
    /\ nextId \in Ids
    /\ rules' = (nextId :> row) @@ rules
    /\ nextId' = nextId + 1

\* POST with a priority: the UNIQUE index refuses a taken one.
CreateRule(p, b) ==
    /\ Changed
    /\ Validate(p, b)
    /\ ~Taken(p, {})
    /\ Insert([prio |-> p, on |-> TRUE, body |-> b])
    /\ UNCHANGED <<up, lan, gates, picked, wanted>>

\* POST without a priority, first statement.
PickPriority(c) ==
    /\ Changed
    /\ picked[c] = None
    /\ picked' = [picked EXCEPT ![c] = nextPriority]
    /\ UNCHANGED <<rules, nextId, up, lan, gates, wanted>>

\* Its INSERT, of a body that was validated with priority 1; a priority taken
\* in between is answered with 409.
InsertPicked(c, b) ==
    /\ picked[c] # None
    /\ Validate(1, b)
    /\ picked' = [picked EXCEPT ![c] = None]
    /\ IF Taken(picked[c], {}) THEN UNCHANGED <<rules, nextId>>
       ELSE Insert([prio |-> picked[c], on |-> TRUE, body |-> b])
    /\ UNCHANGED <<up, lan, gates, wanted, changes>>

UpdateRule(i, p, b, e) ==
    /\ Changed
    /\ Validate(p, b)
    /\ i \in DOMAIN rules /\ ~Taken(p, {i})
    /\ rules' = [rules EXCEPT ![i] = [prio |-> p, on |-> e, body |-> b]]
    /\ wanted' = IF p = rules[i].prio THEN wanted ELSE <<>>
    /\ UNCHANGED <<nextId, up, lan, gates, picked>>

DeleteRule(i) ==
    /\ Changed
    /\ i \in DOMAIN rules
    /\ rules' = [j \in DOMAIN rules \ {i} |-> rules[j]]
    /\ wanted' = SelectSeq(wanted, LAMBDA j : j # i)
    /\ UNCHANGED <<nextId, up, lan, gates, picked>>

ToggleRule(i) ==
    /\ Changed
    /\ i \in DOMAIN rules
    /\ rules' = [rules EXCEPT ![i].on = ~@]
    /\ UNCHANGED <<nextId, up, lan, gates, picked, wanted>>

\* One UPDATE of ReorderRules; a priority another row has fails it and with
\* it the transaction.
SetPriority(table, i, p) ==
    IF table = None \/ \E j \in DOMAIN table \ {i} : table[j].prio = p THEN None
    ELSE [table EXCEPT ![i].prio = p]

\* The rows after both phases: parked at id + Park, then numbered by Stride.
Reordered(list) ==
    LET parked == FoldLeft(LAMBDA t, i : SetPriority(t, i, i + Park), rules, list)
    IN  FoldLeft(LAMBDA t, n : SetPriority(t, list[n], n * Stride), parked,
                 [n \in DOMAIN list |-> n])

\* POST .../reorder. The panel's page sends every rule of the host once.
ReorderRules(list) ==
    /\ Changed
    /\ rules' = IF Reordered(list) = None THEN rules ELSE Reordered(list)
    /\ wanted' = list
    /\ UNCHANGED <<nextId, up, lan, gates, picked>>

\* The last enabled target of a group is switched off, or one is on again.
ToggleTarget(g) ==
    /\ Changed
    /\ up' = [up EXCEPT ![g] = ~@]
    /\ UNCHANGED <<rules, nextId, lan, gates, picked, wanted>>

Next ==
    \/ \E p \in Priorities, b \in Bodies : CreateRule(p, b)
    \/ \E c \in Callers : PickPriority(c)
    \/ \E c \in Callers, b \in Bodies : InsertPicked(c, b)
    \/ \E i \in Ids, p \in Priorities, b \in Bodies, e \in BOOLEAN :
           UpdateRule(i, p, b, e)
    \/ \E i \in Ids : DeleteRule(i) \/ ToggleRule(i)
    \/ \E list \in SetToSeqs(DOMAIN rules) \ {<<>>} : ReorderRules(list)
    \/ \E g \in Groups : ToggleTarget(g)

Spec == Init /\ [][Next]_vars

-----------------------------------------------------------------------------
(* Properties *)

\* Every variable has its type, and no two rules of the host share a priority.
TypeOK ==
    /\ DOMAIN rules \subseteq Ids /\ nextId \in 1 .. Cardinality(Ids) + 1
    /\ \A i \in DOMAIN rules :
           /\ rules[i].prio \in Nat \ {0}
           /\ rules[i].on \in BOOLEAN /\ rules[i].body \in Bodies
    /\ \A i, j \in DOMAIN rules : rules[i].prio = rules[j].prio => i = j
    /\ up \in [Groups -> BOOLEAN] /\ lan \in BOOLEAN
    /\ gates \subseteq Range(Handlers)
    /\ picked \in [Callers -> Nat \cup {None}]
    /\ Range(wanted) \subseteq Ids /\ changes \in 0 .. MaxChanges

\* A matcher as the rule's author reads it.
Accepts(m, r) == (Attr(r, Slot(m)) \in m.values) # m.negate

\* What an action that can be carried out answers.
Said(do) == CASE do = "forward" -> "other" [] do = "rewrite" -> "rewritten" [] OTHER -> do

\* Rules whose action can be carried out now and whose matchers all accept.
Candidates(r) ==
    {i \in DOMAIN rules :
        /\ rules[i].on
        /\ rules[i].body.do = "forward" => up["other"]
        /\ rules[i].body.do = "rewrite" => up["default"]
        /\ \A n \in DOMAIN rules[i].body.when : Accepts(rules[i].body.when[n], r)}

\* translateMatchers and the priority order: what Caddy answers is what the
\* enabled rule of the smallest priority says among those whose matchers all
\* accept the request, and the default group's answer when there is none. It
\* is stated for requests no earlier check turns away, and Bodies have at most
\* one matcher for a field.
FirstRuleWins ==
    LET routes == InnerRoutes IN
    \A r \in Requests :
        r.trips = {} /\ (lan => r.client = "lan") =>
            LET fit == Candidates(r) IN
            IF fit = {}
            THEN Answer(routes, r) = IF up["default"] THEN "default" ELSE "no backend"
            ELSE \E i \in fit :
                     /\ \A j \in fit : rules[i].prio =< rules[j].prio
                     /\ Answer(routes, r) = Said(rules[i].body.do)

\* The lan_only gate and the pre-handlers: no upstream and no rule answers a
\* request from outside on a LAN-only host, or one that a check of the host
\* turns away, whatever rules the host has.
NothingUnchecked ==
    LET routes == InnerRoutes IN
    \A r \in Requests :
        Answer(routes, r) \notin {"crowdsec", "appsec", "rate_limit", "waf",
                          "forward_auth", "lan_only"} =>
            /\ lan => r.client = "lan"
            /\ r.trips \cap gates \subseteq {"appsec"}
            /\ "crowdsec" \in gates => r.trips \cap gates = {}

\* "a banned IP or WAF ban should not reach the panel at all": the sign-in
\* check, which asks the panel, sees no request the bouncer, AppSec, the rate
\* limit or the WAF turns away.
PanelIsSpared ==
    \A r \in Requests :
        "forward_auth" \in Range(Seen(r)) =>
            r.trips \cap Range(PreHandlers) \subseteq {"forward_auth"}

\* ReorderRules: a list that names every rule once is never refused, and it
\* stays the order of those rules until one of them gets another priority;
\* rules made, removed or switched afterwards do not disturb it.
ReorderTakes ==
    wanted # <<>> => wanted = ByPriority(Range(wanted))
=============================================================================
