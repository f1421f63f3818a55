-------------------------------- MODULE Routing --------------------------------
(* The proxy over child tool registries, and one call through it               *)
(* (contrib/simple_tool_registry/registry.py; contrib/plugins/runner.py builds *)
(* the proxy).  get_tools asks the children one by one, with an await between, *)
(* and stores a route per conversation; create_execution uses the route of the *)
(* round; decide and prepare warm a cold one first, once.                      *)
EXTENDS Integers, Sequences

CONSTANTS
  Threads,       \* conversations
  Children,      \* child registries, in the order they are composed
  Names,         \* tool names
  Requests,      \* tool calls
  RequestOf,     \* [Requests -> the call: its conversation, its tool's name, how it is born]
  Offerings,     \* what the children may offer: a set of [Threads -> Children -> names]
  MaxBoots,      \* bound: restarts
  NoChild

\* A child that offers a tool finds it when the call is made, and no child is nobody.
ASSUME RoutingAssumption ==
  /\ Threads \cap Requests = {}
  /\ \A k \in Requests : RequestOf[k].thread \in Threads /\ RequestOf[k].name \in Names
                          /\ RequestOf[k].born # "NOT_FOUND"
  /\ \A i \in 1..Len(Children) : Children[i] # NoChild

VARIABLES
  offered,    \* what each child offers to each conversation
  composed,   \* how many of the children this process composes
  routes,     \* ProxyToolRegistry._routes
  warmed,     \* ProxyToolRegistry._warmed
  survey,     \* get_tools calls under way, by the conversation or call they serve
  call,       \* the executions: status, who prepared them, when they were allowed
  boots

routingVars == <<offered, composed, routes, warmed, survey, call, boots>>

Callers == Threads \cup Requests
Thread(x) == IF x \in Threads THEN x ELSE RequestOf[x].thread
NoRoute == [n \in Names |-> NoChild]
NoSurvey == [next |-> 0, route |-> NoRoute]

Lookup(rs, k) == rs[RequestOf[k].thread][RequestOf[k].name]

\* decide: the child's policy answers; nobody to ask is an ALLOW, "unrouted".
Decides(k, child, said) ==
  IF child = NoChild THEN [call[k] EXCEPT !.status = "ALLOWED", !.via = "unrouted", !.boot = boots]
  ELSE [call[k] EXCEPT !.status = said, !.via = "policy", !.boot = boots]

\* prepare: the child's closure, or ToolNotFound.
Prepares(k, child) ==
  IF child = NoChild THEN [call[k] EXCEPT !.status = "NOT_FOUND"]
  ELSE [call[k] EXCEPT !.status = "RAN", !.by = child]

Settles(k, child) ==
  \E said \in {"ALLOWED", "REJECTED", "PENDING"} :
    call' = [call EXCEPT ![k] = IF @.status = "PENDING" THEN Decides(k, child, said) ELSE Prepares(k, child)]

Live(k) == call[k].status \in {"PENDING", "ALLOWED"} /\ survey[k] = NoSurvey

\* Mutant: the conversation of a call is never surveyed before it is answered.
NeverCold(k) == FALSE

IsCold(k) == Lookup(routes, k) = NoChild /\ RequestOf[k].thread \notin warmed

\* decide, or prepare once allowed, over a route that needs no warming.
Consult(k) ==
  /\ Live(k) /\ ~IsCold(k)
  /\ Settles(k, Lookup(routes, k))
  /\ UNCHANGED <<offered, composed, routes, warmed, survey, boots>>

\* get_tools, for a model round that brings a call, or for a call on a cold route.
StartSurvey(x) ==
  /\ survey[x] = NoSurvey
  /\ IF x \in Requests THEN Live(x) /\ IsCold(x)
     ELSE \E k \in Requests : RequestOf[k].thread = x /\ call[k].status = "unborn"
  /\ survey' = [survey EXCEPT ![x].next = 1]
  /\ UNCHANGED <<offered, composed, routes, warmed, call, boots>>

\* One child answers: its names join the route, unless one of them is taken, and
\* then nothing is stored.
AskChild(x) ==
  LET child == Children[survey[x].next]
      names == offered[Thread(x)][child]
      route == survey[x].route IN
  /\ survey[x].next \in 1..composed
  /\ survey' = [survey EXCEPT ![x] =
       IF \E n \in names : route[n] # NoChild THEN NoSurvey
       ELSE [next |-> @.next + 1, route |-> [n \in Names |-> IF n \in names THEN child ELSE route[n]]]]
  /\ UNCHANGED <<offered, composed, routes, warmed, call, boots>>

Remember(t, route) == [routes EXCEPT ![t] = route]

\* The last child has answered: the route is stored, and a call goes on with it.
Surveyed(x) ==
  /\ survey[x].next = composed + 1
  /\ routes' = Remember(Thread(x), survey[x].route)
  /\ warmed' = warmed \cup {Thread(x)}
  /\ survey' = [survey EXCEPT ![x] = NoSurvey]
  /\ IF x \in Threads THEN UNCHANGED call ELSE Settles(x, Lookup(routes', x))
  /\ UNCHANGED <<offered, composed, boots>>

\* create_execution, in a process that collected the conversation's tools.
Born(k) ==
  /\ call[k].status = "unborn" /\ RequestOf[k].thread \in warmed
  /\ call' = [call EXCEPT ![k].status =
                IF Lookup(routes, k) = NoChild THEN "NOT_FOUND" ELSE RequestOf[k].born]
  /\ UNCHANGED <<offered, composed, routes, warmed, survey, boots>>

\* A new process over the saved session: its proxy may be given one child more.
Boot(n) ==
  /\ boots < MaxBoots /\ n \in {composed, composed + 1} \cap 1..Len(Children)
  /\ composed' = n /\ boots' = boots + 1
  /\ routes' = [t \in Threads |-> NoRoute] /\ warmed' = {} /\ survey' = [x \in Callers |-> NoSurvey]
  /\ UNCHANGED <<offered, call>>

RoutingInit ==
  /\ offered \in Offerings /\ composed \in 1..Len(Children)
  /\ routes = [t \in Threads |-> NoRoute] /\ warmed = {} /\ survey = [x \in Callers |-> NoSurvey]
  /\ call = [k \in Requests |-> [status |-> "unborn", via |-> "none", by |-> NoChild, boot |-> 0]]
  /\ boots = 0

RoutingNext ==
  \/ \E x \in Callers : StartSurvey(x) \/ AskChild(x) \/ Surveyed(x)
  \/ \E k \in Requests : Consult(k) \/ Born(k)
  \/ \E n \in 1..Len(Children) : Boot(n)

RoutingSpec == RoutingInit /\ [][RoutingNext]_routingVars

(* -------------------------------- properties -------------------------------- *)

\* ProxyToolRegistry: a call is run by a child that offers the tool to that
\* conversation; one it withholds from a subagent is not run there on the route
\* of another conversation.
WithheldIsNeverRun ==
  \A k \in Requests : call[k].by # NoChild => RequestOf[k].name \in offered[Thread(k)][call[k].by]

\* decide says ALLOW for a call nobody answers for, because prepare will then not
\* find it either: in the process that said so, such a call never runs.
UnroutedNeverRuns ==
  \A k \in Requests : call[k].status = "RAN" /\ call[k].via = "unrouted" => call[k].boot < boots

\* _resolve: a tool that a composed child offers to the conversation is found,
\* whether this process has collected its tools yet or not.
OfferedIsFound == [][\A k \in Requests :
  call[k].status # "NOT_FOUND" /\ call'[k].status = "NOT_FOUND" =>
    \A i \in 1..composed : RequestOf[k].name \notin offered[Thread(k)][Children[i]]]_routingVars

\* A call runs where it is offered, and only where it was decided.
RoutingSound == [](WithheldIsNeverRun /\ UnroutedNeverRuns) /\ OfferedIsFound

===============================================================================
