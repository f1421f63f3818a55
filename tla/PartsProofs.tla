----------------------------- MODULE PartsProofs -----------------------------
(* Parts with a state of their own, for every instance of them: the terminal,   *)
(* the routing of a call between tool registries, the files, the memory plugin, *)
(* the checkpoints and the questions.                                           *)
EXTENDS Terminal, Routing, Files, Memory, Checkpoints, Questions,
        FiniteSetTheorems, SequenceTheorems, TLAPS

-----------------------------------------------------------------------------
(* The terminal drives what is due, knows that it does, and asks nobody about a *)
(* turn that was cancelled, for every number of messages, overlays and failures. *)

\* A session that is not blocked waits for nobody, nor does one read from the file;
\* a tool this app did not install is never answered here.
HoldsInv ==
  /\ turn # "blocked" => holds = {}
  /\ saved[1] # "blocked" => saved[2] = {}
  /\ "foreign" \notin answered

\* The future is the worker's: whoever resolves it finds the worker awaiting it.
FutureInv == future # "none" => worker = "asking"

TerminalInv == HoldsInv /\ FutureInv /\ TerminalSound

\* A new session keeps the invariant.
LEMMA TerminalInitInv == TerminalInit => TerminalInv
BY DEF TerminalInit, TerminalInv, HoldsInv, FutureInv, TerminalSound, DueIsDriven, DrivingIsTrue, CancelledIsNotAsked, Unanswered

\* Every step of the worker keeps it: it stops only when nothing is due, or at a
\* tool nobody here can answer.
LEMMA WorkerInv ==
  ASSUME TerminalInv, Top \/ RunEnds \/ AskApproval \/ AskRetry \/ AskQuestions
  PROVE  TerminalInv'
<1> USE DEF TerminalInv, HoldsInv, FutureInv, TerminalSound, DueIsDriven, DrivingIsTrue, CancelledIsNotAsked,
            Unanswered, session, limits
<1>1. CASE Top
  BY <1>1 DEF Top, StopDrive
<1>2. CASE RunEnds
  BY <1>2 DEF RunEnds
<1>3. CASE AskApproval
  BY <1>3 DEF AskApproval, Prompts
<1>4. CASE AskRetry
  BY <1>4 DEF AskRetry, Prompts
<1>5. CASE AskQuestions
  BY <1>5 DEF AskQuestions, AskWhatIsParked, Prompts, StopDrive
<1> QED BY <1>1, <1>2, <1>3, <1>4, <1>5

\* Every answer of the user keeps it: the worker that awaited it goes on.
LEMMA AnswerInv ==
  ASSUME TerminalInv, Approve \/ Retry \/ AnswerQuestions
  PROVE  TerminalInv'
<1> USE DEF TerminalInv, HoldsInv, FutureInv, TerminalSound, DueIsDriven, DrivingIsTrue, CancelledIsNotAsked,
            Unanswered, limits, Resolved
<1>1. CASE Approve
  BY <1>1 DEF Approve
<1>2. CASE Retry
  BY <1>2 DEF Retry
<1>3. CASE AnswerQuestions
  BY <1>3 DEF AnswerQuestions
<1> QED BY <1>1, <1>2, <1>3

\* Every handler keeps it, whatever the worker does meanwhile, and so does a new
\* process over the saved session.
LEMMA HandlerInv ==
  ASSUME TerminalInv,
         \/ Submit \/ StartUnlessDriving \/ CancelKey
         \/ OpenOverlay \/ OverlayKey \/ HandleOverlay \/ Reopen
  PROVE  TerminalInv'
<1> USE DEF TerminalInv, HoldsInv, FutureInv, TerminalSound, DueIsDriven, DrivingIsTrue, CancelledIsNotAsked,
            Unanswered, session, limits
<1>1. CASE Submit
  BY <1>1 DEF Submit
<1>2. CASE StartUnlessDriving
  BY <1>2 DEF StartUnlessDriving, StartDrive
<1>3. CASE CancelKey
  BY <1>3 DEF CancelKey
<1>4. CASE OpenOverlay \/ OverlayKey \/ HandleOverlay
  BY <1>4 DEF OpenOverlay, OverlayKey, HandleOverlay
<1>5. CASE Reopen
  BY <1>5 DEF Reopen, StartDrive, StopDrive
<1> QED BY <1>1, <1>2, <1>3, <1>4, <1>5

\* The terminal (contrib/tui/app.py): a session with work to do, or whose every
\* prompt is answered, has a worker or a handler about to start one; _driving is
\* true exactly while there is a worker; no question is asked for a cancelled turn.
THEOREM TerminalIsSound == TerminalSpec => []TerminalSound
<1>1. TerminalInit => TerminalInv
  BY TerminalInitInv
<1>2. TerminalInv /\ [TerminalNext]_terminalVars => TerminalInv'
  <2> SUFFICES ASSUME TerminalInv, [TerminalNext]_terminalVars PROVE TerminalInv'
    OBVIOUS
  <2>1. CASE TerminalNext
    BY <2>1, WorkerInv, AnswerInv, HandlerInv DEF TerminalNext
  <2>2. CASE UNCHANGED terminalVars
    BY <2>2 DEF terminalVars, session, limits, TerminalInv, HoldsInv, FutureInv, TerminalSound,
                DueIsDriven, DrivingIsTrue, CancelledIsNotAsked, Unanswered
  <2> QED BY <2>1, <2>2
<1>3. TerminalInv => TerminalSound
  BY DEF TerminalInv
<1> QED BY <1>1, <1>2, <1>3, PTL DEF TerminalSpec
-----------------------------------------------------------------------------
(* A call runs where it is offered, and only where it was decided, for every   *)
(* set of conversations, children, offerings and calls.                        *)

Targets == {NoChild} \cup {Children[i] : i \in 1..Len(Children)}
Routed == [Names -> Targets]
Statuses == {"unborn", "PENDING", "ALLOWED", "REJECTED", "NOT_FOUND", "RAN"} \cup {RequestOf[k].born : k \in Requests}
Executions == [status : Statuses, via : {"none", "policy", "unrouted"}, by : Targets, boot : Nat]

\* RoutingTypes, in full.
RoutingTypes ==
  /\ composed \in 1..Len(Children) /\ boots \in Nat
  /\ routes \in [Threads -> Routed]
  /\ survey \in [Callers -> [next : Nat, route : Routed]]
  /\ call \in [Requests -> Executions]

Offers(t, n, i) == n \in offered[t][Children[i]]
Served(t, n, child) == \E i \in 1..composed : child = Children[i] /\ Offers(t, n, i)
Unserved(t, n) == \A i \in 1..composed : ~Offers(t, n, i)

\* A stored route names a composed child that offers the tool, and once the
\* conversation is warm its gaps are tools nobody composed offers.
RouteInv == \A t \in Threads, n \in Names :
  /\ routes[t][n] # NoChild => Served(t, n, routes[t][n])
  /\ t \in warmed /\ routes[t][n] = NoChild => Unserved(t, n)

\* A survey under way knows as much of the children it has asked.
SurveyInv == \A x \in Callers, n \in Names :
  /\ survey[x].route[n] # NoChild => Served(Thread(x), n, survey[x].route[n])
  /\ survey[x].route[n] = NoChild =>
       \A i \in 1..composed : i < survey[x].next => ~Offers(Thread(x), n, i)

RoutedName(k) == RequestOf[k].name

\* What is recorded of a call: who ran it offers it, and a verdict of this process
\* that nobody was asked for is about a tool nobody offers.
RecordOK(k, e) ==
  /\ e.by # NoChild => RoutedName(k) \in offered[Thread(k)][e.by]
  /\ e.boot <= boots
  /\ e.via = "unrouted" => e.status \in {"ALLOWED", "NOT_FOUND", "RAN"}
  /\ e.via = "unrouted" /\ e.status = "ALLOWED" /\ e.boot = boots => Unserved(Thread(k), RoutedName(k))
  /\ e.via = "unrouted" /\ e.status = "RAN" => e.boot < boots
RoutedCallInv == \A k \in Requests : RecordOK(k, call[k])

\* A call whose conversation is being surveyed for it waits for the survey.
LiveInv == \A k \in Requests : survey[k].next > 0 => call[k].status \in {"PENDING", "ALLOWED"}

RoutingInv == RoutingTypes /\ RouteInv /\ SurveyInv /\ RoutedCallInv /\ LiveInv

\* A call that is not found is one nobody offers.
NotFoundStep == \A k \in Requests :
  call[k].status # "NOT_FOUND" /\ call'[k].status = "NOT_FOUND" => Unserved(Thread(k), RoutedName(k))
FoundStep == \A k \in Requests :
  call[k].status # "NOT_FOUND" /\ call'[k].status = "NOT_FOUND" =>
    \A i \in 1..composed : RequestOf[k].name \notin offered[Thread(k)][Children[i]]

\* The conversation of a call is the one its request names.
LEMMA ThreadOf == \A k \in Requests : Thread(k) = RequestOf[k].thread /\ Thread(k) \in Threads /\ RoutedName(k) \in Names
BY RoutingAssumption DEF Thread, RoutedName

\* The conversation a survey is for.
LEMMA ThreadOfCaller == \A x \in Callers : Thread(x) \in Threads
BY RoutingAssumption DEF Thread, Callers

\* Every process starts with nothing collected.
LEMMA RoutingInitInv == RoutingInit => RoutingInv
<1> SUFFICES ASSUME RoutingInit PROVE RoutingInv
  OBVIOUS
<1> USE DEF RoutingInit
<1>1. NoRoute \in Routed
  BY DEF NoRoute, Routed, Targets
<1>2. RoutingTypes
  <2>1. survey \in [Callers -> [next : Nat, route : Routed]]
    BY <1>1 DEF NoSurvey
  <2>2. call \in [Requests -> Executions]
    BY DEF Executions, Statuses, Targets
  <2> QED BY <1>1, <2>1, <2>2 DEF RoutingTypes
<1>3. RouteInv
  BY DEF RouteInv, NoRoute
<1>4. SurveyInv
  BY DEF SurveyInv, NoSurvey, NoRoute
<1>5. RoutedCallInv
  BY DEF RoutedCallInv, RecordOK
<1>6. LiveInv
  BY DEF LiveInv, NoSurvey, Callers
<1> QED BY <1>2, <1>3, <1>4, <1>5, <1>6 DEF RoutingInv

\* decide and prepare, over what a whole survey says of the call: the record stays
\* right, and a call that is not found is one nobody offers.
LEMMA SettlesKeeps ==
  ASSUME NEW k \in Requests, NEW child \in Targets, RoutingTypes, RoutedCallInv, Settles(k, child),
         call[k].status \in {"PENDING", "ALLOWED"},
         child # NoChild => Served(Thread(k), RoutedName(k), child),
         child = NoChild => Unserved(Thread(k), RoutedName(k)),
         UNCHANGED <<offered, composed, boots>>
  PROVE  /\ call' \in [Requests -> Executions] /\ RoutedCallInv' /\ NotFoundStep
         /\ \A j \in Requests \ {k} : call'[j] = call[j]
<1> DEFINE e == call[k]
<1>1. PICK replied \in {"ALLOWED", "REJECTED", "PENDING"} :
        call' = [call EXCEPT ![k] = IF @.status = "PENDING" THEN Decides(k, child, replied) ELSE Prepares(k, child)]
  BY DEF Settles
<1>2. e \in Executions /\ RecordOK(k, e)
  BY DEF RoutingTypes, RoutedCallInv
<1>3. /\ Decides(k, child, replied) \in Executions
      /\ e.status = "PENDING" => RecordOK(k, Decides(k, child, replied))
      /\ Decides(k, child, replied).status # "NOT_FOUND"
  <2>0. {"ALLOWED", "REJECTED", "PENDING"} \subseteq Statuses /\ boots \in Nat
    BY DEF Statuses, RoutingTypes
  <2>1. CASE child = NoChild
    <3> DEFINE d == [e EXCEPT !.status = "ALLOWED", !.via = "unrouted", !.boot = boots]
    <3>1. d \in Executions
      BY <1>2, <2>0 DEF Executions
    <3>2. d.status = "ALLOWED" /\ d.via = "unrouted" /\ d.boot = boots /\ d.by = e.by
      BY <1>2 DEF Executions
    <3>3. RecordOK(k, d)
      BY <2>1, <3>2, <2>0, <1>2 DEF RecordOK
    <3> QED BY <2>1, <3>1, <3>2, <3>3 DEF Decides
  <2>2. CASE child # NoChild
    <3> DEFINE d == [e EXCEPT !.status = replied, !.via = "policy", !.boot = boots]
    <3>1. d \in Executions
      BY <1>2, <2>0 DEF Executions
    <3>2. d.status = replied /\ d.via = "policy" /\ d.boot = boots /\ d.by = e.by
      BY <1>2 DEF Executions
    <3>3. RecordOK(k, d)
      BY <3>2, <2>0, <1>2 DEF RecordOK
    <3> QED BY <2>2, <3>1, <3>2, <3>3 DEF Decides
  <2> QED BY <2>1, <2>2
<1>4. /\ Prepares(k, child) \in Executions
      /\ e.status = "ALLOWED" => RecordOK(k, Prepares(k, child))
      /\ Prepares(k, child).status = "NOT_FOUND" => child = NoChild
  <2>0. {"NOT_FOUND", "RAN"} \subseteq Statuses /\ boots \in Nat
    BY DEF Statuses, RoutingTypes
  <2>1. CASE child = NoChild
    <3> DEFINE d == [e EXCEPT !.status = "NOT_FOUND"]
    <3>1. d \in Executions
      BY <1>2, <2>0 DEF Executions
    <3>2. d.status = "NOT_FOUND" /\ d.via = e.via /\ d.boot = e.boot /\ d.by = e.by
      BY <1>2 DEF Executions
    <3>3. RecordOK(k, d)
      BY <3>2, <1>2 DEF RecordOK
    <3> QED BY <2>1, <3>1, <3>2, <3>3 DEF Prepares
  <2>2. CASE child # NoChild
    <3> DEFINE d == [e EXCEPT !.status = "RAN", !.by = child]
    <3>1. d \in Executions
      BY <1>2, <2>0 DEF Executions
    <3>2. d.status = "RAN" /\ d.via = e.via /\ d.boot = e.boot /\ d.by = child
      BY <1>2 DEF Executions
    <3>3. RoutedName(k) \in offered[Thread(k)][child] /\ ~Unserved(Thread(k), RoutedName(k))
      BY <2>2 DEF Served, Unserved, Offers
    <3>4. e.boot \in Nat
      BY <1>2 DEF Executions
    <3>5. e.status = "ALLOWED" => RecordOK(k, d)
      BY <3>2, <3>3, <3>4, <2>0, <1>2 DEF RecordOK
    <3> QED BY <2>2, <3>1, <3>2, <3>5 DEF Prepares
  <2> QED BY <2>1, <2>2
<1>5. call' \in [Requests -> Executions]
  BY <1>1, <1>3, <1>4 DEF RoutingTypes
<1>6. \A j \in Requests : RecordOK(j, call'[j])
  BY <1>1, <1>3, <1>4 DEF RoutingTypes, RoutedCallInv
<1>7. \A j \in Requests : RecordOK(j, call'[j]) => RecordOK(j, call[j])'
  BY DEF RecordOK, Unserved, Offers, Thread, RoutedName
<1>8. NotFoundStep
  BY <1>1, <1>3, <1>4 DEF NotFoundStep, RoutingTypes
<1>9. \A j \in Requests \ {k} : call'[j] = call[j]
  BY <1>1 DEF RoutingTypes
<1> QED BY <1>5, <1>6, <1>7, <1>8, <1>9 DEF RoutedCallInv

\* A route that is used needs no warming: what it says of the call is whole.
LEMMA RouteIsWhole ==
  ASSUME NEW k \in Requests, RoutingTypes, RouteInv, ~IsCold(k)
  PROVE  /\ Lookup(routes, k) \in Targets
         /\ Lookup(routes, k) # NoChild => Served(Thread(k), RoutedName(k), Lookup(routes, k))
         /\ Lookup(routes, k) = NoChild => Unserved(Thread(k), RoutedName(k))
BY ThreadOf DEF RoutingTypes, RouteInv, IsCold, Lookup, Routed, RoutedName

\* decide or prepare over such a route.
LEMMA ConsultStep ==
  ASSUME RoutingInv, NEW k \in Requests, Consult(k) PROVE RoutingInv' /\ NotFoundStep
<1>1. /\ call' \in [Requests -> Executions] /\ RoutedCallInv' /\ NotFoundStep
      /\ \A j \in Requests \ {k} : call'[j] = call[j]
  BY RouteIsWhole, SettlesKeeps DEF RoutingInv, Consult, Live
<1>2. survey[k].next = 0
  BY DEF Consult, Live, NoSurvey
<1>3. UNCHANGED <<offered, composed, routes, warmed, survey, boots>>
  BY DEF Consult
<1>4. RoutingTypes' /\ RouteInv' /\ SurveyInv'
  BY <1>1, <1>3 DEF RoutingInv, RoutingTypes, RouteInv, SurveyInv, Served, Unserved, Offers, Thread
<1>5. LiveInv'
  BY <1>1, <1>2, <1>3 DEF RoutingInv, LiveInv
<1> QED BY <1>1, <1>4, <1>5 DEF RoutingInv

\* A survey begins with nothing asked and nothing known.
LEMMA StartSurveyStep ==
  ASSUME RoutingInv, NEW x \in Callers, StartSurvey(x) PROVE RoutingInv' /\ NotFoundStep
<1> USE DEF RoutingInv, StartSurvey
<1>1. RoutingTypes'
  BY DEF RoutingTypes
<1>2. RouteInv' /\ RoutedCallInv' /\ NotFoundStep
  BY DEF RouteInv, RoutedCallInv, RecordOK, NotFoundStep, Served, Unserved, Offers, Thread, RoutedName
<1>3. survey'[x] = [next |-> 1, route |-> NoRoute] /\ \A y \in Callers \ {x} : survey'[y] = survey[y]
  BY DEF RoutingTypes, NoSurvey
<1>4. SurveyInv'
  <2> SUFFICES ASSUME NEW y \in Callers, NEW n \in Names
               PROVE  /\ survey'[y].route[n] # NoChild => Served(Thread(y), n, survey'[y].route[n])
                      /\ survey'[y].route[n] = NoChild =>
                           \A i \in 1..composed : i < survey'[y].next => ~Offers(Thread(y), n, i)
    BY DEF SurveyInv, Served, Offers, Thread
  <2>1. CASE y = x
    BY <2>1, <1>3 DEF NoRoute
  <2>2. CASE y # x
    BY <2>2, <1>3 DEF SurveyInv
  <2> QED BY <2>1, <2>2
<1>5. LiveInv'
  BY <1>3 DEF LiveInv, Live, Callers
<1> QED BY <1>1, <1>2, <1>4, <1>5

\* A child answers: its tools join the survey, or a taken name ends it.
LEMMA AskChildStep ==
  ASSUME RoutingInv, NEW x \in Callers, AskChild(x) PROVE RoutingInv' /\ NotFoundStep
<1> DEFINE at == survey[x].next
           child == Children[at]
           names == offered[Thread(x)][child]
           route == survey[x].route
           known == [n \in Names |-> IF n \in names THEN child ELSE route[n]]
<1> USE DEF RoutingInv
<1>1. at \in 1..composed /\ at \in Nat /\ child \in Targets /\ child # NoChild /\ route \in Routed
  BY RoutingAssumption DEF AskChild, RoutingTypes, Targets
<1>2. survey' = [survey EXCEPT ![x] = IF \E n \in names : route[n] # NoChild THEN NoSurvey
                                    ELSE [next |-> at + 1, route |-> known]]
  BY DEF AskChild, RoutingTypes
<1>3. known \in Routed /\ NoRoute \in Routed
  BY <1>1 DEF Routed, NoRoute, Targets
<1>4. RoutingTypes'
  BY <1>1, <1>2, <1>3 DEF AskChild, RoutingTypes, NoSurvey
<1>5. RouteInv' /\ RoutedCallInv' /\ NotFoundStep
  BY DEF AskChild, RouteInv, RoutedCallInv, RecordOK, NotFoundStep, Served, Unserved, Offers, Thread, RoutedName
<1>6. SurveyInv'
  <2> SUFFICES ASSUME NEW y \in Callers, NEW n \in Names
               PROVE  /\ survey'[y].route[n] # NoChild => Served(Thread(y), n, survey'[y].route[n])
                      /\ survey'[y].route[n] = NoChild =>
                           \A i \in 1..composed : i < survey'[y].next => ~Offers(Thread(y), n, i)
    BY DEF AskChild, SurveyInv, Served, Offers, Thread
  <2>1. CASE y # x
    BY <2>1, <1>2 DEF SurveyInv, RoutingTypes
  <2>2. CASE y = x /\ \E m \in names : route[m] # NoChild
    BY <2>2, <1>2 DEF RoutingTypes, NoSurvey, NoRoute
  <2>3. CASE y = x /\ ~\E m \in names : route[m] # NoChild
    <3>1. survey'[x].next = at + 1 /\ survey'[x].route[n] = IF n \in names THEN child ELSE route[n]
      BY <2>3, <1>2 DEF RoutingTypes
    <3>2. CASE n \in names
      BY <2>3, <3>1, <3>2, <1>1 DEF Served, Offers
    <3>3. CASE n \notin names
      <4>1. route[n] # NoChild => Served(Thread(x), n, route[n])
        BY DEF SurveyInv
      <4>2. route[n] = NoChild => \A i \in 1..composed : i < at + 1 => ~Offers(Thread(x), n, i)
        BY <3>3, <1>1 DEF SurveyInv, Offers, RoutingTypes
      <4> QED BY <2>3, <3>1, <3>3, <4>1, <4>2
    <3> QED BY <3>2, <3>3
  <2> QED BY <2>1, <2>2, <2>3
<1>7. LiveInv'
  BY <1>1, <1>2 DEF AskChild, LiveInv, NoSurvey, RoutingTypes, Callers
<1> QED BY <1>4, <1>5, <1>6, <1>7

\* The last child has answered: the route is whole, and a call goes on with it.
LEMMA SurveyedStep ==
  ASSUME RoutingInv, NEW x \in Callers, Surveyed(x) PROVE RoutingInv' /\ NotFoundStep
<1> DEFINE t == Thread(x)
           route == survey[x].route
<1> USE DEF RoutingInv
<1>1. t \in Threads /\ route \in Routed /\ composed \in Nat
  BY ThreadOfCaller DEF RoutingTypes
<1>2. routes' = [routes EXCEPT ![t] = route] /\ warmed' = warmed \cup {t}
  BY DEF Surveyed, Remember
<1>3. survey' = [survey EXCEPT ![x] = NoSurvey] /\ UNCHANGED <<offered, composed, boots>>
  BY DEF Surveyed
<1>4. \A n \in Names : /\ route[n] # NoChild => Served(t, n, route[n])
                       /\ route[n] = NoChild => Unserved(t, n)
  BY <1>1 DEF SurveyInv, Surveyed, Unserved
<1>5. RouteInv'
  <2> SUFFICES ASSUME NEW u \in Threads, NEW n \in Names
               PROVE  /\ routes'[u][n] # NoChild => Served(u, n, routes'[u][n])
                      /\ u \in warmed' /\ routes'[u][n] = NoChild => Unserved(u, n)
    BY <1>3 DEF RouteInv, Served, Unserved, Offers
  <2>1. CASE u = t
    BY <2>1, <1>1, <1>2, <1>4 DEF RoutingTypes
  <2>2. CASE u # t
    BY <2>2, <1>2 DEF RoutingTypes, RouteInv
  <2> QED BY <2>1, <2>2
<1>6. SurveyInv'
  <2> SUFFICES ASSUME NEW y \in Callers, NEW n \in Names
               PROVE  /\ survey'[y].route[n] # NoChild => Served(Thread(y), n, survey'[y].route[n])
                      /\ survey'[y].route[n] = NoChild =>
                           \A i \in 1..composed : i < survey'[y].next => ~Offers(Thread(y), n, i)
    BY <1>3 DEF SurveyInv, Served, Offers, Thread
  <2>1. CASE y = x
    BY <2>1, <1>3 DEF RoutingTypes, NoSurvey, NoRoute
  <2>2. CASE y # x
    BY <2>2, <1>3 DEF RoutingTypes, SurveyInv
  <2> QED BY <2>1, <2>2
<1>7. /\ call' \in [Requests -> Executions] /\ RoutedCallInv' /\ NotFoundStep
      /\ \A j \in Requests \ {x} : call'[j] = call[j]
  <2>1. CASE x \in Threads
    BY <2>1, <1>3 DEF Surveyed, RoutingTypes, RoutedCallInv, RecordOK, NotFoundStep, Unserved, Offers, Thread, RoutedName
  <2>2. CASE x \notin Threads
    <3>1. x \in Requests /\ t = RequestOf[x].thread /\ RoutedName(x) \in Names
      BY <2>2, ThreadOf DEF Callers
    <3>2. Lookup(routes', x) = route[RoutedName(x)]
      BY <3>1, <1>1, <1>2 DEF Lookup, RoutedName, RoutingTypes
    <3>3. route[RoutedName(x)] \in Targets
      BY <3>1, <1>1 DEF Routed
    <3>4. call[x].status \in {"PENDING", "ALLOWED"}
      BY <3>1, <1>1 DEF Surveyed, LiveInv, RoutingTypes
    <3>5. Settles(x, route[RoutedName(x)])
      BY <2>2, <3>2 DEF Surveyed
    <3> QED BY <3>1, <3>3, <3>4, <3>5, <1>3, <1>4, SettlesKeeps
  <2> QED BY <2>1, <2>2
<1>8. LiveInv'
  BY <1>3, <1>7 DEF LiveInv, RoutingTypes, NoSurvey, Callers
<1>9. RoutingTypes'
  <2>1. NoSurvey \in [next : Nat, route : Routed]
    BY DEF NoSurvey, NoRoute, Routed, Targets
  <2> QED BY <2>1, <1>1, <1>2, <1>3, <1>7 DEF RoutingTypes
<1> QED BY <1>5, <1>6, <1>7, <1>8, <1>9

\* A call is born in a process that knows its conversation's tools.
LEMMA BornStep ==
  ASSUME RoutingInv, NEW k \in Requests, Born(k) PROVE RoutingInv' /\ NotFoundStep
<1> DEFINE e == call[k]
           d == [e EXCEPT !.status = IF Lookup(routes, k) = NoChild THEN "NOT_FOUND" ELSE RequestOf[k].born]
<1> USE DEF RoutingInv
<1>1. call' = [call EXCEPT ![k] = d] /\ UNCHANGED <<offered, composed, routes, warmed, survey, boots>>
  BY DEF Born, RoutingTypes
<1>2. e \in Executions /\ RecordOK(k, e) /\ e.status = "unborn"
  BY DEF Born, RoutingTypes, RoutedCallInv
<1>3. d \in Executions /\ d.via = e.via /\ d.by = e.by /\ d.boot = e.boot
  BY <1>2 DEF Executions, Statuses
<1>4. e.via # "unrouted"
  BY <1>2 DEF RecordOK
<1>5. RecordOK(k, d)
  BY <1>2, <1>3, <1>4 DEF RecordOK
<1>6. RoutedCallInv'
  <2>1. \A j \in Requests : RecordOK(j, call'[j])
    BY <1>1, <1>5 DEF RoutingTypes, RoutedCallInv
  <2> QED BY <2>1, <1>1 DEF RoutedCallInv, RecordOK, Unserved, Offers, Thread, RoutedName
<1>7. RoutingTypes' /\ RouteInv' /\ SurveyInv'
  BY <1>1, <1>3 DEF RoutingTypes, RouteInv, SurveyInv, Served, Unserved, Offers, Thread
<1>8. LiveInv'
  <2>1. \A j \in Requests : survey[j].next > 0 => j # k
    BY <1>2 DEF LiveInv
  <2> QED BY <2>1, <1>1 DEF LiveInv, RoutingTypes
<1>9. NotFoundStep
  <2>1. Lookup(routes, k) = NoChild => Unserved(Thread(k), RoutedName(k))
    BY ThreadOf DEF Born, RouteInv, Lookup, RoutedName
  <2>2. d.status = "NOT_FOUND" => Lookup(routes, k) = NoChild
    BY RoutingAssumption, <1>2 DEF Executions
  <2> QED BY <2>1, <2>2, <1>1 DEF NotFoundStep, RoutingTypes
<1> QED BY <1>6, <1>7, <1>8, <1>9

\* A new process knows no route, and its calls are of an earlier one.
LEMMA BootStep ==
  ASSUME RoutingInv, NEW n \in 1..Len(Children), Boot(n) PROVE RoutingInv' /\ NotFoundStep
<1> USE DEF RoutingInv, Boot
<1>1. NoRoute \in Routed /\ NoSurvey \in [next : Nat, route : Routed]
  BY DEF NoSurvey, NoRoute, Routed, Targets
<1>2. RoutingTypes'
  BY <1>1 DEF RoutingTypes
<1>3. RouteInv' /\ SurveyInv'
  BY DEF RouteInv, SurveyInv, NoRoute, NoSurvey
<1>4. RoutedCallInv'
  <2> SUFFICES ASSUME NEW k \in Requests PROVE RecordOK(k, call[k])'
    BY DEF RoutedCallInv
  <2>1. RecordOK(k, call[k]) /\ call[k].boot \in Nat /\ boots \in Nat /\ boots' = boots + 1
    BY DEF RoutedCallInv, RoutingTypes, Executions
  <2> QED BY <2>1 DEF RecordOK, Thread, RoutedName
<1>5. LiveInv' /\ NotFoundStep
  BY DEF LiveInv, NotFoundStep, NoSurvey, Callers
<1> QED BY <1>2, <1>3, <1>4, <1>5

\* Every step keeps the invariant and finds what is offered.
LEMMA RoutingStep == RoutingInv /\ [RoutingNext]_routingVars => RoutingInv' /\ [NotFoundStep]_routingVars
<1> SUFFICES ASSUME RoutingInv, [RoutingNext]_routingVars PROVE RoutingInv' /\ [NotFoundStep]_routingVars
  OBVIOUS
<1>1. CASE \E x \in Callers : StartSurvey(x) \/ AskChild(x) \/ Surveyed(x)
  BY <1>1, StartSurveyStep, AskChildStep, SurveyedStep
<1>2. CASE \E k \in Requests : Consult(k) \/ Born(k)
  BY <1>2, ConsultStep, BornStep
<1>3. CASE \E n \in 1..Len(Children) : Boot(n)
  BY <1>3, BootStep
<1>4. CASE UNCHANGED routingVars
  BY <1>4 DEF routingVars, RoutingInv, RoutingTypes, RouteInv, SurveyInv, RoutedCallInv, LiveInv, RecordOK,
              Served, Unserved, Offers, Thread, RoutedName
<1> QED BY <1>1, <1>2, <1>3, <1>4 DEF RoutingNext

\* ProxyToolRegistry, for every set of conversations, children and calls: a call is
\* run by a child that offers its tool to that conversation; one allowed because
\* nobody answers for it never runs in the process that said so; and a tool some
\* composed child offers is found, in a process that has collected it or not.
THEOREM RoutingIsSound == RoutingSpec => RoutingSound
<1>1. RoutingInit => RoutingInv
  BY RoutingInitInv
<1>2. RoutingInv /\ [RoutingNext]_routingVars => RoutingInv' /\ [NotFoundStep]_routingVars
  BY RoutingStep
<1>3. RoutingInv => WithheldIsNeverRun /\ UnroutedNeverRuns
  BY DEF RoutingInv, RoutedCallInv, RecordOK, WithheldIsNeverRun, UnroutedNeverRuns, RoutedName
<1>4. RoutingSpec => []RoutingInv /\ [][NotFoundStep]_routingVars
  BY <1>1, <1>2, PTL DEF RoutingSpec
<1>5. RoutingSpec => [](WithheldIsNeverRun /\ UnroutedNeverRuns)
  BY <1>3, <1>4, PTL
<1>6. RoutingSpec => OfferedIsFound
  <2>1. [NotFoundStep]_routingVars => [FoundStep]_routingVars
    BY DEF NotFoundStep, FoundStep, Unserved, Offers, RoutedName
  <2>2. RoutingSpec => [][FoundStep]_routingVars
    BY <2>1, <1>4, PTL
  <2> QED BY <2>2 DEF FoundStep, OfferedIsFound
<1> QED BY <1>5, <1>6 DEF RoutingSound
-----------------------------------------------------------------------------
(* The files: the lock, the read-before-write rule and the approval hold for   *)
(* any files, calls and requests.                                              *)

\* FileTasks, threads and the steps a body takes.
TaskStates == {"idle", "waiting", "running", "done", "error", "killed"}
ThreadStates == {"none", "ready", "writing", "over"}
FileSteps == [path : Paths, marks : {None} \cup Marks]
FileTasks == [at : TaskStates, req : FileRequests \cup {None}, existed : BOOLEAN]
FileJobs == [at : ThreadStates, plan : Seq(FileSteps), ok : BOOLEAN, wrote : Nat]

FilesTypes ==
  /\ files \in [Paths -> {None} \cup Marks]
  /\ read \in [Convs -> SUBSET Paths]
  /\ lock \in [Paths -> Calls \cup {None}]
  /\ task \in [Calls -> FileTasks] /\ thread \in [Calls -> FileJobs]
  /\ disturbed \subseteq Calls

\* Two operations of a patch share a file.
Shared(req) ==
  /\ req.tool = "apply_patch"
  /\ \E i, j \in DOMAIN req.ops :
       i # j /\ {req.ops[i].path, req.ops[i].to} \cap {req.ops[j].path} # {}

\* The tools that write the one file they name.
OneFile == {"edit", "edit_new", "write", "native_create"}

\* A plan stays within the files of its request, and unlinks no file twice unless
\* the request says so.
PlanFits(req, plan) ==
  /\ \A i \in DOMAIN plan : plan[i].path \in PathsOf(req)
  /\ \A i, j \in DOMAIN plan :
       plan[i].marks = None /\ plan[j].marks = None /\ plan[i].path = plan[j].path /\ i # j => Shared(req)
  /\ req.tool \in OneFile => \A i \in DOMAIN plan : plan[i].path = req.path

\* What a task and its thread are doing go together.
FileTaskInv(c) ==
  /\ task[c].at # "idle" => task[c].req \in FileRequests
  /\ thread[c].at = "none" \/ task[c].at \notin {"idle", "waiting"}
  /\ thread[c].at = "ready" => task[c].at = "running"
  /\ thread[c].at = "writing" => task[c].at \in {"running", "killed"}
  /\ task[c].at \in {"waiting", "running"} /\ task[c].req.tool \notin {"read", "apply_patch"} =>
       task[c].req.path \in Paths
  /\ task[c].at = "running" /\ NeedsLock(task[c].req) => lock[task[c].req.path] = c

\* A body under way: it fits its request, and what it is yet to unlink is there.
WritingInv(c) == thread[c].at = "writing" =>
  /\ thread[c].plan # <<>> /\ task[c].req.tool # "read"
  /\ PlanFits(task[c].req, thread[c].plan)
  /\ \A i \in DOMAIN thread[c].plan : thread[c].plan[i].marks = None =>
       \/ files[thread[c].plan[i].path] # None
       \/ c \in disturbed \/ Shared(task[c].req)
       \/ thread[c].wrote = 0 /\ Len(thread[c].plan) = 1

\* What its tool found when it looked still holds, or another call is at fault.
LookedInv(c) == thread[c].at \in {"ready", "writing"} \/ task[c].at = "waiting" =>
  LET req == task[c].req
      seen == req.path \in read[Conv[c]]
  IN /\ req.tool = "edit" => seen
     /\ req.tool = "edit_new" => ~task[c].existed
     /\ req.tool = "write" => seen \/ ~task[c].existed
     /\ req.tool = "native_create" /\ thread[c].at = "writing" =>
          Len(thread[c].plan) = 1 /\ (seen \/ files[req.path] = None \/ c \in disturbed)

\* A body that failed halfway failed for a reason.
FailedInv(c) == thread[c].at = "over" /\ ~thread[c].ok /\ thread[c].wrote > 0 =>
  c \in disturbed \/ Shared(task[c].req)

FileCallInv(c) == FileTaskInv(c) /\ WritingInv(c) /\ LookedInv(c) /\ FailedInv(c)
FilesInv == FilesTypes /\ \A c \in Calls : FileCallInv(c)

-----------------------------------------------------------------------------
(* What the bodies plan.                                                     *)

\* The paths a request names are files.
LEMMA PathsNamed ==
    ASSUME NEW req \in FileRequests
    PROVE  /\ PathsOf(req) \subseteq Paths
           /\ req.tool # "apply_patch" => req.path \in PathsOf(req)
<1>1. CASE req.tool = "apply_patch"
  <2>1. \A j \in DOMAIN req.ops : req.ops[j] \in Operations
    BY <1>1, FilesAssumption
  <2>2. PathsOf(req) = (UNION {{req.ops[j].path, req.ops[j].to} : j \in DOMAIN req.ops}) \ {None}
    BY <1>1 DEF PathsOf
  <2>3. ASSUME NEW p \in PathsOf(req) PROVE p \in Paths
    <3> DEFINE Named(j) == {req.ops[j].path, req.ops[j].to}
    <3>1. p \in UNION {Named(j) : j \in DOMAIN req.ops} /\ p # None
      BY <2>2
    <3>2. PICK j \in DOMAIN req.ops : p \in Named(j)
      <4> HIDE DEF Named
      <4> QED
        BY <3>1
    <3> QED
      BY <2>1, <3>1, <3>2 DEF Operations
  <2> QED
    BY <1>1, <2>3
<1>2. CASE req.tool # "apply_patch"
  BY <1>2, FilesAssumption DEF PathsOf
<1> QED
  BY <1>1, <1>2

\* One operation: its plan is a write, an unlink, or a write and then an unlink of
\* the file it names, which is there.
Fits(wish, plan) ==
  /\ plan \in Seq(FileSteps)
  /\ \A i \in DOMAIN plan :
       /\ plan[i].path \in {wish.path, wish.to} \ {None}
       /\ plan[i].marks = None => plan[i].path = wish.path /\ files[wish.path] # None
  /\ \A i, j \in DOMAIN plan : plan[i].marks = None /\ plan[j].marks = None => i = j
  /\ wish.to = None => \A i \in DOMAIN plan : plan[i].path = wish.path

\* What the verification of an operation plans is what the operation is allowed to touch.
LEMMA VerifyFits ==
    ASSUME FilesTypes, NEW c \in Calls, NEW wish \in Operations
    PROVE  /\ Verify(c, wish).ok \in BOOLEAN
           /\ Fits(wish, Verify(c, wish).plan)
           /\ ~Verify(c, wish).ok => Verify(c, wish).plan = <<>>
<1> DEFINE marks == Swap(files[wish.path], Base, c)
<1>1. wish.path \in Paths /\ wish.to \in Paths \cup {None} /\ wish.path # None
  BY FilesAssumption DEF Operations
<1>2. {c} \in Marks /\ None \notin Marks
  BY FilesAssumption DEF Marks
<1>3. ASSUME NEW p \in Paths, NEW m \in {None} \cup Marks PROVE [path |-> p, marks |-> m] \in FileSteps
  BY DEF FileSteps
<1>4. Fits(wish, <<>>)
  BY DEF Fits
<1>5. CASE wish.kind = "add"
  <2>1. Verify(c, wish) = Plan(<<Write(wish.path, {c})>>)
    BY <1>5 DEF Verify
  <2>2. Fits(wish, <<Write(wish.path, {c})>>)
    BY <1>1, <1>2, <1>3 DEF Fits, Write
  <2> QED
    BY <2>1, <2>2 DEF Plan
<1>6. CASE wish.kind = "delete"
  <2>1. CASE files[wish.path] = None
    BY <1>4, <1>6, <2>1 DEF Verify, Refusing
  <2>2. CASE files[wish.path] # None
    <3>1. Verify(c, wish) = Plan(<<Unlink(wish.path)>>)
      BY <1>6, <2>2 DEF Verify
    <3>2. Fits(wish, <<Unlink(wish.path)>>)
      BY <1>1, <1>3, <2>2 DEF Fits, Unlink
    <3> QED
      BY <3>1, <3>2 DEF Plan
  <2> QED
    BY <2>1, <2>2
<1>7. CASE wish.kind = "update"
  <2>1. CASE files[wish.path] = None \/ Base \notin files[wish.path]
    BY <1>4, <1>7, <2>1 DEF Verify, Refusing
  <2>2. CASE ~(files[wish.path] = None \/ Base \notin files[wish.path])
    <3>1. marks \in Marks
      BY <1>1, <2>2 DEF FilesTypes, Swap, Marks
    <3>2. marks # None
      BY <3>1, <1>2
    <3>3. CASE wish.to = None \/ wish.to = wish.path
      <4>1. Verify(c, wish) = Plan(<<Write(wish.path, marks)>>)
        BY <1>7, <2>2, <3>3 DEF Verify
      <4> HIDE DEF marks
      <4>2. Fits(wish, <<Write(wish.path, marks)>>)
        BY <1>1, <1>3, <3>1, <3>2 DEF Fits, Write
      <4> QED
        BY <4>1, <4>2 DEF Plan
    <3>4. CASE ~(wish.to = None \/ wish.to = wish.path)
      <4>1. Verify(c, wish) = Plan(<<Write(wish.to, marks), Unlink(wish.path)>>)
        BY <1>7, <2>2, <3>4 DEF Verify
      <4> HIDE DEF marks
      <4>2. Fits(wish, <<Write(wish.to, marks), Unlink(wish.path)>>)
        BY <1>1, <1>3, <2>2, <3>1, <3>2, <3>4 DEF Fits, Write, Unlink
      <4> QED
        BY <4>1, <4>2 DEF Plan
    <3> QED
      BY <3>3, <3>4
  <2> QED
    BY <2>1, <2>2
<1> QED
  BY <1>5, <1>6, <1>7 DEF Operations

\* What a body needs of the plan it settles on, as its thread starts.
Settled(c, found) ==
  LET req == task[c].req
  IN /\ found.ok \in BOOLEAN /\ found.plan \in Seq(FileSteps)
     /\ PlanFits(req, found.plan)
     /\ found.plan # <<>> => req.tool # "read"
     /\ \A i \in DOMAIN found.plan : found.plan[i].marks = None =>
          files[found.plan[i].path] # None \/ Len(found.plan) = 1
     /\ req.tool = "native_create" /\ found.plan # <<>> =>
          Len(found.plan) = 1 /\ (req.path \in read[Conv[c]] \/ files[req.path] = None)

\* A plan of no steps.
LEMMA NoPlan ==
    ASSUME NEW c \in Calls, NEW ok \in BOOLEAN
    PROVE  Settled(c, [ok |-> ok, plan |-> <<>>])
BY DEF Settled, PlanFits

\* A patch: both operations, or none.
LEMMA PatchSettles ==
    ASSUME FilesTypes, NEW c \in Calls, task[c].req \in FileRequests,
           task[c].req.tool = "apply_patch"
    PROVE  Settled(c, VerifyAll(c, task[c].req.ops))
<1> DEFINE req == task[c].req
           ops == req.ops
           plan1 == Verify(c, ops[1]).plan
           plan2 == Verify(c, ops[2]).plan
<1>1. ops \in Seq(Operations) /\ Len(ops) \in 1..2 /\ DOMAIN ops = 1..Len(ops)
  BY FilesAssumption
<1>2. PathsOf(req) = (UNION {{ops[j].path, ops[j].to} : j \in DOMAIN ops}) \ {None}
  BY DEF PathsOf
<1>3. ASSUME NEW j \in DOMAIN ops
      PROVE  /\ ops[j] \in Operations /\ {ops[j].path, ops[j].to} \ {None} \subseteq PathsOf(req)
             /\ Fits(ops[j], Verify(c, ops[j]).plan)
  <2>1. ops[j] \in Operations
    BY <1>1
  <2>2. Fits(ops[j], Verify(c, ops[j]).plan)
    BY <2>1, VerifyFits
  <2> DEFINE Named(i) == {ops[i].path, ops[i].to}
  <2>3. PathsOf(req) = (UNION {Named(i) : i \in DOMAIN ops}) \ {None}
    BY <1>2
  <2>4. Named(j) \ {None} \subseteq PathsOf(req)
    <3> HIDE DEF Named
    <3>1. Named(j) \subseteq UNION {Named(i) : i \in DOMAIN ops}
      BY Zenon
    <3> QED
      BY <2>3, <3>1
  <2> QED
    BY <2>1, <2>2, <2>4
<1>4. CASE ~(\A j \in DOMAIN ops : Verify(c, ops[j]).ok)
  BY <1>4, NoPlan DEF VerifyAll, Refusing
<1>5. CASE (\A j \in DOMAIN ops : Verify(c, ops[j]).ok) /\ Len(ops) = 1
  <2>1. VerifyAll(c, ops) = Plan(plan1) /\ Fits(ops[1], plan1) /\ 1 \in DOMAIN ops
    BY <1>1, <1>3, <1>5 DEF VerifyAll
  <2>2. {ops[1].path, ops[1].to} \ {None} \subseteq PathsOf(req)
    BY <1>3, <2>1
  <2> HIDE DEF plan1
  <2>3. Settled(c, [ok |-> TRUE, plan |-> plan1])
    BY <2>1, <2>2 DEF Settled, Fits, PlanFits, OneFile
  <2> QED
    BY <2>1, <2>3 DEF Plan
<1>6. CASE (\A j \in DOMAIN ops : Verify(c, ops[j]).ok) /\ Len(ops) = 2
  <2> DEFINE both == plan1 \o plan2
             n == Len(plan1)
  <2>1. VerifyAll(c, ops) = Plan(both) /\ 1 \in DOMAIN ops /\ 2 \in DOMAIN ops
    BY <1>1, <1>6 DEF VerifyAll
  <2>2. /\ Fits(ops[1], plan1) /\ {ops[1].path, ops[1].to} \ {None} \subseteq PathsOf(req)
        /\ Fits(ops[2], plan2) /\ {ops[2].path, ops[2].to} \ {None} \subseteq PathsOf(req)
    BY <1>3, <2>1
  <2> HIDE DEF plan1, plan2
  <2>3. /\ both \in Seq(FileSteps) /\ Len(both) = n + Len(plan2)
        /\ \A i \in 1..(n + Len(plan2)) :
             both[i] = IF i <= n THEN plan1[i] ELSE plan2[i - n]
    BY <2>2, ConcatProperties DEF Fits
  <2>4. n \in Nat /\ Len(plan2) \in Nat /\ DOMAIN plan1 = 1..n /\ DOMAIN plan2 = 1..Len(plan2)
    BY <2>2 DEF Fits
  <2> HIDE DEF both, n
  <2>5. DOMAIN both = 1..(n + Len(plan2))
    BY <2>3, <2>4
  <2>6. \A i \in DOMAIN both :
          \/ i \in DOMAIN plan1 /\ both[i] = plan1[i]
          \/ i - n \in DOMAIN plan2 /\ both[i] = plan2[i - n] /\ i \notin DOMAIN plan1
    BY <2>3, <2>4, <2>5
  <2>7. \A i \in DOMAIN both : both[i].path \in PathsOf(req)
    BY <2>2, <2>6 DEF Fits
  <2>8. \A i \in DOMAIN both : both[i].marks = None => files[both[i].path] # None
    BY <2>2, <2>6, SMTT(20) DEF Fits
  <2>9. \A i, j \in DOMAIN both :
          both[i].marks = None /\ both[j].marks = None /\ both[i].path = both[j].path /\ i # j => Shared(req)
    <3> SUFFICES ASSUME NEW i \in DOMAIN both, NEW j \in DOMAIN both,
                        both[i].marks = None, both[j].marks = None, both[i].path = both[j].path, i # j
        PROVE  Shared(req)
      OBVIOUS
    <3>1. ~(i \in DOMAIN plan1 /\ j \in DOMAIN plan1)
      BY <2>2, <2>6 DEF Fits
    <3>2. ~(i \notin DOMAIN plan1 /\ j \notin DOMAIN plan1)
      <4> SUFFICES ASSUME i \notin DOMAIN plan1, j \notin DOMAIN plan1 PROVE FALSE
        OBVIOUS
      <4>1. i - n = j - n
        BY <2>2, <2>6 DEF Fits
      <4> QED
        BY <4>1, <2>4, <2>5
    <3>3. ops[1].path = ops[2].path
      BY <2>2, <2>6, <3>1, <3>2 DEF Fits
    <3>4. ops[1].path \in {ops[1].path, ops[1].to} \cap {ops[2].path}
      BY <3>3
    <3>5. 1 # 2 /\ {ops[1].path, ops[1].to} \cap {ops[2].path} # {}
      BY <3>4
    <3> QED
      BY <2>1, <3>5 DEF Shared
  <2>10. Settled(c, [ok |-> TRUE, plan |-> both])
    BY <2>3, <2>7, <2>8, <2>9 DEF Settled, PlanFits, OneFile
  <2> QED
    BY <2>1, <2>10 DEF Plan
<1> QED
  BY <1>1, <1>4, <1>5, <1>6

\* Whatever the tool, the plan a body settles on fits its request.
LEMMA PlanSettles ==
    ASSUME FilesTypes, NEW c \in Calls, task[c].req \in FileRequests
    PROVE  Settled(c, PlanOf(c))
<1> DEFINE req == task[c].req
<1>1. CASE req.tool = "apply_patch"
  <2>1. PlanOf(c) = VerifyAll(c, req.ops)
    BY <1>1 DEF PlanOf
  <2> QED
    BY <1>1, <2>1, PatchSettles
<1> SUFFICES ASSUME req.tool # "apply_patch" PROVE Settled(c, PlanOf(c))
  BY <1>1
<1>2. /\ req.path \in Paths /\ req.path \in PathsOf(req) /\ req.path # None
      /\ req.to \in Paths \cup {None} /\ (req.tool # "update_file" => req.to = None)
      /\ req.tool \in Tools /\ PathsOf(req) = {req.path, req.to} \ {None}
  BY FilesAssumption DEF PathsOf
<1>3. {c} \in Marks /\ None \notin Marks
  BY FilesAssumption DEF Marks
<1>4. Write(req.path, {c}) \in FileSteps /\ Unlink(req.path) \in FileSteps
  BY <1>2, <1>3 DEF FileSteps, Write, Unlink
<1>5. CASE req.tool = "read"
  BY <1>5, NoPlan DEF PlanOf, Refusing, Plan
<1>6. CASE req.tool \in {"edit", "str_replace", "update_file"}
  <2> DEFINE wish == [kind |-> "update", path |-> req.path, to |-> req.to]
             found == Verify(c, wish)
  <2>1. PlanOf(c) = found
    BY <1>6 DEF PlanOf
  <2>2. wish \in Operations
    BY <1>2 DEF Operations
  <2>3. found.ok \in BOOLEAN /\ Fits(wish, found.plan)
    BY <2>2, VerifyFits
  <2>4. wish.path = req.path /\ wish.to = req.to
    OBVIOUS
  <2> HIDE DEF wish, found
  <2>5. Settled(c, found)
    BY <1>2, <1>6, <2>3, <2>4 DEF Settled, Fits, PlanFits, OneFile
  <2> QED
    BY <2>1, <2>5
<1>7. CASE req.tool \in {"edit_new", "write"}
  <2>1. PlanOf(c) = Plan(<<Write(req.path, {c})>>)
    BY <1>7 DEF PlanOf
  <2> QED
    BY <1>2, <1>3, <1>4, <1>7, <2>1 DEF Settled, PlanFits, OneFile, Plan, Write
<1>8. CASE req.tool = "delete_file"
  <2>1. PlanOf(c) = Plan(<<Unlink(req.path)>>)
    BY <1>8 DEF PlanOf
  <2> QED
    BY <1>2, <1>4, <1>8, <2>1 DEF Settled, PlanFits, OneFile, Plan, Unlink
<1>9. CASE req.tool = "native_create"
  <2>1. PlanOf(c) = Create(c, req)
    BY <1>9 DEF PlanOf
  <2>2. CASE files[req.path] # None /\ req.path \notin read[Conv[c]]
    BY <2>1, <2>2, NoPlan DEF Create, Refusing
  <2>3. CASE ~(files[req.path] # None /\ req.path \notin read[Conv[c]])
    <3>1. PlanOf(c) = Plan(<<Write(req.path, {c})>>)
      BY <2>1, <2>3 DEF Create
    <3> QED
      BY <1>2, <1>3, <1>4, <1>9, <2>3, <3>1 DEF Settled, PlanFits, OneFile, Plan, Write
  <2> QED
    BY <2>2, <2>3
<1>10. CASE req.tool = "native_delete"
  <2> DEFINE wish == [kind |-> "delete", path |-> req.path]
  <2>1. PlanOf(c) = Verify(c, wish)
    BY <1>10 DEF PlanOf
  <2>2. CASE files[req.path] = None
    BY <2>1, <2>2, NoPlan DEF Verify, Refusing
  <2>3. CASE files[req.path] # None
    <3>1. PlanOf(c) = Plan(<<Unlink(req.path)>>)
      BY <2>1, <2>3 DEF Verify
    <3> QED
      BY <1>2, <1>4, <1>10, <2>3, <3>1 DEF Settled, PlanFits, OneFile, Plan, Unlink
  <2> QED
    BY <2>2, <2>3
<1> QED
  BY <1>2, <1>5, <1>6, <1>7, <1>8, <1>9, <1>10 DEF Tools

-----------------------------------------------------------------------------
(* The invariant is inductive.                                               *)

\* A call whose task and thread a step leaves alone keeps its invariant, if the step
\* forgets no read, frees no lock of it, and blames itself for the files it changes.
LEMMA CallKept ==
    ASSUME FilesTypes, NEW d \in Calls, FileCallInv(d),
           task'[d] = task[d], thread'[d] = thread[d], read[Conv[d]] \subseteq read'[Conv[d]],
           \A p \in Paths : lock[p] = d => lock'[p] = d, disturbed \subseteq disturbed',
           \A p \in Paths : files'[p] # files[p] =>
             thread[d].at # "writing" \/ p \notin PathsOf(task[d].req) \/ d \in disturbed'
    PROVE  FileCallInv(d)'
<1> DEFINE req == task[d].req
<1>1. FileTaskInv(d)'
  <2>1. task[d].at = "running" /\ NeedsLock(req) => req.path \in Paths
    BY DEF FileCallInv, FileTaskInv, NeedsLock
  <2> QED
    BY <2>1 DEF FileCallInv, FileTaskInv, NeedsLock
<1>2. thread[d].at = "writing" => PathsOf(req) \subseteq Paths /\ req \in FileRequests
  BY PathsNamed DEF FileCallInv, FileTaskInv
<1>3. WritingInv(d)'
  <2> SUFFICES ASSUME thread[d].at = "writing" PROVE WritingInv(d)'
    BY DEF WritingInv
  <2>1. \A i \in DOMAIN thread[d].plan :
          thread[d].plan[i].path \in PathsOf(req) /\ thread[d].plan[i].path \in Paths
    BY <1>2 DEF FileCallInv, WritingInv, PlanFits
  <2> QED
    BY <2>1 DEF FileCallInv, WritingInv
<1>4. LookedInv(d)'
  <2>1. CASE thread[d].at = "writing"
    <3>1. req.tool = "native_create" => req.path \in PathsOf(req) /\ req.path \in Paths
      BY <1>2, <2>1, PathsNamed
    <3> QED
      BY <2>1, <3>1 DEF FileCallInv, LookedInv
  <2>2. CASE thread[d].at # "writing"
    BY <2>2 DEF FileCallInv, LookedInv
  <2> QED
    BY <2>1, <2>2
<1>5. FailedInv(d)'
  BY DEF FileCallInv, FailedInv
<1> QED
  BY <1>1, <1>3, <1>4, <1>5 DEF FileCallInv

\* A thread about to start.
LEMMA ReadyJob == [NoJob EXCEPT !.at = "ready"] \in FileJobs /\ NoJob \in FileJobs
<1>1. <<>> \in Seq(FileSteps)
  OBVIOUS
<1>2. NoJob \in FileJobs
  BY <1>1 DEF FileJobs, ThreadStates, NoJob
<1>3. [NoJob EXCEPT !.at = "ready"] \in FileJobs
  BY <1>2 DEF FileJobs, ThreadStates
<1> QED
  BY <1>2, <1>3

\* A call is checked and handed on.
LEMMA BeginFiles ==
    ASSUME FilesInv, NEW c \in Calls, Begin(c)
    PROVE  FilesInv'
<1>1. PICK req \in FileRequests : Begin(c)!(req)
  BY DEF Begin
<1> DEFINE refused == Refused(c, req)
<1>2. /\ task[c].at = "idle" /\ thread[c].at = "none"
      /\ task'[c].req = req /\ (task'[c].existed <=> req.path # None /\ files[req.path] # None)
      /\ task'[c].at = IF refused THEN "error" ELSE IF NeedsLock(req) THEN "waiting" ELSE "running"
      /\ \A d \in Calls : d # c => task'[d] = task[d] /\ thread'[d] = thread[d]
      /\ UNCHANGED <<files, read, lock, disturbed>>
  BY <1>1 DEF FilesInv, FileCallInv, FileTaskInv, FilesTypes
<1>3. thread'[c] = IF ~refused /\ ~NeedsLock(req) THEN [NoJob EXCEPT !.at = "ready"] ELSE thread[c]
  BY <1>1 DEF FilesInv, FilesTypes
<1>4. FilesTypes'
  <2>1. task'[c] \in FileTasks
    BY <1>1 DEF FileTasks, TaskStates, FilesInv, FilesTypes
  <2>2. thread'[c] \in FileJobs
    BY <1>3, ReadyJob DEF FilesInv, FilesTypes
  <2> QED
    BY <1>1, <1>2, <2>1, <2>2 DEF FilesInv, FilesTypes
<1>5. ASSUME NEW d \in Calls, d # c PROVE FileCallInv(d)'
  BY <1>2, <1>5, CallKept DEF FilesInv
<1>6. FileCallInv(c)'
  <2>1. thread'[c].at = IF ~refused /\ ~NeedsLock(req) THEN "ready" ELSE "none"
    BY <1>2, <1>3 DEF NoJob
  <2>2. req.tool # "apply_patch" => req.path \in Paths /\ req.path # None
    BY FilesAssumption
  <2>3. FileTaskInv(c)'
    BY <1>2, <2>1, <2>2 DEF FileTaskInv, NeedsLock
  <2>4. WritingInv(c)' /\ FailedInv(c)'
    BY <2>1 DEF WritingInv, FailedInv
  <2>5. LookedInv(c)'
    BY <1>2, <2>1, <2>2 DEF LookedInv, Refused, NeedsLock
  <2> QED
    BY <2>3, <2>4, <2>5 DEF FileCallInv
<1> QED
  BY <1>4, <1>5, <1>6 DEF FilesInv

\* A call gets the lock of its file, which nobody held.
LEMMA AcquireFiles ==
    ASSUME FilesInv, NEW c \in Calls, Acquire(c)
    PROVE  FilesInv'
<1>1. /\ task[c].at = "waiting" /\ thread[c].at = "none" /\ lock[task[c].req.path] = None
      /\ task'[c] = [task[c] EXCEPT !.at = "running"]
      /\ thread'[c] = [NoJob EXCEPT !.at = "ready"]
      /\ \A d \in Calls : d # c => task'[d] = task[d] /\ thread'[d] = thread[d]
      /\ UNCHANGED <<files, read, disturbed>>
  BY DEF Acquire, FilesInv, FileCallInv, FileTaskInv, FilesTypes
<1>2. /\ task[c].req \in FileRequests
      /\ task'[c].at = "running" /\ task'[c].req = task[c].req
      /\ task'[c].existed = task[c].existed /\ thread'[c].at = "ready"
  BY <1>1 DEF FilesInv, FilesTypes, FileCallInv, FileTaskInv, FileTasks, NoJob
<1>3. FilesTypes'
  <2>1. task'[c] \in FileTasks
    BY <1>1 DEF FileTasks, TaskStates, FilesInv, FilesTypes
  <2>2. thread'[c] \in FileJobs
    BY <1>1, ReadyJob
  <2>3. lock' \in [Paths -> Calls \cup {None}]
    BY DEF Acquire, FilesInv, FilesTypes
  <2> QED
    BY <1>1, <2>1, <2>2, <2>3 DEF Acquire, FilesInv, FilesTypes
<1>4. /\ task[c].req.path \in Paths => lock'[task[c].req.path] = c
      /\ \A p \in Paths, d \in Calls : lock[p] = d => lock'[p] = d
  BY <1>1, FilesAssumption DEF Acquire, FilesInv, FilesTypes
<1>5. ASSUME NEW d \in Calls, d # c PROVE FileCallInv(d)'
  BY <1>1, <1>4, <1>5, CallKept DEF FilesInv
<1>6. FileCallInv(c)'
  <2>1. FileTaskInv(c)'
    BY <1>1, <1>2, <1>4 DEF FileTaskInv, NeedsLock, FilesInv, FileCallInv
  <2>2. WritingInv(c)' /\ FailedInv(c)'
    BY <1>2 DEF WritingInv, FailedInv
  <2>3. LookedInv(c)'
    BY <1>1, <1>2 DEF LookedInv, FilesInv, FileCallInv
  <2> QED
    BY <2>1, <2>2, <2>3 DEF FileCallInv
<1> QED
  BY <1>3, <1>5, <1>6 DEF FilesInv

\* A call that ends frees its own locks and no others.
LEMMA ReleasedLocks ==
    ASSUME FilesTypes, NEW c \in Calls, lock' = Released(c)
    PROVE  /\ lock' \in [Paths -> Calls \cup {None}]
           /\ \A p \in Paths, d \in Calls : d # c /\ lock[p] = d => lock'[p] = d
BY DEF Released, FilesTypes

\* The thread is over and its task takes the result.
LEMMA FinishFiles ==
    ASSUME FilesInv, NEW c \in Calls, Finish(c)
    PROVE  FilesInv'
<1>1. /\ task[c].at = "running" /\ thread[c].at = "over"
      /\ task'[c] = [task[c] EXCEPT !.at = IF thread[c].ok THEN "done" ELSE "error"]
      /\ \A d \in Calls : d # c => task'[d] = task[d]
      /\ lock' = Released(c) /\ UNCHANGED <<files, thread, disturbed>>
  BY DEF Finish, FilesInv, FilesTypes
<1>2. /\ task[c].req \in FileRequests
      /\ task'[c].at \in {"done", "error"} /\ task'[c].req = task[c].req
  BY <1>1 DEF FilesInv, FilesTypes, FileCallInv, FileTaskInv, FileTasks
<1>3. read' \in [Convs -> SUBSET Paths] /\ \A d \in Calls : read[Conv[d]] \subseteq read'[Conv[d]]
  <2>1. task[c].req.tool = "write" => task[c].req.path \in Paths
    BY <1>2, FilesAssumption
  <2> QED
    BY <2>1 DEF Finish, FilesInv, FilesTypes, Convs
<1>4. FilesTypes'
  <2>1. task'[c] \in FileTasks
    BY <1>1 DEF FileTasks, TaskStates, FilesInv, FilesTypes
  <2> QED
    BY <1>1, <1>3, <2>1, ReleasedLocks DEF Finish, FilesInv, FilesTypes
<1>5. ASSUME NEW d \in Calls, d # c PROVE FileCallInv(d)'
  BY <1>1, <1>3, <1>5, ReleasedLocks, CallKept DEF FilesInv
<1>6. FileCallInv(c)'
  BY <1>1, <1>2 DEF FilesInv, FileCallInv, FileTaskInv, WritingInv, LookedInv, FailedInv
<1> QED
  BY <1>4, <1>5, <1>6 DEF FilesInv

\* A kill takes the task and the lock; a body under way runs on.
LEMMA KillFiles ==
    ASSUME FilesInv, NEW c \in Calls, KillCall(c)
    PROVE  FilesInv'
<1>1. /\ task[c].at \in {"waiting", "running"}
      /\ task'[c] = [task[c] EXCEPT !.at = "killed"]
      /\ thread'[c] = IF thread[c].at = "ready" THEN NoJob ELSE thread[c]
      /\ \A d \in Calls : d # c => task'[d] = task[d] /\ thread'[d] = thread[d]
      /\ lock' = Released(c) /\ UNCHANGED <<files, read, disturbed>>
  BY DEF KillCall, FilesInv, FilesTypes
<1>2. /\ task[c].req \in FileRequests
      /\ task'[c].at = "killed" /\ task'[c].req = task[c].req /\ task'[c].existed = task[c].existed
  BY <1>1 DEF FilesInv, FilesTypes, FileCallInv, FileTaskInv, FileTasks
<1>3. FilesTypes'
  <2>1. task'[c] \in FileTasks
    BY <1>1 DEF FileTasks, TaskStates, FilesInv, FilesTypes
  <2>2. thread'[c] \in FileJobs
    BY <1>1, ReadyJob DEF FilesInv, FilesTypes
  <2> QED
    BY <1>1, <2>1, <2>2, ReleasedLocks DEF KillCall, FilesInv, FilesTypes
<1>4. ASSUME NEW d \in Calls, d # c PROVE FileCallInv(d)'
  BY <1>1, <1>4, ReleasedLocks, CallKept DEF FilesInv
<1>5. FileCallInv(c)'
  <2>1. CASE thread[c].at = "ready"
    BY <1>1, <1>2, <2>1 DEF NoJob, FileCallInv, FileTaskInv, WritingInv, LookedInv, FailedInv
  <2>2. CASE thread[c].at # "ready"
    <3>1. thread'[c] = thread[c] /\ FileCallInv(c)
      BY <1>1, <2>2 DEF FilesInv
    <3>2. FileTaskInv(c)' /\ WritingInv(c)' /\ FailedInv(c)'
      BY <1>1, <1>2, <2>2, <3>1 DEF FileCallInv, FileTaskInv, WritingInv, FailedInv
    <3>3. LookedInv(c)'
      BY <1>1, <1>2, <2>2, <3>1 DEF FileCallInv, LookedInv
    <3> QED
      BY <3>2, <3>3 DEF FileCallInv
  <2> QED
    BY <2>1, <2>2
<1> QED
  BY <1>3, <1>4, <1>5 DEF FilesInv

\* What a body records as read are files its request names.
LEMMA NowReadFiles ==
    ASSUME NEW req \in FileRequests
    PROVE  NowRead(req) \subseteq Paths
<1>1. CASE req.tool = "apply_patch"
  BY <1>1 DEF NowRead
<1>2. CASE req.tool # "apply_patch"
  BY <1>2, FilesAssumption DEF NowRead
<1> QED
  BY <1>1, <1>2

\* A body that ends records what it read.
LEMMA CallOverFiles ==
    ASSUME FilesTypes, NEW c \in Calls, task[c].req \in FileRequests,
           NEW j \in FileJobs, CallOver(c, j)
    PROVE  /\ thread'[c] \in FileJobs /\ thread'[c].at = "over"
           /\ (thread'[c].ok <=> j.ok) /\ thread'[c].wrote = j.wrote
           /\ \A d \in Calls : d # c => thread'[d] = thread[d]
           /\ thread' = [thread EXCEPT ![c] = thread'[c]]
           /\ read' \in [Convs -> SUBSET Paths]
           /\ \A d \in Calls : read[Conv[d]] \subseteq read'[Conv[d]]
<1>1. thread' = [thread EXCEPT ![c] = [j EXCEPT !.at = "over"]]
  BY DEF CallOver
<1>2. thread'[c] = [j EXCEPT !.at = "over"]
  BY <1>1 DEF FilesTypes
<1>3. [j EXCEPT !.at = "over"] \in FileJobs
  BY DEF FileJobs, ThreadStates
<1>4. NowRead(task[c].req) \subseteq Paths
  BY NowReadFiles
<1>5. read' \in [Convs -> SUBSET Paths] /\ \A d \in Calls : read[Conv[d]] \subseteq read'[Conv[d]]
  BY <1>4 DEF CallOver, FilesTypes, Convs
<1>6. (thread'[c].ok <=> j.ok) /\ thread'[c].wrote = j.wrote /\ thread'[c].at = "over"
  BY <1>2 DEF FileJobs
<1> QED
  BY <1>1, <1>2, <1>3, <1>5, <1>6 DEF FilesTypes

\* A call whose body is over only has its failure to account for.
LEMMA OverCall ==
    ASSUME FilesInv, NEW c \in Calls, task'[c] = task[c], lock' = lock,
           thread[c].at \in {"ready", "writing"}, thread'[c].at = "over",
           FailedInv(c)'
    PROVE  FileCallInv(c)'
BY DEF FilesInv, FileCallInv, FileTaskInv, WritingInv, LookedInv

\* The body settles its plan on what it finds.
LEMMA StartFiles ==
    ASSUME FilesInv, NEW c \in Calls, Start(c)
    PROVE  FilesInv'
<1> DEFINE req == task[c].req
           found == PlanOf(c)
           j == [NoJob EXCEPT !.at = "writing", !.plan = found.plan, !.ok = found.ok]
<1>1. thread[c].at = "ready" /\ task[c].at = "running" /\ req \in FileRequests
  BY DEF Start, FilesInv, FileCallInv, FileTaskInv
<1>2. Settled(c, found)
  BY <1>1, PlanSettles DEF FilesInv
<1>3. UNCHANGED <<files, lock, task, disturbed>>
  BY DEF Start
<1>4. NoJob.wrote = 0
  BY DEF NoJob
<1>5. /\ j \in FileJobs /\ j.at = "writing" /\ j.plan = found.plan /\ j.wrote = 0
      /\ (j.ok <=> found.ok)
  BY <1>2, <1>4, ReadyJob DEF Settled, FileJobs, ThreadStates
<1>6. CASE found.plan = <<>>
  <2>1. CallOver(c, j)
    BY <1>6 DEF Start
  <2> HIDE DEF j
  <2>2. /\ thread'[c] \in FileJobs /\ thread'[c].at = "over" /\ thread'[c].wrote = 0
        /\ \A d \in Calls : d # c => thread'[d] = thread[d]
        /\ thread' = [thread EXCEPT ![c] = thread'[c]]
        /\ read' \in [Convs -> SUBSET Paths]
        /\ \A d \in Calls : read[Conv[d]] \subseteq read'[Conv[d]]
    BY <1>1, <1>5, <2>1, CallOverFiles DEF FilesInv
  <2>3. FilesTypes'
    BY <1>3, <2>2 DEF FilesInv, FilesTypes
  <2>4. ASSUME NEW d \in Calls, d # c PROVE FileCallInv(d)'
    BY <1>3, <2>2, <2>4, CallKept DEF FilesInv
  <2>5. FileCallInv(c)'
    BY <1>1, <1>3, <2>2, OverCall DEF FailedInv
  <2> QED
    BY <2>3, <2>4, <2>5 DEF FilesInv
<1>7. CASE found.plan # <<>>
  <2>1. thread' = [thread EXCEPT ![c] = j] /\ UNCHANGED read
    BY <1>7 DEF Start
  <2> HIDE DEF j
  <2>2. thread'[c] = j /\ \A d \in Calls : d # c => thread'[d] = thread[d]
    BY <2>1 DEF FilesInv, FilesTypes
  <2>3. FilesTypes'
    BY <1>3, <1>5, <2>1 DEF FilesInv, FilesTypes
  <2>4. ASSUME NEW d \in Calls, d # c PROVE FileCallInv(d)'
    BY <1>3, <2>1, <2>2, <2>4, CallKept DEF FilesInv
  <2>5. thread'[c].at = "writing" /\ thread'[c].plan = found.plan /\ thread'[c].wrote = 0
    BY <1>5, <2>2
  <2> HIDE DEF found
  <2>6. FileTaskInv(c)' /\ FailedInv(c)'
    BY <1>1, <1>3, <2>5 DEF FilesInv, FileCallInv, FileTaskInv, FailedInv
  <2>7. WritingInv(c)'
    BY <1>2, <1>3, <1>7, <2>5 DEF Settled, WritingInv
  <2>8. LookedInv(c)'
    BY <1>1, <1>2, <1>3, <1>7, <2>1, <2>5 DEF Settled, LookedInv, FilesInv, FileCallInv
  <2> QED
    BY <2>3, <2>4, <2>6, <2>7, <2>8 DEF FilesInv, FileCallInv
<1> QED
  BY <1>6, <1>7

\* One write or unlink: the others whose files it touches are disturbed, and what is
\* left of the plan is as it was.
LEMMA CommitFiles ==
    ASSUME FilesInv, NEW c \in Calls, Commit(c)
    PROVE  FilesInv'
<1> DEFINE req == task[c].req
           plan == thread[c].plan
           w == Head(plan)
           gone == w.marks = None /\ files[w.path] = None
           j == [thread[c] EXCEPT !.plan  = IF gone THEN <<>> ELSE Tail(@),
                                  !.ok    = ~gone,
                                  !.wrote = IF gone THEN @ ELSE @ + 1]
<1>1. /\ thread[c].at = "writing" /\ task[c].at \in {"running", "killed"} /\ req \in FileRequests
      /\ plan # <<>> /\ plan \in Seq(FileSteps) /\ thread[c] \in FileJobs
  BY DEF Commit, FilesInv, FilesTypes, FileCallInv, FileTaskInv, WritingInv, FileJobs
<1>2. /\ files' = [files EXCEPT ![w.path] = w.marks] /\ UNCHANGED <<lock, task>>
      /\ disturbed' = disturbed \cup
             {d \in Calls \ {c} : thread[d].at = "writing" /\ w.path \in PathsOf(task[d].req)}
  BY DEF Commit
<1>3. IF j.plan = <<>> THEN CallOver(c, j) ELSE thread' = [thread EXCEPT ![c] = j] /\ UNCHANGED read
  BY DEF Commit
<1>4. /\ w \in FileSteps /\ Tail(plan) \in Seq(FileSteps) /\ Len(Tail(plan)) = Len(plan) - 1
      /\ \A i \in 1..Len(Tail(plan)) : Tail(plan)[i] = plan[i + 1]
      /\ w = plan[1] /\ Len(plan) \in Nat \ {0} /\ DOMAIN plan = 1..Len(plan)
  <2>1. plan \in Seq(FileSteps) /\ plan # <<>>
    BY <1>1
  <2> HIDE DEF plan
  <2>2. /\ Head(plan) \in FileSteps /\ Tail(plan) \in Seq(FileSteps) /\ Len(Tail(plan)) = Len(plan) - 1
        /\ \A i \in 1..Len(Tail(plan)) : Tail(plan)[i] = plan[i + 1]
    BY <2>1, HeadTailProperties
  <2> QED
    BY <2>1, <2>2
<1>5. gone \in BOOLEAN
  OBVIOUS
<1>6. /\ j \in FileJobs /\ j.at = "writing" /\ (j.ok <=> ~gone)
      /\ j.plan = IF gone THEN <<>> ELSE Tail(plan)
      /\ j.wrote = IF gone THEN thread[c].wrote ELSE thread[c].wrote + 1
      /\ thread[c].wrote \in Nat
  <2> DEFINE P == IF gone THEN <<>> ELSE Tail(plan)
             ok == ~gone
             W == IF gone THEN thread[c].wrote ELSE thread[c].wrote + 1
  <2>1. thread[c].wrote \in Nat
    BY <1>1 DEF FileJobs
  <2>2. P \in Seq(FileSteps) /\ W \in Nat /\ ok \in BOOLEAN
    BY <1>4, <2>1
  <2>3. j = [thread[c] EXCEPT !.plan = P, !.ok = ok, !.wrote = W]
    OBVIOUS
  <2> HIDE DEF P, W, ok, j
  <2>4. j \in FileJobs /\ j.at = "writing" /\ (j.ok <=> ok) /\ j.plan = P /\ j.wrote = W
    BY <1>1, <2>2, <2>3 DEF FileJobs
  <2> QED
    BY <2>1, <2>4 DEF P, W, ok
<1> HIDE DEF j
<1>7. /\ files' \in [Paths -> {None} \cup Marks] /\ disturbed' \subseteq Calls
      /\ w.path \in Paths /\ files'[w.path] = w.marks
      /\ \A p \in Paths : p # w.path => files'[p] = files[p]
  BY <1>2, <1>4 DEF FilesInv, FilesTypes, FileSteps
<1>8. /\ thread' = [thread EXCEPT ![c] = thread'[c]] /\ thread'[c] \in FileJobs
      /\ \A d \in Calls : d # c => thread'[d] = thread[d]
      /\ read' \in [Convs -> SUBSET Paths]
      /\ \A d \in Calls : read[Conv[d]] \subseteq read'[Conv[d]]
  <2>1. CASE j.plan = <<>>
    BY <1>1, <1>3, <1>6, <2>1, CallOverFiles DEF FilesInv
  <2>2. CASE j.plan # <<>>
    <3>1. thread' = [thread EXCEPT ![c] = j] /\ thread'[c] = j /\ UNCHANGED read
      BY <1>3, <2>2 DEF FilesInv, FilesTypes
    <3> QED
      BY <1>6, <3>1 DEF FilesInv, FilesTypes
  <2> QED
    BY <2>1, <2>2
<1>9. FilesTypes'
  BY <1>2, <1>7, <1>8 DEF FilesInv, FilesTypes
<1>10. ASSUME NEW d \in Calls, d # c PROVE FileCallInv(d)'
  <2>1. \A p \in Paths : files'[p] # files[p] =>
             thread[d].at # "writing" \/ p \notin PathsOf(task[d].req) \/ d \in disturbed'
    BY <1>2, <1>7, <1>10
  <2>2. disturbed \subseteq disturbed'
    BY <1>2
  <2> QED
    BY <1>2, <1>8, <1>10, <2>1, <2>2, CallKept DEF FilesInv
<1>11. PlanFits(req, plan) /\ WritingInv(c) /\ LookedInv(c)
  BY <1>1 DEF FilesInv, FileCallInv, WritingInv
<1>12. gone => thread[c].wrote = 0 \/ c \in disturbed \/ Shared(req)
  BY <1>1, <1>4, <1>11 DEF WritingInv
<1>13. disturbed \subseteq disturbed'
  BY <1>2
<1>14. FileCallInv(c)'
  <2>1. CASE j.plan = <<>>
    <3>1. thread'[c].at = "over" /\ (thread'[c].ok <=> j.ok) /\ thread'[c].wrote = j.wrote
      BY <1>1, <1>3, <1>6, <2>1, CallOverFiles DEF FilesInv
    <3>2. FailedInv(c)'
      BY <1>2, <1>6, <1>12, <1>13, <3>1 DEF FailedInv
    <3> QED
      BY <1>1, <1>2, <3>1, <3>2, OverCall
  <2>2. CASE j.plan # <<>>
    <3>1. ~gone /\ j.plan = Tail(plan)
      BY <1>6, <2>2
    <3>2. thread'[c] = j /\ UNCHANGED read
      BY <1>3, <2>2 DEF FilesInv, FilesTypes
    <3>3. FileTaskInv(c)' /\ FailedInv(c)'
      BY <1>1, <1>2, <1>6, <3>2 DEF FilesInv, FileCallInv, FileTaskInv, FailedInv
    <3>4. DOMAIN Tail(plan) = 1..(Len(plan) - 1)
      BY <1>4
    <3>5. ASSUME NEW i \in DOMAIN Tail(plan)
          PROVE  /\ i + 1 \in DOMAIN plan /\ Tail(plan)[i] = plan[i + 1] /\ i + 1 # 1
                 /\ Len(plan) # 1
      <4> HIDE DEF plan
      <4>1. i \in 1..(Len(plan) - 1) /\ Len(plan) \in Nat
        BY <1>4, <3>4, <3>5
      <4>2. \A n \in Nat : \A k \in 1..(n - 1) : k + 1 \in 1..n /\ k + 1 # 1 /\ n # 1
        OBVIOUS
      <4> QED
        BY <1>4, <4>1, <4>2
    <3>6. PlanFits(req, Tail(plan))
      <4>1. \A i, k \in DOMAIN Tail(plan) : i # k => i + 1 # k + 1
        BY <3>4
      <4> QED
        BY <1>11, <3>5, <4>1 DEF PlanFits
    <3>7. ASSUME NEW i \in DOMAIN Tail(plan), Tail(plan)[i].marks = None
          PROVE  files'[Tail(plan)[i].path] # None \/ c \in disturbed' \/ Shared(req)
      <4>1. /\ plan[i + 1].marks = None /\ i + 1 \in DOMAIN plan /\ 1 \in DOMAIN plan
            /\ plan[i + 1].path \in Paths /\ i + 1 # 1
        <5>1. i + 1 \in DOMAIN plan /\ 1 \in DOMAIN plan /\ i + 1 # 1 /\ plan[i + 1].marks = None
          BY <1>4, <3>5, <3>7
        <5>2. plan[i + 1] \in FileSteps
          BY <1>1, <5>1, ElementOfSeq
        <5> QED
          BY <5>1, <5>2 DEF FileSteps
      <4>2. files[plan[i + 1].path] # None \/ c \in disturbed \/ Shared(req)
        BY <1>1, <1>11, <3>5, <4>1 DEF WritingInv
      <4>3. CASE plan[i + 1].path = w.path
        <5>1. w.marks = None => Shared(req)
          BY <1>4, <1>11, <4>1, <4>3 DEF PlanFits
        <5> QED
          BY <1>7, <3>5, <4>1, <4>3, <5>1
      <4>4. CASE plan[i + 1].path # w.path
        BY <1>7, <1>13, <3>5, <4>1, <4>2, <4>4
      <4> QED
        BY <4>3, <4>4
    <3>8. WritingInv(c)'
      <4>1. thread'[c].plan = Tail(plan) /\ Tail(plan) # <<>> /\ req.tool # "read" /\ task'[c] = task[c]
        BY <1>1, <1>2, <1>11, <2>2, <3>1, <3>2 DEF WritingInv
      <4> HIDE DEF plan, req
      <4>2. task'[c].req = req
        BY <4>1 DEF req
      <4> QED
        BY <3>6, <3>7, <4>1, <4>2 DEF WritingInv
    <3>9. LookedInv(c)'
      <4>1. req.tool # "native_create"
        <5>1. req.tool = "native_create" => Len(plan) = 1
          BY <1>1, <1>11 DEF LookedInv
        <5>2. Tail(plan) # <<>>
          BY <2>2, <3>1
        <5>3. Len(Tail(plan)) # 0
          BY <1>4, <5>2, EmptySeq
        <5> QED
          BY <1>4, <5>1, <5>3
      <4> QED
        BY <1>1, <1>2, <1>6, <1>11, <3>2, <4>1 DEF LookedInv
    <3> QED
      BY <3>3, <3>8, <3>9 DEF FileCallInv
  <2> QED
    BY <2>1, <2>2
<1> QED
  BY <1>9, <1>10, <1>14 DEF FilesInv

\* The invariant holds before the first call.
LEMMA FilesInvInit == FilesInit => FilesInv
<1> SUFFICES ASSUME FilesInit PROVE FilesInv
  OBVIOUS
<1>1. FilesTypes
  <2>1. IdleTask \in FileTasks /\ {Base} \in Marks
    BY DEF IdleTask, FileTasks, TaskStates, Marks
  <2>2. read \in [Convs -> SUBSET Paths]
    BY FilesAssumption DEF FilesInit
  <2> QED
    BY <2>1, <2>2, ReadyJob DEF FilesInit, FilesTypes
<1>2. ASSUME NEW c \in Calls PROVE FileCallInv(c)
  BY DEF FilesInit, IdleTask, NoJob, FileCallInv, FileTaskInv, WritingInv, LookedInv, FailedInv
<1> QED
  BY <1>1, <1>2 DEF FilesInv

\* Every step keeps the invariant.
LEMMA FilesStep == FilesInv /\ [FilesNext]_fileVars => FilesInv'
<1> SUFFICES ASSUME FilesInv, [FilesNext]_fileVars PROVE FilesInv'
  OBVIOUS
<1>1. CASE UNCHANGED fileVars
  BY <1>1 DEF fileVars, FilesInv, FilesTypes, FileCallInv, FileTaskInv, WritingInv, LookedInv, FailedInv
<1>2. CASE FilesNext
  BY <1>2, BeginFiles, AcquireFiles, FinishFiles, KillFiles, StartFiles, CommitFiles DEF FilesNext
<1> QED
  BY <1>1, <1>2

\* So it always holds.
LEMMA FilesInvariance == FilesSpec => []FilesInv
BY FilesInvInit, FilesStep, PTL DEF FilesSpec

-----------------------------------------------------------------------------
(* What follows.                                                             *)

\* A thread that is writing moves only by a commit of its own.
LEMMA WritingCommits ==
    ASSUME FilesInv, [FilesNext]_fileVars, NEW c \in Calls, NEW p, Writing(c, p)
    PROVE  Commit(c)
<1>1. thread[c].at = "writing" /\ thread'[c] # thread[c] /\ task[c].at # "idle"
  BY DEF Writing, FilesInv, FileCallInv, FileTaskInv
<1>2. PICK d \in Calls : Begin(d) \/ Acquire(d) \/ Finish(d) \/ KillCall(d) \/ Start(d) \/ Commit(d)
  BY <1>1 DEF FilesNext, fileVars
<1>3. d = c
  BY <1>1, <1>2 DEF Begin, Acquire, Finish, KillCall, Start, Commit, CallOver, FilesInv, FilesTypes
<1> QED
  BY <1>1, <1>2, <1>3 DEF Begin, Acquire, Finish, KillCall, Start, FilesInv, FilesTypes, FileCallInv, FileTaskInv

\* A commit is of the first step of a plan that fits the request.
LEMMA CommitFits ==
    ASSUME FilesInv, NEW c \in Calls, Commit(c)
    PROVE  /\ task[c].req \in FileRequests /\ task[c].at \in {"running", "killed"}
           /\ task[c].req.tool # "read"
           /\ Head(thread[c].plan).path \in PathsOf(task[c].req)
           /\ task[c].req.tool \in OneFile => Head(thread[c].plan).path = task[c].req.path
<1> DEFINE plan == thread[c].plan
<1>1. /\ thread[c].at = "writing" /\ plan # <<>> /\ plan \in Seq(FileSteps)
      /\ PlanFits(task[c].req, plan) /\ task[c].req.tool # "read"
      /\ task[c].req \in FileRequests /\ task[c].at \in {"running", "killed"}
  BY DEF Commit, FilesInv, FilesTypes, FileCallInv, FileTaskInv, WritingInv, FileJobs
<1> HIDE DEF plan
<1>2. 1 \in DOMAIN plan /\ Head(plan) = plan[1]
  BY <1>1
<1> QED
  BY <1>1, <1>2 DEF PlanFits, plan

\* _file_lock, FileReadTracker and build_permission_requests, for any files, calls and
\* requests, killed calls and patches included: the lock, the read-before-write rule and
\* the approval hold together, and a patch that fails has changed nothing without a
\* reason.
THEOREM FilesAreSound == FilesSpec => FilesSound
<1>1. FilesInv => FilesTypeOK /\ FailedPatchChangesNothing
  <2>1. FilesInv => FilesTypeOK
    BY DEF FilesInv, FilesTypes, FilesTypeOK, FileTasks, FileJobs, TaskStates, ThreadStates
  <2>2. FilesInv => FailedPatchChangesNothing
    BY DEF FilesInv, FileCallInv, FailedInv, Shared, FailedPatchChangesNothing
  <2> QED
    BY <2>1, <2>2
<1>2. FilesInv /\ [FilesNext]_fileVars => \A p \in Paths, c \in Calls :
        Writing(c, p) /\ files'[p] # files[p] /\ lock[p] \notin {None, c} =>
          \/ task[c].req.tool = "apply_patch"
          \/ task[c].at = "killed"
          \/ p # task[c].req.path
  <2> SUFFICES ASSUME FilesInv, [FilesNext]_fileVars, NEW p \in Paths, NEW c \in Calls,
                      Writing(c, p), lock[p] \notin {None, c}, task[c].req.tool # "apply_patch",
                      task[c].at # "killed", p = task[c].req.path
      PROVE  FALSE
    OBVIOUS
  <2>1. task[c].at = "running" /\ task[c].req.tool # "read"
    BY WritingCommits, CommitFits
  <2>2. lock[p] = c
    BY <2>1 DEF FilesInv, FileCallInv, FileTaskInv, NeedsLock
  <2> QED
    BY <2>2
<1>3. FilesInv /\ [FilesNext]_fileVars => \A p \in Paths, c \in Calls :
        Writing(c, p) /\ files[p] # None /\ files'[p] # None
        /\ task[c].req.tool \in {"edit", "edit_new", "write", "native_create"} =>
          \/ p \in read[Conv[c]]
          \/ task[c].req.tool \in {"edit_new", "write"} /\ ~task[c].existed
          \/ c \in disturbed
  <2> SUFFICES ASSUME FilesInv, [FilesNext]_fileVars, NEW p \in Paths, NEW c \in Calls,
                      Writing(c, p), files[p] # None, task[c].req.tool \in OneFile
      PROVE  \/ p \in read[Conv[c]]
             \/ task[c].req.tool \in {"edit_new", "write"} /\ ~task[c].existed
             \/ c \in disturbed
    BY DEF OneFile
  <2>1. p = task[c].req.path /\ thread[c].at = "writing"
    BY WritingCommits, CommitFits DEF Writing
  <2> QED
    BY <2>1 DEF FilesInv, FileCallInv, LookedInv, OneFile
<1>4. FilesInv /\ [FilesNext]_fileVars => \A p \in Paths, c \in Calls :
        Writing(c, p) /\ files'[p] # files[p] => p \in Asked(task[c].req)
  <2> SUFFICES ASSUME FilesInv, [FilesNext]_fileVars, NEW p \in Paths, NEW c \in Calls, Writing(c, p)
      PROVE  p \in Asked(task[c].req)
    OBVIOUS
  <2>1. p = Head(thread[c].plan).path
    BY DEF Writing
  <2> QED
    BY <2>1, WritingCommits, CommitFits DEF Asked
<1>5. FilesSpec => OnlyTheHolderWrites
  BY <1>2, FilesInvariance, PTL DEF FilesSpec, OnlyTheHolderWrites
<1>6. FilesSpec => NoBlindOverwrite
  BY <1>3, FilesInvariance, PTL DEF FilesSpec, NoBlindOverwrite
<1>7. FilesSpec => OnlyApprovedFiles
  BY <1>4, FilesInvariance, PTL DEF FilesSpec, OnlyApprovedFiles
<1> QED
  BY <1>1, <1>5, <1>6, <1>7, FilesInvariance, PTL DEF FilesSound
-----------------------------------------------------------------------------
(* The memory plugin: the list the model was shown is the list the session keeps, *)
(* for any contents, conversations and updates.                                *)

Items == [id : Nat, content : Contents]
Slots == [todos : Seq(Items), nextId : Nat]

\* Numbered(slot): distinct numbers below the next one.
Numbered(slot) ==
  /\ \A i, j \in 1..Len(slot.todos) : i # j => slot.todos[i].id # slot.todos[j].id
  /\ \A i \in 1..Len(slot.todos) : slot.todos[i].id < slot.nextId

MemoryTypes ==
  /\ main \in 1..MaxConversations /\ slots \in [1..MaxConversations -> Slots]
  /\ shown \in Seq(Seq(Items)) /\ moving \in BOOLEAN /\ adrift \in BOOLEAN

\* While an event is under way the list is still under the id the conversation left.
FollowInv ==
  /\ moving => main - 1 \in 1..MaxConversations
  /\ moving /\ ~adrift /\ shown # <<>> => slots[main - 1].todos = shown[Len(shown)]

MemoryInv ==
  /\ MemoryTypes /\ FollowInv /\ PlanFollows
  /\ \A c \in 1..MaxConversations : Numbered(slots[c])

\* A list the model sends.
LEMMA ListTyped ==
    ASSUME NEW list \in Lists
    PROVE  /\ list \in Seq([content : Contents]) /\ Len(list) \in Nat
           /\ \A i \in 1..Len(list) : list[i].content \in Contents
<1>1. PICK n \in 0..MaxItems : list \in [1..n -> [content : Contents]]
  BY DEF Lists
<1>2. n \in Nat
  BY MemoryAssumption
<1> DEFINE R == [content : Contents]
<1>3. list \in Seq(R) /\ Len(list) = n
  <2>1. list \in [1..n -> R]
    BY <1>1
  <2> HIDE DEF R
  <2> QED
    BY <1>2, <2>1
<1> QED
  BY <1>1, <1>2, <1>3

\* A proper subset of a finite set of positions is smaller.
LEMMA Smaller ==
    ASSUME NEW n \in Nat, NEW S \in SUBSET (1..n), NEW T \in SUBSET S
    PROVE  /\ Cardinality(S) \in Nat /\ Cardinality(T) \in Nat
           /\ Cardinality(T) <= Cardinality(S)
           /\ T # S => Cardinality(T) < Cardinality(S)
<1>1. IsFiniteSet(1..n)
  BY FS_Interval
<1>2. IsFiniteSet(S)
  BY <1>1, FS_Subset
<1>3. IsFiniteSet(T) /\ Cardinality(T) <= Cardinality(S) /\ (Cardinality(S) = Cardinality(T) => S = T)
  BY <1>2, FS_Subset
<1>4. Cardinality(S) \in Nat /\ Cardinality(T) \in Nat
  BY <1>2, <1>3, FS_CardinalityType
<1> QED
  BY <1>3, <1>4

\* Two items of the same content are not the same occurrence of it.
LEMMA OccurrencesDiffer ==
    ASSUME NEW list \in Lists, NEW i \in 1..Len(list), NEW j \in 1..Len(list), i < j,
           list[i].content = list[j].content
    PROVE  Occurrence(list, i) # Occurrence(list, j)
<1> DEFINE S == {k \in 1..j : list[k].content = list[j].content}
           T == {k \in 1..i : list[k].content = list[i].content}
<1>1. Len(list) \in Nat
  BY ListTyped
<1>2. S \in SUBSET (1..j) /\ j \in Nat
  BY <1>1
<1>3. T \in SUBSET S
  <2> SUFFICES ASSUME NEW k \in T PROVE k \in S
    OBVIOUS
  <2>1. k \in 1..j
    BY <1>1
  <2> QED
    BY <2>1
<1>4. T # S
  <2>1. j \in S /\ j \notin T
    BY <1>1
  <2> QED
    BY <2>1
<1> HIDE DEF S, T
<1>5. Cardinality(T) < Cardinality(S) /\ Cardinality(S) \in Nat /\ Cardinality(T) \in Nat
  BY <1>2, <1>3, <1>4, Smaller
<1>6. Cardinality(T) # Cardinality(S)
  BY <1>5
<1> QED
  BY <1>6 DEF Occurrence, S, T

\* The new items up to one that is new are more than those up to an earlier one, and
\* there is at least that one.
LEMMA FreshGrows ==
    ASSUME NEW list \in Lists, NEW previous, NEW i \in 1..Len(list)
    PROVE  /\ Cardinality(Fresh(previous, list, i)) \in Nat
           /\ Match(previous, list, i) = {} => Cardinality(Fresh(previous, list, i)) >= 1
           /\ \A j \in i..Len(list) :
                Cardinality(Fresh(previous, list, i)) <= Cardinality(Fresh(previous, list, j))
           /\ \A j \in (i + 1)..Len(list) : Match(previous, list, j) = {} =>
                Cardinality(Fresh(previous, list, i)) < Cardinality(Fresh(previous, list, j))
<1>0. Len(list) \in Nat
  BY ListTyped
<1> DEFINE F(j) == Fresh(previous, list, j)
<1>1. \A j \in 1..Len(list) : F(j) \in SUBSET (1..j) /\ j \in Nat
  BY <1>0 DEF Fresh
<1>2. \A j \in i..Len(list) : F(i) \in SUBSET F(j) /\ j \in 1..Len(list)
  BY <1>0 DEF Fresh
<1>3. \A j \in (i + 1)..Len(list) : Match(previous, list, j) = {} =>
        j \in F(j) /\ j \notin F(i) /\ j \in i..Len(list)
  BY <1>0 DEF Fresh
<1>4. Match(previous, list, i) = {} => {} # F(i)
  BY <1>0 DEF Fresh
<1> HIDE DEF F
<1>5. Cardinality(F(i)) \in Nat
  BY <1>1, Smaller
<1>6. Match(previous, list, i) = {} => Cardinality(F(i)) >= 1
  <2>1. SUFFICES ASSUME {} # F(i) PROVE Cardinality(F(i)) >= 1
    BY <1>4
  <2>2. Cardinality({}) < Cardinality(F(i)) /\ Cardinality({}) \in Nat
    BY <1>1, <2>1, Smaller
  <2> QED
    BY <1>5, <2>2
<1>7. \A j \in i..Len(list) : Cardinality(F(i)) <= Cardinality(F(j))
  BY <1>1, <1>2, Smaller
<1>8. ASSUME NEW j \in (i + 1)..Len(list), Match(previous, list, j) = {}
      PROVE  Cardinality(F(i)) < Cardinality(F(j))
  <2>1. F(i) # F(j) /\ F(i) \in SUBSET F(j) /\ F(j) \in SUBSET (1..j) /\ j \in Nat
    BY <1>1, <1>2, <1>3, <1>8
  <2> QED
    BY <2>1, Smaller
<1> QED
  BY <1>5, <1>6, <1>7, <1>8 DEF F

\* A list numbered after another keeps the numbers of what it carries on and gives the
\* rest new ones.
LEMMA AssignedNumbers ==
    ASSUME NEW slot \in Slots, Numbered(slot), NEW list \in Lists
    PROVE  AssignIds(slot, list) \in Slots /\ Numbered(AssignIds(slot, list))
<1> DEFINE n == Len(list)
           prev == slot.todos
           fresh(i) == Cardinality(Fresh(prev, list, i))
           from(i) == CHOOSE k \in Match(prev, list, i) : TRUE
           id(i) == IF Match(prev, list, i) = {} THEN slot.nextId + fresh(i) - 1 ELSE prev[from(i)].id
           new == AssignIds(slot, list)
<1>1. /\ n \in Nat /\ slot.nextId \in Nat /\ prev \in Seq(Items) /\ Len(prev) \in Nat
      /\ \A i \in 1..n : list[i].content \in Contents
  BY ListTyped DEF Slots
<1>2. /\ new.todos = [i \in 1..n |-> [id |-> id(i), content |-> list[i].content]]
      /\ new.nextId = slot.nextId + fresh(n)
      /\ new = [todos |-> new.todos, nextId |-> new.nextId]
  BY DEF AssignIds
<1>3. ASSUME NEW i \in 1..n, Match(prev, list, i) # {}
      PROVE  /\ from(i) \in 1..Len(prev) /\ from(i) \in Match(prev, list, i)
             /\ id(i) = prev[from(i)].id /\ id(i) \in Nat /\ id(i) < slot.nextId
  <2>1. from(i) \in Match(prev, list, i)
    BY <1>3
  <2> HIDE DEF from
  <2>2. from(i) \in 1..Len(prev)
    BY <2>1 DEF Match
  <2>3. prev[from(i)] \in Items
    BY <1>1, <2>2
  <2> QED
    BY <1>3, <2>1, <2>2, <2>3 DEF Items, Numbered
<1>4. ASSUME NEW i \in 1..n
      PROVE  /\ fresh(i) \in Nat
             /\ Match(prev, list, i) = {} => fresh(i) >= 1
             /\ \A j \in i..n : fresh(i) <= fresh(j)
             /\ \A j \in (i + 1)..n : Match(prev, list, j) = {} => fresh(i) < fresh(j)
  BY FreshGrows
<1>5. fresh(n) \in Nat
  <2>1. CASE n = 0
    <3>1. Fresh(prev, list, 0) = {}
      BY DEF Fresh
    <3>2. fresh(n) = Cardinality({})
      BY <2>1, <3>1
    <3>3. Cardinality({}) = 0
      BY FS_EmptySet
    <3> HIDE DEF fresh
    <3> QED
      BY <3>2, <3>3
  <2>2. CASE n # 0
    BY <1>1, <1>4, <2>2
  <2> QED
    BY <2>1, <2>2
<1> HIDE DEF n, fresh, from, new
<1>6. ASSUME NEW i \in 1..n
      PROVE  id(i) \in Nat /\ id(i) < slot.nextId + fresh(n)
  <2>1. CASE Match(prev, list, i) = {}
    <3>1. fresh(i) \in Nat /\ fresh(i) >= 1 /\ fresh(i) <= fresh(n)
      <4>1. n \in i..n
        BY <1>1
      <4> QED
        BY <1>4, <2>1, <4>1
    <3>2. id(i) = slot.nextId + fresh(i) - 1
      BY <2>1
    <3> QED
      BY <1>1, <1>5, <3>1, <3>2
  <2>2. CASE Match(prev, list, i) # {}
    <3> HIDE DEF id
    <3>1. id(i) \in Nat /\ id(i) < slot.nextId
      BY <1>3, <2>2
    <3> QED
      BY <1>1, <1>5, <3>1
  <2> QED
    BY <2>1, <2>2
<1>7. ASSUME NEW i \in 1..n, NEW j \in 1..n, i < j PROVE id(i) # id(j)
  <2>1. j \in (i + 1)..n /\ j \in i..n
    BY <1>1, <1>7
  <2>2. CASE Match(prev, list, i) = {} /\ Match(prev, list, j) = {}
    <3>1. id(i) = slot.nextId + fresh(i) - 1 /\ id(j) = slot.nextId + fresh(j) - 1
      BY <2>2
    <3>2. fresh(i) \in Nat /\ fresh(j) \in Nat /\ fresh(i) < fresh(j)
      BY <1>4, <2>1, <2>2
    <3> QED
      BY <1>1, <3>1, <3>2
  <2>3. CASE Match(prev, list, i) = {} /\ Match(prev, list, j) # {}
    <3>1. id(i) = slot.nextId + fresh(i) - 1 /\ fresh(i) \in Nat /\ fresh(i) >= 1
      BY <1>4, <2>3
    <3>2. id(j) \in Nat /\ id(j) < slot.nextId
      BY <1>3, <2>3
    <3> HIDE DEF id
    <3> QED
      BY <1>1, <3>1, <3>2
  <2>4. CASE Match(prev, list, i) # {} /\ Match(prev, list, j) = {}
    <3>1. id(j) = slot.nextId + fresh(j) - 1 /\ fresh(j) \in Nat /\ fresh(j) >= 1
      BY <1>4, <2>4
    <3>2. id(i) \in Nat /\ id(i) < slot.nextId
      BY <1>3, <2>4
    <3> HIDE DEF id
    <3> QED
      BY <1>1, <3>1, <3>2
  <2>5. CASE Match(prev, list, i) # {} /\ Match(prev, list, j) # {}
    <3>1. /\ id(i) = prev[from(i)].id /\ from(i) \in 1..Len(prev) /\ from(i) \in Match(prev, list, i)
          /\ id(j) = prev[from(j)].id /\ from(j) \in 1..Len(prev) /\ from(j) \in Match(prev, list, j)
      BY <1>3, <2>5
    <3>2. from(i) # from(j)
      <4> SUFFICES ASSUME from(i) = from(j) PROVE FALSE
        OBVIOUS
      <4>1. list[i].content = list[j].content /\ Occurrence(list, i) = Occurrence(list, j)
        BY <3>1 DEF Match
      <4> QED
        BY <1>7, <4>1, OccurrencesDiffer DEF n
    <3> HIDE DEF id
    <3> QED
      BY <3>1, <3>2 DEF Numbered
  <2> QED
    BY <2>2, <2>3, <2>4, <2>5
<1> HIDE DEF id
<1>8. new.todos \in Seq(Items) /\ Len(new.todos) = n /\ \A i \in 1..n : new.todos[i].id = id(i)
  <2>1. \A i \in 1..n : [id |-> id(i), content |-> list[i].content] \in Items
    BY <1>1, <1>6 DEF Items
  <2>2. new.todos \in [1..n -> Items]
    BY <1>2, <2>1
  <2> QED
    BY <1>1, <1>2, <2>2
<1>9. new \in Slots
  <2>1. new.nextId \in Nat
    BY <1>1, <1>2, <1>5
  <2>2. [todos |-> new.todos, nextId |-> new.nextId] \in Slots
    BY <1>8, <2>1 DEF Slots
  <2> QED
    BY <1>2, <2>2
<1>10. \A i, j \in 1..n : i # j => id(i) # id(j)
  <2> SUFFICES ASSUME NEW i \in 1..n, NEW j \in 1..n, i # j PROVE id(i) # id(j)
    OBVIOUS
  <2>1. i < j \/ j < i
    BY <1>1
  <2> QED
    BY <1>7, <2>1
<1>11. Numbered(new)
  <2>1. \A i \in 1..n : new.todos[i].id < new.nextId
    BY <1>2, <1>6, <1>8
  <2>2. \A i, j \in 1..n : i # j => new.todos[i].id # new.todos[j].id
    BY <1>8, <1>10
  <2> QED
    BY <1>8, <2>1, <2>2 DEF Numbered
<1> QED
  BY <1>9, <1>11 DEF new

\* The list of a conversation that has none.
LEMMA NewSlotNumbered == NewSlot \in Slots /\ Numbered(NewSlot)
BY DEF NewSlot, Slots, Numbered

\* The invariant holds initially and every step keeps it.
LEMMA MemoryInitInv == MemoryInit => MemoryInv
<1> SUFFICES ASSUME MemoryInit PROVE MemoryInv
  OBVIOUS
<1>1. MemoryTypes
  <2>1. 1 \in 1..MaxConversations
    BY MemoryAssumption
  <2>2. <<>> \in Seq(Seq(Items))
    OBVIOUS
  <2> QED
    BY <2>1, <2>2, NewSlotNumbered DEF MemoryInit, MemoryTypes
<1>2. \A c \in 1..MaxConversations : Numbered(slots[c])
  BY NewSlotNumbered DEF MemoryInit
<1> QED
  BY <1>1, <1>2 DEF MemoryInit, MemoryInv, FollowInv, PlanFollows

\* Every step keeps the invariant.
LEMMA MemoryStep == MemoryInv /\ [MemoryNext]_memoryVars => MemoryInv'
<1> SUFFICES ASSUME MemoryInv, [MemoryNext]_memoryVars PROVE MemoryInv'
  OBVIOUS
<1> USE DEF MemoryInv
<1>1. ASSUME NEW list \in Lists, UpdateTodos!(list) PROVE MemoryInv'
  <2>1. AssignIds(slots[main], list) \in Slots /\ Numbered(AssignIds(slots[main], list))
    BY AssignedNumbers DEF MemoryTypes
  <2>2. /\ slots' \in [1..MaxConversations -> Slots] /\ slots'[main] = AssignIds(slots[main], list)
        /\ \A c \in 1..MaxConversations \ {main} : slots'[c] = slots[c]
    BY <1>1, <2>1 DEF MemoryTypes
  <2>3. slots'[main].todos \in Seq(Items)
    BY <2>1, <2>2 DEF Slots
  <2>4. shown' \in Seq(Seq(Items)) /\ shown'[Len(shown')] = slots'[main].todos
    BY <1>1, <2>3, AppendProperties DEF MemoryTypes
  <2>5. MemoryTypes'
    BY <1>1, <2>2, <2>4 DEF MemoryTypes
  <2>6. \A c \in 1..MaxConversations : Numbered(slots'[c])
    BY <2>1, <2>2 DEF MemoryTypes
  <2> QED
    BY <1>1, <2>4, <2>5, <2>6 DEF FollowInv, PlanFollows
<1>2. ASSUME NEW kept \in 0..Len(shown), CompactionCommits!(kept) PROVE MemoryInv'
  <2> DEFINE a == Len(shown) - kept + 1
  <2>1. Len(shown) \in Nat /\ a \in 1..(Len(shown) + 1)
    BY DEF MemoryTypes
  <2>2. /\ shown' \in Seq(Seq(Items)) /\ Len(shown') = kept
        /\ \A i \in 1..kept : shown'[i] = shown[a + i - 1]
    BY <1>2, <2>1, SubSeqProperties DEF MemoryTypes
  <2>3. shown' # <<>> => shown # <<>> /\ shown'[Len(shown')] = shown[Len(shown)]
    <3> SUFFICES ASSUME shown' # <<>> PROVE shown # <<>> /\ shown'[Len(shown')] = shown[Len(shown)]
      OBVIOUS
    <3>1. kept \in 1..kept /\ a + kept - 1 = Len(shown) /\ Len(shown) # 0
      BY <2>1, <2>2, EmptySeq
    <3> QED
      BY <2>1, <2>2, <3>1
  <2>4. main' = main + 1 /\ main' - 1 = main /\ main' \in 1..MaxConversations
    BY <1>2, MemoryAssumption DEF MemoryTypes
  <2>5. MemoryTypes'
    BY <1>2, <2>2, <2>4 DEF MemoryTypes
  <2>6. FollowInv'
    BY <1>2, <2>3, <2>4 DEF FollowInv, PlanFollows, MemoryTypes
  <2> QED
    BY <1>2, <2>5, <2>6 DEF PlanFollows
<1>3. ASSUME EventHandled PROVE MemoryInv'
  <2>1. main - 1 \in 1..MaxConversations /\ main \in 1..MaxConversations /\ main - 1 # main
    BY <1>3 DEF EventHandled, FollowInv, MemoryTypes
  <2>2. /\ slots' \in [1..MaxConversations -> Slots]
        /\ slots'[main] = slots[main - 1] /\ slots'[main - 1] = NewSlot
        /\ \A c \in 1..MaxConversations \ {main, main - 1} : slots'[c] = slots[c]
    BY <1>3, <2>1, NewSlotNumbered DEF EventHandled, MoveStore, MemoryTypes
  <2>3. \A c \in 1..MaxConversations : Numbered(slots'[c])
    BY <2>1, <2>2, NewSlotNumbered
  <2> QED
    BY <1>3, <2>1, <2>2, <2>3 DEF EventHandled, MemoryTypes, FollowInv, PlanFollows
<1>4. ASSUME EventLost PROVE MemoryInv'
  BY <1>4 DEF EventLost, MemoryTypes, FollowInv, PlanFollows
<1>5. ASSUME NEW cut \in 0..Len(shown), RewindTo!(cut) PROVE MemoryInv'
  <2>1. shown' \in Seq(Seq(Items))
    BY <1>5, SubSeqProperties DEF MemoryTypes
  <2>2. main' \in 1..MaxConversations
    BY <1>5, MemoryAssumption DEF MemoryTypes
  <2> QED
    BY <1>5, <2>1, <2>2 DEF MemoryTypes, FollowInv, PlanFollows
<1>6. ASSUME UNCHANGED memoryVars PROVE MemoryInv'
  BY <1>6 DEF memoryVars, MemoryTypes, FollowInv, PlanFollows
<1> QED
  BY <1>1, <1>2, <1>3, <1>4, <1>5, <1>6 DEF MemoryNext, UpdateTodos, CompactionCommits, RewindTo

\* AssignIds and the moves of the list, for any contents, lists, compactions and
\* rewinds: no two items of a list share a number, none takes a number that was
\* another's, and the list the agent reads is the one it last wrote.
THEOREM MemoryIsSound == MemorySpec => []MemorySound
<1>1. MemoryInv => MemorySound
  BY DEF MemoryInv, Numbered, MemorySound, NumbersAreItems
<1> QED
  BY <1>1, MemoryInitInv, MemoryStep, PTL DEF MemorySpec
-----------------------------------------------------------------------------
(* The checkpoints: files and conversation move together, for any operations,   *)
(* files and failures of git.                                                  *)

Versions == {Absent} \cup 1..MaxWrites
Trees == [Tracked -> Versions]
Holding == {"add", "commit", "head", "read-tree", "clean"}
OpPlaces == {"idle", "lock", "record", "rewind", "taken", "none", "false", "raised", "true"} \cup Holding
OpPhases == {"none", "take", "safety", "apply", "undo"}
OpRecords == [at : OpPlaces, phase : OpPhases, anchor : Nat, target : Nat, safety : Nat,
              made : Nat, before : Trees, quiet : BOOLEAN]
Stores == [ready : BOOLEAN, disabled : BOOLEAN, lock : Ops \cup {Nobody}]
RowRecords == [commit : Nat, anchor : Nat]
Counts == [turn : Nat, writes : 0..MaxWrites, faults : Nat]

CheckpointTypes ==
  /\ tree \in Trees /\ staged \in Trees
  /\ commits \in Seq(Trees) /\ rows \in Seq(RowRecords) /\ nodes \in Seq(Nat)
  /\ store \in Stores /\ op \in [Ops -> OpRecords] /\ bounds \in Counts

\* A row names a commit that was made.
RowsInv == \A i \in 1..Len(rows) : rows[i].commit \in 1..Len(commits)

Made(i) == i \in 1..Len(commits)

\* Where an operation is, and the commits it names.
PlaceInv(o) ==
  /\ store.lock = o <=> op[o].at \in Holding
  /\ op[o].at = "idle" => op[o].phase = "none" /\ op[o].safety = 0
  /\ op[o].at \in {"add", "commit", "head"} => op[o].phase \in {"take", "safety"}
  /\ op[o].at \in {"read-tree", "clean"} => op[o].phase \in {"apply", "undo"}
  /\ op[o].at = "lock" => op[o].phase # "none"
  /\ op[o].at = "rewind" => op[o].phase = "apply"
  /\ op[o].at \in {"record", "taken"} => Made(op[o].made)
  /\ op[o].made = 0 \/ Made(op[o].made)
  /\ op[o].safety = 0 \/ Made(op[o].safety)
  /\ op[o].phase \in {"safety", "apply", "undo"} => Made(op[o].target)
  /\ op[o].phase \in {"take", "safety"} => op[o].safety = 0
  /\ op[o].phase = "undo" /\ op[o].at # "raised" => op[o].safety # 0

\* The snapshot being made, or made, is the workspace as it was when it was added.
SnapshotInv(o) ==
  /\ op[o].at = "commit" => staged = op[o].before
  /\ op[o].at = "head" => Made(Len(commits)) /\ commits[Len(commits)] = op[o].before
  /\ op[o].at \in {"record", "taken"} => commits[op[o].made] = op[o].before
  /\ op[o].safety # 0 => commits[op[o].safety] = op[o].before

\* How much of the checkpoint is back, as long as nothing disturbed the restore: no
\* restore is undisturbed once the store is disabled, or with no safety snapshot.
RestoreInv(o) ==
  /\ op[o].at = "clean" =>
       /\ staged = commits[Wanted(o)]
       /\ op[o].quiet => \A f \in Tracked : staged[f] # Absent => tree[f] = staged[f]
  /\ op[o].at \in {"rewind", "true"} /\ op[o].quiet => tree = commits[op[o].target]
  /\ op[o].at = "true" => op[o].anchor % 2 = 0 /\ Made(op[o].target)
  /\ op[o].at = "raised" /\ op[o].quiet => tree = op[o].before
  /\ store.disabled => ~op[o].quiet
  /\ op[o].phase \in {"apply", "undo"} /\ op[o].quiet => op[o].safety # 0

OpInv(o) == PlaceInv(o) /\ SnapshotInv(o) /\ RestoreInv(o)

CheckpointInv == CheckpointTypes /\ RowsInv /\ \A o \in Ops : OpInv(o)

\* Two records of an operation that differ in nothing but whether it was disturbed.
Alike(r, s) ==
  /\ r.at = s.at /\ r.phase = s.phase /\ r.anchor = s.anchor /\ r.target = s.target
  /\ r.safety = s.safety /\ r.made = s.made /\ r.before = s.before

\* What a step of another leaves of operation p.
KeptBy(p) ==
  /\ Alike(op'[p], op[p])
  /\ op'[p].quiet => op[p].quiet
  /\ store'.lock = p <=> store.lock = p
  /\ store.lock = p => staged' = staged /\ commits' = commits
  /\ Len(commits) <= Len(commits')
  /\ \A i \in 1..Len(commits) : commits'[i] = commits[i]
  /\ op'[p].quiet => tree' = tree
  /\ store'.disabled => store.disabled \/ ~op'[p].quiet

\* An operation is not disturbed by a step of another: what it holds, the commits it
\* names and the files it put back are as they were, or it is quiet no more.
LEMMA OtherKept ==
  ASSUME CheckpointTypes, NEW p \in Ops, OpInv(p), KeptBy(p)
  PROVE  OpInv(p)'
<1>1. op[p] \in OpRecords /\ Len(commits) \in Nat /\ Len(commits') \in Int
  <2>1. Len(commits) \in Nat /\ op[p] \in OpRecords
    BY DEF CheckpointTypes
  <2> QED BY <2>1 DEF KeptBy
<1>2. \A i : Made(i) => Made(i)' /\ commits'[i] = commits[i]
  BY <1>1 DEF Made, KeptBy
<1>3. PlaceInv(p)'
  BY <1>1, <1>2 DEF OpInv, PlaceInv, KeptBy, Alike
<1>4. SnapshotInv(p)'
  <2>1. op[p].at \in {"commit", "head"} => staged' = staged /\ commits' = commits
    BY DEF OpInv, PlaceInv, KeptBy, Holding
  <2>2. (op[p].at = "commit" => staged = op[p].before)'
    BY <2>1 DEF OpInv, SnapshotInv, KeptBy, Alike
  <2>3. (op[p].at = "head" => Made(Len(commits)) /\ commits[Len(commits)] = op[p].before)'
    BY <2>1 DEF OpInv, SnapshotInv, KeptBy, Alike, Made
  <2>4. (op[p].at \in {"record", "taken"} => commits[op[p].made] = op[p].before)'
    BY <1>2 DEF OpInv, PlaceInv, SnapshotInv, KeptBy, Alike
  <2>5. (op[p].safety # 0 => commits[op[p].safety] = op[p].before)'
    BY <1>2 DEF OpInv, PlaceInv, SnapshotInv, KeptBy, Alike
  <2> QED BY <2>2, <2>3, <2>4, <2>5 DEF SnapshotInv
<1>5. RestoreInv(p)'
  <2>1. Wanted(p)' = Wanted(p)
    BY DEF Wanted, KeptBy, Alike
  <2>2. op[p].at = "clean" => staged' = staged /\ commits' = commits
    BY DEF OpInv, PlaceInv, KeptBy, Holding
  <2>3. (op[p].at = "clean" =>
           /\ staged = commits[Wanted(p)]
           /\ op[p].quiet => \A f \in Tracked : staged[f] # Absent => tree[f] = staged[f])'
    BY <2>1, <2>2 DEF OpInv, RestoreInv, KeptBy, Alike
  <2>4. op[p].at = "rewind" => Made(op[p].target)
    BY DEF OpInv, PlaceInv
  <2>5. (op[p].at \in {"rewind", "true"} /\ op[p].quiet => tree = commits[op[p].target])'
    BY <1>2, <2>4 DEF OpInv, RestoreInv, KeptBy, Alike
  <2>6. (op[p].at = "true" => op[p].anchor % 2 = 0 /\ Made(op[p].target))'
    BY <1>2 DEF OpInv, RestoreInv, KeptBy, Alike
  <2>7. (op[p].at = "raised" /\ op[p].quiet => tree = op[p].before)'
    BY DEF OpInv, RestoreInv, KeptBy, Alike
  <2>8. (store.disabled => ~op[p].quiet)'
    BY DEF OpInv, RestoreInv, KeptBy
  <2>9. (op[p].phase \in {"apply", "undo"} /\ op[p].quiet => op[p].safety # 0)'
    BY DEF OpInv, RestoreInv, KeptBy, Alike
  <2> QED BY <2>3, <2>5, <2>6, <2>7, <2>8, <2>9 DEF RestoreInv
<1> QED BY <1>3, <1>4, <1>5 DEF OpInv

\* Where the store's operation of a phase leaves it.
OverAt(at, made) ==
  CASE at = "take"   -> IF made = 0 THEN "none" ELSE "record"
    [] at = "safety" -> "lock"
    [] at = "apply"  -> IF made = 0 THEN "false" ELSE "rewind"
    [] at = "undo"   -> "raised"

\* What the end of the store's operation of o does to its record, and to the others'.
LEMMA OverEffect ==
  ASSUME op \in [Ops -> OpRecords], NEW o \in Ops, NEW made \in Nat, NEW outcome \in Outcomes,
         op[o].phase \in {"take", "safety", "apply", "undo"},
         NEW ops, ops = Unquiet(Over(o, made), outcome)
  PROVE  /\ ops \in [Ops -> OpRecords]
         /\ ops[o].at = OverAt(op[o].phase, made)
         /\ ops[o].phase = (IF op[o].phase = "safety" THEN "apply" ELSE op[o].phase)
         /\ ops[o].safety = (IF op[o].phase = "safety" THEN made ELSE op[o].safety)
         /\ ops[o].made = made /\ ops[o].anchor = op[o].anchor
         /\ ops[o].target = op[o].target /\ ops[o].before = op[o].before
         /\ ops[o].quiet <=> op[o].quiet /\ outcome = "ok"
         /\ \A p \in Ops \ {o} : Alike(ops[p], op[p]) /\ (ops[p].quiet <=> op[p].quiet /\ outcome = "ok")
<1> DEFINE rec == [op[o] EXCEPT
               !.at = OverAt(op[o].phase, made),
               !.phase = IF @ = "safety" THEN "apply" ELSE @,
               !.made = made,
               !.safety = IF op[o].phase = "safety" THEN made ELSE @]
           end == Over(o, made)
<1>1. op[o] \in OpRecords
  OBVIOUS
<1>2. OverAt(op[o].phase, made) \in OpPlaces
  BY DEF OverAt, OpPlaces, Holding
<1>3. (IF op[o].phase = "safety" THEN "apply" ELSE op[o].phase) \in OpPhases
  BY DEF OpPhases
<1>4. rec \in OpRecords
  BY <1>1, <1>2, <1>3 DEF OpRecords
<1>5. end = [op EXCEPT ![o] = rec]
  BY DEF Over, OverAt
<1> HIDE DEF end
<1>6. end \in [Ops -> OpRecords] /\ end[o] = rec /\ \A p \in Ops \ {o} : end[p] = op[p]
  BY <1>4, <1>5
<1>7. /\ rec.at = OverAt(op[o].phase, made)
      /\ rec.phase = (IF op[o].phase = "safety" THEN "apply" ELSE op[o].phase)
      /\ rec.safety = (IF op[o].phase = "safety" THEN made ELSE op[o].safety)
      /\ rec.made = made /\ rec.anchor = op[o].anchor
      /\ rec.target = op[o].target /\ rec.before = op[o].before
      /\ rec.quiet = op[o].quiet
  BY <1>1 DEF OpRecords
<1> HIDE DEF rec
<1>8. ops = Unquiet(end, outcome)
  BY DEF end
<1>9. CASE outcome = "ok"
  BY <1>6, <1>7, <1>8, <1>9 DEF Unquiet, Alike
<1>10. CASE outcome # "ok"
  <2>1. ops = [p \in Ops |-> [end[p] EXCEPT !.quiet = FALSE]]
    BY <1>8, <1>10 DEF Unquiet
  <2>2. \A p \in Ops : LET r == [end[p] EXCEPT !.quiet = FALSE] IN
           r \in OpRecords /\ Alike(r, end[p]) /\ r.quiet = FALSE
    BY <1>6, ZenonT(30) DEF OpRecords, Alike
  <2>3. ops \in [Ops -> OpRecords] /\ \A p \in Ops : Alike(ops[p], end[p]) /\ ops[p].quiet = FALSE
    BY <2>1, <2>2
  <2> QED BY <2>3, <1>6, <1>7, <1>10 DEF Alike
<1> QED BY <1>9, <1>10

\* A failure of git marks every operation, and changes nothing else of theirs.
LEMMA UnquietEffect ==
  ASSUME NEW marked \in [Ops -> OpRecords], NEW outcome \in Outcomes,
         NEW ops, ops = Unquiet(marked, outcome)
  PROVE  /\ ops \in [Ops -> OpRecords]
         /\ \A p \in Ops : Alike(ops[p], marked[p]) /\ (ops[p].quiet <=> marked[p].quiet /\ outcome = "ok")
<1>1. CASE outcome = "ok"
  BY <1>1 DEF Unquiet, Alike
<1>2. CASE outcome # "ok"
  <2>1. ops = [p \in Ops |-> [marked[p] EXCEPT !.quiet = FALSE]]
    BY <1>2 DEF Unquiet
  <2>2. \A p \in Ops : LET r == [marked[p] EXCEPT !.quiet = FALSE] IN
           r \in OpRecords /\ Alike(r, marked[p]) /\ r.quiet = FALSE
    BY DEF OpRecords, Alike
  <2> QED BY <2>1, <2>2, <1>2
<1> QED BY <1>1, <1>2

\* So does a change of the workspace, to all but the one that made it.
LEMMA DisturbedEffect ==
  ASSUME NEW marked \in [Ops -> OpRecords], NEW o \in Ops, NEW ops, ops = Disturbed(marked, o)
  PROVE  /\ ops \in [Ops -> OpRecords]
         /\ \A p \in Ops : Alike(ops[p], marked[p]) /\ (ops[p].quiet <=> marked[p].quiet /\ p = o)
<1>1. ops = [p \in Ops |-> [marked[p] EXCEPT !.quiet = @ /\ p = o]]
  BY DEF Disturbed
<1>2. \A s \in OpRecords, b \in BOOLEAN : LET r == [s EXCEPT !.quiet = b] IN
         r \in OpRecords /\ Alike(r, s) /\ r.quiet = b
  BY DEF OpRecords, Alike
<1>3. \A p \in Ops : marked[p] \in OpRecords /\ (marked[p].quiet /\ p = o) \in BOOLEAN
  BY DEF OpRecords
<1>4. \A p \in Ops : ops[p] = [marked[p] EXCEPT !.quiet = marked[p].quiet /\ p = o]
  BY <1>1
<1>5. ASSUME NEW p \in Ops
      PROVE  ops[p] \in OpRecords /\ Alike(ops[p], marked[p]) /\ ops[p].quiet = (marked[p].quiet /\ p = o)
  <2> DEFINE b == marked[p].quiet /\ p = o
  <2>1. b \in BOOLEAN /\ ops[p] = [marked[p] EXCEPT !.quiet = b]
    BY <1>3, <1>4
  <2> HIDE DEF b
  <2>2. ops[p] \in OpRecords /\ Alike(ops[p], marked[p]) /\ ops[p].quiet = b
    BY <1>2, <1>3, <2>1
  <2> QED BY <2>2 DEF b
<1> QED BY <1>1, <1>5

\* An operation that goes to its next place, and to its next phase.
Moved(o, place, part) == [op EXCEPT ![o].at = place, ![o].phase = part]

\* Nothing else of it changes, and nothing of the others.
LEMMA MoveEffect ==
  ASSUME op \in [Ops -> OpRecords], NEW o \in Ops, NEW place \in OpPlaces, NEW part \in OpPhases,
         NEW ops, ops = Moved(o, place, part)
  PROVE  /\ ops \in [Ops -> OpRecords]
         /\ ops[o].at = place
         /\ ops[o].phase = part /\ ops[o].anchor = op[o].anchor /\ ops[o].target = op[o].target
         /\ ops[o].safety = op[o].safety /\ ops[o].made = op[o].made /\ ops[o].before = op[o].before
         /\ ops[o].quiet = op[o].quiet
         /\ \A p \in Ops \ {o} : ops[p] = op[p]
<1>1. op[o] \in OpRecords
  OBVIOUS
<1>2. [op[o] EXCEPT !.at = place, !.phase = part] \in OpRecords
  BY <1>1 DEF OpRecords
<1> QED BY <1>1, <1>2 DEF OpRecords, Moved

\* Most moves stay in their phase.
LEMMA PlainMove ==
  ASSUME op \in [Ops -> OpRecords], NEW o \in Ops, NEW place \in OpPlaces
  PROVE  op[o].phase \in OpPhases /\ [op EXCEPT ![o].at = place] = Moved(o, place, op[o].phase)
<1>1. op[o] \in OpRecords
  OBVIOUS
<1>2. [op[o] EXCEPT !.at = place] = [op[o] EXCEPT !.at = place, !.phase = op[o].phase]
  BY <1>1 DEF OpRecords
<1> QED BY <1>1, <1>2 DEF OpRecords, Moved

\* The store after a git command.
LEMMA StoreEffect ==
  ASSUME store \in Stores, NEW outcome \in Outcomes, NEW held \in Ops \cup {Nobody}
  PROVE  /\ StoreAfter(outcome, held) \in Stores
         /\ StoreAfter(outcome, held).lock = held
         /\ StoreAfter(outcome, held).ready = store.ready
         /\ StoreAfter(outcome, held).disabled <=> store.disabled \/ outcome = "dies"
         /\ [StoreAfter(outcome, held) EXCEPT !.ready = TRUE] \in Stores
         /\ [StoreAfter(outcome, held) EXCEPT !.ready = TRUE].lock = held
         /\ [StoreAfter(outcome, held) EXCEPT !.ready = TRUE].disabled <=> store.disabled \/ outcome = "dies"
BY DEF StoreAfter, Stores

\* What a git command counts.
LEMMA GitEffect ==
  ASSUME bounds \in Counts, NEW outcome \in Outcomes, Git(outcome)
  PROVE  bounds' \in Counts
BY DEF Git, Counts

\* A step of o is judged by its own record and by what it leaves the others.
LEMMA StepOf ==
  ASSUME CheckpointInv, NEW o \in Ops, CheckpointTypes', RowsInv', OpInv(o)',
         \A p \in Ops \ {o} : KeptBy(p)
  PROVE  CheckpointInv'
<1>1. \A p \in Ops : OpInv(p)'
  BY OtherKept DEF CheckpointInv
<1> QED BY <1>1 DEF CheckpointInv

\* The store's lock, and its repository.
LEMMA LockStep ==
  ASSUME CheckpointInv, NEW o \in Ops, Lock(o)
  PROVE  CheckpointInv'
<1>1. PICK outcome \in Outcomes, isSet \in BOOLEAN : Lock(o)!(outcome, isSet)
  BY DEF Lock
<1>2. CheckpointTypes /\ RowsInv /\ OpInv(o)
  BY DEF CheckpointInv
<1>3. store \in Stores /\ op \in [Ops -> OpRecords] /\ bounds \in Counts /\ op[o] \in OpRecords
  BY <1>2 DEF CheckpointTypes
<1>4. op[o].phase \in {"take", "safety", "apply", "undo"} /\ op[o].at = "lock"
  BY <1>1, <1>2, <1>3 DEF OpInv, PlaceInv, OpRecords, OpPhases
<1>5. bounds' \in Counts
  BY <1>1, <1>3, GitEffect
<1>6. store.lock = Nobody /\ \A p \in Ops : p # Nobody
  BY <1>1, CheckpointsAssumption DEF MayLock
<1>7. CASE isSet
  <2> DEFINE place == IF op[o].phase \in {"take", "safety"} THEN "add" ELSE "read-tree"
             moved == [op EXCEPT ![o].at = place]
  <2>1. place \in OpPlaces /\ place \in Holding
    BY DEF OpPlaces, Holding
  <2>2. store' = [StoreAfter(outcome, o) EXCEPT !.ready = TRUE] /\ op' = Unquiet(moved, outcome)
    BY <1>1, <1>7
  <2>3. /\ place = (IF op[o].phase \in {"take", "safety"} THEN "add" ELSE "read-tree")
        /\ moved = Moved(o, place, op[o].phase) /\ op[o].phase \in OpPhases
    BY <2>1, <1>3, PlainMove
  <2> HIDE DEF place, moved
  <2>4. /\ moved \in [Ops -> OpRecords]
        /\ moved[o].at = place
        /\ moved[o].phase = op[o].phase /\ moved[o].anchor = op[o].anchor /\ moved[o].target = op[o].target
        /\ moved[o].safety = op[o].safety /\ moved[o].made = op[o].made /\ moved[o].before = op[o].before
        /\ moved[o].quiet = op[o].quiet
        /\ \A p \in Ops \ {o} : moved[p] = op[p]
    BY <2>1, <2>3, <1>3, MoveEffect
  <2>5. /\ op' \in [Ops -> OpRecords]
        /\ \A p \in Ops : Alike(op'[p], moved[p]) /\ (op'[p].quiet <=> moved[p].quiet /\ outcome = "ok")
    BY <2>2, <2>4, UnquietEffect
  <2>6. /\ store' \in Stores /\ store'.lock = o
        /\ store'.disabled <=> store.disabled \/ outcome = "dies"
    BY <2>2, <1>3, StoreEffect
  <2>7. CheckpointTypes' /\ RowsInv'
    BY <2>5, <2>6, <1>1, <1>2, <1>5 DEF CheckpointTypes, RowsInv
  <2>8. \A p \in Ops \ {o} : KeptBy(p)
    BY <2>4, <2>5, <2>6, <1>1, <1>2, <1>6 DEF KeptBy, Alike, CheckpointTypes
  <2>9. /\ op'[o].at = place /\ op'[o].phase = op[o].phase /\ op'[o].target = op[o].target
        /\ op'[o].safety = op[o].safety /\ op'[o].made = op[o].made /\ op'[o].before = op[o].before
        /\ op'[o].quiet <=> op[o].quiet /\ outcome = "ok"
    BY <2>4, <2>5 DEF Alike
  <2>10. PlaceInv(o)'
    BY <2>1, <2>3, <2>6, <2>9, <1>1, <1>2, <1>4 DEF OpInv, PlaceInv, Made, Holding
  <2>11. SnapshotInv(o)'
    BY <2>3, <2>9, <1>1, <1>2 DEF OpInv, SnapshotInv
  <2>12. RestoreInv(o)'
    BY <2>3, <2>6, <2>9, <1>1, <1>2 DEF OpInv, RestoreInv
  <2> QED BY <2>7, <2>8, <2>10, <2>11, <2>12, StepOf DEF OpInv
<1>8. CASE ~isSet
  <2>1. store' = StoreAfter("dies", Nobody) /\ op' = Unquiet(Over(o, 0), outcome) /\ outcome # "ok"
    BY <1>1, <1>8
  <2>2. /\ op' \in [Ops -> OpRecords]
        /\ op'[o].at = OverAt(op[o].phase, 0)
        /\ op'[o].phase = (IF op[o].phase = "safety" THEN "apply" ELSE op[o].phase)
        /\ op'[o].safety = (IF op[o].phase = "safety" THEN 0 ELSE op[o].safety)
        /\ op'[o].made = 0 /\ op'[o].target = op[o].target /\ op'[o].before = op[o].before
        /\ ~op'[o].quiet
        /\ \A p \in Ops \ {o} : Alike(op'[p], op[p]) /\ ~op'[p].quiet
    BY <2>1, <1>3, <1>4, OverEffect
  <2>3. store' \in Stores /\ store'.lock = Nobody
    BY <2>1, <1>3, StoreEffect DEF Outcomes
  <2>4. CheckpointTypes' /\ RowsInv'
    BY <2>2, <2>3, <1>1, <1>2, <1>5 DEF CheckpointTypes, RowsInv
  <2>5. \A p \in Ops \ {o} : KeptBy(p)
    BY <2>2, <2>3, <1>1, <1>2, <1>6 DEF KeptBy, CheckpointTypes
  <2>6. PlaceInv(o)'
    BY <2>2, <2>3, <1>1, <1>2, <1>4, <1>6 DEF OpInv, PlaceInv, Made, Holding, OverAt
  <2>7. SnapshotInv(o)'
    BY <2>2, <1>1, <1>2, <1>4 DEF OpInv, SnapshotInv, OverAt
  <2>8. RestoreInv(o)'
    BY <2>2, <1>1, <1>2, <1>4 DEF OpInv, RestoreInv, OverAt
  <2> QED BY <2>4, <2>5, <2>6, <2>7, <2>8, StepOf DEF OpInv
<1> QED BY <1>1, <1>7, <1>8

\* The store's operation of o is over without a commit: a command failed, or the
\* store is useless.  Nobody's restore is undisturbed then.
LEMMA OverInVain ==
  ASSUME CheckpointInv, NEW o \in Ops, NEW outcome \in Outcomes,
         outcome # "ok" \/ store.disabled,
         op[o].phase \in {"take", "safety", "apply", "undo"},
         op' = Unquiet(Over(o, 0), outcome), store' \in Stores,
         \A p \in Ops : store'.lock = p <=> store.lock = p /\ p # o,
         store'.disabled => store.disabled \/ outcome # "ok",
         UNCHANGED <<tree, staged, commits, rows, nodes>>, bounds' \in Counts
  PROVE  CheckpointInv'
<1>1. CheckpointTypes /\ RowsInv /\ \A p \in Ops : OpInv(p)
  BY DEF CheckpointInv
<1>2. op \in [Ops -> OpRecords] /\ op[o] \in OpRecords
  BY <1>1 DEF CheckpointTypes
<1>3. \A p \in Ops : store.disabled => ~op[p].quiet
  BY <1>1 DEF OpInv, RestoreInv
<1>4. /\ op' \in [Ops -> OpRecords]
      /\ op'[o].at = OverAt(op[o].phase, 0)
      /\ op'[o].phase = (IF op[o].phase = "safety" THEN "apply" ELSE op[o].phase)
      /\ op'[o].safety = (IF op[o].phase = "safety" THEN 0 ELSE op[o].safety)
      /\ op'[o].made = 0 /\ op'[o].target = op[o].target /\ op'[o].before = op[o].before
      /\ op'[o].quiet <=> op[o].quiet /\ outcome = "ok"
      /\ \A p \in Ops \ {o} : Alike(op'[p], op[p]) /\ (op'[p].quiet <=> op[p].quiet /\ outcome = "ok")
  BY <1>2, OverEffect
<1>5. \A p \in Ops : ~op'[p].quiet
  BY <1>3, <1>4
<1>6. CheckpointTypes' /\ RowsInv'
  BY <1>1, <1>4 DEF CheckpointTypes, RowsInv
<1>7. \A p \in Ops \ {o} : KeptBy(p)
  BY <1>1, <1>4, <1>5 DEF KeptBy, CheckpointTypes
<1>8. PlaceInv(o)'
  BY <1>1, <1>4 DEF OpInv, PlaceInv, Made, Holding, OverAt
<1>9. SnapshotInv(o)'
  BY <1>1, <1>4 DEF OpInv, SnapshotInv, OverAt
<1>10. RestoreInv(o)'
  BY <1>1, <1>4, <1>5 DEF OpInv, RestoreInv, OverAt
<1> QED BY <1>6, <1>7, <1>8, <1>9, <1>10, StepOf DEF OpInv

\* The store's operation of o is over: a git command of the holder fails.
LEMMA CommandFails ==
  ASSUME CheckpointInv, NEW o \in Ops, NEW outcome \in Outcomes, outcome # "ok", Git(outcome),
         op[o].at \in Holding, op' = Unquiet(Over(o, 0), outcome),
         store' = StoreAfter(outcome, Nobody),
         UNCHANGED <<tree, staged, commits, rows, nodes>>
  PROVE  CheckpointInv'
<1>1. CheckpointTypes /\ OpInv(o)
  BY DEF CheckpointInv
<1>2. store \in Stores /\ bounds \in Counts
  BY <1>1 DEF CheckpointTypes
<1>3. bounds' \in Counts
  BY <1>2, GitEffect
<1>4. /\ store' \in Stores /\ store'.lock = Nobody
      /\ store'.disabled <=> store.disabled \/ outcome = "dies"
  BY <1>2, StoreEffect
<1>5. store.lock = o /\ op[o].phase \in {"take", "safety", "apply", "undo"}
  BY <1>1 DEF OpInv, PlaceInv, Holding
<1>6. \A p \in Ops : store'.lock = p <=> store.lock = p /\ p # o
  BY <1>4, <1>5, CheckpointsAssumption
<1>7. store'.disabled => store.disabled \/ outcome # "ok"
  BY <1>4
<1> QED BY <1>3, <1>4, <1>5, <1>6, <1>7, OverInVain

\* A call that finds the store useless.
LEMMA LockIsUselessStep ==
  ASSUME CheckpointInv, NEW o \in Ops, LockIsUseless(o)
  PROVE  CheckpointInv'
<1>1. CheckpointTypes /\ OpInv(o)
  BY DEF CheckpointInv
<1>2. store \in Stores /\ bounds \in Counts /\ op[o] \in OpRecords
  BY <1>1 DEF CheckpointTypes
<1>3. /\ op[o].at = "lock" /\ store.disabled /\ op' = Over(o, 0)
      /\ UNCHANGED <<tree, staged, commits, rows, nodes, store, bounds>>
  BY DEF LockIsUseless, Available
<1>4. op[o].phase \in {"take", "safety", "apply", "undo"} /\ store.lock # o
  BY <1>1, <1>2, <1>3 DEF OpInv, PlaceInv, Holding, OpRecords, OpPhases
<1>5. op' = Unquiet(Over(o, 0), "ok") /\ "ok" \in Outcomes
  BY <1>3 DEF Unquiet, Outcomes
<1>6. store' \in Stores /\ bounds' \in Counts /\ store'.lock = store.lock /\ (store'.disabled => store.disabled)
  BY <1>2, <1>3
<1>7. \A p \in Ops : store'.lock = p <=> store.lock = p /\ p # o
  BY <1>4, <1>6
<1> QED BY <1>3, <1>4, <1>5, <1>6, <1>7, OverInVain

\* add: the files as they are now become the repository's index.
LEMMA AddStep ==
  ASSUME CheckpointInv, NEW o \in Ops, Add(o)
  PROVE  CheckpointInv'
<1>1. PICK outcome \in Outcomes : Add(o)!(outcome)
  BY DEF Add
<1>2. CheckpointTypes /\ RowsInv /\ OpInv(o)
  BY DEF CheckpointInv
<1>3. store \in Stores /\ op \in [Ops -> OpRecords] /\ bounds \in Counts /\ op[o] \in OpRecords /\ tree \in Trees
  BY <1>2 DEF CheckpointTypes
<1>4. op[o].at = "add" /\ store.lock = o /\ op[o].phase \in {"take", "safety"}
  BY <1>1, <1>2 DEF OpInv, PlaceInv, Holding
<1>5. CASE outcome # "ok"
  BY <1>1, <1>4, <1>5, CommandFails DEF Holding
<1>6. CASE outcome = "ok"
  <2> DEFINE rec == [op[o] EXCEPT !.at = "commit", !.before = tree]
  <2>1. op' = [op EXCEPT ![o] = rec] /\ staged' = tree /\ store' = StoreAfter(outcome, o)
    BY <1>1, <1>6
  <2>2. rec \in OpRecords
    BY <1>3 DEF OpRecords, OpPlaces, Holding
  <2>3. /\ rec.at = "commit" /\ rec.before = tree /\ rec.phase = op[o].phase /\ rec.quiet = op[o].quiet
        /\ rec.safety = op[o].safety /\ rec.made = op[o].made /\ rec.target = op[o].target
    BY <1>3 DEF OpRecords
  <2> HIDE DEF rec
  <2>4. op' \in [Ops -> OpRecords] /\ op'[o] = rec /\ \A p \in Ops \ {o} : op'[p] = op[p]
    BY <2>1, <2>2, <1>3
  <2>5. /\ store' \in Stores /\ store'.lock = o
        /\ store'.disabled <=> store.disabled
    BY <2>1, <1>3, <1>6, StoreEffect
  <2>6. bounds' \in Counts
    BY <1>1, <1>3, GitEffect
  <2>7. CheckpointTypes' /\ RowsInv'
    BY <2>1, <2>4, <2>5, <2>6, <1>1, <1>2, <1>3 DEF CheckpointTypes, RowsInv
  <2>8. \A p \in Ops \ {o} : KeptBy(p)
    BY <2>4, <2>5, <1>1, <1>2, <1>4 DEF KeptBy, Alike, CheckpointTypes
  <2>9. PlaceInv(o)'
    BY <2>3, <2>4, <2>5, <1>1, <1>2, <1>4 DEF OpInv, PlaceInv, Made, Holding
  <2>10. SnapshotInv(o)'
    BY <2>1, <2>3, <2>4, <1>1, <1>2, <1>4 DEF OpInv, SnapshotInv, PlaceInv
  <2>11. RestoreInv(o)'
    BY <2>3, <2>4, <2>5, <1>1, <1>2, <1>4 DEF OpInv, RestoreInv
  <2> QED BY <2>7, <2>8, <2>9, <2>10, <2>11, StepOf DEF OpInv
<1> QED BY <1>5, <1>6

\* commit: the index becomes the last commit.
LEMMA CommitTreeStep ==
  ASSUME CheckpointInv, NEW o \in Ops, CommitTree(o)
  PROVE  CheckpointInv'
<1>1. PICK outcome \in Outcomes : CommitTree(o)!(outcome)
  BY DEF CommitTree
<1>2. CheckpointTypes /\ RowsInv /\ OpInv(o)
  BY DEF CheckpointInv
<1>3. /\ store \in Stores /\ op \in [Ops -> OpRecords] /\ bounds \in Counts /\ op[o] \in OpRecords
      /\ staged \in Trees /\ commits \in Seq(Trees)
  BY <1>2 DEF CheckpointTypes
<1>4. /\ op[o].at = "commit" /\ store.lock = o /\ op[o].phase \in {"take", "safety"}
      /\ staged = op[o].before
  BY <1>1, <1>2 DEF OpInv, PlaceInv, SnapshotInv, Holding
<1>5. CASE outcome # "ok"
  BY <1>1, <1>4, <1>5, CommandFails DEF Holding
<1>6. CASE outcome = "ok"
  <2>1. op' = [op EXCEPT ![o].at = "head"] /\ commits' = Append(commits, staged) /\ store' = StoreAfter(outcome, o)
    BY <1>1, <1>6
  <2>2. "head" \in OpPlaces /\ op[o].phase \in OpPhases /\ op' = Moved(o, "head", op[o].phase)
    BY <2>1, <1>3, PlainMove DEF OpPlaces, Holding
  <2>3. /\ op' \in [Ops -> OpRecords]
        /\ op'[o].at = "head" /\ op'[o].phase = op[o].phase /\ op'[o].target = op[o].target
        /\ op'[o].safety = op[o].safety /\ op'[o].made = op[o].made /\ op'[o].before = op[o].before
        /\ op'[o].quiet = op[o].quiet
        /\ \A p \in Ops \ {o} : op'[p] = op[p]
    BY <2>2, <1>3, MoveEffect
  <2>4. /\ store' \in Stores /\ store'.lock = o
        /\ store'.disabled <=> store.disabled
    BY <2>1, <1>3, <1>6, StoreEffect
  <2>5. bounds' \in Counts
    BY <1>1, <1>3, GitEffect
  <2>6. /\ commits' \in Seq(Trees) /\ Len(commits) \in Nat /\ Len(commits') = Len(commits) + 1
        /\ commits'[Len(commits')] = staged
        /\ \A i \in 1..Len(commits) : commits'[i] = commits[i]
    BY <2>1, <1>3, AppendProperties, LenProperties
  <2>7. CheckpointTypes' /\ RowsInv'
    BY <2>3, <2>4, <2>5, <2>6, <1>1, <1>2 DEF CheckpointTypes, RowsInv
  <2>8. \A p \in Ops \ {o} : KeptBy(p)
    BY <2>3, <2>4, <2>6, <1>1, <1>2, <1>4 DEF KeptBy, Alike, CheckpointTypes
  <2>9. \A i : Made(i) => Made(i)'
    BY <2>6 DEF Made
  <2>10. PlaceInv(o)'
    BY <2>3, <2>4, <2>9, <1>1, <1>2, <1>4 DEF OpInv, PlaceInv, Holding
  <2>11. SnapshotInv(o)'
    BY <2>3, <2>6, <1>1, <1>2, <1>4 DEF OpInv, SnapshotInv, PlaceInv, Made
  <2>12. RestoreInv(o)'
    BY <2>3, <2>4, <1>1, <1>2, <1>4 DEF OpInv, RestoreInv
  <2> QED BY <2>7, <2>8, <2>10, <2>11, <2>12, StepOf DEF OpInv
<1> QED BY <1>5, <1>6

\* rev-parse: the last commit is the operation's.
LEMMA RevParseStep ==
  ASSUME CheckpointInv, NEW o \in Ops, RevParse(o)
  PROVE  CheckpointInv'
<1>1. PICK outcome \in Outcomes : RevParse(o)!(outcome)
  BY DEF RevParse
<1>2. CheckpointTypes /\ RowsInv /\ OpInv(o)
  BY DEF CheckpointInv
<1>3. /\ store \in Stores /\ op \in [Ops -> OpRecords] /\ bounds \in Counts /\ op[o] \in OpRecords
      /\ Len(commits) \in Nat
  BY <1>2 DEF CheckpointTypes
<1>4. /\ op[o].at = "head" /\ store.lock = o /\ op[o].phase \in {"take", "safety"}
      /\ Made(Len(commits)) /\ commits[Len(commits)] = op[o].before
  BY <1>1, <1>2 DEF OpInv, PlaceInv, SnapshotInv, Holding
<1>5. CASE outcome # "ok"
  BY <1>1, <1>4, <1>5, CommandFails DEF Holding
<1>6. CASE outcome = "ok"
  <2>1. op' = Unquiet(Over(o, Len(commits)), outcome) /\ store' = StoreAfter(outcome, Nobody)
    BY <1>1, <1>6
  <2>2. /\ op' \in [Ops -> OpRecords]
        /\ op'[o].at = OverAt(op[o].phase, Len(commits))
        /\ op'[o].phase = (IF op[o].phase = "safety" THEN "apply" ELSE op[o].phase)
        /\ op'[o].safety = (IF op[o].phase = "safety" THEN Len(commits) ELSE op[o].safety)
        /\ op'[o].made = Len(commits) /\ op'[o].target = op[o].target /\ op'[o].before = op[o].before
        /\ op'[o].quiet <=> op[o].quiet /\ outcome = "ok"
        /\ \A p \in Ops \ {o} : Alike(op'[p], op[p]) /\ (op'[p].quiet <=> op[p].quiet /\ outcome = "ok")
    BY <2>1, <1>3, <1>4, OverEffect
  <2>3. /\ store' \in Stores /\ store'.lock = Nobody
        /\ store'.disabled <=> store.disabled
    BY <2>1, <1>3, <1>6, StoreEffect
  <2>4. bounds' \in Counts
    BY <1>1, <1>3, GitEffect
  <2>5. CheckpointTypes' /\ RowsInv'
    BY <2>2, <2>3, <2>4, <1>1, <1>2 DEF CheckpointTypes, RowsInv
  <2>6. \A p \in Ops \ {o} : KeptBy(p)
    BY <2>2, <2>3, <1>1, <1>3, <1>4, CheckpointsAssumption DEF KeptBy
  <2>7. op'[o].at = (IF op[o].phase = "take" THEN "record" ELSE "lock") /\ Len(commits) # 0
    BY <2>2, <1>3, <1>4 DEF OverAt, Made
  <2>8. PlaceInv(o)'
    BY <2>2, <2>3, <2>7, <1>1, <1>2, <1>4, CheckpointsAssumption DEF OpInv, PlaceInv, Made, Holding
  <2>9. SnapshotInv(o)'
    BY <2>2, <2>7, <1>1, <1>2, <1>4 DEF OpInv, SnapshotInv, PlaceInv
  <2>10. RestoreInv(o)'
    BY <2>2, <2>3, <2>7, <1>1, <1>2, <1>4 DEF OpInv, RestoreInv
  <2> QED BY <2>5, <2>6, <2>8, <2>9, <2>10, StepOf DEF OpInv
<1> QED BY <1>5, <1>6

\* read-tree: every path the index or the commit knows is as the commit has it.
LEMMA ReadTreeStep ==
  ASSUME CheckpointInv, NEW o \in Ops, ReadTree(o)
  PROVE  CheckpointInv'
<1>1. PICK outcome \in Outcomes : ReadTree(o)!(outcome)
  BY DEF ReadTree
<1>2. CheckpointTypes /\ RowsInv /\ OpInv(o)
  BY DEF CheckpointInv
<1>3. /\ store \in Stores /\ op \in [Ops -> OpRecords] /\ bounds \in Counts /\ op[o] \in OpRecords
      /\ tree \in Trees /\ commits \in Seq(Trees)
  BY <1>2 DEF CheckpointTypes
<1>4. op[o].at = "read-tree" /\ store.lock = o /\ op[o].phase \in {"apply", "undo"} /\ Made(Wanted(o))
  BY <1>1, <1>2 DEF OpInv, PlaceInv, Holding, Wanted
<1>5. CASE outcome # "ok"
  BY <1>1, <1>4, <1>5, CommandFails DEF Holding
<1>6. CASE outcome = "ok"
  <2> DEFINE wanted == commits[Wanted(o)]
             moved == [op EXCEPT ![o].at = "clean"]
  <2>1. /\ tree' = [f \in Tracked |-> IF staged[f] = Absent /\ wanted[f] = Absent THEN tree[f] ELSE wanted[f]]
        /\ staged' = wanted /\ op' = Disturbed(moved, o) /\ store' = StoreAfter(outcome, o)
    BY <1>1, <1>6
  <2>2. wanted \in Trees
    BY <1>3, <1>4 DEF Made
  <2>3. "clean" \in OpPlaces /\ op[o].phase \in OpPhases /\ moved = Moved(o, "clean", op[o].phase)
    BY <1>3, PlainMove DEF OpPlaces, Holding
  <2> HIDE DEF wanted, moved
  <2>4. /\ moved \in [Ops -> OpRecords]
        /\ moved[o].at = "clean" /\ moved[o].phase = op[o].phase /\ moved[o].target = op[o].target
        /\ moved[o].safety = op[o].safety /\ moved[o].made = op[o].made /\ moved[o].before = op[o].before
        /\ moved[o].quiet = op[o].quiet
        /\ \A p \in Ops \ {o} : moved[p] = op[p]
    BY <2>3, <1>3, MoveEffect
  <2>5. /\ op' \in [Ops -> OpRecords]
        /\ \A p \in Ops : Alike(op'[p], moved[p]) /\ (op'[p].quiet <=> moved[p].quiet /\ p = o)
    BY <2>1, <2>4, DisturbedEffect
  <2>6. /\ op'[o].at = "clean" /\ op'[o].phase = op[o].phase /\ op'[o].target = op[o].target
        /\ op'[o].safety = op[o].safety /\ op'[o].made = op[o].made /\ op'[o].before = op[o].before
        /\ op'[o].quiet <=> op[o].quiet
        /\ \A p \in Ops \ {o} : Alike(op'[p], op[p]) /\ ~op'[p].quiet
    BY <2>4, <2>5 DEF Alike
  <2>7. /\ store' \in Stores /\ store'.lock = o
        /\ store'.disabled <=> store.disabled
    BY <2>1, <1>3, <1>6, StoreEffect
  <2>8. bounds' \in Counts
    BY <1>1, <1>3, GitEffect
  <2>9. tree' \in Trees /\ \A f \in Tracked : wanted[f] # Absent => tree'[f] = wanted[f]
    BY <2>1, <2>2, <1>3 DEF Trees
  <2>10. CheckpointTypes' /\ RowsInv'
    BY <2>1, <2>2, <2>5, <2>7, <2>8, <2>9, <1>1, <1>2 DEF CheckpointTypes, RowsInv
  <2>11. \A p \in Ops \ {o} : KeptBy(p)
    BY <2>6, <2>7, <1>1, <1>3, <1>4 DEF KeptBy
  <2>12. PlaceInv(o)'
    BY <2>6, <2>7, <1>1, <1>2, <1>4 DEF OpInv, PlaceInv, Made, Holding
  <2>13. SnapshotInv(o)'
    BY <2>6, <1>1, <1>2, <1>4 DEF OpInv, SnapshotInv, PlaceInv
  <2>14. Wanted(o)' = Wanted(o) /\ commits' = commits
    BY <2>6, <1>1 DEF Wanted
  <2>15. staged' = commits'[Wanted(o)'] /\ \A f \in Tracked : staged'[f] # Absent => tree'[f] = staged'[f]
    BY <2>1, <2>9, <2>14 DEF wanted
  <2>16. RestoreInv(o)'
    BY <2>6, <2>7, <2>15, <1>2, <1>4 DEF OpInv, RestoreInv
  <2> QED BY <2>10, <2>11, <2>12, <2>13, <2>16, StepOf DEF OpInv
<1> QED BY <1>5, <1>6

\* clean: what the index does not know is gone, and the commit is back.
LEMMA CleanStep ==
  ASSUME CheckpointInv, NEW o \in Ops, Clean(o)
  PROVE  CheckpointInv'
<1>1. PICK outcome \in Outcomes : Clean(o)!(outcome)
  BY DEF Clean
<1>2. CheckpointTypes /\ RowsInv /\ OpInv(o)
  BY DEF CheckpointInv
<1>3. /\ store \in Stores /\ op \in [Ops -> OpRecords] /\ bounds \in Counts /\ op[o] \in OpRecords
      /\ tree \in Trees /\ staged \in Trees /\ commits \in Seq(Trees)
  BY <1>2 DEF CheckpointTypes
<1>4. /\ op[o].at = "clean" /\ store.lock = o /\ op[o].phase \in {"apply", "undo"} /\ Made(Wanted(o))
      /\ staged = commits[Wanted(o)]
      /\ op[o].quiet => \A f \in Tracked : staged[f] # Absent => tree[f] = staged[f]
  BY <1>1, <1>2 DEF OpInv, PlaceInv, RestoreInv, Holding, Wanted
<1>5. Wanted(o) \in Nat /\ Wanted(o) # 0 /\ Len(commits) \in Nat
  BY <1>3, <1>4 DEF Made
<1>6. CASE outcome # "ok"
  <2> DEFINE end == Unquiet(Over(o, 0), outcome)
  <2>1. op' = Disturbed(end, o)
    BY <1>1, <1>6
  <2>2. end \in [Ops -> OpRecords] /\ \A p \in Ops : ~end[p].quiet
    BY <1>3, <1>4, <1>6, OverEffect
  <2> HIDE DEF end
  <2>3. \A r \in OpRecords : ~r.quiet => [r EXCEPT !.quiet = FALSE] = r
    BY DEF OpRecords
  <2>4. ASSUME NEW p \in Ops
        PROVE  [end[p] EXCEPT !.quiet = @ /\ p = o] = end[p]
    <3>1. (end[p].quiet /\ p = o) = FALSE
      BY <2>2
    <3>2. [end[p] EXCEPT !.quiet = @ /\ p = o] = [end[p] EXCEPT !.quiet = FALSE]
      BY <3>1
    <3> QED BY <2>2, <2>3, <3>2
  <2>5. op' = end
    BY <2>1, <2>2, <2>4 DEF Disturbed
  <2>6. op' = Unquiet(Over(o, 0), outcome) /\ store' = StoreAfter(outcome, Nobody)
        /\ UNCHANGED <<tree, staged, commits, rows, nodes>>
    BY <2>5, <1>1, <1>6 DEF end
  <2> QED BY <2>6, <1>1, <1>4, <1>6, CommandFails DEF Holding
<1>7. CASE outcome = "ok"
  <2> DEFINE end == Unquiet(Over(o, Wanted(o)), outcome)
  <2>1. op' = Disturbed(end, o) /\ tree' = Cleaned /\ store' = StoreAfter(outcome, Nobody)
    BY <1>1, <1>7
  <2>2. /\ end \in [Ops -> OpRecords]
        /\ end[o].at = OverAt(op[o].phase, Wanted(o))
        /\ end[o].phase = (IF op[o].phase = "safety" THEN "apply" ELSE op[o].phase)
        /\ end[o].safety = (IF op[o].phase = "safety" THEN Wanted(o) ELSE op[o].safety)
        /\ end[o].made = Wanted(o) /\ end[o].target = op[o].target /\ end[o].before = op[o].before
        /\ end[o].quiet <=> op[o].quiet
        /\ \A p \in Ops \ {o} : Alike(end[p], op[p])
    BY <1>3, <1>4, <1>5, <1>7, OverEffect
  <2> HIDE DEF end
  <2>3. /\ op' \in [Ops -> OpRecords]
        /\ \A p \in Ops : Alike(op'[p], end[p]) /\ (op'[p].quiet <=> end[p].quiet /\ p = o)
    BY <2>1, <2>2, DisturbedEffect
  <2>4. /\ op'[o].at = (IF op[o].phase = "apply" THEN "rewind" ELSE "raised")
        /\ op'[o].phase = op[o].phase /\ op'[o].target = op[o].target
        /\ op'[o].safety = op[o].safety /\ op'[o].made = Wanted(o) /\ op'[o].before = op[o].before
        /\ op'[o].quiet <=> op[o].quiet
    BY <2>2, <2>3, <1>4, <1>5 DEF Alike, OverAt
  <2>5. \A p \in Ops \ {o} : Alike(op'[p], op[p]) /\ ~op'[p].quiet
    BY <2>2, <2>3 DEF Alike
  <2>6. /\ store' \in Stores /\ store'.lock = Nobody
        /\ store'.disabled <=> store.disabled
    BY <2>1, <1>3, <1>7, StoreEffect
  <2>7. bounds' \in Counts
    BY <1>1, <1>3, GitEffect
  <2>8. tree' \in Trees
    BY <2>1, <1>3 DEF Trees, Cleaned, Versions
  <2>9. op[o].quiet => tree' = commits[Wanted(o)]
    <3>1. op[o].quiet => \A f \in Tracked : tree'[f] = staged[f]
      BY <2>1, <1>4 DEF Cleaned
    <3> QED BY <3>1, <2>8, <1>3, <1>4 DEF Trees
  <2>10. CheckpointTypes' /\ RowsInv'
    BY <2>3, <2>6, <2>7, <2>8, <1>1, <1>2 DEF CheckpointTypes, RowsInv
  <2>11. \A p \in Ops \ {o} : KeptBy(p)
    BY <2>5, <2>6, <1>1, <1>4, <1>5, CheckpointsAssumption DEF KeptBy
  <2>12. PlaceInv(o)'
    BY <2>4, <2>6, <1>1, <1>2, <1>4, CheckpointsAssumption DEF OpInv, PlaceInv, Made, Holding
  <2>13. SnapshotInv(o)'
    BY <2>4, <1>1, <1>2, <1>4 DEF OpInv, SnapshotInv, PlaceInv
  <2>14. op[o].phase = "apply" => Wanted(o) = op[o].target
    BY DEF Wanted
  <2>15. op[o].phase = "undo" => Wanted(o) = op[o].safety /\ commits[op[o].safety] = op[o].before
    BY <1>2, <1>4 DEF Wanted, OpInv, PlaceInv, SnapshotInv
  <2>16. RestoreInv(o)'
    BY <2>4, <2>6, <2>9, <2>14, <2>15, <1>1, <1>2, <1>4 DEF OpInv, RestoreInv
  <2> QED BY <2>10, <2>11, <2>12, <2>13, <2>16, StepOf DEF OpInv
<1> QED BY <1>6, <1>7

\* take: the anchor is the leaf of the path.
LEMMA TakeStep ==
  ASSUME CheckpointInv, NEW o \in Ops, Take(o)
  PROVE  CheckpointInv'
<1>1. CheckpointTypes /\ RowsInv /\ OpInv(o)
  BY DEF CheckpointInv
<1>2. op \in [Ops -> OpRecords] /\ op[o] \in OpRecords /\ nodes \in Seq(Nat)
  BY <1>1 DEF CheckpointTypes
<1>3. LeafOf(nodes) \in Nat
  BY <1>2 DEF LeafOf
<1> DEFINE rec == [op[o] EXCEPT !.at = "lock", !.phase = "take", !.anchor = LeafOf(nodes)]
<1>4. /\ op[o].at = "idle" /\ op' = [op EXCEPT ![o] = rec]
      /\ UNCHANGED <<tree, staged, commits, rows, nodes, store, bounds>>
  BY DEF Take
<1>5. rec \in OpRecords
  BY <1>2, <1>3 DEF OpRecords, OpPlaces, OpPhases
<1>6. /\ rec.at = "lock" /\ rec.phase = "take" /\ rec.before = op[o].before /\ rec.quiet = op[o].quiet
      /\ rec.safety = op[o].safety /\ rec.made = op[o].made /\ rec.target = op[o].target
  BY <1>2 DEF OpRecords
<1> HIDE DEF rec
<1>7. op' \in [Ops -> OpRecords] /\ op'[o] = rec /\ \A p \in Ops \ {o} : op'[p] = op[p]
  BY <1>2, <1>4, <1>5
<1>8. CheckpointTypes' /\ RowsInv'
  BY <1>1, <1>4, <1>7 DEF CheckpointTypes, RowsInv
<1>9. \A p \in Ops \ {o} : KeptBy(p)
  BY <1>1, <1>4, <1>7 DEF KeptBy, Alike, CheckpointTypes
<1>10. PlaceInv(o)'
  BY <1>1, <1>4, <1>6, <1>7 DEF OpInv, PlaceInv, Made, Holding
<1>11. SnapshotInv(o)'
  BY <1>1, <1>4, <1>6, <1>7 DEF OpInv, PlaceInv, SnapshotInv
<1>12. RestoreInv(o)'
  BY <1>1, <1>4, <1>6, <1>7 DEF OpInv, RestoreInv
<1> QED BY <1>8, <1>9, <1>10, <1>11, <1>12, StepOf DEF OpInv

\* take: the commit and its anchor become a row of the index.
LEMMA RecordStep ==
  ASSUME CheckpointInv, NEW o \in Ops, Record(o)
  PROVE  CheckpointInv'
<1>1. CheckpointTypes /\ RowsInv /\ OpInv(o)
  BY DEF CheckpointInv
<1>2. op \in [Ops -> OpRecords] /\ op[o] \in OpRecords /\ rows \in Seq(RowRecords)
  BY <1>1 DEF CheckpointTypes
<1> DEFINE row == [commit |-> op[o].made, anchor |-> op[o].anchor]
<1>3. /\ op[o].at = "record" /\ op' = [op EXCEPT ![o].at = "taken"] /\ rows' = Append(rows, row)
      /\ UNCHANGED <<tree, staged, commits, nodes, store, bounds>>
  BY DEF Record
<1>4. row \in RowRecords /\ row.commit = op[o].made /\ op[o].made \in 1..Len(commits)
  BY <1>1, <1>2, <1>3 DEF RowRecords, OpRecords, OpInv, PlaceInv, Made
<1> HIDE DEF row
<1>5. "taken" \in OpPlaces /\ op[o].phase \in OpPhases /\ op' = Moved(o, "taken", op[o].phase)
  BY <1>2, <1>3, PlainMove DEF OpPlaces
<1>6. /\ op' \in [Ops -> OpRecords]
      /\ op'[o].at = "taken" /\ op'[o].phase = op[o].phase /\ op'[o].target = op[o].target
      /\ op'[o].safety = op[o].safety /\ op'[o].made = op[o].made /\ op'[o].before = op[o].before
      /\ op'[o].quiet = op[o].quiet
      /\ \A p \in Ops \ {o} : op'[p] = op[p]
  BY <1>2, <1>5, MoveEffect
<1>7. rows' \in Seq(RowRecords) /\ \A i \in 1..Len(rows') : rows'[i].commit \in 1..Len(commits)
  <2>1. /\ Len(rows) \in Nat /\ Len(rows') = Len(rows) + 1 /\ rows' \in Seq(RowRecords)
        /\ rows'[Len(rows) + 1] = row /\ \A i \in 1..Len(rows) : rows'[i] = rows[i]
    BY <1>2, <1>3, <1>4, AppendProperties, LenProperties
  <2> QED BY <2>1, <1>1, <1>4 DEF RowsInv
<1>8. CheckpointTypes' /\ RowsInv'
  BY <1>1, <1>3, <1>6, <1>7 DEF CheckpointTypes, RowsInv
<1>9. \A p \in Ops \ {o} : KeptBy(p)
  BY <1>1, <1>3, <1>6 DEF KeptBy, Alike, CheckpointTypes
<1>10. PlaceInv(o)'
  BY <1>1, <1>3, <1>6 DEF OpInv, PlaceInv, Made, Holding
<1>11. SnapshotInv(o)'
  BY <1>1, <1>3, <1>6 DEF OpInv, PlaceInv, SnapshotInv
<1>12. RestoreInv(o)'
  BY <1>1, <1>3, <1>6 DEF OpInv, RestoreInv
<1> QED BY <1>8, <1>9, <1>10, <1>11, <1>12, StepOf DEF OpInv

\* restore: a checkpoint that is offered, and the workspace as it is.
LEMMA RestoreStep ==
  ASSUME CheckpointInv, NEW o \in Ops, Restore(o)
  PROVE  CheckpointInv'
<1>1. PICK i \in Offered, outcome \in Outcomes : Restore(o)!(i, outcome)
  BY DEF Restore
<1>2. CheckpointTypes /\ RowsInv /\ OpInv(o)
  BY DEF CheckpointInv
<1>3. /\ op \in [Ops -> OpRecords] /\ op[o] \in OpRecords /\ rows \in Seq(RowRecords) /\ tree \in Trees
      /\ store \in Stores /\ store.lock \in Ops \cup {Nobody} /\ bounds \in Counts
  BY <1>2 DEF CheckpointTypes, Stores
<1>4. i \in 1..Len(rows) /\ rows[i] \in RowRecords /\ Made(rows[i].commit)
  <2>1. i \in 1..Len(rows)
    BY DEF Offered
  <2> QED BY <2>1, <1>2, <1>3 DEF RowsInv, Made
<1> DEFINE rec == [op[o] EXCEPT !.at = IF outcome = "ok" THEN "lock" ELSE "false",
                     !.phase = "safety", !.anchor = rows[i].anchor,
                     !.target = rows[i].commit, !.before = tree, !.quiet = TRUE]
           marked == [op EXCEPT ![o] = rec]
<1>5. /\ op[o].at = "idle" /\ ~store.disabled /\ store' = StoreAfter(outcome, store.lock)
      /\ op' = Unquiet(marked, outcome)
      /\ UNCHANGED <<tree, staged, commits, rows, nodes>>
  BY <1>1 DEF Available
<1>6. rec \in OpRecords
  BY <1>3, <1>4 DEF OpRecords, OpPlaces, OpPhases, RowRecords
<1>7. /\ rec.at = (IF outcome = "ok" THEN "lock" ELSE "false") /\ rec.phase = "safety"
      /\ rec.safety = op[o].safety /\ rec.made = op[o].made /\ rec.target = rows[i].commit
  BY <1>3 DEF OpRecords
<1> HIDE DEF rec
<1>8. marked \in [Ops -> OpRecords] /\ marked[o] = rec /\ \A p \in Ops \ {o} : marked[p] = op[p]
  BY <1>3, <1>6
<1> HIDE DEF marked
<1>9. /\ op' \in [Ops -> OpRecords]
      /\ \A p \in Ops : Alike(op'[p], marked[p]) /\ (op'[p].quiet <=> marked[p].quiet /\ outcome = "ok")
  BY <1>5, <1>8, UnquietEffect
<1>10. /\ op'[o].at = (IF outcome = "ok" THEN "lock" ELSE "false") /\ op'[o].phase = "safety"
       /\ op'[o].safety = 0 /\ op'[o].made = op[o].made /\ op'[o].target = rows[i].commit
  BY <1>2, <1>5, <1>7, <1>8, <1>9 DEF Alike, OpInv, PlaceInv
<1>11. \A p \in Ops \ {o} : Alike(op'[p], op[p]) /\ (op'[p].quiet <=> op[p].quiet /\ outcome = "ok")
  BY <1>8, <1>9 DEF Alike
<1>12. /\ store' \in Stores /\ store'.lock = store.lock
       /\ store'.disabled <=> outcome = "dies"
  <2>1. /\ StoreAfter(outcome, store.lock) \in Stores
        /\ StoreAfter(outcome, store.lock).lock = store.lock
        /\ StoreAfter(outcome, store.lock).disabled <=> store.disabled \/ outcome = "dies"
    BY <1>3, StoreEffect
  <2> QED BY <2>1, <1>5
<1>13. bounds' \in Counts
  BY <1>1, <1>3, GitEffect
<1>14. op'[o].quiet => outcome = "ok"
  BY <1>9
<1>15. CheckpointTypes' /\ RowsInv'
  BY <1>2, <1>5, <1>9, <1>12, <1>13 DEF CheckpointTypes, RowsInv
<1>16. \A p \in Ops \ {o} : KeptBy(p)
  BY <1>2, <1>5, <1>11, <1>12 DEF KeptBy, CheckpointTypes
<1>17. PlaceInv(o)'
  BY <1>2, <1>4, <1>5, <1>10, <1>12 DEF OpInv, PlaceInv, Made, Holding
<1>18. SnapshotInv(o)'
  BY <1>10 DEF SnapshotInv
<1>19. RestoreInv(o)'
  BY <1>10, <1>12, <1>14 DEF RestoreInv
<1> QED BY <1>15, <1>16, <1>17, <1>18, <1>19, StepOf DEF OpInv

\* A cut that rewind_to accepts is outside a turn: its anchor closes one, or is 0.
LEMMA AcceptedCut ==
  ASSUME nodes \in Seq(Nat), NEW anchor \in Nat, ~Refuses(anchor)
  PROVE  Prefix(anchor) \in Seq(Nat) /\ anchor % 2 = 0
<1>1. Len(nodes) \in Nat
  OBVIOUS
<1>2. OnPath(anchor) /\ ~TurnIsOpen(Prefix(anchor))
  BY DEF Refuses
<1>3. CASE anchor = 0
  <2>1. Prefix(anchor) = SubSeq(nodes, 1, 0)
    BY <1>3 DEF Prefix, Cut
  <2>2. SubSeq(nodes, 1, 0) \in Seq(Nat)
    BY <1>1
  <2>3. 0 % 2 = 0
    OBVIOUS
  <2> QED BY <2>1, <2>2, <2>3, <1>3
<1>4. CASE anchor # 0
  <2>1. Cut(anchor) \in 1..Len(nodes) /\ nodes[Cut(anchor)] = anchor
    BY <1>2, <1>4 DEF OnPath, Cut
  <2>2. /\ Prefix(anchor) \in Seq(Nat) /\ Len(Prefix(anchor)) = Cut(anchor)
        /\ Prefix(anchor)[Cut(anchor)] = anchor
    BY <1>1, <2>1 DEF Prefix
  <2>3. Prefix(anchor) # <<>>
    BY <2>1, <2>2
  <2>4. anchor % 2 # 1
    BY <1>2, <2>2, <2>3 DEF TurnIsOpen
  <2>5. \A n \in Nat : n % 2 # 1 => n % 2 = 0
    OBVIOUS
  <2> QED BY <2>2, <2>4, <2>5
<1> QED BY <1>3, <1>4

\* The rewind is accepted, or refused and the files are put back.
LEMMA RewindStep ==
  ASSUME CheckpointInv, NEW o \in Ops, Rewind(o)
  PROVE  CheckpointInv'
<1>1. CheckpointTypes /\ RowsInv /\ OpInv(o)
  BY DEF CheckpointInv
<1>2. op \in [Ops -> OpRecords] /\ op[o] \in OpRecords /\ nodes \in Seq(Nat) /\ op[o].anchor \in Nat
  BY <1>1 DEF CheckpointTypes, OpRecords
<1>3. /\ op[o].at = "rewind" /\ op[o].phase = "apply" /\ Made(op[o].target)
      /\ UNCHANGED <<tree, staged, commits, rows, store, bounds>>
  BY <1>1 DEF Rewind, OpInv, PlaceInv
<1>4. CASE Refuses(op[o].anchor)
  <2> DEFINE place == IF RollsBack(o) THEN "lock" ELSE "raised"
  <2>1. op' = Moved(o, place, "undo") /\ nodes' = nodes
    BY <1>4 DEF Rewind, Moved
  <2>2. place \in OpPlaces /\ "undo" \in OpPhases /\ place = (IF op[o].safety # 0 THEN "lock" ELSE "raised")
    BY DEF OpPlaces, OpPhases, RollsBack
  <2> HIDE DEF place
  <2>3. /\ op' \in [Ops -> OpRecords]
        /\ op'[o].at = place /\ op'[o].phase = "undo" /\ op'[o].target = op[o].target
        /\ op'[o].safety = op[o].safety /\ op'[o].made = op[o].made /\ op'[o].before = op[o].before
        /\ op'[o].quiet = op[o].quiet
        /\ \A p \in Ops \ {o} : op'[p] = op[p]
    BY <1>2, <2>1, <2>2, MoveEffect
  <2>4. CheckpointTypes' /\ RowsInv'
    BY <1>1, <1>3, <2>1, <2>3 DEF CheckpointTypes, RowsInv
  <2>5. \A p \in Ops \ {o} : KeptBy(p)
    BY <1>1, <1>3, <2>3 DEF KeptBy, Alike, CheckpointTypes
  <2>6. PlaceInv(o)'
    BY <1>1, <1>3, <2>2, <2>3 DEF OpInv, PlaceInv, Made, Holding
  <2>7. SnapshotInv(o)'
    BY <1>1, <1>3, <2>2, <2>3 DEF OpInv, PlaceInv, SnapshotInv
  <2>8. RestoreInv(o)'
    BY <1>1, <1>3, <2>2, <2>3 DEF OpInv, RestoreInv
  <2> QED BY <2>4, <2>5, <2>6, <2>7, <2>8, StepOf DEF OpInv
<1>5. CASE ~Refuses(op[o].anchor)
  <2>1. nodes' = Prefix(op[o].anchor) /\ op' = [op EXCEPT ![o].at = "true"]
    BY <1>5 DEF Rewind
  <2>2. Prefix(op[o].anchor) \in Seq(Nat) /\ op[o].anchor % 2 = 0
    BY <1>2, <1>5, AcceptedCut
  <2>3. "true" \in OpPlaces /\ op[o].phase \in OpPhases /\ op' = Moved(o, "true", op[o].phase)
    BY <1>2, <2>1, PlainMove DEF OpPlaces
  <2>4. /\ op' \in [Ops -> OpRecords]
        /\ op'[o].at = "true" /\ op'[o].phase = op[o].phase /\ op'[o].target = op[o].target
        /\ op'[o].safety = op[o].safety /\ op'[o].made = op[o].made /\ op'[o].before = op[o].before
        /\ op'[o].quiet = op[o].quiet /\ op'[o].anchor = op[o].anchor
        /\ \A p \in Ops \ {o} : op'[p] = op[p]
    BY <1>2, <2>3, MoveEffect
  <2>5. CheckpointTypes' /\ RowsInv'
    BY <1>1, <1>3, <2>1, <2>2, <2>4 DEF CheckpointTypes, RowsInv
  <2>6. \A p \in Ops \ {o} : KeptBy(p)
    BY <1>1, <1>3, <2>4 DEF KeptBy, Alike, CheckpointTypes
  <2>7. PlaceInv(o)'
    BY <1>1, <1>3, <2>4 DEF OpInv, PlaceInv, Made, Holding
  <2>8. SnapshotInv(o)'
    BY <1>1, <1>3, <2>4 DEF OpInv, PlaceInv, SnapshotInv
  <2>9. RestoreInv(o)'
    <3>1. (op[o].at = "true" => op[o].anchor % 2 = 0 /\ Made(op[o].target))'
      BY <1>3, <2>2, <2>4 DEF Made
    <3>2. (op[o].at \in {"rewind", "true"} /\ op[o].quiet => tree = commits[op[o].target])'
      BY <1>1, <1>3, <2>4 DEF OpInv, RestoreInv
    <3> QED BY <3>1, <3>2, <1>1, <1>3, <2>4 DEF OpInv, RestoreInv
  <2> QED BY <2>5, <2>6, <2>7, <2>8, <2>9, StepOf DEF OpInv
<1> QED BY <1>4, <1>5

\* The turn moves the conversation and no operation.
LEMMA TurnStep ==
  ASSUME CheckpointInv, TurnOpens \/ TurnCloses
  PROVE  CheckpointInv'
<1>1. CheckpointTypes /\ RowsInv /\ \A p \in Ops : OpInv(p)
  BY DEF CheckpointInv
<1>2. nodes \in Seq(Nat) /\ bounds \in Counts
  BY <1>1 DEF CheckpointTypes
<1>3. UNCHANGED <<tree, staged, commits, rows, store, op>>
  BY DEF TurnOpens, TurnCloses
<1>4. nodes' \in Seq(Nat) /\ bounds' \in Counts
  <2>1. CASE TurnOpens
    <3>1. 2 * (bounds.turn + 1) - 1 \in Nat
      BY <1>2 DEF Counts
    <3>2. nodes' = Append(nodes, 2 * (bounds.turn + 1) - 1) /\ bounds' = [bounds EXCEPT !.turn = @ + 1]
      BY <2>1 DEF TurnOpens
    <3>3. nodes' \in Seq(Nat)
      BY <3>1, <3>2, <1>2
    <3>4. bounds.turn + 1 \in Nat
      BY <1>2 DEF Counts
    <3>5. bounds' = [bounds EXCEPT !.turn = bounds.turn + 1]
      BY <3>2
    <3>6. bounds' \in Counts
      BY <3>4, <3>5, <1>2 DEF Counts
    <3> QED BY <3>3, <3>6
  <2>2. CASE TurnCloses
    <3>1. LeafOf(nodes) + 1 \in Nat
      BY <1>2 DEF LeafOf
    <3> QED BY <2>2, <3>1, <1>2 DEF TurnCloses
  <2> QED BY <2>1, <2>2
<1>5. CheckpointTypes' /\ RowsInv'
  BY <1>1, <1>3, <1>4 DEF CheckpointTypes, RowsInv
<1>6. \A p \in Ops : KeptBy(p)
  BY <1>1, <1>3 DEF KeptBy, Alike, CheckpointTypes
<1>7. \A p \in Ops : OpInv(p)'
  BY <1>1, <1>6, OtherKept
<1> QED BY <1>5, <1>7 DEF CheckpointInv

\* A write disturbs every operation.
LEMMA WriteStep ==
  ASSUME CheckpointInv, NEW f \in Tracked, WriteFile(f)
  PROVE  CheckpointInv'
<1>1. CheckpointTypes /\ RowsInv /\ \A p \in Ops : OpInv(p)
  BY DEF CheckpointInv
<1>2. tree \in Trees /\ bounds \in Counts /\ op \in [Ops -> OpRecords]
  BY <1>1 DEF CheckpointTypes
<1>3. PICK version \in {Absent, bounds.writes + 1} : tree' = [tree EXCEPT ![f] = version]
  BY DEF WriteFile
<1>4. /\ bounds.writes < MaxWrites /\ bounds' = [bounds EXCEPT !.writes = @ + 1]
      /\ op' = [o \in Ops |-> [op[o] EXCEPT !.quiet = FALSE]]
      /\ UNCHANGED <<staged, commits, rows, nodes, store>>
  BY DEF WriteFile
<1>5. bounds' \in Counts
  BY <1>2, <1>4, CheckpointsAssumption DEF Counts
<1>6. version \in Versions
  BY <1>2, <1>4, CheckpointsAssumption DEF Counts, Versions
<1>7. tree' \in Trees
  BY <1>2, <1>3, <1>6 DEF Trees
<1>8. \A r \in OpRecords : LET s == [r EXCEPT !.quiet = FALSE] IN
        s \in OpRecords /\ Alike(s, r) /\ s.quiet = FALSE
  BY DEF OpRecords, Alike
<1>9. op' \in [Ops -> OpRecords] /\ \A p \in Ops : Alike(op'[p], op[p]) /\ ~op'[p].quiet
  BY <1>2, <1>4, <1>8
<1>10. CheckpointTypes' /\ RowsInv'
  BY <1>1, <1>4, <1>5, <1>7, <1>9 DEF CheckpointTypes, RowsInv
<1>11. \A p \in Ops : KeptBy(p)
  BY <1>1, <1>4, <1>9 DEF KeptBy, CheckpointTypes
<1>12. \A p \in Ops : OpInv(p)'
  BY <1>1, <1>11, OtherKept
<1> QED BY <1>10, <1>12 DEF CheckpointInv

\* Before the first call there is nothing to be wrong about.
LEMMA CheckpointInitInv == CheckpointInit => CheckpointInv
<1> SUFFICES ASSUME CheckpointInit PROVE CheckpointInv
  OBVIOUS
<1>1. FreshOp \in OpRecords /\ FreshOp.at = "idle" /\ FreshOp.phase = "none" /\ FreshOp.safety = 0 /\ FreshOp.made = 0
  BY DEF FreshOp, OpRecords, OpPlaces, OpPhases, Trees, Versions
<1>2. CheckpointTypes
  BY <1>1, CheckpointsAssumption DEF CheckpointInit, CheckpointTypes, Trees, Versions, Stores, Counts
<1>3. RowsInv
  BY DEF CheckpointInit, RowsInv
<1>4. \A o \in Ops : op[o] = FreshOp /\ store.lock = Nobody /\ ~store.disabled
  BY DEF CheckpointInit
<1>5. \A o \in Ops : OpInv(o)
  BY <1>1, <1>4, CheckpointsAssumption DEF OpInv, PlaceInv, SnapshotInv, RestoreInv, Holding
<1> QED BY <1>2, <1>3, <1>5 DEF CheckpointInv

\* Every step keeps the invariant.
LEMMA CheckpointStep == CheckpointInv /\ [CheckpointNext]_checkpointVars => CheckpointInv'
<1> SUFFICES ASSUME CheckpointInv, [CheckpointNext]_checkpointVars PROVE CheckpointInv'
  OBVIOUS
<1>1. CASE UNCHANGED checkpointVars
  BY <1>1 DEF checkpointVars, CheckpointInv, CheckpointTypes, RowsInv, OpInv, PlaceInv, SnapshotInv,
              RestoreInv, Made, Wanted
<1>2. ASSUME NEW o \in Ops, OpStep(o) PROVE CheckpointInv'
  BY <1>2, TakeStep, RecordStep, RestoreStep, RewindStep, LockStep, LockIsUselessStep,
     AddStep, CommitTreeStep, RevParseStep, ReadTreeStep, CleanStep DEF OpStep
<1>3. ASSUME NEW f \in Tracked, WriteFile(f) PROVE CheckpointInv'
  BY <1>3, WriteStep
<1>4. CASE TurnOpens \/ TurnCloses
  BY <1>4, TurnStep
<1> QED BY <1>1, <1>2, <1>3, <1>4 DEF CheckpointNext

\* The invariant says what the checkpoints promise.
LEMMA CheckpointInvIsSound == CheckpointInv => CheckpointsSound
<1> SUFFICES ASSUME CheckpointInv PROVE CheckpointsSound
  OBVIOUS
<1>1. CheckpointTypes /\ RowsInv /\ \A o \in Ops : OpInv(o)
  BY DEF CheckpointInv
<1>2. Len(commits) \in Nat
  BY <1>1 DEF CheckpointTypes
<1>3. CheckpointTypeOK
  <2>1. tree \in Trees /\ staged \in Trees /\ store \in Stores
    BY <1>1 DEF CheckpointTypes
  <2>2. \A i \in 1..Len(rows) : rows[i].commit \in 1..Len(commits)
    BY <1>1 DEF RowsInv
  <2>3. \A o \in Ops : op[o].made = 0 \/ Made(op[o].made)
    BY <1>1 DEF OpInv, PlaceInv
  <2>4. \A o \in Ops : op[o].safety = 0 \/ Made(op[o].safety)
    BY <1>1 DEF OpInv, PlaceInv
  <2>5. \A i : i = 0 \/ Made(i) => i \in 0..Len(commits)
    BY <1>2 DEF Made
  <2>6. \A o \in Ops : op[o].made \in 0..Len(commits) /\ op[o].safety \in 0..Len(commits)
    BY <2>3, <2>4, <2>5
  <2> QED BY <2>1, <2>2, <2>6 DEF CheckpointTypeOK, Trees, Versions, Stores
<1>4. SnapshotIsAMoment
  BY <1>1 DEF SnapshotIsAMoment, OpInv, SnapshotInv
<1>5. RestoredTogether
  BY <1>1 DEF RestoredTogether, OpInv, RestoreInv
<1>6. RefusedIsUndone
  BY <1>1 DEF RefusedIsUndone, OpInv, RestoreInv
<1> QED BY <1>3, <1>4, <1>5, <1>6 DEF CheckpointsSound

\* ShadowGitStore and CheckpointService: whatever the other operations, the turn and
\* the writers do between the git commands, and whichever of them fail, a commit is the
\* workspace at one moment, a restore that returned True has put back the files and
\* the conversation together, and a refused one has put the files back.
THEOREM CheckpointsAreSound == CheckpointSpec => []CheckpointsSound
<1>1. CheckpointSpec => []CheckpointInv
  BY CheckpointInitInv, CheckpointStep, PTL DEF CheckpointSpec
<1> QED BY <1>1, CheckpointInvIsSound, PTL

-----------------------------------------------------------------------------
(* The questions.  The app's set and the view's, with the messages between them, *)
(* say what the user did; pairing an answer with the questions loses nothing.    *)

\* What a key may post; what the user may have meant.
Messages == [kind : {"answered"}, index : 1..(NOptions + 1)] \cup [kind : {"toggled"}, index : 1..NOptions]
            \cup [kind : {"typed", "cleared", "moved", "chat", "submitted", "cancelled"}, index : {0}]
MeaningStates == [pick : 0..(NOptions + 1), struck : 0..(NOptions + 1), ticks : SUBSET (1..NOptions), text : BOOLEAN]
Meanings == [Tabs -> MeaningStates]

\* Messages that change a text, and messages that end the set: all that a key was
\* pressed over.
Texts == {"typed", "cleared"}
Endings == {"chat", "submitted"}
OnlyTyping == rushed \subseteq Texts \cup Endings

\* What a tab would send is what the user meant by it, and the pick that typing struck.
TabMeans(q, tab, m) ==
  /\ tab.text = m.text
  /\ IF q \in Multi THEN tab.ticks = m.ticks
     ELSE {tab.answer} \cap 1..NOptions = {m.pick, m.struck} \cap 1..NOptions
Agree(set, m) == \A q \in Tabs : TabMeans(q, set.tabs[q], m[q])

\* The second set is the first with the carets, the tab and the editing flag moved.
IsMoved(a, v) ==
  /\ v.confirming = a.confirming
  /\ \A q \in Tabs : v.tabs[q] = [a.tabs[q] EXCEPT !.caret = v.tabs[q].caret]

\* The tab with its text typed or cleared, and the set with its active tab so.
TextedTab(tab, text) == [tab EXCEPT !.text = text]
TextedSet(a, text) == [a EXCEPT !.tabs = [a.tabs EXCEPT ![a.active] = TextedTab(a.tabs[a.active], text)]]

\* The app's set once it has handled the first n messages, each of which is a text: the
\* last one counts.
Texted(a, says, n) == IF n = 0 THEN a ELSE TextedSet(a, says[n].kind = "typed")

\* The set would say what is meant if its active tab were this one.
AgreeWith(a, m, tab) ==
  \A q \in Tabs : TabMeans(q, IF q = a.active THEN tab ELSE a.tabs[q], m[q])

\* What a message that is no text promises of the app's set, the view's and what was
\* meant.
Awaited(a, v, m, s) ==
  /\ s.kind = "moved" => IsMoved(a, v) /\ Agree(a, m)
  /\ s.kind = "answered" => v = a /\ s.index \in 1..(NOptions + 1)
                            /\ AgreeWith(a, m, AnsweredTab(a.active, a.tabs[a.active], s.index))
  /\ s.kind = "toggled" => v = a /\ s.index \in 1..NOptions
                           /\ AgreeWith(a, m, ToggledTab(a.tabs[a.active], s.index))
  /\ s.kind = "cancelled" => Agree(a, m)

\* Behind the first n messages come those of one more key: none, one, or two of which
\* the first is a Moved.
Owed(a, v, m, says, n) ==
  \/ Len(says) = n /\ v = a /\ Agree(a, m)
  \/ Len(says) = n + 1 /\ says[n + 1].kind \notin Texts /\ Awaited(a, v, m, says[n + 1])
  \/ /\ Len(says) = n + 2 /\ says[n + 1].kind = "moved" /\ IsMoved(a, v)
     /\ says[n + 2].kind \notin Texts /\ Awaited(v, v, m, says[n + 2])

\* The messages on their way: a set that is about to end owes nothing; any other owes
\* the texts, however many, and then what one more key posted.
Pending(a, v, m, says) ==
  \/ \E i \in 1..Len(says) : says[i].kind \in Endings
  \/ /\ m \in Meanings
     /\ \E n \in 0..Len(says) : /\ \A i \in 1..n : says[i].kind \in Texts
                                /\ Owed(Texted(a, says, n), v, m, says, n)
Promised == Pending(asks, view, meant, posted)

\* The two sets and the messages, however many keys are ahead: sets of this dock, of
\* which the app's confirms only what is answered.
ShapeInv ==
  /\ posted \in Seq(Messages)
  /\ asks = NoSet => view = NoSet /\ posted = <<>>
  /\ asks # NoSet => asks \in SetStates /\ view \in SetStates /\ (asks.confirming => AllAnswered(asks))

\* What the messages on their way promise, while nothing but typing was ahead.
MeaningInv == asks # NoSet /\ OnlyTyping => Promised

\* Both, for the steps of the dock.
DockInv == ShapeInv /\ MeaningInv

\* What a key finds that nothing but typing is ahead of: the view is the app's set as
\* the texts on their way will leave it, and says what is meant.
Quiet ==
  /\ posted \in Seq(Messages) /\ asks \in SetStates /\ view \in SetStates /\ meant \in Meanings
  /\ \A i \in 1..Len(posted) : posted[i].kind \in Texts
  /\ view = Texted(asks, posted, Len(posted)) /\ Agree(view, meant)

\* The slot and the sidecar: an answer that is saved is the slot's, a set is in the
\* dock only while the slot has no answer, and a call is over only when it has one.
StoreInv ==
  /\ job \in Jobs \cup {NoSet} /\ sidecar \in Jobs \cup {NoSet}
  /\ sidecar # NoSet /\ sidecar.answer # NoSet => job # NoSet /\ job.answer # NoSet
  /\ asks # NoSet => job # NoSet /\ job.answer = NoSet
  /\ ~parked => job # NoSet /\ job.answer # NoSet

\* What holds however many keys are ahead.
QuestionInv == ShapeInv /\ StoreInv

\* A position moved around a ring stays on it.
LEMMA TurnedIn ==
  ASSUME NEW n \in Nat \ {0}, NEW at \in 1..n, NEW by \in Int
  PROVE  Turned(at, by, n) \in 1..n
BY DEF Turned

\* Some number of moves reaches any position of the ring.
LEMMA TurnedTo ==
  ASSUME NEW n \in Nat \ {0}, NEW at \in 1..n, NEW q \in 1..n
  PROVE  \E step \in 1..n : Turned(at, step, n) = q
<1>1. CASE q > at
  <2>1. q - at \in 1..n /\ (at - 1 + (q - at)) % n = q - 1
    BY <1>1, SMTT(30)
  <2> QED BY <2>1 DEF Turned
<1>2. CASE q <= at
  <2>1. q - at + n \in 1..n
    BY <1>2
  <2>2. (at - 1 + (q - at + n)) % n = q - 1
    BY <1>2, SMTT(30)
  <2>3. Turned(at, q - at + n, n) = q
    BY <2>2 DEF Turned
  <2> QED BY <2>1, <2>3
<1> QED BY <1>1, <1>2

\* A set of numbers has a least one.
LEMMA LeastIn ==
  ASSUME NEW S \in SUBSET Nat, S # {}
  PROVE  Min(S) \in S
<1> DEFINE R == OpToRel(<, Nat)
<1>1. PICK x \in S : \A y \in S : ~(<<y, x>> \in R)
  <2>1. IsWellFoundedOn(R, Nat)
    BY NatLessThanWellFounded
  <2> QED BY <2>1, WFMin
<1>2. \A y \in S : ~(y < x)
  BY <1>1, Zenon DEF OpToRel
<1>3. \A y \in S : x =< y
  BY <1>2
<1> QED BY <1>3 DEF Min

\* There is one tab per title.
LEMMA TabsAre == Tabs = 1..Len(Titles) /\ Len(Titles) \in Nat
BY QuestionsAssumption DEF Tabs

\* Advancing moves the tab, and confirms only what is answered.
LEMMA Advances ==
  ASSUME NEW set \in SetStates, set.confirming => AllAnswered(set)
  PROVE  /\ Advance(set) \in SetStates
         /\ Advance(set).tabs = set.tabs
         /\ Advance(set).confirming => AllAnswered(Advance(set))
<1>1. CASE AllAnswered(set)
  BY <1>1 DEF Advance, SetStates, AllAnswered
<1>2. CASE ~AllAnswered(set)
  <2> DEFINE n == Len(Titles)
             open == {step \in 1..n : ~set.tabs[Turned(set.active, step, n)].answered}
  <2>1. PICK q \in Tabs : ~set.tabs[q].answered
    BY <1>2 DEF AllAnswered
  <2>2. n \in Nat \ {0} /\ set.active \in 1..n /\ q \in 1..n
    BY <2>1, TabsAre DEF SetStates
  <2>3. PICK step \in 1..n : Turned(set.active, step, n) = q
    BY <2>2, TurnedTo
  <2>4. open \in SUBSET Nat /\ open # {}
    BY <2>1, <2>2, <2>3
  <2>5. Min(open) \in open
    BY <2>4, LeastIn
  <2>6. Min(open) \in Int
    BY <2>4, <2>5
  <2>7. Turned(set.active, Min(open), n) \in Tabs
    BY <2>2, <2>6, TurnedIn, TabsAre
  <2>8. Advance(set) = [set EXCEPT !.active = Turned(set.active, Min(open), n), !.editing = FALSE]
    BY <1>2 DEF Advance
  <2> HIDE DEF open, n
  <2> QED BY <1>2, <2>7, <2>8 DEF SetStates, AllAnswered
<1> QED BY <1>1, <1>2

\* Moved carets change nothing of what a set says.
LEMMA MovedAgrees ==
  ASSUME NEW a \in SetStates, NEW v \in SetStates, IsMoved(a, v), NEW m, Agree(a, m)
  PROVE  Agree(v, m)
<1> SUFFICES ASSUME NEW q \in Tabs PROVE TabMeans(q, v.tabs[q], m[q])
  BY DEF Agree
<1>1. v.tabs[q] = [a.tabs[q] EXCEPT !.caret = v.tabs[q].caret]
  BY DEF IsMoved
<1>2. a.tabs[q] \in TabStates
  BY DEF SetStates
<1>3. v.tabs[q].text = a.tabs[q].text /\ v.tabs[q].ticks = a.tabs[q].ticks /\ v.tabs[q].answer = a.tabs[q].answer
  BY <1>1, <1>2 DEF TabStates
<1> QED BY <1>3 DEF Agree, TabMeans

\* A set with nothing moved is itself.
LEMMA MovedSelf ==
  ASSUME NEW v \in SetStates
  PROVE  IsMoved(v, v)
<1> SUFFICES ASSUME NEW q \in Tabs PROVE v.tabs[q] = [v.tabs[q] EXCEPT !.caret = v.tabs[q].caret]
  BY DEF IsMoved
<1>1. v.tabs[q] \in TabStates
  BY DEF SetStates
<1> QED BY <1>1 DEF TabStates

\* One sequence after another.
LEMMA Behind ==
  ASSUME NEW s \in Seq(Messages), NEW t \in Seq(Messages)
  PROVE  /\ s \o t \in Seq(Messages) /\ Len(s \o t) = Len(s) + Len(t)
         /\ \A i \in 1..Len(s) : (s \o t)[i] = s[i]
         /\ \A i \in 1..Len(t) : (s \o t)[Len(s) + i] = t[i]
BY ConcatProperties

\* A key over nothing but texts, or over the end of the set.
LEMMA KeyFinds ==
  ASSUME DockInv, asks # NoSet, OnlyTyping, \A i \in 1..Len(posted) : posted[i].kind \in Texts \cup Endings
  PROVE  Quiet \/ \E i \in 1..Len(posted) : posted[i].kind \in Endings
<1>1. /\ posted \in Seq(Messages) /\ asks \in SetStates /\ view \in SetStates /\ Promised
  BY DEF DockInv, ShapeInv, MeaningInv
<1>2. SUFFICES ASSUME \A i \in 1..Len(posted) : posted[i].kind \notin Endings PROVE Quiet
  OBVIOUS
<1>3. \A i \in 1..Len(posted) : posted[i].kind \in Texts
  BY <1>2
<1>4. meant \in Meanings
  BY <1>1, <1>2 DEF Promised, Pending
<1>5. PICK n \in 0..Len(posted) : Owed(Texted(asks, posted, n), view, meant, posted, n)
  BY <1>1, <1>2 DEF Promised, Pending
<1>6. Len(posted) \in Nat
  BY <1>1
<1>7. ~(Len(posted) = n + 1 \/ Len(posted) = n + 2) \/ posted[n + 1].kind \in Texts
  BY <1>3, <1>6
<1>8. "moved" \notin Texts
  BY DEF Texts
<1>9. Len(posted) = n /\ view = Texted(asks, posted, n) /\ Agree(view, meant)
  BY <1>5, <1>7, <1>8 DEF Owed
<1> QED BY <1>1, <1>3, <1>4, <1>9 DEF Quiet

\* A key keeps the promise of what it posts.
LEMMA PressInv ==
  ASSUME Quiet, NEW model, NEW says \in Seq(Messages), Press(model, says),
         meant' \in Meanings, Owed(view, model, meant', says, 0)
  PROVE  Promised'
<1> DEFINE t == posted \o says
           n == Len(posted)
<1>1. posted \in Seq(Messages) /\ n \in Nat /\ Len(says) \in Nat
  BY DEF Quiet
<1>2. /\ Len(t) = n + Len(says)
      /\ \A i \in 1..n : t[i] = posted[i]
      /\ \A i \in 1..Len(says) : t[n + i] = says[i]
  BY <1>1, Behind
<1>3. posted' = t /\ asks' = asks /\ view' = model
  BY DEF Press
<1>4. Texted(asks, t, n) = view
  <2>1. n # 0 => t[n] = posted[n]
    BY <1>1, <1>2
  <2> QED BY <2>1 DEF Quiet, Texted
<1>5. \A i \in 1..n : t[i].kind \in Texts
  BY <1>2 DEF Quiet
<1> HIDE DEF t, n
<1>6. Owed(view, model, meant', t, n)
  <2>1. Len(says) = 1 => t[n + 1] = says[1]
    BY <1>2
  <2>2. Len(says) = 2 => t[n + 1] = says[1] /\ t[n + 2] = says[2]
    BY <1>2
  <2>3. CASE Len(says) = 0 /\ model = view /\ Agree(view, meant')
    BY <1>1, <1>2, <2>3 DEF Owed
  <2>4. CASE Len(says) = 1 /\ says[1].kind \notin Texts /\ Awaited(view, model, meant', says[1])
    BY <1>1, <1>2, <2>1, <2>4 DEF Owed
  <2>5. CASE /\ Len(says) = 2 /\ says[1].kind = "moved" /\ IsMoved(view, model)
             /\ says[2].kind \notin Texts /\ Awaited(model, model, meant', says[2])
    BY <1>1, <1>2, <2>2, <2>5 DEF Owed
  <2>6. 0 + 1 = 1 /\ 0 + 2 = 2
    OBVIOUS
  <2> QED BY <2>3, <2>4, <2>5, <2>6 DEF Owed
<1>7. n \in 0..Len(t)
  BY <1>1, <1>2
<1>8. Pending(asks, model, meant', t)
  BY <1>4, <1>5, <1>6, <1>7 DEF Pending
<1> QED BY <1>3, <1>8 DEF Promised

\* A key that only moves.
LEMMA MovesInv ==
  ASSUME Quiet, NEW model \in SetStates, IsMoved(view, model),
         Press(model, <<Say("moved", 0)>>), UNCHANGED meant
  PROVE  Promised'
<1> DEFINE says == <<Say("moved", 0)>>
<1>1. Say("moved", 0) \in Messages /\ says \in Seq(Messages) /\ Len(says) = 1 /\ says[1].kind = "moved"
  BY QuestionsAssumption DEF Say, Messages
<1>2. Agree(view, meant') /\ meant' \in Meanings
  <2>1. meant' = meant
    OBVIOUS
  <2> QED BY <2>1 DEF Quiet
<1>3. Awaited(view, model, meant', says[1])
  BY <1>1, <1>2 DEF Awaited
<1>4. Owed(view, model, meant', says, 0)
  BY <1>1, <1>3 DEF Owed, Texts
<1> HIDE DEF says
<1>5. Press(model, says)
  BY DEF says
<1> QED BY <1>1, <1>2, <1>4, <1>5, PressInv

\* The caret of the tab shown is moved to a row.
LEMMA CaretMoves ==
  ASSUME view \in SetStates, NEW row \in Rows
  PROVE  /\ CaretAt(row) \in SetStates /\ IsMoved(view, CaretAt(row)) /\ CaretAt(row).active = view.active
<1>1. view.tabs[view.active] \in TabStates /\ view.active \in Tabs
  BY DEF SetStates
<1>2. CaretAt(row) = [view EXCEPT !.tabs = [view.tabs EXCEPT ![view.active] = [view.tabs[view.active] EXCEPT !.caret = row]],
                                  !.editing = FALSE]
  BY DEF CaretAt
<1>3. [view.tabs[view.active] EXCEPT !.caret = row] \in TabStates
  BY <1>1 DEF TabStates
<1>4. CaretAt(row) \in SetStates /\ CaretAt(row).active = view.active /\ CaretAt(row).confirming = view.confirming
  BY <1>1, <1>2, <1>3, ZenonT(30) DEF SetStates
<1>5. ASSUME NEW q \in Tabs
      PROVE  CaretAt(row).tabs[q] = [view.tabs[q] EXCEPT !.caret = CaretAt(row).tabs[q].caret]
  <2>1. CaretAt(row).tabs[q] = IF q = view.active THEN [view.tabs[view.active] EXCEPT !.caret = row] ELSE view.tabs[q]
    BY <1>1, <1>2 DEF SetStates
  <2>2. view.tabs[q] \in TabStates
    BY DEF SetStates
  <2> QED BY <2>1, <2>2 DEF TabStates
<1> QED BY <1>4, <1>5 DEF IsMoved

\* Up and down move the caret.
LEMMA ArrowInv ==
  ASSUME Quiet, Arrow
  PROVE  Promised'
<1>1. PICK delta \in {-1, 1} : Press(CaretAt(Turned(Shown.caret, delta, NOptions + 2)), <<Say("moved", 0)>>)
  BY DEF Arrow
<1>2. UNCHANGED meant
  BY DEF Arrow
<1>3. view \in SetStates
  BY DEF Quiet
<1>4. Shown.caret \in Rows /\ NOptions + 2 \in Nat \ {0} /\ delta \in Int
  BY <1>3, QuestionsAssumption DEF Shown, SetStates, TabStates
<1>5. Turned(Shown.caret, delta, NOptions + 2) \in Rows
  BY <1>4, TurnedIn DEF Rows
<1> QED BY <1>1, <1>2, <1>3, <1>5, CaretMoves, MovesInv

\* Tab moves to the next question.
LEMMA TabKeyInv ==
  ASSUME Quiet, TabKey
  PROVE  Promised'
<1> DEFINE model == [view EXCEPT !.active = Turned(@, 1, Len(Titles)), !.editing = FALSE]
<1>1. UNCHANGED meant /\ Press(model, <<Say("moved", 0)>>)
  BY DEF TabKey
<1>2. view \in SetStates
  BY DEF Quiet
<1>3. Len(Titles) \in Nat \ {0} /\ view.active \in 1..Len(Titles)
  BY <1>2, TabsAre DEF SetStates
<1>4. Turned(view.active, 1, Len(Titles)) \in Tabs
  <2>1. \A n \in Nat \ {0} : \A at \in 1..n : Turned(at, 1, n) \in 1..n
    BY TurnedIn
  <2>2. Turned(view.active, 1, Len(Titles)) \in 1..Len(Titles)
    BY <1>3, <2>1
  <2> QED BY <2>2, TabsAre
<1>5. model \in SetStates /\ model.tabs = view.tabs /\ model.confirming = view.confirming
  BY <1>2, <1>4 DEF SetStates
<1>6. IsMoved(view, model)
  BY <1>2, <1>5, MovedSelf DEF IsMoved
<1> HIDE DEF model
<1> QED BY <1>1, <1>5, <1>6, MovesInv

\* Taking up the field, or leaving it, changes nothing of what a set says.
LEMMA EditingMoves ==
  ASSUME NEW set \in SetStates, NEW flag \in BOOLEAN, NEW a, IsMoved(a, set)
  PROVE  [set EXCEPT !.editing = flag] \in SetStates /\ IsMoved(a, [set EXCEPT !.editing = flag])
<1>1. [set EXCEPT !.editing = flag] \in SetStates /\ [set EXCEPT !.editing = flag].tabs = set.tabs
      /\ [set EXCEPT !.editing = flag].confirming = set.confirming
  BY DEF SetStates
<1> QED BY <1>1 DEF IsMoved

\* Leaving the field.
LEMMA LeaveFieldInv ==
  ASSUME Quiet, LeaveField
  PROVE  Promised'
<1>1. view \in SetStates
  BY DEF Quiet
<1> QED BY <1>1, MovedSelf, EditingMoves, MovesInv DEF LeaveField

\* A text over a text: the later one stays.
LEMMA TextOverText ==
  ASSUME NEW a \in SetStates, NEW first \in BOOLEAN, NEW text \in BOOLEAN
  PROVE  /\ TextedSet(a, text) \in SetStates
         /\ TextedSet(a, text).active = a.active
         /\ TextedSet(TextedSet(a, first), text) = TextedSet(a, text)
         /\ \A q \in Tabs : TextedSet(a, text).tabs[q] = IF q = a.active THEN TextedTab(a.tabs[q], text) ELSE a.tabs[q]
<1>1. a.active \in Tabs /\ a.tabs \in [Tabs -> TabStates] /\ a.tabs[a.active] \in TabStates
  BY DEF SetStates
<1>2. ASSUME NEW flag \in BOOLEAN
      PROVE  /\ TextedTab(a.tabs[a.active], flag) \in TabStates
             /\ TextedTab(TextedTab(a.tabs[a.active], flag), text) = TextedTab(a.tabs[a.active], text)
  BY <1>1 DEF TextedTab, TabStates
<1> DEFINE Tabbed(tab) == [a.tabs EXCEPT ![a.active] = tab]
<1>3. ASSUME NEW tab \in TabStates
      PROVE  /\ Tabbed(tab) \in [Tabs -> TabStates]
             /\ \A q \in Tabs : Tabbed(tab)[q] = IF q = a.active THEN tab ELSE a.tabs[q]
             /\ \A other : [Tabbed(tab) EXCEPT ![a.active] = other] = Tabbed(other)
  BY <1>1
<1>4. ASSUME NEW flag \in BOOLEAN
      PROVE  /\ TextedSet(a, flag) = [a EXCEPT !.tabs = Tabbed(TextedTab(a.tabs[a.active], flag))]
             /\ TextedSet(a, flag) \in SetStates
             /\ TextedSet(a, flag).active = a.active
             /\ TextedSet(a, flag).tabs = Tabbed(TextedTab(a.tabs[a.active], flag))
  <2> DEFINE new == Tabbed(TextedTab(a.tabs[a.active], flag))
  <2>1. new \in [Tabs -> TabStates]
    BY <1>2, <1>3
  <2>2. TextedSet(a, flag) = [a EXCEPT !.tabs = new]
    BY DEF TextedSet
  <2> HIDE DEF new
  <2> QED BY <2>1, <2>2 DEF SetStates, new
<1>5. TextedSet(TextedSet(a, first), text) = TextedSet(a, text)
  <2> DEFINE b == TextedSet(a, first)
             was == TextedTab(a.tabs[a.active], first)
             now == TextedTab(a.tabs[a.active], text)
  <2>1. b = [a EXCEPT !.tabs = Tabbed(was)] /\ b.active = a.active /\ b.tabs = Tabbed(was) /\ was \in TabStates
    BY <1>2, <1>4
  <2>2. b.tabs[b.active] = was /\ TextedTab(was, text) = now
    BY <1>1, <1>2, <1>3, <2>1
  <2>3. [b.tabs EXCEPT ![b.active] = now] = Tabbed(now)
    BY <1>3, <2>1
  <2>4. TextedSet(b, text) = [b EXCEPT !.tabs = Tabbed(now)]
    BY <2>2, <2>3 DEF TextedSet
  <2> HIDE DEF b, was, now, Tabbed
  <2>5. [b EXCEPT !.tabs = Tabbed(now)] = [a EXCEPT !.tabs = Tabbed(now)]
    BY <2>1 DEF SetStates
  <2> QED BY <1>4, <2>4, <2>5 DEF b, now
<1> QED BY <1>2, <1>3, <1>4, <1>5

\* What text appearing in the field strikes out is what the app's tab keeps.
LEMMA TypedMeans ==
  ASSUME view.active \in Tabs, meant[view.active] \in MeaningStates, NEW tab \in TabStates,
         TabMeans(view.active, tab, meant[view.active]), NEW text \in BOOLEAN
  PROVE  Typed(text) \in MeaningStates /\ TabMeans(view.active, TextedTab(tab, text), Typed(text))
<1> DEFINE q == view.active
           m == meant[q]
           mine == [m EXCEPT !.text = text]
           struck == text /\ q \notin Multi /\ mine.pick \in 1..NOptions
<1>1. mine \in MeaningStates /\ mine.pick = m.pick /\ mine.struck = m.struck /\ mine.ticks = m.ticks /\ mine.text = text
  BY DEF MeaningStates
<1>2. 0 \in 0..(NOptions + 1) /\ 0 \notin 1..NOptions
  BY QuestionsAssumption
<1>3. TextedTab(tab, text).text = text /\ TextedTab(tab, text).ticks = tab.ticks /\ TextedTab(tab, text).answer = tab.answer
  BY DEF TextedTab, TabStates
<1>4. CASE struck
  <2>1. Typed(text) = [mine EXCEPT !.pick = 0, !.struck = mine.pick]
    BY <1>4 DEF Typed
  <2>2. Typed(text) \in MeaningStates /\ Typed(text).pick = 0 /\ Typed(text).struck = m.pick /\ Typed(text).text = text
    BY <1>1, <1>2, <2>1 DEF MeaningStates
  <2>3. {tab.answer} \cap 1..NOptions = {m.pick, m.struck} \cap 1..NOptions /\ m.pick \in 1..NOptions
    BY <1>1, <1>4 DEF TabMeans
  <2>4. {tab.answer} \cap 1..NOptions = {0, m.pick} \cap 1..NOptions
    BY <1>2, <2>3
  <2> QED BY <1>3, <1>4, <2>2, <2>4 DEF TabMeans
<1>5. CASE ~struck
  <2>1. Typed(text) = mine
    BY <1>5 DEF Typed
  <2> HIDE DEF mine
  <2> QED BY <1>1, <1>3, <2>1 DEF TabMeans
<1> QED BY <1>4, <1>5

\* What is typed is in the view before the app hears of it, and the message says the
\* same of the app's tab.
LEMMA TypeInFieldInv ==
  ASSUME Quiet, TypeInField
  PROVE  Promised'
<1> DEFINE q == view.active
           now == ~view.tabs[q].text
           model == TextedSet(view, now)
           s == Say(IF Shown.text THEN "cleared" ELSE "typed", 0)
           t == posted \o <<s>>
           n == Len(posted) + 1
<1>1. view \in SetStates /\ asks \in SetStates /\ meant \in Meanings /\ posted \in Seq(Messages) /\ Len(posted) \in Nat
  BY DEF Quiet
<1>2. q \in Tabs /\ view.tabs[q] \in TabStates /\ meant[q] \in MeaningStates /\ now \in BOOLEAN
  BY <1>1 DEF SetStates, TabStates, Meanings
<1>3. Press(model, <<s>>) /\ meant' = [meant EXCEPT ![q] = Typed(now)]
  BY DEF TypeInField, Means, TextedSet, TextedTab, Shown
<1>4. s \in Messages /\ s.kind \in Texts /\ (s.kind = "typed") = now
  BY <1>2, QuestionsAssumption DEF Say, Messages, Shown, TabStates, Texts
<1>5. posted' = t /\ asks' = asks /\ view' = model
  BY <1>3 DEF Press
<1>6. Agree(view, meant) /\ TabMeans(q, view.tabs[q], meant[q])
  BY <1>2 DEF Quiet, Agree
<1>7. Typed(now) \in MeaningStates /\ TabMeans(q, TextedTab(view.tabs[q], now), Typed(now))
  BY <1>2, <1>6, TypedMeans
<1>8. meant' \in Meanings /\ \A p \in Tabs : meant'[p] = IF p = q THEN Typed(now) ELSE meant[p]
  BY <1>1, <1>2, <1>3, <1>7 DEF Meanings
<1>9. \A p \in Tabs : model.tabs[p] = IF p = q THEN TextedTab(view.tabs[p], now) ELSE view.tabs[p]
  BY <1>1, <1>2, TextOverText
<1> HIDE DEF now, model, s
<1>10. Agree(model, meant')
  BY <1>6, <1>7, <1>8, <1>9 DEF Agree
<1>11. Len(t) = n /\ t[n] = s /\ \A i \in 1..Len(posted) : t[i] = posted[i]
  <2>1. <<s>> \in Seq(Messages) /\ Len(<<s>>) = 1 /\ <<s>>[1] = s
    BY <1>4
  <2> QED BY <1>1, <2>1, Behind
<1>12. \A i \in 1..n : t[i].kind \in Texts
  <2> SUFFICES ASSUME NEW i \in 1..n PROVE t[i].kind \in Texts
    OBVIOUS
  <2>1. i = n \/ i \in 1..Len(posted)
    BY <1>1
  <2> QED BY <1>4, <1>11, <2>1 DEF Quiet
<1>13. Texted(asks, t, n) = model
  <2>1. n # 0 /\ Texted(asks, t, n) = TextedSet(asks, now)
    BY <1>1, <1>4, <1>11 DEF Texted
  <2>2. model = TextedSet(view, now)
    BY DEF model
  <2>3. CASE Len(posted) = 0
    BY <2>1, <2>2, <2>3 DEF Quiet, Texted
  <2>4. CASE Len(posted) # 0
    <3>1. view = TextedSet(asks, posted[Len(posted)].kind = "typed")
      BY <2>4 DEF Quiet, Texted
    <3> QED BY <1>1, <1>2, <2>1, <2>2, <3>1, TextOverText DEF now
  <2> QED BY <2>3, <2>4
<1> HIDE DEF t, n
<1>14. Owed(model, model, meant', t, n)
  BY <1>10, <1>11 DEF Owed
<1>15. n \in 0..Len(t)
  BY <1>1, <1>11 DEF n
<1>16. Pending(asks, model, meant', t)
  BY <1>8, <1>12, <1>13, <1>14, <1>15 DEF Pending
<1> QED BY <1>5, <1>16 DEF Promised

\* One message after another.
LEMMA AddOne ==
  ASSUME NEW S, NEW one \in Seq(S), Len(one) = 1, NEW s \in S
  PROVE  one \o <<s>> \in Seq(S) /\ Len(one \o <<s>>) = 2 /\ (one \o <<s>>)[1] = one[1] /\ (one \o <<s>>)[2] = s
<1> DEFINE two == <<s>>
<1>1. two \in Seq(S) /\ Len(two) = 1 /\ two[1] = s
  OBVIOUS
<1> HIDE DEF two
<1>2. /\ one \o two \in Seq(S) /\ Len(one \o two) = 2
      /\ \A i \in 1..2 : (one \o two)[i] = IF i <= 1 THEN one[i] ELSE two[i - 1]
  BY <1>1, ConcatProperties
<1>3. (one \o two)[1] = one[1] /\ (one \o two)[2] = s
  BY <1>1, <1>2
<1> QED BY <1>2, <1>3 DEF two

\* What the key posted before it and one more message.
LEMMA Follows ==
  ASSUME NEW a, NEW v, NEW m, NEW says, NEW s \in Messages, s.kind \notin Texts,
         \/ says = <<>> /\ Awaited(a, v, m, s)
         \/ says = <<Say("moved", 0)>> /\ IsMoved(a, v) /\ Awaited(v, v, m, s)
  PROVE  says \o <<s>> \in Seq(Messages) /\ Owed(a, v, m, says \o <<s>>, 0)
<1>1. Say("moved", 0) \in Messages /\ Say("moved", 0).kind = "moved"
  BY QuestionsAssumption DEF Say, Messages
<1>2. CASE says = <<>> /\ Awaited(a, v, m, s)
  <2>1. says \o <<s>> = <<s>>
    BY <1>2
  <2> QED BY <1>2, <2>1 DEF Owed
<1>3. CASE says = <<Say("moved", 0)>> /\ IsMoved(a, v) /\ Awaited(v, v, m, s)
  <2> DEFINE t == says \o <<s>>
  <2>1. says \in Seq(Messages) /\ <<s>> \in Seq(Messages) /\ Len(says) = 1 /\ Len(<<s>>) = 1
        /\ says[1].kind = "moved" /\ <<s>>[1] = s
    BY <1>1, <1>3
  <2>2. t \in Seq(Messages) /\ Len(t) = 2 /\ t[1] = says[1] /\ t[2] = s
    BY <2>1, AddOne
  <2> QED BY <1>1, <1>3, <2>1, <2>2 DEF Owed
<1> QED BY <1>2, <1>3

\* A tab's meaning where the user's changes what the tab will be.
LEMMA MeansAgrees ==
  ASSUME NEW a \in SetStates, NEW m \in Meanings, Agree(a, m), NEW tab, NEW mine, NEW n,
         n = [m EXCEPT ![a.active] = mine], TabMeans(a.active, tab, mine)
  PROVE  AgreeWith(a, n, tab)
<1> SUFFICES ASSUME NEW q \in Tabs PROVE TabMeans(q, IF q = a.active THEN tab ELSE a.tabs[q], n[q])
  BY DEF AgreeWith
<1>1. n[q] = IF q = a.active THEN mine ELSE m[q]
  BY DEF Meanings
<1>2. TabMeans(q, a.tabs[q], m[q])
  BY DEF Agree
<1> QED BY <1>1, <1>2

\* A tab that is answered says the row that was picked.
LEMMA AnsweredMeans ==
  ASSUME NEW q \in Tabs, NEW tab \in TabStates, NEW m \in MeaningStates, NEW new \in MeaningStates, TabMeans(q, tab, m),
         NEW row \in 1..(NOptions + 1), q \in Multi => new = m,
         q \notin Multi => new.pick = row /\ new.struck = 0 /\ new.text = (row = Custom(q) /\ m.text)
  PROVE  TabMeans(q, AnsweredTab(q, tab, row), new)
<1> DEFINE after == AnsweredTab(q, tab, row)
<1>1. after.ticks = tab.ticks /\ after.text = (tab.text /\ ~(q \notin Multi /\ row # Custom(q)))
      /\ after.answer = IF q \in Multi THEN 0 ELSE row
  BY DEF AnsweredTab, TabStates
<1> HIDE DEF after
<1>2. tab.text = m.text /\ tab.text \in BOOLEAN
  BY DEF TabMeans, TabStates
<1>3. CASE q \in Multi
  <2>1. after.text = tab.text
    BY <1>1, <1>2, <1>3, Zenon
  <2> QED BY <1>1, <1>3, <2>1 DEF TabMeans, after
<1>4. CASE q \notin Multi
  <2>1. {row} \cap 1..NOptions = {row, 0} \cap 1..NOptions
    BY QuestionsAssumption
  <2>2. after.text = new.text
    BY <1>1, <1>2, <1>4
  <2> QED BY <1>1, <1>4, <2>1, <2>2 DEF TabMeans, after
<1> QED BY <1>3, <1>4

\* A row entered, ticked or picked: the message carries what the user meant, behind the
\* one that moves the caret there.
LEMMA ActivateInv ==
  ASSUME Quiet, NEW model \in SetStates, NEW says, model.active = view.active,
         \/ says = <<>> /\ model = view
         \/ says = <<Say("moved", 0)>> /\ IsMoved(view, model),
         NEW row \in Rows, NEW ticking \in BOOLEAN, Activate(model, row, ticking, says)
  PROVE  Promised'
<1> DEFINE q == view.active
           mine == meant[q]
<1>1. view \in SetStates /\ Agree(view, meant) /\ meant \in Meanings
  BY DEF Quiet
<1>2. q \in Tabs /\ q = model.active /\ model.tabs[q] \in TabStates
      /\ mine \in MeaningStates
  BY <1>1 DEF SetStates, Meanings
<1>3. IsMoved(view, model) /\ Agree(model, meant)
  BY <1>1, MovedSelf, MovedAgrees
<1>4. TabMeans(q, model.tabs[q], mine)
  BY <1>2, <1>3 DEF Agree
<1>5. ASSUME NEW s \in Messages, s.kind \notin Texts, Press(model, says \o <<s>>), meant' \in Meanings, Awaited(model, model, meant', s)
      PROVE  Promised'
  <2>1. says \o <<s>> \in Seq(Messages) /\ Owed(view, model, meant', says \o <<s>>, 0)
    BY <1>1, <1>3, <1>5, Follows
  <2> QED BY <1>1, <1>5, <2>1, PressInv
<1>6. CASE row = Chat(view.active) /\ Press(model, says \o <<Say("chat", 0)>>) /\ UNCHANGED meant
  <2>1. Say("chat", 0) \in Messages /\ Say("chat", 0).kind \notin Texts /\ Awaited(model, model, meant', Say("chat", 0))
    BY QuestionsAssumption DEF Say, Messages, Awaited, Texts
  <2> QED BY <1>1, <1>5, <1>6, <2>1
<1>7. CASE row = Custom(view.active) /\ Press([model EXCEPT !.editing = TRUE], says \o <<Say("moved", 0)>>) /\ UNCHANGED meant
  <2> DEFINE v == [model EXCEPT !.editing = TRUE]
             s == Say("moved", 0)
  <2>1. v \in SetStates /\ IsMoved(view, v)
    BY <1>3, EditingMoves
  <2>2. s \in Messages /\ s.kind = "moved" /\ s.kind \notin Texts
    BY QuestionsAssumption DEF Say, Messages, Texts
  <2>3. Agree(v, meant) /\ IsMoved(v, v)
    BY <1>1, <2>1, MovedAgrees, MovedSelf
  <2> HIDE DEF v
  <2>4. Awaited(view, v, meant, s) /\ Awaited(v, v, meant, s)
    BY <1>1, <2>1, <2>2, <2>3 DEF Awaited
  <2>5. says \o <<s>> \in Seq(Messages) /\ Owed(view, v, meant, says \o <<s>>, 0)
    BY <2>1, <2>2, <2>4, Follows
  <2>6. Press(v, says \o <<s>>) /\ meant' = meant
    BY <1>7 DEF v
  <2> QED BY <1>1, <2>1, <2>5, <2>6, PressInv
<1>8. CASE /\ row \in 1..NOptions /\ view.active \in Multi /\ ticking
           /\ Press(model, says \o <<Say("toggled", row)>>)
           /\ Means([mine EXCEPT !.ticks = SymDiff(@, {row})])
  <2> DEFINE new == [mine EXCEPT !.ticks = SymDiff(@, {row})]
             s == Say("toggled", row)
             tab == ToggledTab(model.tabs[q], row)
  <2>1. s \in Messages /\ s.kind = "toggled" /\ s.index = row /\ s.kind \notin Texts
    BY QuestionsAssumption, <1>8 DEF Say, Messages, Texts
  <2>2. meant' = [meant EXCEPT ![q] = new]
    BY <1>8 DEF Means
  <2>3. new \in MeaningStates
    BY <1>2, <1>8 DEF SymDiff, MeaningStates
  <2>4. meant' \in Meanings
    BY <1>1, <1>2, <2>2, <2>3 DEF Meanings
  <2>5. TabMeans(q, tab, new)
    BY <1>2, <1>4, <1>8 DEF TabMeans, ToggledTab, TabStates, MeaningStates
  <2> HIDE DEF new, tab, s
  <2>6. AgreeWith(model, meant', tab)
    BY <1>1, <1>2, <1>3, <2>2, <2>5, MeansAgrees
  <2>7. Awaited(model, model, meant', s)
    BY <1>2, <1>8, <2>1, <2>6 DEF Awaited, tab
  <2>8. Press(model, says \o <<s>>)
    BY <1>8 DEF s
  <2> QED BY <1>5, <2>1, <2>4, <2>7, <2>8
<1>9. CASE /\ row \in 1..NOptions /\ ~(view.active \in Multi /\ ticking)
           /\ Press(model, says \o <<Say("answered", row)>>)
           /\ IF view.active \in Multi THEN UNCHANGED meant ELSE Means(Picked(row, FALSE))
  <2> DEFINE new == IF view.active \in Multi THEN mine ELSE [mine EXCEPT !.pick = row, !.struck = 0, !.text = FALSE]
             s == Say("answered", row)
             tab == AnsweredTab(q, model.tabs[q], row)
  <2>1. s \in Messages /\ s.kind = "answered" /\ s.index = row /\ s.kind \notin Texts
    BY QuestionsAssumption, <1>9 DEF Say, Messages, Texts
  <2>2. meant' = [meant EXCEPT ![q] = new]
    BY <1>1, <1>2, <1>9 DEF Means, Meanings, Picked
  <2>3. new \in MeaningStates
    <3>1. row \in 0..(NOptions + 1) /\ 0 \in 0..(NOptions + 1)
      BY <1>9, QuestionsAssumption
    <3> QED BY <1>2, <3>1 DEF MeaningStates
  <2>4. meant' \in Meanings
    BY <1>1, <1>2, <2>2, <2>3 DEF Meanings
  <2>5. row # Custom(q) /\ 0 \notin 1..NOptions
    BY <1>9, QuestionsAssumption DEF Custom
  <2>6. TabMeans(q, tab, new)
    <3>1. row \in 1..(NOptions + 1)
      BY <1>9, QuestionsAssumption
    <3>2. q \notin Multi => new.pick = row /\ new.struck = 0 /\ new.text = FALSE
      BY <1>2 DEF MeaningStates
    <3> HIDE DEF new, tab
    <3>3. (q \in Multi => new = mine)
      BY DEF new
    <3> QED BY <1>2, <1>4, <2>3, <2>5, <3>1, <3>2, <3>3, AnsweredMeans DEF tab
  <2> HIDE DEF new, tab, s
  <2>7. AgreeWith(model, meant', tab)
    BY <1>1, <1>2, <1>3, <2>2, <2>6, MeansAgrees
  <2>8. Awaited(model, model, meant', s)
    BY <1>2, <1>9, <2>1, <2>7, QuestionsAssumption DEF Awaited, tab
  <2>9. Press(model, says \o <<s>>)
    BY <1>9 DEF s
  <2> QED BY <1>5, <2>1, <2>4, <2>8, <2>9
<1> QED BY <1>6, <1>7, <1>8, <1>9 DEF Activate

\* Enter, Space and the digits.
LEMMA RowKeysInv ==
  ASSUME Quiet, EnterKey \/ SpaceKey \/ DigitKey
  PROVE  Promised'
<1>2. view \in SetStates
  BY DEF Quiet
<1>3. Shown.caret \in Rows
  BY <1>2 DEF Shown, SetStates, TabStates
<1>4. CASE EnterKey
  BY <1>2, <1>3, <1>4, ActivateInv DEF EnterKey
<1>5. CASE SpaceKey
  BY <1>2, <1>3, <1>5, ActivateInv DEF SpaceKey
<1>6. CASE DigitKey
  <2>1. PICK row \in Rows : Activate(CaretAt(row), row, TRUE, <<Say("moved", 0)>>)
    BY <1>6 DEF DigitKey
  <2> QED BY <1>2, <2>1, CaretMoves, ActivateInv
<1> QED BY <1>4, <1>5, <1>6

\* Enter in the field answers with the custom row, or leaves an empty one.
LEMMA SubmitFieldInv ==
  ASSUME Quiet, SubmitField
  PROVE  Promised'
<1> DEFINE q == view.active
           mine == meant[q]
           s == Say("answered", Custom(view.active))
           new == IF view.active \in Multi THEN mine ELSE [mine EXCEPT !.pick = Custom(view.active), !.struck = 0]
           tab == AnsweredTab(q, view.tabs[q], Custom(view.active))
<1>2. view \in SetStates /\ Agree(view, meant) /\ meant \in Meanings
  BY DEF Quiet
<1>3. CASE ~Shown.text
  BY <1>3, LeaveFieldInv DEF SubmitField
<1>4. CASE Shown.text
  <2>1. Press(view, <<s>>) /\ IF view.active \in Multi THEN UNCHANGED meant ELSE Means(Picked(Custom(view.active), mine.text))
    BY <1>4 DEF SubmitField
  <2>2. q \in Tabs /\ view.tabs[q] \in TabStates
        /\ mine \in MeaningStates
    BY <1>2 DEF SetStates, Meanings
  <2>3. s \in Messages /\ s.kind = "answered" /\ s.index = Custom(q) /\ Custom(q) \in 1..(NOptions + 1)
        /\ Custom(q) \notin 1..NOptions /\ 0 \notin 1..NOptions /\ s.kind \notin Texts
    BY QuestionsAssumption DEF Say, Messages, Custom, Texts
  <2>4. meant' = [meant EXCEPT ![q] = new]
    <3>1. view.active \notin Multi => new = Picked(Custom(view.active), mine.text)
      <4>1. [mine EXCEPT !.pick = Custom(view.active), !.struck = 0]
              = [mine EXCEPT !.pick = Custom(view.active), !.struck = 0, !.text = mine.text]
        BY <2>2 DEF MeaningStates
      <4> QED BY <4>1 DEF Picked
    <3>2. view.active \in Multi => new = meant[q]
      OBVIOUS
    <3> HIDE DEF new, s
    <3> QED BY <1>2, <2>1, <2>2, <3>1, <3>2 DEF Means, Meanings
  <2>5. new \in MeaningStates
    <3>1. Custom(q) \in 0..(NOptions + 1) /\ 0 \in 0..(NOptions + 1)
      BY <2>3, QuestionsAssumption
    <3>2. [mine EXCEPT !.pick = Custom(q), !.struck = 0] \in MeaningStates
      BY <2>2, <3>1 DEF MeaningStates
    <3> QED BY <2>2, <3>2
  <2>6. meant' \in Meanings
    BY <1>2, <2>2, <2>4, <2>5 DEF Meanings
  <2>7. TabMeans(q, view.tabs[q], mine)
    BY <1>2, <2>2 DEF Agree
  <2>8. TabMeans(q, tab, new)
    <3>1. q \notin Multi => new.pick = Custom(q) /\ new.struck = 0 /\ new.text = mine.text
      BY <2>2 DEF MeaningStates
    <3>2. mine.text \in BOOLEAN
      BY <2>2 DEF MeaningStates
    <3> HIDE DEF new, tab
    <3>3. q \in Multi => new = mine
      BY DEF new
    <3> QED BY <2>2, <2>3, <2>5, <2>7, <3>1, <3>2, <3>3, AnsweredMeans DEF tab
  <2> HIDE DEF new, tab, s
  <2>9. AgreeWith(view, meant', tab)
    BY <1>2, <2>4, <2>8, MeansAgrees
  <2>10. Awaited(view, view, meant', s)
    BY <1>2, <2>3, <2>9 DEF Awaited, tab
  <2>11. <<>> \o <<s>> = <<s>>
    BY <2>3
  <2>12. <<s>> \in Seq(Messages) /\ Owed(view, view, meant', <<s>>, 0)
    BY <2>3, <2>10, <2>11, Follows
  <2> QED BY <1>2, <2>1, <2>6, <2>12, PressInv
<1> QED BY <1>3, <1>4

\* The two keys of the confirmation.
LEMMA ConfirmKeyInv ==
  ASSUME Quiet, ConfirmKey
  PROVE  Promised'
<1>1. UNCHANGED meant
  BY DEF ConfirmKey
<1>2. PICK kind \in {"submitted", "cancelled"} : Press(view, <<Say(kind, 0)>>)
  BY DEF ConfirmKey
<1>3. view \in SetStates /\ Agree(view, meant) /\ meant \in Meanings
  BY DEF Quiet
<1> DEFINE s == Say(kind, 0)
<1>4. s \in Messages /\ s.kind \in {"submitted", "cancelled"} /\ s.kind \notin Texts
  BY QuestionsAssumption DEF Say, Messages, Texts
<1>5. Press(view, <<s>>)
  BY <1>2
<1> HIDE DEF s
<1>6. Awaited(view, view, meant', s)
  BY <1>1, <1>3, <1>4 DEF Awaited
<1>7. <<>> \o <<s>> = <<s>>
  BY <1>4
<1>8. <<s>> \in Seq(Messages) /\ Owed(view, view, meant', <<s>>, 0)
  BY <1>4, <1>6, <1>7, Follows
<1> QED BY <1>1, <1>3, <1>5, <1>8, PressInv

\* Every key posts messages of the dock.
LEMMA MessageTypes ==
  /\ \A kind \in {"moved", "chat", "typed", "cleared", "submitted", "cancelled"} : Say(kind, 0) \in Messages
  /\ \A row \in 1..NOptions : Say("toggled", row) \in Messages /\ Say("answered", row) \in Messages
  /\ \A q \in Tabs : Say("answered", Custom(q)) \in Messages
BY QuestionsAssumption DEF Say, Messages, Custom

\* A row entered, ticked or picked is a key that posts messages of the dock.
LEMMA ActivatePosts ==
  ASSUME NEW model, NEW says \in Seq(Messages), NEW row, NEW ticking, Activate(model, row, ticking, says)
  PROVE  \E v, t : t \in Seq(Messages) /\ Press(v, t)
<1>1. ASSUME NEW v, NEW s \in Messages, Press(v, says \o <<s>>)
      PROVE  \E w, t : t \in Seq(Messages) /\ Press(w, t)
  <2>1. says \o <<s>> \in Seq(Messages)
    OBVIOUS
  <2> QED BY <1>1, <2>1
<1> QED BY <1>1, MessageTypes DEF Activate

\* So is every key.
LEMMA KeyPosts ==
  ASSUME Arrow \/ TabKey \/ EnterKey \/ SpaceKey \/ DigitKey \/ EscapeField \/ TypeInField \/ SubmitField \/ ConfirmKey,
         MayPress => view.active \in Tabs
  PROVE  \E v, t : t \in Seq(Messages) /\ Press(v, t)
<1>1. ASSUME NEW v, NEW s \in Messages, Press(v, <<s>>)
      PROVE  \E w, t : t \in Seq(Messages) /\ Press(w, t)
  <2>1. <<s>> \in Seq(Messages)
    OBVIOUS
  <2> QED BY <1>1, <2>1
<1>2. CASE Arrow
  <2>1. PICK delta \in {-1, 1} : Press(CaretAt(Turned(Shown.caret, delta, NOptions + 2)), <<Say("moved", 0)>>)
    BY <1>2 DEF Arrow
  <2> QED BY <1>1, <2>1, MessageTypes
<1>3. CASE TabKey
  BY <1>1, <1>3, MessageTypes DEF TabKey
<1>4. CASE EnterKey \/ SpaceKey
  <2>1. <<>> \in Seq(Messages)
    OBVIOUS
  <2> QED BY <1>4, <2>1, ActivatePosts DEF EnterKey, SpaceKey
<1>5. CASE DigitKey
  <2>1. PICK row \in Rows : Activate(CaretAt(row), row, TRUE, <<Say("moved", 0)>>)
    BY <1>5 DEF DigitKey
  <2>2. <<Say("moved", 0)>> \in Seq(Messages)
    BY MessageTypes
  <2> QED BY <2>1, <2>2, ActivatePosts
<1>6. CASE EscapeField
  BY <1>1, <1>6, MessageTypes DEF EscapeField, LeaveField
<1>7. CASE TypeInField
  <2>1. Say(IF Shown.text THEN "cleared" ELSE "typed", 0) \in Messages
    BY MessageTypes
  <2> QED BY <1>1, <1>7, <2>1 DEF TypeInField
<1>8. CASE SubmitField
  <2>1. Say("answered", Custom(view.active)) \in Messages
    BY <1>8, MessageTypes DEF SubmitField, OnPanel
  <2> QED BY <1>1, <1>8, <2>1, MessageTypes DEF SubmitField, LeaveField
<1>9. CASE ConfirmKey
  <2>1. PICK kind \in {"submitted", "cancelled"} : Press(view, <<Say(kind, 0)>>)
    BY <1>9 DEF ConfirmKey
  <2> QED BY <1>1, <2>1, MessageTypes
<1> QED BY <1>2, <1>3, <1>4, <1>5, <1>6, <1>7, <1>8, <1>9

\* Every key: over the end of the set nothing is owed, over texts it keeps the promise.
LEMMA KeyInv ==
  ASSUME DockInv, Arrow \/ TabKey \/ EnterKey \/ SpaceKey \/ DigitKey \/ EscapeField \/ TypeInField \/ SubmitField \/ ConfirmKey
  PROVE  MeaningInv'
<1>1. PICK model, says : says \in Seq(Messages) /\ Press(model, says)
  <2>1. MayPress => view \in SetStates
    BY DEF DockInv, ShapeInv, MayPress
  <2>2. MayPress => view.active \in Tabs
    BY <2>1 DEF SetStates
  <2> QED BY <2>2, KeyPosts
<1>2. SUFFICES ASSUME OnlyTyping' PROVE Promised'
  BY DEF MeaningInv
<1>3. posted \in Seq(Messages) /\ asks # NoSet
  BY DEF DockInv, ShapeInv, Arrow, TabKey, EnterKey, SpaceKey, DigitKey, EscapeField, TypeInField, SubmitField, ConfirmKey,
         OnPanel, MayPress
<1>4. rushed' = rushed \cup {posted[i].kind : i \in 1..Len(posted)}
  BY <1>1, <1>3 DEF Press
<1>5. OnlyTyping /\ \A i \in 1..Len(posted) : posted[i].kind \in Texts \cup Endings
  BY <1>2, <1>4 DEF OnlyTyping
<1>6. CASE \E i \in 1..Len(posted) : posted[i].kind \in Endings
  <2>1. PICK i \in 1..Len(posted) : posted[i].kind \in Endings
    BY <1>6
  <2>2. posted' = posted \o says
    BY <1>1 DEF Press
  <2>3. i \in 1..Len(posted') /\ posted'[i] = posted[i]
    BY <1>1, <1>3, <2>2, Behind
  <2> QED BY <2>1, <2>3 DEF Promised, Pending
<1>7. CASE Quiet
  <2>1. CASE EscapeField
    BY <1>7, <2>1, LeaveFieldInv DEF EscapeField
  <2> QED BY <1>7, <2>1, ArrowInv, TabKeyInv, RowKeysInv, TypeInFieldInv, SubmitFieldInv, ConfirmKeyInv
<1> QED BY <1>3, <1>5, <1>6, <1>7, KeyFinds

\* A set that says what is meant, in the app and on the screen, with no message left.
LEMMA SetSettles ==
  ASSUME NEW set, Agree(set, meant), meant \in Meanings, asks' = set, view' = set, posted' = <<>>, UNCHANGED meant
  PROVE  Promised'
<1>1. Texted(set, <<>>, 0) = set /\ Len(<<>>) = 0
  BY DEF Texted
<1>2. Pending(set, set, meant, <<>>)
  BY <1>1 DEF Pending, Owed
<1>3. Pending(asks, view, meant, posted)'
  BY <1>2
<1> QED BY <1>3 DEF Promised

\* Moved makes the app's set the one the view shows.
LEMMA Moves ==
  ASSUME asks \in SetStates, view \in SetStates, IsMoved(asks, view), OnMoved
  PROVE  asks' = view /\ view' = view
<1> DEFINE tabs == [q \in Tabs |-> [asks.tabs[q] EXCEPT !.caret = view.tabs[q].caret]]
           merged == [asks EXCEPT !.tabs = tabs, !.active = view.active, !.editing = view.editing]
<1>1. ASSUME NEW q \in Tabs
      PROVE  tabs[q] = view.tabs[q]
  BY DEF IsMoved
<1>2. tabs = view.tabs
  BY <1>1 DEF SetStates
<1>3. merged = view
  BY <1>2 DEF SetStates, IsMoved
<1>4. \/ Rebuild(merged)
      \/ asks' = merged /\ view' = view
  BY DEF OnMoved
<1> HIDE DEF merged
<1> QED BY <1>3, <1>4 DEF Rebuild

\* The tab shown, changed, in the set.
LEMMA TabAgrees ==
  ASSUME NEW a \in SetStates, NEW tab \in TabStates, NEW flag \in BOOLEAN, NEW m, AgreeWith(a, m, tab)
  PROVE  LET set == [a EXCEPT !.tabs[a.active] = tab, !.editing = flag]
         IN /\ set \in SetStates /\ Agree(set, m)
            /\ set.confirming = a.confirming
            /\ \A q \in Tabs : set.tabs[q] = IF q = a.active THEN tab ELSE a.tabs[q]
<1> DEFINE set == [a EXCEPT !.tabs[a.active] = tab, !.editing = flag]
<1>1. set = [a EXCEPT !.tabs = [a.tabs EXCEPT ![a.active] = tab], !.editing = flag]
  OBVIOUS
<1>2. set \in SetStates /\ set.confirming = a.confirming
      /\ \A q \in Tabs : set.tabs[q] = IF q = a.active THEN tab ELSE a.tabs[q]
  BY <1>1 DEF SetStates
<1> QED BY <1>2 DEF Agree, AgreeWith

\* Handling Answered gives the tab what its message promised.
LEMMA AnsweredInv ==
  ASSUME ShapeInv, meant \in Meanings, asks # NoSet, NEW s \in Messages, s.kind = "answered", Awaited(asks, view, meant, s),
         OnAnswered(s.index), posted' = <<>>, UNCHANGED meant
  PROVE  Promised'
<1> DEFINE q == asks.active
           tab == AnsweredTab(q, asks.tabs[q], s.index)
           set == [asks EXCEPT !.tabs[q] = tab, !.editing = FALSE]
<1>1. asks \in SetStates /\ q \in Tabs /\ asks.tabs[q] \in TabStates /\ (asks.confirming => AllAnswered(asks))
  BY DEF ShapeInv, SetStates
<1>2. s.index \in 1..(NOptions + 1) /\ AgreeWith(asks, meant, tab)
  BY DEF Awaited
<1>3. s.index \in Rows /\ s.index \in 0..(NOptions + 1) /\ 0 \in 0..(NOptions + 1)
  BY <1>2, QuestionsAssumption DEF Rows
<1>4. tab \in TabStates /\ tab.answered
  BY <1>1, <1>3 DEF AnsweredTab, TabStates
<1>5. Rebuild(Advance(set))
  BY DEF OnAnswered
<1> HIDE DEF tab
<1>6. /\ set \in SetStates /\ Agree(set, meant)
      /\ set.confirming = asks.confirming
      /\ \A p \in Tabs : set.tabs[p] = IF p = q THEN tab ELSE asks.tabs[p]
  BY <1>1, <1>2, <1>4, TabAgrees, Zenon
<1> HIDE DEF set
<1>7. set.confirming => AllAnswered(set)
  BY <1>1, <1>4, <1>6 DEF AllAnswered
<1>8. Advance(set) \in SetStates /\ Advance(set).tabs = set.tabs
      /\ (Advance(set).confirming => AllAnswered(Advance(set)))
  BY <1>6, <1>7, Advances
<1>9. Agree(Advance(set), meant)
  BY <1>6, <1>8 DEF Agree
<1> QED BY <1>5, <1>8, <1>9, SetSettles DEF Rebuild

\* Handling OptionToggled, the same.
LEMMA ToggledInv ==
  ASSUME ShapeInv, meant \in Meanings, asks # NoSet, NEW s \in Messages, s.kind = "toggled", Awaited(asks, view, meant, s),
         OnToggled(s.index), posted' = <<>>, UNCHANGED meant
  PROVE  Promised'
<1> DEFINE q == asks.active
           tab == ToggledTab(asks.tabs[q], s.index)
           set == [asks EXCEPT !.tabs[q] = tab]
<1>1. asks \in SetStates /\ q \in Tabs /\ asks.tabs[q] \in TabStates /\ (asks.confirming => AllAnswered(asks))
  BY DEF ShapeInv, SetStates
<1>2. s.index \in 1..NOptions /\ AgreeWith(asks, meant, tab)
  BY DEF Awaited
<1>3. s.index \in Rows
  BY <1>2, QuestionsAssumption DEF Rows
<1>4. tab \in TabStates /\ tab.answered = asks.tabs[q].answered
  BY <1>1, <1>2, <1>3 DEF ToggledTab, TabStates, SymDiff
<1>5. Rebuild(set)
  BY DEF OnToggled
<1>6. asks.editing \in BOOLEAN /\ set = [asks EXCEPT !.tabs[q] = tab, !.editing = asks.editing]
  BY <1>1 DEF SetStates
<1> HIDE DEF tab
<1>7. /\ set \in SetStates /\ Agree(set, meant)
      /\ set.confirming = asks.confirming
      /\ \A p \in Tabs : set.tabs[p] = IF p = q THEN tab ELSE asks.tabs[p]
  <2> DEFINE other == [asks EXCEPT !.tabs[q] = tab, !.editing = asks.editing]
  <2>1. /\ other \in SetStates /\ Agree(other, meant)
        /\ other.confirming = asks.confirming
        /\ \A p \in Tabs : other.tabs[p] = IF p = q THEN tab ELSE asks.tabs[p]
    <3>1. asks \in SetStates /\ tab \in TabStates /\ asks.editing \in BOOLEAN /\ AgreeWith(asks, meant, tab)
      BY <1>1, <1>2, <1>4, <1>6
    <3> HIDE DEF set
    <3> QED BY <3>1, TabAgrees, Zenon
  <2> HIDE DEF other, set
  <2> QED BY <1>6, <2>1 DEF other
<1> HIDE DEF set
<1> QED BY <1>5, <1>7, SetSettles DEF Rebuild

\* Handling Cancelled leaves the confirmation and keeps the answers.
LEMMA CancelledInv ==
  ASSUME ShapeInv, meant \in Meanings, asks # NoSet, NEW s \in Messages, s.kind = "cancelled", Awaited(asks, view, meant, s),
         Rebuild([asks EXCEPT !.confirming = FALSE]), posted' = <<>>, UNCHANGED meant
  PROVE  Promised'
<1> DEFINE set == [asks EXCEPT !.confirming = FALSE]
<1>1. asks \in SetStates /\ Agree(asks, meant)
  BY DEF ShapeInv, Awaited
<1>2. set \in SetStates /\ set.tabs = asks.tabs /\ ~set.confirming
  BY <1>1 DEF SetStates
<1> HIDE DEF set
<1>3. Agree(set, meant)
  BY <1>1, <1>2 DEF Agree
<1>4. Rebuild(set)
  BY DEF set
<1> QED BY <1>2, <1>3, <1>4, SetSettles DEF Rebuild

\* Handling CustomChanged leaves one text less: the view already shows the last.
LEMMA CustomChangedInv ==
  ASSUME ShapeInv, asks # NoSet, posted # <<>>, posted[1].kind \in Texts, OnCustomChanged(posted[1].kind = "typed"),
         posted' = Tail(posted), UNCHANGED meant, meant \in Meanings,
         NEW n \in 0..Len(posted), n # 0, \A i \in 1..n : posted[i].kind \in Texts,
         Owed(Texted(asks, posted, n), view, meant, posted, n)
  PROVE  Promised'
<1> DEFINE t == Tail(posted)
           first == (posted[1].kind = "typed")
           set == TextedSet(asks, first)
           k == n - 1
<1>1. asks \in SetStates /\ posted \in Seq(Messages) /\ first \in BOOLEAN
  BY DEF ShapeInv
<1>2. t \in Seq(Messages) /\ Len(t) = Len(posted) - 1 /\ Len(posted) \in Nat /\ \A i \in 1..Len(t) : t[i] = posted[i + 1]
  BY <1>1
<1>3. asks' = set /\ view' = view /\ posted' = t /\ meant' = meant
  BY DEF OnCustomChanged, TextedSet, TextedTab
<1>4. k \in 0..Len(t) /\ k + 1 = n
  BY <1>2
<1>5. \A i \in 1..k : t[i].kind \in Texts
  <2> SUFFICES ASSUME NEW i \in 1..k PROVE t[i].kind \in Texts
    OBVIOUS
  <2>1. i \in 1..Len(t) /\ i + 1 \in 1..n
    BY <1>2, <1>4
  <2> QED BY <1>2, <2>1
<1>6. Texted(set, t, k) = Texted(asks, posted, n)
  <2>1. Texted(asks, posted, n) = TextedSet(asks, posted[n].kind = "typed")
    BY DEF Texted
  <2>2. CASE k = 0
    BY <1>4, <2>1, <2>2 DEF Texted
  <2>3. CASE k # 0
    <3>1. t[k] = posted[n]
      BY <1>2, <1>4, <2>3
    <3>2. Texted(set, t, k) = TextedSet(TextedSet(asks, first), posted[n].kind = "typed")
      BY <2>3, <3>1 DEF Texted
    <3> QED BY <1>1, <2>1, <3>2, TextOverText
  <2> QED BY <2>2, <2>3
<1> HIDE DEF set, t, k
<1>7. Owed(Texted(asks, posted, n), view, meant, t, k)
  <2>1. Len(posted) = n + 1 => Len(t) = k + 1 /\ t[k + 1] = posted[n + 1]
    BY <1>2, <1>4
  <2>2. Len(posted) = n + 2 => Len(t) = k + 2 /\ t[k + 1] = posted[n + 1] /\ t[k + 2] = posted[n + 2]
    BY <1>2, <1>4
  <2>3. Len(posted) = n => Len(t) = k
    BY <1>2, <1>4
  <2> QED BY <2>1, <2>2, <2>3 DEF Owed
<1>8. Pending(set, view, meant, t)
  BY <1>4, <1>5, <1>6, <1>7 DEF Pending
<1> QED BY <1>3, <1>8 DEF Promised

\* Handling Moved, alone or before the message of the same key.
LEMMA MovedInv ==
  ASSUME ShapeInv, asks # NoSet, posted # <<>>, posted[1].kind = "moved", OnMoved,
         posted' = (IF asks' = NoSet THEN <<>> ELSE Tail(posted)), UNCHANGED meant, meant \in Meanings,
         Owed(asks, view, meant, posted, 0)
  PROVE  Promised'
<1> DEFINE t == Tail(posted)
<1>1. asks \in SetStates /\ view \in SetStates /\ posted \in Seq(Messages)
  BY DEF ShapeInv
<1>2. Len(posted) \in Nat /\ Len(posted) # 0 /\ t \in Seq(Messages) /\ Len(t) = Len(posted) - 1
      /\ (Len(posted) = 2 => t[1] = posted[2])
  BY <1>1
<1>3. IsMoved(asks, view)
  BY <1>2 DEF Owed, Awaited
<1>4. asks' = view /\ view' = view
  BY <1>1, <1>3, Moves
<1>5. posted' = t /\ meant' = meant
  <2>1. view # NoSet
    BY <1>1, QuestionsAssumption
  <2> QED BY <1>4, <2>1
<1> HIDE DEF t
<1>6. Owed(view, view, meant, t, 0)
  <2>1. CASE Len(posted) = 1
    <3>1. Agree(view, meant)
      BY <1>1, <1>3, <2>1, MovedAgrees DEF Owed, Awaited
    <3> QED BY <1>2, <2>1, <3>1 DEF Owed
  <2>2. CASE Len(posted) = 2
    <3>1. Awaited(view, view, meant, posted[2]) /\ posted[2].kind \notin Texts
      BY <2>2 DEF Owed
    <3> QED BY <1>2, <2>2, <3>1 DEF Owed
  <2> QED BY <1>2, <2>1, <2>2 DEF Owed
<1>7. Texted(view, t, 0) = view /\ 0 \in 0..Len(t)
  BY <1>2 DEF Texted
<1>8. Pending(view, view, meant, t)
  BY <1>6, <1>7 DEF Pending
<1> QED BY <1>4, <1>5, <1>8 DEF Promised

\* Handling any message but one that ends the set, while an end is on its way.
LEMMA EndStays ==
  ASSUME posted \in Seq(Messages), posted # <<>>, posted' = Tail(posted), posted[1].kind \notin Endings,
         NEW i \in 1..Len(posted), posted[i].kind \in Endings
  PROVE  Promised'
<1>1. Len(posted) \in Nat /\ i # 1
  OBVIOUS
<1>2. i - 1 \in 1..Len(Tail(posted)) /\ Tail(posted)[i - 1] = posted[i]
  BY <1>1
<1> QED BY <1>2 DEF Promised, Pending

\* Whatever message is handled, what it promised comes true.
LEMMA HandleInv ==
  ASSUME DockInv, Handle
  PROVE  MeaningInv'
<1> DEFINE s == posted[1]
<1>1. /\ posted # <<>> /\ posted \in Seq(Messages) /\ asks # NoSet /\ asks \in SetStates /\ ShapeInv
  BY DEF DockInv, ShapeInv, Handle
<1>2. s \in Messages /\ s = Head(posted) /\ Len(posted) \in Nat /\ Len(posted) # 0
  BY <1>1
<1>3. posted' = (IF asks' = NoSet THEN <<>> ELSE Tail(posted)) /\ UNCHANGED <<meant, rushed>>
  BY DEF Handle
<1>4. SUFFICES ASSUME asks' # NoSet, OnlyTyping' PROVE Promised'
  BY DEF MeaningInv
<1>5. Promised /\ posted' = Tail(posted)
  BY <1>1, <1>3, <1>4 DEF DockInv, MeaningInv, OnlyTyping
<1> HIDE DEF s
<1>6. \/ s.kind = "answered" /\ OnAnswered(s.index)
      \/ s.kind = "toggled" /\ OnToggled(s.index)
      \/ s.kind \in Texts /\ OnCustomChanged(s.kind = "typed")
      \/ s.kind = "moved" /\ OnMoved
      \/ s.kind = "cancelled" /\ Rebuild([asks EXCEPT !.confirming = FALSE])
  BY <1>2, <1>4 DEF Handle, OnChat, FinishSet, Texts
<1>7. CASE \E i \in 1..Len(posted) : posted[i].kind \in Endings
  <2>1. PICK i \in 1..Len(posted) : posted[i].kind \in Endings
    BY <1>7
  <2>2. posted[1].kind \notin Endings
    BY <1>6 DEF Endings, Texts, s
  <2> QED BY <1>1, <1>5, <2>1, <2>2, EndStays
<1>8. CASE \A i \in 1..Len(posted) : posted[i].kind \notin Endings
  <2>1. meant \in Meanings
    BY <1>5, <1>8 DEF Promised, Pending
  <2>2. PICK n \in 0..Len(posted) : /\ \A i \in 1..n : posted[i].kind \in Texts
                                    /\ Owed(Texted(asks, posted, n), view, meant, posted, n)
    BY <1>5, <1>8 DEF Promised, Pending
  <2>3. CASE n # 0
    <3>1. posted[1].kind \in Texts
      BY <2>2, <2>3
    <3>2. OnCustomChanged(posted[1].kind = "typed")
      BY <1>6, <3>1 DEF s, Texts
    <3> QED BY <1>1, <1>3, <1>5, <2>1, <2>2, <2>3, <3>1, <3>2, CustomChangedInv
  <2>4. CASE n = 0
    <3>1. Owed(asks, view, meant, posted, 0)
      BY <2>2, <2>4 DEF Texted
    <3>2. s.kind # "moved" => Len(posted) = 1 /\ Awaited(asks, view, meant, s) /\ s.kind \notin Texts
      BY <1>2, <3>1 DEF Owed, s
    <3>3. s.kind # "moved" => Tail(posted) = <<>>
      <4>1. Tail(posted) \in Seq(Messages) /\ (Len(posted) = 1 => Len(Tail(posted)) = 0)
        BY <1>1
      <4> QED BY <3>2, <4>1, EmptySeq
    <3>4. CASE s.kind = "moved"
      BY <1>1, <1>3, <1>6, <2>1, <3>1, <3>4, MovedInv DEF s, Texts
    <3>5. CASE s.kind # "moved"
      BY <1>1, <1>2, <1>3, <1>5, <1>6, <2>1, <3>2, <3>3, <3>5, AnsweredInv, ToggledInv, CancelledInv
    <3> QED BY <3>4, <3>5
  <2> QED BY <2>3, <2>4
<1> QED BY <1>7, <1>8

\* A new set says nothing yet.
LEMMA FreshSet ==
  ASSUME Titles # <<>>
  PROVE  NewSet \in SetStates /\ ~NewSet.confirming /\ Agree(NewSet, Nothing)
<1>1. 1 \in Tabs /\ 1 \in Rows /\ 0 \in 0..(NOptions + 1)
  BY TabsAre, QuestionsAssumption DEF Rows
<1>2. NewSet \in SetStates /\ ~NewSet.confirming
  BY <1>1 DEF NewSet, SetStates, TabStates
<1> QED BY <1>2, QuestionsAssumption DEF Agree, TabMeans, NewSet, Nothing

\* Nothing is a meaning.
LEMMA NothingMeant == Nothing \in Meanings
BY QuestionsAssumption DEF Nothing, Meanings, MeaningStates

\* _ask_questions answers an empty set with nothing, or shows a new one.
LEMMA AsksASet ==
  ASSUME StoreInv, AskSet
  PROVE  \/ /\ job' = Answered(<<>>) /\ UNCHANGED <<asks, view, posted, meant, rushed>>
         \/ /\ Titles # <<>> /\ job' = job
            /\ asks' = NewSet /\ view' = NewSet /\ posted' = <<>> /\ meant' = Nothing
BY DEF AskSet, StoreInv, Jobs

\* The meaning, step by step.
LEMMA MeaningNext ==
  ASSUME DockInv, StoreInv, QuestionNext
  PROVE  MeaningInv'
<1>1. CASE UNCHANGED <<asks, view, posted, meant, rushed>>
  <2>1. Pending(asks, view, meant, posted) => Pending(asks, view, meant, posted)'
    BY <1>1
  <2> QED BY <1>1, <2>1 DEF DockInv, MeaningInv, Promised, OnlyTyping
<1>2. CASE Poll \/ AnswerOtherwise \/ Save
  BY <1>1, <1>2 DEF Poll, AnswerOtherwise, Save, dockVars
<1>3. CASE Crash
  BY <1>3 DEF Crash, MeaningInv
<1>4. CASE AskSet
  <2>1. CASE Titles # <<>> /\ asks' = NewSet /\ view' = NewSet /\ posted' = <<>> /\ meant' = Nothing
    <3>1. Texted(NewSet, <<>>, 0) = NewSet /\ Len(<<>>) = 0
      BY DEF Texted
    <3>2. Agree(NewSet, Nothing) /\ Nothing \in Meanings
      BY <2>1, FreshSet, NothingMeant
    <3>3. Pending(NewSet, NewSet, Nothing, <<>>)
      BY <3>1, <3>2 DEF Pending, Owed
    <3>4. Pending(asks, view, meant, posted)'
      BY <2>1, <3>3
    <3> QED BY <3>4 DEF MeaningInv, Promised
  <2> QED BY <1>1, <1>4, <2>1, AsksASet
<1> QED BY <1>2, <1>3, <1>4, KeyInv, HandleInv DEF QuestionNext

\* A key posts messages and leaves the app's set alone.
LEMMA PressShape ==
  ASSUME ShapeInv, MayPress, NEW model \in SetStates, NEW says \in Seq(Messages), Press(model, says)
  PROVE  ShapeInv'
<1>1. posted' \in Seq(Messages) /\ asks' = asks /\ view' = model
  BY DEF Press, ShapeInv
<1>2. asks # NoSet
  BY DEF ShapeInv, MayPress
<1>3. (asks.confirming => AllAnswered(asks))'
  BY <1>1, <1>2 DEF ShapeInv, AllAnswered
<1> QED BY <1>1, <1>2, <1>3 DEF ShapeInv

\* A row entered, ticked or picked keeps the shape.
LEMMA ActivateShape ==
  ASSUME ShapeInv, MayPress, NEW model \in SetStates, NEW says \in Seq(Messages), NEW row, NEW ticking,
         Activate(model, row, ticking, says)
  PROVE  ShapeInv'
<1>1. [model EXCEPT !.editing = TRUE] \in SetStates
  BY DEF SetStates
<1>2. ASSUME NEW v \in SetStates, NEW s \in Messages, Press(v, says \o <<s>>)
      PROVE  ShapeInv'
  <2>1. says \o <<s>> \in Seq(Messages)
    OBVIOUS
  <2> QED BY <1>2, <2>1, PressShape
<1> QED BY <1>1, <1>2, MessageTypes DEF Activate

\* Every key keeps the shape.
LEMMA KeyShape ==
  ASSUME ShapeInv, Arrow \/ TabKey \/ EnterKey \/ SpaceKey \/ DigitKey \/ EscapeField \/ TypeInField \/ SubmitField \/ ConfirmKey
  PROVE  ShapeInv'
<1>1. MayPress /\ view \in SetStates
  BY DEF Arrow, TabKey, EnterKey, SpaceKey, DigitKey, EscapeField, TypeInField, SubmitField, ConfirmKey,
         OnPanel, MayPress, ShapeInv
<1>2. view.active \in Tabs /\ view.tabs[view.active] \in TabStates /\ view.tabs \in [Tabs -> TabStates]
  BY <1>1 DEF SetStates
<1>3. ASSUME NEW model \in SetStates, NEW s \in Messages, Press(model, <<s>>)
      PROVE  ShapeInv'
  <2>1. <<s>> \in Seq(Messages)
    OBVIOUS
  <2> QED BY <1>1, <1>3, <2>1, PressShape
<1>4. Say("moved", 0) \in Messages
  BY MessageTypes
<1>5. CASE Arrow
  <2>1. PICK delta \in {-1, 1} : Press(CaretAt(Turned(Shown.caret, delta, NOptions + 2)), <<Say("moved", 0)>>)
    BY <1>5 DEF Arrow
  <2>2. Shown.caret \in Rows /\ NOptions + 2 \in Nat \ {0} /\ delta \in Int
    BY <1>2, QuestionsAssumption DEF Shown, TabStates
  <2>3. Turned(Shown.caret, delta, NOptions + 2) \in Rows
    BY <2>2, TurnedIn DEF Rows
  <2> QED BY <1>1, <1>3, <1>4, <2>1, <2>3, CaretMoves
<1>6. CASE TabKey
  <2>1. \A n \in Nat \ {0} : \A at \in 1..n : Turned(at, 1, n) \in 1..n
    BY TurnedIn
  <2>2. Turned(view.active, 1, Len(Titles)) \in Tabs
    BY <1>2, <2>1, TabsAre
  <2>3. [view EXCEPT !.active = Turned(@, 1, Len(Titles)), !.editing = FALSE] \in SetStates
    BY <1>1, <2>2 DEF SetStates
  <2> QED BY <1>3, <1>4, <1>6, <2>3 DEF TabKey
<1>7. CASE EnterKey \/ SpaceKey
  <2>1. <<>> \in Seq(Messages)
    OBVIOUS
  <2> QED BY <1>1, <1>7, <2>1, ActivateShape DEF EnterKey, SpaceKey
<1>8. CASE DigitKey
  <2>1. PICK row \in Rows : Activate(CaretAt(row), row, TRUE, <<Say("moved", 0)>>)
    BY <1>8 DEF DigitKey
  <2>2. <<Say("moved", 0)>> \in Seq(Messages)
    BY <1>4
  <2> QED BY <1>1, <2>1, <2>2, CaretMoves, ActivateShape
<1>9. [view EXCEPT !.editing = FALSE] \in SetStates
  BY <1>1 DEF SetStates
<1>10. CASE EscapeField
  BY <1>3, <1>4, <1>9, <1>10 DEF EscapeField, LeaveField
<1>11. CASE TypeInField
  <2> DEFINE now == ~view.tabs[view.active].text
             tab == TextedTab(view.tabs[view.active], now)
  <2>1. [view EXCEPT !.tabs[view.active].text = now] = [view EXCEPT !.tabs = [view.tabs EXCEPT ![view.active] = tab]]
    BY DEF TextedTab
  <2>2. tab \in TabStates
    BY <1>2 DEF TextedTab, TabStates
  <2> HIDE DEF tab
  <2>3. [view EXCEPT !.tabs = [view.tabs EXCEPT ![view.active] = tab]] \in SetStates
    BY <1>1, <1>2, <2>2 DEF SetStates
  <2>4. Say(IF Shown.text THEN "cleared" ELSE "typed", 0) \in Messages
    BY MessageTypes
  <2> QED BY <1>3, <1>11, <2>1, <2>3, <2>4 DEF TypeInField
<1>12. CASE SubmitField
  BY <1>1, <1>2, <1>3, <1>4, <1>9, <1>12, MessageTypes DEF SubmitField, LeaveField
<1>13. CASE ConfirmKey
  <2>1. PICK kind \in {"submitted", "cancelled"} : Press(view, <<Say(kind, 0)>>)
    BY <1>13 DEF ConfirmKey
  <2>2. Say(kind, 0) \in Messages
    BY MessageTypes
  <2> QED BY <1>1, <1>3, <2>1, <2>2
<1> QED BY <1>5, <1>6, <1>7, <1>8, <1>10, <1>11, <1>12, <1>13

\* A tab changed in a set that confirms only what is answered.
LEMMA TabChanges ==
  ASSUME NEW a \in SetStates, NEW tab \in TabStates, NEW flag \in BOOLEAN, a.confirming => AllAnswered(a),
         a.tabs[a.active].answered => tab.answered
  PROVE  LET set == [a EXCEPT !.tabs[a.active] = tab, !.editing = flag]
         IN set \in SetStates /\ (set.confirming => AllAnswered(set))
<1> DEFINE set == [a EXCEPT !.tabs[a.active] = tab, !.editing = flag]
<1>1. set = [a EXCEPT !.tabs = [a.tabs EXCEPT ![a.active] = tab], !.editing = flag]
  OBVIOUS
<1>2. set \in SetStates /\ set.confirming = a.confirming
      /\ \A q \in Tabs : set.tabs[q] = IF q = a.active THEN tab ELSE a.tabs[q]
  BY <1>1 DEF SetStates
<1>3. a.active \in Tabs
  BY DEF SetStates
<1> HIDE DEF set
<1>4. set.confirming => AllAnswered(set)
  BY <1>2, <1>3 DEF AllAnswered
<1> QED BY <1>2, <1>4 DEF set

\* So does every handler of the app, however old the message is.
LEMMA HandleShape ==
  ASSUME ShapeInv, Handle
  PROVE  ShapeInv'
<1> DEFINE s == Head(posted)
           q == asks.active
<1>1. /\ posted # <<>> /\ posted \in Seq(Messages) /\ asks # NoSet /\ asks \in SetStates /\ view \in SetStates
      /\ (asks.confirming => AllAnswered(asks))
  BY DEF ShapeInv, Handle
<1>2. s \in Messages /\ Tail(posted) \in Seq(Messages)
  BY <1>1
<1>3. q \in Tabs /\ asks.tabs[q] \in TabStates /\ asks.editing \in BOOLEAN
  BY <1>1 DEF SetStates
<1>4. ASSUME NEW set \in SetStates, NEW onScreen \in SetStates, set.confirming => AllAnswered(set),
             asks' = set, view' = onScreen
      PROVE  ShapeInv'
  <2>1. posted' \in Seq(Messages)
    BY <1>2 DEF Handle
  <2>2. (asks.confirming => AllAnswered(asks))'
    BY <1>4 DEF AllAnswered
  <2>3. set # NoSet
    BY QuestionsAssumption
  <2> QED BY <1>4, <2>1, <2>2, <2>3 DEF ShapeInv
<1>5. CASE s.kind = "answered" /\ OnAnswered(s.index)
  <2> DEFINE tab == AnsweredTab(q, asks.tabs[q], s.index)
             set == [asks EXCEPT !.tabs[q] = tab, !.editing = FALSE]
  <2>1. s.index \in Rows /\ s.index \in 0..(NOptions + 1) /\ 0 \in 0..(NOptions + 1)
    BY <1>2, <1>5, QuestionsAssumption DEF Rows, Messages
  <2>2. tab \in TabStates /\ tab.answered
    BY <1>3, <2>1 DEF AnsweredTab, TabStates
  <2>3. Rebuild(Advance(set))
    BY <1>5 DEF OnAnswered
  <2> HIDE DEF tab
  <2>4. set \in SetStates /\ (set.confirming => AllAnswered(set))
    BY <1>1, <2>2, TabChanges
  <2> HIDE DEF set
  <2>5. Advance(set) \in SetStates /\ (Advance(set).confirming => AllAnswered(Advance(set)))
    BY <2>4, Advances
  <2> QED BY <1>4, <2>3, <2>5 DEF Rebuild
<1>6. ASSUME NEW tab \in TabStates, tab.answered = asks.tabs[q].answered
      PROVE  LET set == [asks EXCEPT !.tabs[q] = tab]
             IN set \in SetStates /\ (set.confirming => AllAnswered(set))
  <2>1. [asks EXCEPT !.tabs[q] = tab] = [asks EXCEPT !.tabs[q] = tab, !.editing = asks.editing]
    BY <1>1 DEF SetStates
  <2> QED BY <1>1, <1>3, <1>6, <2>1, TabChanges, ZenonT(30)
<1>7. CASE s.kind = "toggled" /\ OnToggled(s.index)
  <2> DEFINE tab == ToggledTab(asks.tabs[q], s.index)
             set == [asks EXCEPT !.tabs[q] = tab]
  <2>1. s.index \in Rows /\ s.index \in 1..NOptions
    BY <1>2, <1>7, QuestionsAssumption DEF Rows, Messages
  <2>2. tab \in TabStates /\ tab.answered = asks.tabs[q].answered
    BY <1>3, <2>1 DEF ToggledTab, TabStates, SymDiff
  <2>3. Rebuild(set)
    BY <1>7 DEF OnToggled
  <2> HIDE DEF tab
  <2>4. set \in SetStates /\ (set.confirming => AllAnswered(set))
    BY <1>6, <2>2
  <2> HIDE DEF set
  <2> QED BY <1>4, <2>3, <2>4 DEF Rebuild
<1>8. ASSUME NEW text \in BOOLEAN, OnCustomChanged(text)
      PROVE  ShapeInv'
  <2> DEFINE tab == TextedTab(asks.tabs[q], text)
             set == [asks EXCEPT !.tabs[q] = tab]
  <2>1. tab \in TabStates /\ tab.answered = asks.tabs[q].answered
    BY <1>3, <1>8 DEF TextedTab, TabStates
  <2>2. asks' = set /\ view' = view
    BY <1>8 DEF OnCustomChanged, TextedTab
  <2> HIDE DEF tab
  <2>3. set \in SetStates /\ (set.confirming => AllAnswered(set))
    BY <1>6, <2>1
  <2> HIDE DEF set
  <2> QED BY <1>1, <1>4, <2>2, <2>3
<1>9. CASE OnMoved
  <2> DEFINE tabs == [p \in Tabs |-> [asks.tabs[p] EXCEPT !.caret = view.tabs[p].caret]]
             merged == [asks EXCEPT !.tabs = tabs, !.active = view.active, !.editing = view.editing]
  <2>1. ASSUME NEW p \in Tabs
        PROVE  tabs[p] \in TabStates /\ tabs[p].answered = asks.tabs[p].answered
    <3>1. asks.tabs[p] \in TabStates /\ view.tabs[p] \in TabStates
      BY <1>1 DEF SetStates
    <3> QED BY <3>1 DEF TabStates
  <2>2. tabs \in [Tabs -> TabStates]
    BY <2>1
  <2>3. asks' = merged /\ (view' = merged \/ view' = view)
    BY <1>9 DEF OnMoved, Rebuild
  <2> HIDE DEF tabs
  <2>4. merged \in SetStates /\ merged.tabs = tabs /\ merged.confirming = asks.confirming
    BY <1>1, <2>2 DEF SetStates
  <2> HIDE DEF merged
  <2>5. merged.confirming => AllAnswered(merged)
    BY <1>1, <2>1, <2>4 DEF AllAnswered
  <2> QED BY <1>1, <1>4, <2>3, <2>4, <2>5
<1>10. CASE OnChat \/ FinishSet(asks)
  <2>1. asks' = NoSet /\ view' = NoSet /\ posted' = <<>>
    BY <1>10 DEF OnChat, FinishSet, Handle
  <2>2. <<>> \in Seq(Messages)
    OBVIOUS
  <2> QED BY <2>1, <2>2 DEF ShapeInv
<1>11. CASE Rebuild([asks EXCEPT !.confirming = FALSE])
  <2>1. [asks EXCEPT !.confirming = FALSE] \in SetStates /\ ~[asks EXCEPT !.confirming = FALSE].confirming
    BY <1>1 DEF SetStates
  <2> QED BY <1>4, <1>11, <2>1 DEF Rebuild
<1> QED BY <1>5, <1>7, <1>8, <1>9, <1>10, <1>11 DEF Handle

\* An answered slot has that answer.
LEMMA AnsweredJob ==
  ASSUME job \in Jobs \cup {NoSet}, NEW answer \in Payloads
  PROVE  Answered(answer) \in Jobs /\ Answered(answer).answer = answer /\ Answered(answer) # NoSet /\ answer # NoSet
<1>1. Answered(answer) \in Jobs /\ Answered(answer).answer = answer
  <2>1. CASE job = NoSet
    BY <2>1 DEF Answered, Jobs
  <2>2. CASE job # NoSet
    BY <2>2 DEF Answered, Jobs
  <2> QED BY <2>1, <2>2
<1> QED BY <1>1, QuestionsAssumption

\* answer_payload stores one entry per question.
LEMMA PayloadType ==
  ASSUME NEW set \in SetStates
  PROVE  PayloadOf(set) \in Payloads
<1>1. ASSUME NEW q \in Tabs
      PROVE  [title |-> Titles[q], chat |-> set.tabs[q].chat, custom |-> set.tabs[q].text,
              picks |-> IF q \in Multi THEN set.tabs[q].ticks ELSE {set.tabs[q].answer} \cap 1..NOptions] \in EntryStates
  <2>1. set.tabs[q] \in TabStates
    BY DEF SetStates
  <2>2. Titles[q] \in Range(Titles)
    BY QuestionsAssumption DEF Tabs, Range
  <2> QED BY <2>1, <2>2 DEF TabStates, EntryStates
<1>2. PayloadOf(set) \in [Tabs -> EntryStates]
  BY <1>1 DEF PayloadOf
<1> QED BY <1>2 DEF Payloads

\* A set that is over is stored, and saved, as an answer.
LEMMA FinishStores ==
  ASSUME StoreInv, asks # NoSet, NEW set \in SetStates, FinishSet(set), Handle
  PROVE  StoreInv'
<1>1. PayloadOf(set) \in Payloads
  BY PayloadType
<1>2. Answered(PayloadOf(set)) \in Jobs /\ Answered(PayloadOf(set)).answer # NoSet /\ Answered(PayloadOf(set)) # NoSet
  BY <1>1, AnsweredJob DEF StoreInv
<1> QED BY <1>2 DEF FinishSet, StoreInv

\* No handler stores anything else.
LEMMA HandleStores ==
  ASSUME ShapeInv, StoreInv, Handle
  PROVE  StoreInv'
<1>1. asks # NoSet /\ asks \in SetStates
  <2>1. posted # <<>>
    BY DEF Handle
  <2> QED BY <2>1 DEF ShapeInv
<1>2. CASE UNCHANGED <<job, sidecar>>
  BY <1>1, <1>2 DEF StoreInv, Handle
<1>3. CASE OnChat
  <2>1. [asks EXCEPT !.tabs[asks.active].chat = TRUE]
          = [asks EXCEPT !.tabs = [asks.tabs EXCEPT ![asks.active] = [asks.tabs[asks.active] EXCEPT !.chat = TRUE]]]
    OBVIOUS
  <2>2. asks.active \in Tabs /\ asks.tabs[asks.active] \in TabStates
    BY <1>1 DEF SetStates
  <2>3. [asks.tabs[asks.active] EXCEPT !.chat = TRUE] \in TabStates
    BY <2>2 DEF TabStates
  <2>4. [asks EXCEPT !.tabs[asks.active].chat = TRUE] \in SetStates
    BY <1>1, <2>1, <2>2, <2>3 DEF SetStates
  <2> QED BY <1>1, <1>3, <2>4, FinishStores DEF OnChat
<1>4. CASE FinishSet(asks)
  BY <1>1, <1>4, FinishStores
<1> QED BY <1>2, <1>3, <1>4 DEF Handle, OnAnswered, OnToggled, OnCustomChanged, OnMoved, Rebuild

\* The slot and the sidecar, step by step.
LEMMA StoreNext ==
  ASSUME ShapeInv, StoreInv, QuestionNext
  PROVE  StoreInv'
<1>1. CASE Poll
  <2>1. [titles |-> Titles, answer |-> NoSet] \in Jobs
    BY DEF Jobs
  <2> QED BY <1>1, <2>1 DEF Poll, dockVars, StoreInv
<1>2. CASE AnswerOtherwise
  <2>1. PICK sheet \in Sheets : job' = Answered(sheet)
    BY <1>2 DEF AnswerOtherwise
  <2>2. Answered(sheet) \in Jobs /\ Answered(sheet).answer # NoSet /\ Answered(sheet) # NoSet
    BY AnsweredJob DEF StoreInv, Payloads
  <2> QED BY <1>2, <2>1, <2>2 DEF AnswerOtherwise, dockVars, StoreInv
<1>3. CASE Save
  BY <1>3 DEF Save, dockVars, StoreInv
<1>4. CASE Crash
  BY <1>4 DEF Crash, StoreInv
<1>5. CASE AskSet
  <2>1. asks = NoSet /\ job \in Jobs /\ job # NoSet /\ job.answer = NoSet /\ sidecar' = sidecar /\ parked /\ parked'
    BY <1>5 DEF AskSet, StoreInv
  <2>2. Answered(<<>>) \in Jobs /\ Answered(<<>>).answer # NoSet /\ Answered(<<>>) # NoSet
    BY AnsweredJob DEF StoreInv, Payloads
  <2> QED BY <1>5, <2>1, <2>2, AsksASet DEF StoreInv
<1>6. CASE Handle
  BY <1>6, HandleStores
<1>7. CASE Arrow \/ TabKey \/ EnterKey \/ SpaceKey \/ DigitKey \/ EscapeField \/ TypeInField \/ SubmitField \/ ConfirmKey
  <2>1. UNCHANGED <<asks, job, sidecar, parked>>
    BY <1>7 DEF Arrow, TabKey, EnterKey, SpaceKey, DigitKey, EscapeField, TypeInField, SubmitField, ConfirmKey,
                Activate, LeaveField, Press
  <2> QED BY <2>1 DEF StoreInv
<1> QED BY <1>1, <1>2, <1>3, <1>4, <1>5, <1>6, <1>7 DEF QuestionNext

\* The shape, step by step.
LEMMA ShapeNext ==
  ASSUME ShapeInv, StoreInv, QuestionNext
  PROVE  ShapeInv'
<1>1. CASE UNCHANGED <<asks, view, posted>>
  BY <1>1 DEF ShapeInv, AllAnswered
<1>2. CASE Poll \/ AnswerOtherwise \/ Save
  BY <1>1, <1>2 DEF Poll, AnswerOtherwise, Save, dockVars
<1>3. <<>> \in Seq(Messages)
  OBVIOUS
<1>4. CASE Crash
  BY <1>3, <1>4 DEF Crash, ShapeInv
<1>5. CASE AskSet
  <2>1. CASE Titles # <<>> /\ asks' = NewSet /\ view' = NewSet /\ posted' = <<>>
    BY <1>3, <2>1, FreshSet, QuestionsAssumption DEF ShapeInv
  <2> QED BY <1>1, <1>5, <2>1, AsksASet
<1> QED BY <1>2, <1>4, <1>5, KeyShape, HandleShape DEF QuestionNext

\* The first state has no set and no answer.
LEMMA QuestionInitInv == QuestionInit => QuestionInv /\ MeaningInv
<1>1. <<>> \in Seq(Messages)
  OBVIOUS
<1> QED BY <1>1 DEF QuestionInit, QuestionInv, MeaningInv, ShapeInv, StoreInv

\* Every step keeps the shape and the stores, however many keys are ahead.
LEMMA QuestionNextInv ==
  ASSUME QuestionInv, [QuestionNext]_questionVars
  PROVE  QuestionInv'
<1>1. CASE UNCHANGED questionVars
  BY <1>1 DEF questionVars, QuestionInv, ShapeInv, StoreInv, AllAnswered
<1> QED BY <1>1, ShapeNext, StoreNext DEF QuestionInv

\* Every step keeps the meaning.
LEMMA MeaningNextInv ==
  ASSUME QuestionInv, MeaningInv, [QuestionNext]_questionVars
  PROVE  MeaningInv'
<1>1. CASE UNCHANGED questionVars
  <2>1. Pending(asks, view, meant, posted) => Pending(asks, view, meant, posted)'
    BY <1>1 DEF questionVars
  <2> QED BY <1>1, <2>1 DEF questionVars, MeaningInv, Promised, OnlyTyping
<1> QED BY <1>1, MeaningNext DEF QuestionInv, DockInv

-----------------------------------------------------------------------------
(* The pairing of the entries with the questions, by counting: of a name, as many *)
(* entries are claimed as there are questions, from the first.                    *)

\* A set of numbers up to n has a greatest one.
LEMMA GreatestIn ==
  ASSUME NEW n \in Nat, NEW S \in SUBSET (1..n), S # {}
  PROVE  Max(S) \in S
<1> DEFINE R == OpToRel(<, Nat)
           T == {n - i : i \in S}
<1>1. PICK t \in T : \A u \in T : ~(<<u, t>> \in R)
  <2>1. IsWellFoundedOn(R, Nat)
    BY NatLessThanWellFounded
  <2>2. \A i \in S : i \in 1..n
    OBVIOUS
  <2>3. T \subseteq Nat
    BY <2>2
  <2>4. T # {}
    OBVIOUS
  <2> QED BY <2>1, <2>3, <2>4, WFMin
<1>2. \A u \in T : ~(u < t)
  <2>1. \A i \in S : i \in 1..n
    OBVIOUS
  <2>2. T \subseteq Nat
    BY <2>1
  <2> QED BY <1>1, <2>2, Zenon DEF OpToRel
<1>3. PICK i \in S : t = n - i
  OBVIOUS
<1>4. \A j \in S : i >= j
  <2> SUFFICES ASSUME NEW j \in S PROVE i >= j
    OBVIOUS
  <2>1. ~(n - j < t)
    BY <1>2
  <2> QED BY <2>1, <1>3
<1> QED BY <1>3, <1>4 DEF Max

\* Of a finite set of numbers one has any given count of others below it.
LEMMA RankExists ==
  ASSUME NEW S \in SUBSET Nat, IsFiniteSet(S), NEW r \in 0..(Cardinality(S) - 1)
  PROVE  \E k \in S : Cardinality({j \in S : j < k}) = r
<1> DEFINE Below(k) == {j \in S : j < k}
           n == Cardinality(S)
           ranks == 0..(n - 1)
           rank == [k \in S |-> Cardinality(Below(k))]
<1>1. n \in Nat
  BY FS_CardinalityType
<1>2. \A k \in S : IsFiniteSet(Below(k)) /\ Cardinality(Below(k)) \in ranks
  <2> TAKE k \in S
  <2>1. IsFiniteSet(Below(k)) /\ Cardinality(Below(k)) <= n /\ (n = Cardinality(Below(k)) => S = Below(k))
    BY FS_Subset
  <2>2. Cardinality(Below(k)) \in Nat
    BY <2>1, FS_CardinalityType
  <2>3. k \notin Below(k) /\ k \in S
    BY SMT
  <2> QED BY <1>1, <2>1, <2>2, <2>3
<1>3. \A j, k \in S : j < k => Cardinality(Below(j)) < Cardinality(Below(k))
  <2> TAKE j, k \in S
  <2> HAVE j < k
  <2>1. Below(j) \subseteq Below(k) /\ j \in Below(k) /\ j \notin Below(j)
    <3>1. \A x, y, z \in Nat : (x < y /\ y < z => x < z) /\ ~(x < x)
      OBVIOUS
    <3>2. \A x \in S : x \in Nat
      OBVIOUS
    <3> QED BY <3>1, <3>2
  <2>2. Cardinality(Below(j)) <= Cardinality(Below(k)) /\ Cardinality(Below(j)) # Cardinality(Below(k))
    BY <1>2, <2>1, FS_Subset
  <2>3. Cardinality(Below(j)) \in Nat /\ Cardinality(Below(k)) \in Nat
    BY <1>2, FS_CardinalityType
  <2> QED BY <2>2, <2>3
<1>4. \A j, k \in S : rank[j] = rank[k] => j = k
  <2> TAKE j, k \in S
  <2> HAVE rank[j] = rank[k]
  <2>1. Cardinality(Below(j)) \in Nat /\ Cardinality(Below(k)) \in Nat /\ Cardinality(Below(j)) = Cardinality(Below(k))
    BY <1>2, FS_CardinalityType
  <2>2. ~(j < k) /\ ~(k < j)
    BY <1>3, <2>1
  <2> QED BY <2>2
<1>5. rank \in Injection(S, ranks)
  <2>1. rank \in [S -> ranks]
    BY <1>2
  <2> QED BY <1>4, <2>1 DEF Injection, IsInjective
<1>6. IsFiniteSet(ranks) /\ Cardinality(ranks) = n
  <2>1. 0 \in Int /\ n - 1 \in Int
    BY <1>1
  <2>2. IsFiniteSet(ranks) /\ Cardinality(ranks) = IF 0 > n - 1 THEN 0 ELSE (n - 1) - 0 + 1
    BY <2>1, FS_Interval, Zenon
  <2> QED BY <1>1, <2>2
<1>7. rank \in Surjection(S, ranks)
  BY <1>5, <1>6, FS_Injection
<1> QED BY <1>7 DEF Surjection

\* Titles and an answer, as sequences.
Strings(titles, sheet) ==
  /\ titles \in Seq(Range(titles)) /\ sheet \in Seq(Range(sheet))

\* The entries of a question's name, those of a set below one, and the questions of the
\* name before it.
Named(titles, sheet, i) == {p \in DOMAIN sheet : sheet[p].title = titles[i]}
Under(S, k) == Cardinality({r \in S : r < k})
Before(titles, i) == {j \in 1..(i - 1) : titles[j] = titles[i]}

\* An entry claimed by name has that name, and as many of it before it as the question.
LEMMA ByTitleNames ==
  ASSUME NEW titles, NEW sheet, Strings(titles, sheet), NEW i \in DOMAIN titles,
         ByTitle(titles, sheet, i) # 0
  PROVE  /\ ByTitle(titles, sheet, i) \in DOMAIN sheet
         /\ sheet[ByTitle(titles, sheet, i)].title = titles[i]
         /\ Under(Named(titles, sheet, i), ByTitle(titles, sheet, i)) = Cardinality(Before(titles, i))
<1> DEFINE left == {p \in Named(titles, sheet, i) :
                      Cardinality({r \in Named(titles, sheet, i) : r < p}) = Cardinality(Before(titles, i))}
<1>1. ByTitle(titles, sheet, i) = IF left = {} THEN 0 ELSE Max(left)
  BY DEF ByTitle, Named, Before
<1>2. left \in SUBSET (1..Len(sheet)) /\ Len(sheet) \in Nat
  BY DEF Named, Strings
<1>3. Max(left) \in left
  BY <1>1, <1>2, GreatestIn
<1> QED BY <1>1, <1>3 DEF Named, Under

\* A later question of the name has more before it.
LEMMA BeforeGrows ==
  ASSUME NEW titles, titles \in Seq(Range(titles)), NEW i \in DOMAIN titles, NEW j \in DOMAIN titles,
         i < j, titles[i] = titles[j]
  PROVE  Cardinality(Before(titles, i)) # Cardinality(Before(titles, j))
<1>1. i \in Nat /\ j \in Nat /\ 1 <= i
  OBVIOUS
<1>2. Before(titles, i) \subseteq Before(titles, j) /\ i \in Before(titles, j) /\ i \notin Before(titles, i)
  BY <1>1 DEF Before
<1>3. IsFiniteSet(1..(j - 1))
  <2>1. 1 \in Int /\ j - 1 \in Int
    BY <1>1
  <2> QED BY <2>1, FS_Interval, Zenon
<1>4. IsFiniteSet(Before(titles, j))
  BY <1>3, FS_Subset DEF Before
<1> QED BY <1>2, <1>4, FS_Subset

\* No two questions claim an entry by name.
LEMMA ByTitleOnce ==
  ASSUME NEW titles, NEW sheet, Strings(titles, sheet), NEW i \in DOMAIN titles, NEW j \in DOMAIN titles,
         ByTitle(titles, sheet, i) # 0, ByTitle(titles, sheet, i) = ByTitle(titles, sheet, j)
  PROVE  i = j
<1>1. titles[i] = titles[j] /\ Cardinality(Before(titles, i)) = Cardinality(Before(titles, j))
  <2>1. titles[i] = titles[j]
    BY ByTitleNames
  <2>2. Named(titles, sheet, i) = Named(titles, sheet, j)
    BY <2>1 DEF Named
  <2> QED BY <2>1, <2>2, ByTitleNames
<1>2. ~(i < j) /\ ~(j < i)
  BY <1>1, BeforeGrows DEF Strings
<1>3. i \in Nat /\ j \in Nat
  BY DEF Strings
<1> QED BY <1>2, <1>3

\* What a question is paired with: its name's entry, none, or the unclaimed one at its
\* position.
LEMMA PairIs ==
  ASSUME NEW titles, NEW sheet, Strings(titles, sheet), NEW i \in DOMAIN titles
  PROVE  \/ ByTitle(titles, sheet, i) # 0 /\ PairOf(titles, sheet, i) = ByTitle(titles, sheet, i)
         \/ ByTitle(titles, sheet, i) = 0 /\ PairOf(titles, sheet, i) = 0
         \/ /\ ByTitle(titles, sheet, i) = 0 /\ PairOf(titles, sheet, i) = i /\ i \in DOMAIN sheet
            /\ \A j \in DOMAIN titles : ByTitle(titles, sheet, j) # i
<1>1. i \in 1..Len(titles) /\ DOMAIN sheet = 1..Len(sheet) /\ Len(sheet) \in Nat /\ Len(titles) \in Nat
  BY DEF Strings
<1> QED BY <1>1 DEF PairOf

\* Each entry is claimed once.
LEMMA PairOnce ==
  ASSUME NEW titles, NEW sheet, Strings(titles, sheet), NEW i \in DOMAIN titles, NEW j \in DOMAIN titles,
         PairOf(titles, sheet, i) # 0, PairOf(titles, sheet, i) = PairOf(titles, sheet, j)
  PROVE  i = j
BY PairIs, ByTitleOnce

\* A question left without an entry of its name: all of them were claimed.
LEMMA NoneLeft ==
  ASSUME NEW titles, NEW sheet, Strings(titles, sheet), NEW j \in DOMAIN titles, NEW p \in DOMAIN sheet,
         sheet[p].title = titles[j], ByTitle(titles, sheet, j) = 0
  PROVE  \E k \in DOMAIN titles : ByTitle(titles, sheet, k) = p
<1> DEFINE named == Named(titles, sheet, j)
           Low(q) == {r \in named : r < q}
           before == Before(titles, j)
<1>1. /\ j \in Nat \ {0} /\ p \in Nat \ {0} /\ Len(sheet) \in Nat /\ DOMAIN sheet = 1..Len(sheet)
      /\ DOMAIN titles = 1..Len(titles) /\ Len(titles) \in Nat
  BY DEF Strings
<1>2. named \in SUBSET Nat /\ IsFiniteSet(named) /\ p \in named
  <2>1. 1 \in Int /\ Len(sheet) \in Int
    BY <1>1
  <2>2. IsFiniteSet(1..Len(sheet))
    BY <2>1, FS_Interval, Zenon
  <2> QED BY <1>1, <2>2, FS_Subset DEF Named
<1>3. before \in SUBSET Nat /\ IsFiniteSet(before)
  <2>1. 1 \in Int /\ j - 1 \in Int
    BY <1>1
  <2>2. IsFiniteSet(1..(j - 1))
    BY <2>1, FS_Interval, Zenon
  <2> QED BY <1>1, <2>2, FS_Subset DEF Before
<1>4. Cardinality(named) \in Nat /\ Cardinality(before) \in Nat
  BY <1>2, <1>3, FS_CardinalityType
<1>5. ~ \E q \in named : Cardinality(Low(q)) = Cardinality(before)
  <2> DEFINE left == {q \in named : Cardinality(Low(q)) = Cardinality(before)}
  <2>1. ByTitle(titles, sheet, j) = IF left = {} THEN 0 ELSE Max(left)
    BY DEF ByTitle, Named, Before
  <2>2. left \in SUBSET (1..Len(sheet))
    BY <1>1 DEF Named
  <2>3. left # {} => Max(left) \in left
    BY <1>1, <2>2, GreatestIn
  <2> HIDE DEF left
  <2>4. left = {}
    BY <2>1, <2>2, <2>3, <1>1
  <2> USE DEF left
  <2> QED BY <2>4
<1>6. Cardinality(named) <= Cardinality(before)
  <2>1. SUFFICES ASSUME Cardinality(before) < Cardinality(named) PROVE FALSE
    BY <1>4
  <2>2. Cardinality(before) \in 0..(Cardinality(named) - 1)
    BY <1>4, <2>1
  <2> QED BY <1>2, <1>5, <2>2, RankExists
<1>7. IsFiniteSet(Low(p)) /\ Cardinality(Low(p)) \in 0..(Cardinality(before) - 1)
  <2>1. IsFiniteSet(Low(p)) /\ Cardinality(Low(p)) <= Cardinality(named)
        /\ (Cardinality(named) = Cardinality(Low(p)) => named = Low(p))
    BY <1>2, FS_Subset
  <2>2. Cardinality(Low(p)) \in Nat
    BY <2>1, FS_CardinalityType
  <2>3. p \notin Low(p)
    BY <1>1
  <2>4. Cardinality(Low(p)) # Cardinality(named)
    BY <1>2, <2>1, <2>3
  <2> HIDE DEF Low, named, before
  <2> QED BY <1>4, <1>6, <2>1, <2>2, <2>4
<1>8. PICK k \in before : Cardinality({i \in before : i < k}) = Cardinality(Low(p))
  <2> HIDE DEF Low, named, before
  <2> QED BY <1>3, <1>7, RankExists
<1>9. k \in DOMAIN titles /\ titles[k] = titles[j] /\ k \in 1..(j - 1)
  BY <1>1 DEF Before
<1>10. {i \in before : i < k} = Before(titles, k)
  BY <1>1, <1>9 DEF Before
<1>11. Named(titles, sheet, k) = named
  BY <1>9 DEF Named
<1> DEFINE claims == {q \in named : Cardinality(Low(q)) = Cardinality(Before(titles, k))}
<1>12. ByTitle(titles, sheet, k) = Max(claims) /\ claims # {}
  <2>1. p \in claims
    BY <1>2, <1>8, <1>10
  <2>2. ByTitle(titles, sheet, k) = IF claims = {} THEN 0 ELSE Max(claims)
    BY <1>11 DEF ByTitle, Named, Before
  <2> QED BY <2>1, <2>2
<1>13. claims = {p}
  <2>1. SUFFICES ASSUME NEW q \in claims PROVE q = p
    BY <1>2, <1>8, <1>10
  <2>2. q \in Nat /\ q \in named /\ Cardinality(Low(q)) = Cardinality(Low(p))
    BY <1>2, <1>8, <1>10
  <2>3. IsFiniteSet(Low(q))
    BY <1>2, FS_Subset
  <2>4. q < p => Low(q) \subseteq Low(p) /\ q \in Low(p) /\ q \notin Low(q)
    BY <1>1, <1>2, <2>2
  <2>5. p < q => Low(p) \subseteq Low(q) /\ p \in Low(q) /\ p \notin Low(p)
    BY <1>1, <1>2, <2>2
  <2>6. ~(q < p) /\ ~(p < q)
    <3> HIDE DEF Low, named
    <3> QED BY <1>7, <2>2, <2>3, <2>4, <2>5, FS_Subset
  <2> QED BY <1>1, <2>2, <2>6
<1>14. claims \in SUBSET (1..Len(sheet))
  BY <1>1 DEF Named
<1>15. Max(claims) \in claims
  <2> HIDE DEF claims
  <2> QED BY <1>1, <1>12, <1>14, GreatestIn
<1> QED BY <1>9, <1>12, <1>13, <1>15

\* A positional fallback never steals an entry of a question's name.
LEMMA PairNotStolen ==
  ASSUME NEW titles, NEW sheet, Strings(titles, sheet), NEW i \in DOMAIN titles, NEW j \in DOMAIN titles,
         PairOf(titles, sheet, i) # 0, sheet[PairOf(titles, sheet, i)].title # titles[i],
         titles[j] = sheet[PairOf(titles, sheet, i)].title
  PROVE  PairOf(titles, sheet, j) # 0 /\ sheet[PairOf(titles, sheet, j)].title = titles[j]
<1>1. PairOf(titles, sheet, i) = i /\ i \in DOMAIN sheet /\ \A k \in DOMAIN titles : ByTitle(titles, sheet, k) # i
  BY PairIs, ByTitleNames
<1>2. ByTitle(titles, sheet, j) # 0
  BY <1>1, NoneLeft
<1> QED BY <1>2, PairIs, ByTitleNames

\* Every entry has its paragraph, and one only; at most one question has none.
LEMMA ShownOnce ==
  ASSUME NEW titles, NEW sheet, Strings(titles, sheet)
  PROVE  LET paragraphs == Rendered(titles, sheet)
         IN /\ \A p \in DOMAIN sheet : Cardinality({line \in paragraphs : line.entry = p}) = 1
            /\ Cardinality({i \in DOMAIN titles : \A line \in paragraphs : line.question # i}) <= 1
<1> DEFINE declined == Declined(sheet)
           Pair(i) == PairOf(titles, sheet, i)
           Paragraph(part, i, p) == [part |-> part, question |-> i, entry |-> p]
           paragraphs == Rendered(titles, sheet)
<1>1. paragraphs = {Paragraph("declined", 0, p) : p \in {declined} \ {0}}
       \cup {Paragraph("question", i, Pair(i)) : i \in {i \in DOMAIN titles : Pair(i) = 0 \/ Pair(i) # declined}}
       \cup {Paragraph("unmatched", 0, p) : p \in (DOMAIN sheet) \ ({declined} \cup {Pair(i) : i \in DOMAIN titles})}
  BY DEF Rendered
<1> HIDE DEF paragraphs
<1>2. 0 \notin DOMAIN sheet /\ 0 \notin DOMAIN titles
  BY DEF Strings
<1>3. \A i, j \in DOMAIN titles : Pair(i) # 0 /\ Pair(i) = Pair(j) => i = j
  BY PairOnce
<1> HIDE DEF declined, Pair
<1>4. ASSUME NEW p \in DOMAIN sheet
      PROVE  Cardinality({line \in paragraphs : line.entry = p}) = 1
  <2>1. SUFFICES \E line : {l \in paragraphs : l.entry = p} = {line}
    BY FS_Singleton
  <2>2. CASE p = declined
    <3>1. {l \in paragraphs : l.entry = p} = {Paragraph("declined", 0, p)}
      BY <1>1, <1>2, <2>2
    <3> QED BY <3>1
  <2>3. CASE p # declined /\ \E i \in DOMAIN titles : Pair(i) = p
    <3>1. PICK i \in DOMAIN titles : Pair(i) = p
      BY <2>3
    <3>2. {l \in paragraphs : l.entry = p} = {Paragraph("question", i, p)}
      BY <1>1, <1>2, <1>3, <2>3, <3>1
    <3> QED BY <3>2
  <2>4. CASE p # declined /\ ~ \E i \in DOMAIN titles : Pair(i) = p
    <3>1. {l \in paragraphs : l.entry = p} = {Paragraph("unmatched", 0, p)}
      BY <1>1, <1>2, <2>4
    <3> QED BY <3>1
  <2> QED BY <2>2, <2>3, <2>4
<1> DEFINE unread == {i \in DOMAIN titles : \A line \in paragraphs : line.question # i}
<1>5. \A i \in unread : Pair(i) # 0 /\ Pair(i) = declined
  <2> TAKE i \in unread
  <2>1. Paragraph("question", i, Pair(i)) \notin paragraphs
    OBVIOUS
  <2> QED BY <1>1, <2>1
<1>6. \A i, j \in unread : i = j
  BY <1>3, <1>5
<1>7. Cardinality(unread) <= 1
  <2>1. CASE unread = {}
    BY <2>1, FS_EmptySet
  <2>2. CASE unread # {}
    <3>1. PICK i \in unread : TRUE
      BY <2>2
    <3>2. unread = {i}
      BY <1>6, <3>1
    <3> HIDE DEF unread
    <3> QED BY <3>2, FS_Singleton
  <2> QED BY <2>1, <2>2
<1> QED BY <1>4, <1>7 DEF paragraphs

\* The empty sequence is one of its elements.
LEMMA NoneIsString == <<>> \in Seq(Range(<<>>))
<1>1. \A S : <<>> \in Seq(S)
  OBVIOUS
<1> QED BY <1>1

\* A stored answer is a sequence of entries.
LEMMA AnswersAreStrings ==
  ASSUME NEW titles \in {<<>>, Titles}, NEW sheet \in Payloads
  PROVE  Strings(titles, sheet)
<1>1. titles \in Seq(Range(titles))
  <2>1. CASE titles = Titles
    BY <2>1, QuestionsAssumption
  <2>2. CASE titles = <<>>
    BY <2>2, NoneIsString
  <2> QED BY <2>1, <2>2
<1>2. sheet \in Seq(Range(sheet))
  <2>1. CASE sheet \in [Tabs -> EntryStates]
    <3>1. sheet \in [1..Len(Titles) -> Range(sheet)] /\ Len(Titles) \in Nat
      BY <2>1, TabsAre DEF Range
    <3> QED BY <3>1
  <2>2. CASE sheet \in Sheets
    BY <2>2, QuestionsAssumption
  <2>3. CASE sheet = <<>>
    BY <2>3, NoneIsString
  <2> QED BY <2>1, <2>2, <2>3 DEF Payloads
<1> QED BY <1>1, <1>2 DEF Strings

\* However many keys are ahead.
LEMMA AnswersReach ==
  ASSUME QuestionInv
  PROVE  ConfirmsAll /\ EveryAnswerShown /\ NoAnswerStolen /\ AnsweredIsKept
<1>1. ASSUME ~parked
      PROVE  Strings(job.titles, job.answer)
  <2>1. job \in Jobs /\ job.answer # NoSet
    BY <1>1 DEF QuestionInv, StoreInv
  <2>2. job.titles \in {<<>>, Titles} /\ job.answer \in Payloads
    BY <2>1 DEF Jobs
  <2> QED BY <2>2, AnswersAreStrings
<1>2. EveryAnswerShown
  BY <1>1, ShownOnce DEF EveryAnswerShown
<1>3. NoAnswerStolen
  BY <1>1, PairNotStolen DEF NoAnswerStolen
<1>4. ConfirmsAll /\ AnsweredIsKept
  BY DEF QuestionInv, ShapeInv, StoreInv, ConfirmsAll, AnsweredIsKept
<1> QED BY <1>2, <1>3, <1>4

\* With nothing on its way the view is the app's set, and both are what was meant.
LEMMA AnswersMeant ==
  ASSUME MeaningInv, OnlyTyping
  PROVE  ViewsAgree /\ SentIsMeant
<1>1. ASSUME posted = <<>>, asks # NoSet
      PROVE  view = asks /\ Agree(asks, meant)
  <2>1. Len(posted) = 0
    BY <1>1
  <2>2. Owed(Texted(asks, posted, 0), view, meant, posted, 0)
    BY <1>1, <2>1 DEF MeaningInv, Promised, Pending
  <2>3. Texted(asks, posted, 0) = asks
    BY DEF Texted
  <2> QED BY <2>1, <2>2, <2>3 DEF Owed
<1> QED BY <1>1 DEF ViewsAgree, SentIsMeant, PayloadOf, Agree, TabMeans

\* However the app's handlers and the keys interleave: a set is confirmed only with every
\* question answered, the model reads every entry of whatever answer was stored exactly
\* once, no entry goes to another question than its own while its own goes without, and
\* an answer saved in the sidecar is not asked for again.
THEOREM AnswersAreShown == QuestionSpec => [](ConfirmsAll /\ EveryAnswerShown /\ NoAnswerStolen /\ AnsweredIsKept)
<1>1. QuestionInit => QuestionInv
  BY QuestionInitInv
<1>2. QuestionInv /\ [QuestionNext]_questionVars => QuestionInv'
  BY QuestionNextInv
<1>3. QuestionInv => ConfirmsAll /\ EveryAnswerShown /\ NoAnswerStolen /\ AnsweredIsKept
  BY AnswersReach
<1> QED BY <1>1, <1>2, <1>3, PTL DEF QuestionSpec

\* A user who types in a field, confirms or asks to chat may be any number of keys ahead
\* of the app: the screen, the app and what the user did agree as well, once the messages
\* are handled, for every set of questions.  (With a key over an Answered or a Moved they
\* need not: see the properties.)
THEOREM QuestionsAreSound ==
  QuestionSpec => [](rushed \subseteq {"typed", "cleared", "chat", "submitted"} => QuestionsSound)
<1>1. QuestionInit => QuestionInv /\ MeaningInv
  BY QuestionInitInv
<1>2. QuestionInv /\ MeaningInv /\ [QuestionNext]_questionVars => QuestionInv' /\ MeaningInv'
  BY QuestionNextInv, MeaningNextInv
<1>3. QuestionInv /\ MeaningInv => (rushed \subseteq {"typed", "cleared", "chat", "submitted"} => QuestionsSound)
  <2>1. rushed \subseteq {"typed", "cleared", "chat", "submitted"} => OnlyTyping
    BY DEF OnlyTyping, Texts, Endings
  <2> QED BY <2>1, AnswersReach, AnswersMeant DEF QuestionsSound
<1> QED BY <1>1, <1>2, <1>3, PTL DEF QuestionSpec

==============================================================================
