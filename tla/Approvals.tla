------------------------------- MODULE Approvals -------------------------------
(* The rule-based permission strategy and the user who answers it              *)
(* (contrib/resource_permissions/strategy.py, mixin.py).                       *)
(*                                                                             *)
(* A tool declares requests, each a set of (permission, resource) pairs; the   *)
(* strategy resolves every pair against the answers given for this call, then  *)
(* against its ordered rules; the runner asks it again until nothing of the    *)
(* call is PENDING, while the user answers what pending_requests shows.        *)
EXTENDS Integers, Sequences, SequencesExt

CONSTANTS
  Asks,          \* tool calls
  AskOf,         \* [Asks -> the call: its tool's name and kind, and its requests]
  Pairs,         \* (permission, resource) pairs a user may make up an answer about
  Globs,         \* <<glob, resource>> that fnmatch
  Rulebooks,     \* rule lists the strategy may be built with
  MaxFree,       \* bound: answers the user makes up, changes of mode
  NoRes          \* the resource of a resource-less pair; the name of any tool

\* A request lists finitely many pairs; a rule decides one way or another, and the
\* strategy is built with no rule twice.
ASSUME ApprovalsAssumption ==
  /\ MaxFree \in Nat
  /\ \A k \in Asks :
       /\ AskOf[k].requests \in Seq(ToSet(AskOf[k].requests))
       /\ \A q \in ToSet(AskOf[k].requests) : IsFiniteSet(q)
  /\ \A book \in Rulebooks :
       /\ book \in Seq(ToSet(book))
       /\ \A i, j \in DOMAIN book : book[i] = book[j] => i = j
       /\ \A i \in DOMAIN book : book[i].decision \in {"ALLOW", "DENY", "PENDING"}

VARIABLES
  mode,       \* PermissionMode: ASK, or one of the two that promote
  strict,     \* PermissionMatchMode.STRICT
  rules,      \* PermissionStrategy.rules
  verdicts,   \* PermissionStrategy._verdicts
  gate,       \* the calls: undecided, ALLOWED or REJECTED
  free        \* bound: answers made up and changes of mode so far

approvalVars == <<mode, strict, rules, verdicts, gate, free>>

\* AUTO promotes as YOLO does.
Modes == {"ASK", "YOLO"}

Implicit(k) == [perm |-> AskOf[k].name, res |-> NoRes]

ResourceMatches(called, ruled) ==
  IF NoRes \in {called, ruled} THEN called = ruled
  ELSE called = ruled \/ <<ruled, called>> \in Globs

Covers(pair, p) == pair.perm = p.perm /\ ResourceMatches(p.res, pair.res)

\* DENY beats ALLOW among the verdicts on this call.
MatchVerdicts(k, p) ==
  LET said == {v.decision : v \in {w \in verdicts[k] : Covers(w.pair, p)}}
  IN IF "DENY" \in said THEN "DENY" ELSE IF "ALLOW" \in said THEN "ALLOW" ELSE "none"

RuleMatches(r, k, p) ==
  \/ r.of = "kind" /\ r.kind = AskOf[k].kind
  \/ r.of = "tool" /\ (strict => r.name \in {NoRes, AskOf[k].name}) /\ Covers(r.pair, p)

\* The last rule that matches wins; none is PENDING.
MatchRules(k, p) ==
  LET hits == {i \in DOMAIN rules : RuleMatches(rules[i], k, p)}
  IN IF hits = {} THEN "PENDING" ELSE rules[Max(hits)].decision

ApplyMode(d) == IF d = "PENDING" /\ mode # "ASK" THEN "ALLOW" ELSE d

ResolvePair(k, p) ==
  IF MatchVerdicts(k, p) # "none" THEN MatchVerdicts(k, p) ELSE ApplyMode(MatchRules(k, p))

RequestPairs(k, request) == IF request = {} THEN {Implicit(k)} ELSE request
RequiredPairs(k) ==
  IF AskOf[k].requests = <<>> THEN {Implicit(k)}
  ELSE UNION {RequestPairs(k, q) : q \in ToSet(AskOf[k].requests)}

\* Mutant: one pair that is allowed is enough.
AggregateAny(said) == IF "DENY" \in said THEN "DENY" ELSE IF "ALLOW" \in said THEN "ALLOW" ELSE "PENDING"

Aggregate(said) == IF "DENY" \in said THEN "DENY" ELSE IF "PENDING" \in said THEN "PENDING" ELSE "ALLOW"
Decision(k) == Aggregate({ResolvePair(k, p) : p \in RequiredPairs(k)})

\* What is left to ask of a request, and pending_requests: the requests something is
\* left of.
Left(k, q) == {p \in RequestPairs(k, q) : ResolvePair(k, p) = "PENDING"}
PendingRequests(k) == {i \in DOMAIN AskOf[k].requests : Left(k, AskOf[k].requests[i]) # {}}

\* build_approval_prompts, _build_options: what the terminal offers to approve or deny
\* are the pairs left of the first request, which are none for a request that lists no
\* resources; a call with no requests is asked about by its implicit pair.
Prompt(k) ==
  IF PendingRequests(k) = {} THEN {Implicit(k)}
  ELSE LET q == AskOf[k].requests[Min(PendingRequests(k))] IN q \cap Left(k, q)

(* ---------------------------------- actions --------------------------------- *)

\* The runner asks: a PENDING answer leaves the call where it is.
Decide(k) ==
  /\ gate[k] = "PENDING"
  /\ gate' = [gate EXCEPT ![k] =
       [ALLOW |-> "ALLOWED", DENY |-> "REJECTED", PENDING |-> "PENDING"][Decision(k)]]
  /\ UNCHANGED <<mode, strict, rules, verdicts, free>>

\* add_rule, "deduping identical rules".
AddRules(new) == rules \o SetToSeq(new \ ToSet(rules))

\* apply_answer: verdicts on this call, or rules under the tool's name, those that
\* are not there yet.  (The order of rules that agree does not matter.)
ApplyAnswer(k, pairs, decision, scope) ==
  LET new == {[of |-> "tool", name |-> AskOf[k].name, pair |-> p, decision |-> decision] : p \in pairs}
  IN IF scope = "ALWAYS"
     THEN rules' = AddRules(new) /\ UNCHANGED verdicts
     ELSE /\ verdicts' = [verdicts EXCEPT ![k] = @ \cup {[pair |-> p, decision |-> decision] : p \in pairs}]
          /\ UNCHANGED rules

AnswerPrompt(k) == \E decision \in {"ALLOW", "DENY"}, scope \in {"ONCE", "ALWAYS"} :
  /\ gate[k] = "PENDING" /\ Decision(k) = "PENDING"
  /\ ApplyAnswer(k, Prompt(k), decision, scope)
  /\ UNCHANGED <<mode, strict, gate, free>>

\* Answers are free-standing: any pair, any number of times, and on any execution.
AnswerFreely(k) == \E p \in Pairs, decision \in {"ALLOW", "DENY"}, scope \in {"ONCE", "ALWAYS"} :
  /\ free < MaxFree
  /\ ApplyAnswer(k, {p}, decision, scope)
  /\ free' = free + 1
  /\ UNCHANGED <<mode, strict, gate>>

SwitchMode ==
  /\ free < MaxFree /\ free' = free + 1
  /\ mode' \in Modes \ {mode}
  /\ UNCHANGED <<strict, rules, verdicts, gate>>

ApprovalInit ==
  /\ mode \in Modes /\ strict \in BOOLEAN /\ rules \in Rulebooks
  /\ verdicts = [k \in Asks |-> {}] /\ gate = [k \in Asks |-> "PENDING"] /\ free = 0

ApprovalNext ==
  \/ \E k \in Asks : Decide(k) \/ AnswerPrompt(k) \/ AnswerFreely(k)
  \/ SwitchMode

\* The runner asks again, and the user answers prompts.
ApprovalFairness == \A k \in Asks : WF_approvalVars(Decide(k) \/ AnswerPrompt(k))
ApprovalSpec == ApprovalInit /\ [][ApprovalNext]_approvalVars /\ ApprovalFairness

(* -------------------------------- properties -------------------------------- *)

\* The shape of the state; no rule is recorded twice.
ApprovalTypeOK ==
  /\ mode \in Modes /\ strict \in BOOLEAN /\ free \in 0..MaxFree
  /\ gate \in [Asks -> {"PENDING", "ALLOWED", "REJECTED"}]
  /\ \A i, j \in DOMAIN rules : rules[i] = rules[j] => i = j

Granted(k, p) ==
  \/ \E v \in verdicts[k] : v.decision = "ALLOW" /\ Covers(v.pair, p)
  \/ \E r \in ToSet(rules) : r.decision = "ALLOW" /\ RuleMatches(r, k, p)
IsRefused(k, p) == \E v \in verdicts[k] : v.decision = "DENY" /\ Covers(v.pair, p)

\* decide: where the user is asked, a call is allowed only when every pair it needs
\* is granted, by an answer or by a rule, whichever order they came in.
AllowedIsGranted == [][\A k \in Asks :
  gate[k] = "PENDING" /\ gate'[k] = "ALLOWED" /\ mode = "ASK" =>
    \A p \in RequiredPairs(k) : Granted(k, p)]_approvalVars

\* _match_verdicts: "an explicitly-answered call stays pinned against rules written
\* in the same approval pause": one the user refused is not allowed by a rule, by
\* another answer or by the mode.
RefusalIsPinned == [][\A k \in Asks :
  (\E p \in RequiredPairs(k) : IsRefused(k, p)) /\ gate[k] = "PENDING" => gate'[k] # "ALLOWED"]_approvalVars

\* pending_requests feeds the prompt and apply_answer takes its pairs back: a user
\* who answers what is shown gets every call out of the gate (_resource_matches:
\* else "the prompt re-arms forever").  A request that lists no resources is left out:
\* the terminal's answer to it covers nothing.
PromptsConverge == \A k \in Asks : {} \notin ToSet(AskOf[k].requests) =>
  (gate[k] = "PENDING" ~> gate[k] # "PENDING")

\* An approval is somebody's, and a refusal stays one.
ApprovalsSound == []ApprovalTypeOK /\ AllowedIsGranted /\ RefusalIsPinned

===============================================================================
