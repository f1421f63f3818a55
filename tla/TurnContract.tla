---------------------------- MODULE TurnContract ----------------------------
(***************************************************************************)
(* What a conversation promises about its turns and the tool calls in      *)
(* them, without a drive: a turn is open or closed, each call moves        *)
(* through its stages one at a time, and a close finds every call done.    *)
(* Turn implements this contract (see TurnRefinement there).               *)
(***************************************************************************)
EXTENDS Naturals, FiniteSets

VARIABLES
    open,      \* a turn is open
    asked,     \* the open turn was asked to cancel
    calls,     \* per call: its stage and how often its body was started
    outcome    \* how the latest turn closed, "none" before the first

contract == <<open, asked, calls, outcome>>

Start == [stage |-> "asked", tries |-> 0]

\* One call moves on: a body starts from waiting or parked and counts a try.
Moves(x, y) ==
    \/ x.stage = "asked" /\ y.stage \in {"waiting", "done"} /\ y.tries = x.tries
    \/ x.stage = "waiting" /\ y.stage = "done" /\ y.tries = x.tries
    \/ x.stage \in {"waiting", "parked"} /\ y.stage = "running" /\ y.tries = x.tries + 1
    \/ x.stage = "running" /\ y.stage \in {"parked", "done"} /\ y.tries = x.tries
    \/ x.stage = "parked" /\ y.stage = "done" /\ y.tries = x.tries

AllMoveOrStay(S) == \A i \in S : calls'[i] = calls[i] \/ Moves(calls[i], calls'[i])

ContractInit == ~open /\ ~asked /\ calls = << >> /\ outcome = "none"

Open ==
    /\ ~open
    /\ open' = TRUE
    /\ UNCHANGED <<asked, calls, outcome>>

AskCancel ==
    /\ open /\ ~asked
    /\ asked' = TRUE
    /\ UNCHANGED <<open, calls, outcome>>

\* New calls arrive together; the others stay as they are.
Receive ==
    /\ open
    /\ DOMAIN calls \subseteq DOMAIN calls'
    /\ \A i \in DOMAIN calls' :
         calls'[i] = IF i \in DOMAIN calls THEN calls[i] ELSE Start
    /\ UNCHANGED <<open, asked, outcome>>

\* Calls move on; once the turn was asked to cancel no body starts.
Advance ==
    /\ open
    /\ DOMAIN calls' = DOMAIN calls
    /\ AllMoveOrStay(DOMAIN calls)
    /\ asked => \A i \in DOMAIN calls : calls'[i].tries = calls[i].tries
    /\ UNCHANGED <<open, asked, outcome>>

\* A close settles what is still live; a cancelled turn is never completed.
Close ==
    /\ open
    /\ open' = FALSE
    /\ asked' = FALSE
    /\ DOMAIN calls' = DOMAIN calls
    /\ AllMoveOrStay(DOMAIN calls)
    /\ \A i \in DOMAIN calls' : calls'[i].stage = "done" /\ calls'[i].tries = calls[i].tries
    /\ outcome' \in {"completed", "errored", "timed_out", "cancelled"}
    /\ asked => outcome' # "completed"

ContractNext == Open \/ AskCancel \/ Receive \/ Advance \/ Close

ContractSpec == ContractInit /\ [][ContractNext]_contract

=============================================================================
