------------------------------- MODULE MCTurn -------------------------------
(* Small instances of Turn for TLC: the sets a configuration chooses from. *)
EXTENDS Turn

PendingOrFailed == {"pending", "failed"}
EveryBirth == {"pending", "not_found", "invalid", "failed", "refused"}
EveryPrepareFailure == {"not_found", "invalid", "failed"}
EveryBodyOutcome == {"completed", "failed", "timed_out"}
OnlyFailed == {"failed"}
OnlyCompleted == {"completed"}
OnlyCancelled == {"cancelled"}
EveryCancel == {"cancelled", "errored", "timed_out"}

=============================================================================
