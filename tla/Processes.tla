------------------------------ MODULE Processes ------------------------------
(* The processes a conversation's tools run in: persistent shells and one-shot *)
(* commands.                                                                   *)
EXTENDS Shells, Commands

\* Persistent shells and one-shot commands.
ProcessesSound == ShellsSound /\ CommandsSound

=============================================================================
