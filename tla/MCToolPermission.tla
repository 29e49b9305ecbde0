-------------------------- MODULE MCToolPermission --------------------------
(***************************************************************************)
(* ToolPermission for TLC: tool_permission (1) knows every tool by name,   *)
(* shell_command (2) only the command of execute_command.                  *)
(***************************************************************************)
EXTENDS ToolPermission, TLC

CONSTANTS s1, s2, shellCall, doneCall, execute_command, rm, glob

\* One call both guardrails look at, one that neither does.
MCKeyOf == <<(shellCall :> execute_command) @@ (doneCall :> None),
             (shellCall :> rm) @@ (doneCall :> None)>>

\* One guardrail and one key.
OneKeyOf == <<shellCall :> execute_command>>

\* The pattern accepts every key.
MCCovers == glob :> Keys

NoPatterns == [p \in {} |-> {}]

Symmetry == Permutations(Sessions)
=============================================================================
