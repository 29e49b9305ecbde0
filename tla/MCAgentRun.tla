----------------------------- MODULE MCAgentRun -----------------------------
(***************************************************************************)
(* AgentRun for TLC: who sends what.                                       *)
(***************************************************************************)
EXTENDS AgentRun, TLC

CONSTANTS r1, r2, r3, a1, a2, s1, s2

Req(a, s, p, f, sl) == [agent |-> a, session |-> s, policy |-> p, forced |-> f, slow |-> sl]

\* One session, three senders: a Telegram chat (its consumer awaits the Bot API
\* between two events), the web with a forced skill, a scheduled task, and a
\* second agent through an agent command.
OneSessionRequests ==
    {Req(a1, s1, "standard", 0, TRUE), Req(a1, s1, "standard", 1, FALSE),
     Req(a1, s1, "fail", 0, FALSE), Req(a2, s1, "safe_skip", 0, FALSE)}

\* Two sessions and two agents: two chats, and a task with two forced skills.
TwoSessionRequests ==
    {Req(a1, s1, "standard", 0, TRUE), Req(a2, s1, "fail", 2, FALSE),
     Req(a1, s2, "standard", 0, FALSE)}

\* One session and one way to ask for it: a web chat.
OneWebRequest == {Req(a1, s1, "standard", 0, FALSE)}

Symmetry == Permutations(Runs)
=============================================================================
