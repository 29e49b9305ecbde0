---------------------------- MODULE MCConfigReload ----------------------------
EXTENDS ConfigReload, TLC
CONSTANTS boss, helper, skill, flow, other

\* An agent with a sub-agent and a skill, or with two workflows; the sub-agent has the skill.
Boss == [id |-> boss, text |-> 1, uses |-> {helper, skill}]
Plain == [id |-> boss, text |-> 2, uses |-> {flow, other}]
Helper == [id |-> helper, text |-> 1, uses |-> {skill}]
MCDrafts == {Boss, Plain, Helper}

\* The agent is listed behind its sub-agent; a removal and an addition turn them round.
MCSeed == <<Helper, Boss>>
MCBeginnings == {MCSeed}
Symmetry == Permutations(Flows)
=============================================================================
