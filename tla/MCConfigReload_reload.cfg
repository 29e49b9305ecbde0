SPECIFICATION ReloadSpec
CONSTANTS
    boss = boss
    helper = helper
    skill = skill
    flow = flow
    other = other
    AgentsFile = AgentsFile
    NoPrint = NoPrint
    Agents = {boss, helper}
    Skills = {skill}
    Flows = {flow, other}
    Drafts <- MCDrafts
    Beginnings <- MCBeginnings
    Seed <- MCSeed
    MaxChanges = 3
    MaxHandlers = 2
    MaxRestarts = 1
SYMMETRY Symmetry
INVARIANTS RegistriesAreTrue HeldIsRegistered
CHECK_DEADLOCK FALSE
