SPECIFICATION MCSpec
CONSTANTS
  Invocations = {p1, p2}
  IdeasGiven <- MCIdeas
  ModesGiven <- MCModes
  ModesSet <- MCModes
  GatesGiven <- MCGates
  SkillsFound <- MCSkills
  None = None
  MaxCommands = 3
  CliProcesses = {c1, c2}
  SessionTokens = {t1, t2}
  NoToken = NoToken
  MaxClientActs = 4
INVARIANTS BuildsOnlyPastGates StricterModeIsStricter RememberedModeIsKept LoginIsVerified
PROPERTIES ApprovalsAreKept StatusSettles
CHECK_DEADLOCK FALSE
