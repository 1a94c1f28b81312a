SPECIFICATION Spec
CONSTANTS
  Openers = {1, 2}
  PathsOf <- MCPathsOf
  Cwd <- MCCwd
  MaxPath = 9
INVARIANTS
  OpensWhatIsMeant NoRaceInMkdir OnlyParentsMade PathLaws
CHECK_DEADLOCK FALSE
