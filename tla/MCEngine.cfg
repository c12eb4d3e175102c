SPECIFICATION EngineSpec
CONSTANTS
  j1 = j1
  j2 = j2
  Job <- MCJob
  Fitting <- MCFitting
  Output = {"tokens"}
  Duration = {1, 10}
  ExpectedTime = 10
  SlashPeriod = 1
  TargetTime = 4
  Window = 2
  MinDifficulty = 1
  MaxDifficulty = 8
  Stamp <- MCStamp
  Difficulty = {1, 3, 4, 7}
  Never = Never
  ChainBound = 4
  TimeBound = 2
  WorkBound = 2
INVARIANTS
  SlashedForWork
  DifficultyFollowsPace
