\* The scaling tools on a cluster with one API and the worker.
CONSTANTS
  keda = keda
  write = write
  stable = stable
  kedaName = kedaName
  writeName = writeName
  writeAlias = writeAlias
  stranger = stranger
  Nothing = Nothing
  Full = Full
  NoLoad = NoLoad
  Keda = keda
  Hpas = {write}
  Stable = stable
  Top = 4
  PerPod = 10
  Demands = {0, 25, 45}
  Kept <- InGit
  Keys = {writeName, writeAlias, stranger}
  Meant <- Parsed
  Cooldown = 3
  Interval = 2
  Deadline = 1
  MaxPatches = 2
  Attempts = 2
  Plans <- Answers
  KedaStep = 2
  KedaCap = 4
  HpaStep = 1
  HpaCap = 3
  Searched = write
  Lowest = 0
  Highest = 48
  Rounds = 5
SPECIFICATION SpecCasts
INVARIANTS RaisesOnly WarmUpLands EstimateStands
PROPERTIES OncePerCooldown AdvisorLooksAgain
CHECK_DEADLOCK FALSE
