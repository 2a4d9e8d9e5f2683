SPECIFICATION ObservationSpec
CONSTANTS
  h1 = h1
  h2 = h2
  h3 = h3
  r1 = r1
  r2 = r2
  p1 = p1
  p2 = p2
  p3 = p3
  Hooks = {h1, h2, h3}
  Runtimes = {r1, r2}
  RuntimeOf <- RunsIn
  Events = {"a", "b", "c"}
  StateFor <- Reports
  MaxRecords = 1
  MaxHookIndex = 2
  MaxHookFaults = 1
  None = None
  Installers = {p1, p2, p3}
  Version <- Carries
  Handlers = {"f"}
  MaxInstallFaults = 1
  NoInstaller = None
  Instances = {"i", "j"}
  Targets = {"t", "s"}
  TargetOf <- Sessions
  Ops = {1, 2}
  Runtime <- Recreated
  AgentStates = {"running", "relax"}
  MaxIndex = 2
  MaxFaults = 1
  Nil = None
CHECK_DEADLOCK FALSE
INVARIANTS
  HookFilesSafe
  InstallSafe
  ToldOnce
  PreparationSafe
PROPERTIES
  NothingGoesBack
