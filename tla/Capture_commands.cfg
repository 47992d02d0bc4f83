SPECIFICATION Spec
CONSTANTS
  Thing <- MCThing
  NoText = ""
  Slug <- MCSlug
  MaxWorkspaces = 2
  Rev = {1, 2}
  Registries <- MCRegistries
  Storage <- MCStorage
  MaxContainers = 1
  Commands <- MCCommands
  MaxCommands = 2
  MaxChanges = 2
  None = None
INVARIANTS
  TypeOK
  ReportIsHonest
PROPERTIES
  StoresWhatIsThere
  DiffIsExact
CHECK_DEADLOCK FALSE
