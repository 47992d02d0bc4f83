SPECIFICATION Spec
CONSTANTS
  Thing <- MCThing
  NoText = ""
  Slug <- MCSlug
  MaxWorkspaces = 2
  Rev = {1, 2}
  Registries <- MCRegistries
  Storage <- MCStorage
  MaxContainers = 1
  Commands <- MCCommands
  MaxCommands = 2
  MaxChanges = 0
  None = None
INVARIANT NoTraceback
CHECK_DEADLOCK FALSE
