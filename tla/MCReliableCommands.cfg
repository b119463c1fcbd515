SPECIFICATION FairSpec
CONSTANTS
  MAX_RELIABLE_COMMANDS = 2
  MaxClientCommands = 4
  MaxServerCommands = 3
  Capacity = 1
INVARIANTS
  CommandsFaithful
  KeysAgree
  CommandsFirst
  AcknowledgementsSound
PROPERTIES
  CommandsArrive
