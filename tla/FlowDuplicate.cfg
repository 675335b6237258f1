SPECIFICATION Spec
CONSTANTS
  Flows = {f1, f2}
  Commands = {c1, c2}
  MaxCommands = 2
PROPERTY DuplicatesDetected
CHECK_DEADLOCK FALSE
