SPECIFICATION Spec
CONSTANTS
  Flows = {f1, f2}
  Commands = {c1, c2}
  MaxCommands = 2
INVARIANTS RegisteredRunLives RegistrationsMatch NothingLeftBehind
PROPERTIES GroupAllOrNothing StoppingEnds
CHECK_DEADLOCK FALSE
