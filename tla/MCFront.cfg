CONSTANTS
  Projects <- MCProjects
  Entry = "main"
  Missing = {"gone"}
  Outside = {"above"}
  Chosen = {"exprs", "stmts", "modules", "aliased", "noise"}
  MaxNoise = 4
SPECIFICATION Spec
INVARIANTS RoundTrip GraphComplete FailsForCause 
PROPERTY Advances
