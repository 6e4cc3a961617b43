CONSTANTS
    Fuel = 24
    MaxStmts = 4
    MaxWraps = 1
    MaxAsync = 3
    MaxGo = 2
    Capacity = 1
    Chosen = {"strings", "arrays", "cells", "results", "objects", "awaits", "channels", "waits"}
    Allow = {}
SPECIFICATION Spec
INVARIANTS  NoLeak RootDone WellFormed
CHECK_DEADLOCK FALSE
