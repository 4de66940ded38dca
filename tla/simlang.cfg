SPECIFICATION FairSpec
CONSTANT Programs <- Ending
CONSTANT Inputs <- Typed
CONSTANT Fuel = 6
INVARIANT BlocksClosed
INVARIANT SameOutput
INVARIANT CrashOnlyOnUnknown
PROPERTY Ends
CHECK_DEADLOCK FALSE
