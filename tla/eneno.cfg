SPECIFICATION Spec
CONSTANTS MaxPlace = 9
          MaxParams = 2
INVARIANT TypeOK
INVARIANT ParametersComplete
INVARIANT CrashReported
INVARIANT PlaceCovers
CHECK_DEADLOCK FALSE
