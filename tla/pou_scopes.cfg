SPECIFICATION Spec
CONSTANTS f = f
          g = g
          h = h
          Unnamed = Unnamed
          Identifier <- Identifiers
          Operator <- Operators
          TypeCodes <- Types
          Direct <- Directs
          MaxDepth = 2
INVARIANT TypeOK
INVARIANT ScopesFollowUnits
INVARIANT ToldBeforeEnding
INVARIANT FunctionNameIsVariable
SYMMETRY Interchangeable
CHECK_DEADLOCK FALSE
