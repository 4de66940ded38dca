SPECIFICATION Spec
CONSTANTS Ident = {"f", "g", "a", "b"}
          Number = {"1", "15", "200"}
          NumVal <- Values
          OpChar = {"=", ";", "+", "*", "<", "!", ":"}
          ArgSize <- Sizes
          Inputs <- All
INVARIANT TypeOK
INVARIANT LexicalScope
INVARIANT WellFormed
INVARIANT PrecedenceKept
INVARIANT Progress
CHECK_DEADLOCK FALSE
