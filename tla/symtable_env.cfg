SPECIFICATION Spec
CONSTANTS x = x
          y = y
          Absent = Absent
          Name <- Names
          Value <- Values
          Spelling <- Spellings
          Fold <- FoldCase
          Default = 0
          MaxDepth = 3
INVARIANT TypeOK
PROPERTY LexicalScoping
CHECK_DEADLOCK FALSE
