SPECIFICATION FairSpec
CONSTANTS f = f
          sin = sin
          Function = {f, sin}
          UserOp = {":"}
          Builtin = {}
          Process = {sin}
          Anon = "anon"
          Arity = {0, 2}
          MaxModules = 3
          MaxEntries = 5
          StackLimit = 5
          InputIR <- InputFiles
INVARIANT TypeOK
INVARIANT OneMeaning
INVARIANT OperatorsDefined
INVARIANT OnceUnlessCircular
PROPERTY CompiledFrozen
PROPERTY MeaningKept
PROPERTY CompileEnds
CHECK_DEADLOCK FALSE
