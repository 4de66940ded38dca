SPECIFICATION Spec
CONSTANTS f = f
          g = g
          printd = printd
          a = a
          Function = {f, g, printd}
          Process = {printd}
          Anon = "__anon_expr"
          Variable = {a}
          Prototype <- Prototypes
          Body <- Bodies
INVARIANT TypeOK
INVARIANT NoSurpriseExit
INVARIANT CallsFit
CHECK_DEADLOCK FALSE
