SPECIFICATION Spec
CONSTANTS Ident = {"f", "g", "a", "b"}
          Number = {"1", "15", "200"}
          NumVal <- Values
          OpChar = {"=", ";", "+", "*", "<", "!", ":"}
          ArgSize <- Sizes
          Inputs <- All
INVARIANT BindingsRestored
CHECK_DEADLOCK FALSE
