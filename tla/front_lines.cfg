SPECIFICATION Spec
CONSTANT Sources <- Lines
CONSTANT Faulty <- Shown
CONSTANT MaxDepth = 4
INVARIANT LineKept
