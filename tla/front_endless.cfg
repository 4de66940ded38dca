SPECIFICATION FairSpec
CONSTANT Sources <- Endless
CONSTANT Faulty <- Shown
CONSTANT MaxDepth = 4
PROPERTY Terminates
