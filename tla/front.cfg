SPECIFICATION FairSpec
CONSTANT Sources <- Everything
CONSTANT Faulty <- Erroneous
CONSTANT MaxDepth = 4
INVARIANT TypeOK
INVARIANT NoUnderflow
INVARIANT TextAccounted
INVARIANT OnlyLayoutEaten
INVARIANT EndFoundInInitial
INVARIANT AnnouncedLanguage
INVARIANT StackShape
INVARIANT BackInPlace
INVARIANT AllDelivered
PROPERTY InOrder
 
