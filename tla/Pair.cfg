SPECIFICATION FairSpec
INVARIANT NoRaceOnSecond
PROPERTY ImplementsInOrder
