\* Six actions, six invocations in any order and any interleaving.
CONSTANT N = 6
SPECIFICATION FairSpec
INVARIANT IInv
INVARIANT NoRaceOnSecond
INVARIANT StackBounded
PROPERTY ImplementsInOrder
PROPERTY InvocationsReturn
