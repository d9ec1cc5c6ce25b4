SPECIFICATION FairSpec
CONSTANTS
  MaxBudget = 3
  None = None
INVARIANTS IInv JoinedAgrees CompleteIsOwn ResultIsOwn
PROPERTY SendEnds
