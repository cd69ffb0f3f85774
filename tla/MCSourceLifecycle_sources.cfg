SPECIFICATION FairSpec
CONSTANTS
  c1 = c1
  c2 = c2
  c3 = c3
  c4 = c4
  Creators = {c1, c2, c3, c4}
  Deleters = {d1}
  Want <- Mixed
  Unfit <- OnlyC4
  Outside <- OnlyC3
  Nobody = Nobody
  MaxFaults = 1
CHECK_DEADLOCK FALSE
INVARIANT NoSpuriousError
INVARIANT Converge
INVARIANT OneOwner
PROPERTY AnswersAreTrue
PROPERTY Answered
PROPERTY DeletedGoes
