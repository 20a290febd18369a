\* Two tokens on two chains, two collectors, two security phases of the four.
SPECIFICATION FairSpec
CONSTANTS
  t1 = t1
  t2 = t2
  Token <- MCToken
  Process <- MCProcess
  Loop <- MCLoop
  Chain = {"solana", "other"}
  ChainOf <- MCChainOf
  SecurityPhases = 2
  None = None
  p1 = p1
  p2 = p2
INVARIANTS
  PromotionConsistent
PROPERTIES
  ListedIsPromoted
