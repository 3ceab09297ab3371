SPECIFICATION Spec
CONSTANTS
  MaxOffers = 5
  MaxOutstanding = 3
INVARIANTS
  TypeOK
  FirstAnswerIsForItsOffer
PROPERTIES
  RestartWaitsForGathering
  OffersAreAnswered
  CandidatesArrive
CHECK_DEADLOCK FALSE
