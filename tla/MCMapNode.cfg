CONSTANTS
  Items = 3
  Limit = 2
  MaxRetries = 2
  None = None
SPECIFICATION FairMapSpec
INVARIANTS
  OutcomeIsHonest
  OnlyOrphansOutlive
PROPERTY
  EverythingEnds
