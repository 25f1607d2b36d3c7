SPECIFICATION FairSpec
CONSTANTS
  a = a
  b = b
  c = c
  d = d
  Order <- Listed
  DependsOn <- Chained
  Quotes <- QuotesFirst
  Remote = {c}
  MaxAttempts <- RetryFirst
  Slug <- OwnSlug
  MaxCaptured = 1
  Prints <- PrintsFirst
  PumpsKeepUp = TRUE
INVARIANTS QuotesWhole
PROPERTIES Ends
CHECK_DEADLOCK FALSE
