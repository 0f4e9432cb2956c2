SPECIFICATION FairSpec
CONSTANTS
  c1 = c1
  d1 = d1
  d2 = d2
  a1 = a1
  a2 = a2
  None = None
  Jobs <- MCJobs
  Crawls <- MCCrawls
  AdJobs <- MCAdJobs
  Ads <- MCAds
  Searches <- MCSearches
  Pages <- MCPages
  MaxSize = 2
  AiSlots = 1
  Retries = 1
INVARIANTS ScrapeTypeOK PoolExact ContextAtOnce EmptyIsExplained SearchKept
PROPERTIES ImplementsPool JobsEnd
CHECK_DEADLOCK FALSE
