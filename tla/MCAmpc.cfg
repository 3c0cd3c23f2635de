SPECIFICATION FairSpec
CONSTANTS
  NumJobs = 3
  Workers = {1, 2, 3}
  Takers <- Shards
  NumMappers = 2
  MaxRounds = 2
  Faults = {"timeout", "crash", "restart"}
  MaxFaults = 3
  NoJob = NoJob Lost = Lost Unasked = Unasked
INVARIANT TypeOK OneMapAtATime NothingLate OnceUnlessFaulty
PROPERTY EveryJobMapped Ends
