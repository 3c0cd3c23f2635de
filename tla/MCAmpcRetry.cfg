SPECIFICATION Spec
CONSTANTS
  NumJobs = 2
  Workers = {1, 2}
  Takers <- Anywhere
  NumMappers = 1
  MaxRounds = 1
  Faults = {"crash"}
  MaxFaults = 1
  NoJob = NoJob Lost = Lost Unasked = Unasked
INVARIANT AwaitKeepsJobs
