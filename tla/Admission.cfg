SPECIFICATION FairSpec
CONSTANTS
  c1 = c1
  c2 = c2
  c3 = c3
  jobA = jobA
  jobB = jobB
  Callers = {c1, c2, c3}
  NoCaller = NoCaller
  Jobs = {jobA, jobB}
  NoJob = NoJob
  JobOf <- TwoJobs
  Blocked = {jobB}
  MaxCrashes = 3
  MaxFaults = 1
INVARIANTS AbandonedStaysUnstarted RecordIsConfirmed AnswersAgree
PROPERTIES CallersReturn ImplementsRequest
CHECK_DEADLOCK FALSE
