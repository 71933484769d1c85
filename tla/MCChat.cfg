\* One permit, one place in the queue, three requests, a deleted session, a stop.
CONSTANTS
  r1 = r1
  r2 = r2
  r3 = r3
  s1 = s1
  ann = ann
  bob = bob
  Request = {r1, r2, r3}
  Session = {s1}
  Caller = {ann, bob}
  caller <- MCCaller
  chat <- MCChat3
  Concurrency = 1
  QueueDepth = 1
  MaxRows = 2
  MaxCrashes = 1
SPECIFICATION FairSpec
INVARIANTS
  AdmissionExact
  AnswerFollowsQuestion
PROPERTIES
  ImplementsAdmission
  
  WaitersAndStreamsEnd
CHECK_DEADLOCK FALSE
