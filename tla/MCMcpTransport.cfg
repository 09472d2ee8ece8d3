CONSTANTS
  Nobody = Nobody
  call1 = call1
  call2 = call2
  list = list
  Clients = {call1, call2, list}
  Calls = {call1, call2}
  MaxRestarts = 2
  MaxNoise = 1
SPECIFICATION FairSpec
CHECK_DEADLOCK FALSE
INVARIANTS
  TypeOK
  CalledAtMostOnce
  OneAtATime
PROPERTIES
  EveryRequestEnds
  ImplementsRemoteCall
