SPECIFICATION FairSpec
CONSTANTS
  Messages <- MCMessages
  MaxMsgs = 4
  MaxHasty = 2
INVARIANT RoutesWhatArrived
INVARIANT TimerExact
PROPERTY HalfOpenEnds
