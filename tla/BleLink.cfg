SPECIFICATION FairSpec
CONSTANT MaxTimeouts = 3
INVARIANTS
  TypeOK
  TimelySetupConfigures
  NeverHung
PROPERTIES
  RunningStackUntouched
  StartsWhenTold
  SetupEnds
