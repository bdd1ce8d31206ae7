SPECIFICATION WaitingSpec
INVARIANTS
  UnitsConserved
  PipeFaithful
  NoEarlyReturn
  WriterAlone
  BarrierHolds
  StatusReported
  StagesInOrder IpcLinked StoppedIsEmpty
 
CHECK_DEADLOCK FALSE
