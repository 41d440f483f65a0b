CONSTANTS
  Configs <- ConfigsMC
  Backlog = 2
SPECIFICATION Spec
INVARIANTS ThreadsOwnOpenSockets AnswersAreTrue
PROPERTIES EverySocketServed MainReturns
