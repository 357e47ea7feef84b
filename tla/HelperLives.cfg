SPECIFICATION FairSpec
CONSTANTS
  Callers = {worker, registrar}
  Pollers = {worker}
  NoCaller = NoCaller
  MaxHelpers = 2
  MaxRequests = 2
INVARIANTS AnswerIsOwn WatcherSees JobsDoNotOverlap
PROPERTIES HelpersRetire
CHECK_DEADLOCK FALSE
