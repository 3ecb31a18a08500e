CONSTANTS
  N <- MCN
  FirstStage = "cutting"
  None = None
  MaxReceived <- MCMaxReceived
  MaxIncidents <- MCMaxIncidents
SPECIFICATION Spec
PROPERTY DispatchNeedsAllPieces
PROPERTY CompletionsMoveTheirPieces
CHECK_DEADLOCK FALSE
