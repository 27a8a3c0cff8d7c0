SPECIFICATION HistSpec
CONSTANTS
  Keys = {k1, k2, k3}
  Answers = {a1, a2}
  Capacity = 2
  TTL = 2
  MaxTime = 4
INVARIANTS
  TypeOK
  InFlightHasNoAnswer
PROPERTIES
  LiveAnswerIsFinal
  EvictsOnlyIdleAnswers
