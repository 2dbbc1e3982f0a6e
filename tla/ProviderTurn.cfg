SPECIFICATION FairTurns
CONSTANTS
  Calls = {c1, c2}
INVARIANTS SettledOnce StepEndsOnce
PROPERTIES RequestIsAnswered CallsSettle
