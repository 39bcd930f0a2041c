SPECIFICATION FairSpec
CONSTANTS
  r1 = r1
  r2 = r2
  NoOne = NoOne
  Requests = {r1, r2}
INVARIANTS
  PromptIsTruthful
  PromptIsShown
  ClickNamesWhatIsShown
PROPERTIES
  NoClickIsLost
  OutcomeGoes
\* The model stops when every request is over, as does a stopped panel.
CHECK_DEADLOCK FALSE
