CONSTANTS
  None = None
  MaxSafe = 100000
  Alphabet <- MCAlphabet
  Scenes <- MCScenes
  Cards <- MCCards
  PrivateMaps <- MCPrivateMaps
  DeclarationMaps <- MCDeclarationMaps
  MaxCards = 2
SPECIFICATION Spec
INVARIANTS CalendarIsCivil RowsApplyAsPublished
PROPERTIES EveryRowApplies RewritingIsInvisible
CHECK_DEADLOCK FALSE
