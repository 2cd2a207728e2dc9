SPECIFICATION Spec
CONSTANTS
  Many = 9
  Words <- MCWords
  Positional <- MCPositional
  Letters <- MCLettersOf
  Assigned <- MCAssignedOf
  Lines <- MCLines
INVARIANTS TypeOK AsTheGrammar ValuesBelong
PROPERTIES ParsingEnds
