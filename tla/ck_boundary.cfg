SPECIFICATION Spec
CONSTANTS
  NoBody = NoBody
  StepBack = 3
  Jobs <- MCWide
INVARIANT EndsOnChar
