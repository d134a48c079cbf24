SPECIFICATION Spec
CONSTANTS
  Methods = {"GET", "POST"}
  MaxRedirects = 2
  MaxPoolSize = 1
INVARIANTS
  OneUser
  AnsweredOnce
PROPERTIES
  ImplementsChain
  Finishes
