SPECIFICATION EagerSpec
CONSTANTS
  c1 = c1
  c2 = c2
  Clients = {c1, c2}
  NoClient = NoClient
  Chars <- Letters
  Scripts <- SomeScripts
  Site <- OneSite
  BuffSize = 4
  Timeout = 1
INVARIANTS
  TypeOK
  AllAnswered
PROPERTIES
  KeepsPromise
  OneSecondInAll
  EveryoneServed
CHECK_DEADLOCK FALSE
