SPECIFICATION FairSpec
CONSTANTS
  Lines <- MCLines
  KEYBOARD = 1
  MaxSpurious = 1
INVARIANTS
  TypeOK
  HandlersExclude
  NestsByPriority
  AllAcknowledged
PROPERTIES
  EndsWhatIsHandled
  RequestsServed
