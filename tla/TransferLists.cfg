SPECIFICATION ListSpec
INVARIANTS
  ListIntact
  TogglesAgree
  ExtractsDescriptor
CHECK_DEADLOCK FALSE
