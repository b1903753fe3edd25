SPECIFICATION Spec
CONSTANTS
  None = none
  Unkeyed = unkeyed
  Templates <- AllMeads
  Givens <- SomeGivens
  Unsupported = {"port_security_enabled"}
  FlavorExtra = {"hw:extra"}
  HexPart = {"fe"}
CHECK_DEADLOCK FALSE
INVARIANTS StackStands VdusCarryTheirs AlarmsAreWired AlarmDoesItsActions
