SPECIFICATION FairSpec
CONSTANTS
  None = none
  Form <- Texts
  Rules <- ShippedRules
  Call = {c1, c2}
  Id = {1, 2, 3, 4, 5}
  Strategy = "keystone"
  Keystone <- Tokens
  AlarmToken <- RootToken
  Collection = "vims"
  New = new
  Request <- VimRequests
  FirstRows <- VimRows
  Member = "vim"
  Handler = "vim"
  Table <- Vims
  AllowBulk = TRUE
  Undoable = TRUE
  Raises = {"Conflict"}
  Reader <- Bob
  Limit = 1
  MaxLimit = 2
  Files <- TreeFiles
  Extending <- TreeExtended
  Requires <- TreeRequires
  Configs <- TreePlugins
  PluginOf <- TreePluginOf
  HostFails = TRUE
  Window = 2
  MaxBoots = 1
CHECK_DEADLOCK FALSE
INVARIANTS TypeOK RequiredFirst NoneLeftReady FailedLeavesNothing StoredIsValid WalkSeesStable
PROPERTIES OwnersOnly StartEnds
