SPECIFICATION FairSpec
CONSTANTS
  Ssids = {home, field}
  None = None
  BootGrace = 2
  LostGrace = 1
  Retry = 1
  MaxAsks = 2
INVARIANTS
  SettingsNotForgotten
PROPERTIES
  Reachable
  PinObeyed
