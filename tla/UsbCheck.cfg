SPECIFICATION NotifyFairSpec
CONSTANTS
  Devices = {d1, d2}
  Allowed = {d1}
  Ejects = FALSE
  NoDevice = NoDevice
INVARIANTS EveryDeviceJudged
PROPERTIES UnregisterEnds HubKeepsUp
