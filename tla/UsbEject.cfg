SPECIFICATION NotifyFairSpec
CONSTANTS
  Devices = {d1, d2}
  Allowed = {d1}
  Ejects = TRUE
  NoDevice = NoDevice
PROPERTIES EjectsUnauthorized
