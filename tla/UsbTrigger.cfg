SPECIFICATION LaunchSpec
CONSTANTS
  i1 = i1
  i2 = i2
  c1 = c1
  c2 = c2
  Interfaces <- TwoInterfaces
  Clients <- TwoClients
INVARIANTS LaunchJustified FlagHasStick
PROPERTIES Answered Consults
