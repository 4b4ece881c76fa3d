SPECIFICATION PermSpec
CONSTANTS
  i1 = i1
  i2 = i2
  d1 = d1
  d2 = d2
  Loader = Loader
  Actors <- MCActors
  Interfaces <- MCInterfaces
  Devices <- MCDevices
  DeviceOf <- MCDeviceOf
  RWX = {"r", "w", "x"}
  Modes = {{"r", "x", "dir"}, {"r", "w", "x", "dir"}}
INVARIANTS LockedWhenUnbound OpenWhenBound LockedWhileLoaded
PROPERTIES SavesOriginal StaysLost
