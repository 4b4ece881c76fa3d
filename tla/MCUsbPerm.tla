------------------------------ MODULE MCUsbPerm ------------------------------
EXTENDS PermDriver
CONSTANTS i1, i2, d1, d2
MCInterfaces == {i1, i2}
MCDevices == {d1, d2}
MCActors == {i1, i2, Loader}
(* Two phones with one interface each.                                     *)
MCDeviceOf == [i \in MCInterfaces |-> IF i = i1 THEN d1 ELSE d2]
=============================================================================
