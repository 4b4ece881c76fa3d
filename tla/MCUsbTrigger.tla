---------------------------- MODULE MCUsbTrigger ----------------------------
EXTENDS NetlinkLaunch
CONSTANTS i1, i2, c1, c2
TwoInterfaces == {i1, i2}
TwoClients == {c1, c2}
=============================================================================
