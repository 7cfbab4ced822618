-------------------------- MODULE MCDeviceRegistry --------------------------
(* Instances of DeviceRegistry for TLC.                                    *)
EXTENDS DeviceRegistry

CONSTANTS p1, p2

TwoProducts == {p1, p2}
TwoTypes == <<p1, p2>>
TwoLocations == 1 .. 2
=============================================================================
