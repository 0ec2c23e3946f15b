---------------------------- MODULE MCLanScan ----------------------------
(***************************************************************************)
(* Subnets of 1, 2, 4 and 8 addresses and two devices, the second of them  *)
(* at the last address that is asked in the largest one.                   *)
(***************************************************************************)
EXTENDS LanScan

MCHostBits == {0, 1, 2, 3}
MCDevice   == {2, 5}
BothFail   == {"CreateThread", "send"}
NoneFails  == {}
==========================================================================
