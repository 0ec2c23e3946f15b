------------------------------ MODULE MCTools ------------------------------
(***************************************************************************)
(* A receive buffer of 48 bytes with packets up to all of it; three        *)
(* windows; four drives: the device of the first is the beginning of the   *)
(* device of the second (1, 10), that of the fourth of the third's (20,    *)
(* 2).  Images are on these and on two devices without a drive, 11 and 3;  *)
(* the first drive is the beginning of 11 too.                             *)
(***************************************************************************)
EXTENDS Tools

MCPacketSizes  == {0, 3, 5, 8, 28, 36, 48}
MCBlockTypes   == {SR, 201}
MCBlockLengths == {0, 1, 6, 8, 256, 65535}
MCDeviceOf     == << <<"1">>, <<"1", "0">>, <<"2", "0">>, <<"2">> >>
MCVolumes      == ToSet(MCDeviceOf) \cup {<<"1", "1">>, <<"3">>}
MCDeviceLists  ==
  {<< >>, <<{"inet"}>>, <<{"other"}>>, <<{"inet", "no mask"}, {}>>,
   <<{"other"}, {"inet", "other"}>>}
============================================================================
