------------------------------- MODULE Tools -------------------------------
(***************************************************************************)
(* The small tools of the repository.  They do not interact: a behaviour   *)
(* is a run of one of them, chosen at the beginning, on a system that goes *)
(* on changing around it.                                                  *)
(***************************************************************************)
EXTENDS RtcpWalk, WindowWalk, FileNames, RouteTable, ScanSetup

VARIABLE tool    (* "rtcp", "windows", "files", "routes", "scan"           *)

vars == <<tool, rtcp, windows, files, route, scan>>

(* What the tools that do not run begin with makes no difference.         *)
Init ==
  /\ tool \in {"rtcp", "windows", "files", "routes", "scan"}
  /\ RtcpInit /\ WindowInit /\ FilesInit /\ RoutesInit /\ ScanInit
  /\ tool # "rtcp" => packet_length = 0 /\ pHeader = <<0, 0>>
  /\ tool # "windows" => method = "GetWindow" /\ zorder = << >>
  /\ tool # "routes" => route_tool = 1 /\ routes = 1

(* The tool itself.                                                        *)
ToolStep ==
  /\ \/ tool = "rtcp"    /\ ParseBlock     /\ UNCHANGED <<windows, files, route, scan>>
     \/ tool = "windows" /\ WindowWalkStep /\ UNCHANGED <<rtcp, files, route, scan>>
     \/ tool = "files"   /\ FilesStep      /\ UNCHANGED <<rtcp, windows, route, scan>>
     \/ tool = "routes"  /\ RoutesStep     /\ UNCHANGED <<rtcp, windows, files, scan>>
     \/ tool = "scan"    /\ ScanStep       /\ UNCHANGED <<rtcp, windows, files, route>>
  /\ UNCHANGED tool

(* What goes on around it.                                                 *)
Others ==
  /\ \/ tool = "windows" /\ OtherPrograms /\ UNCHANGED <<rtcp, files, route, scan>>
     \/ tool = "routes"  /\ Reroute       /\ UNCHANGED <<rtcp, windows, files, scan>>
  /\ UNCHANGED tool

Next == ToolStep \/ Others

Ended ==
  CASE tool = "rtcp"    -> RtcpEnded
    [] tool = "windows" -> WindowsEnded
    [] tool = "files"   -> FilesEnded
    [] tool = "routes"  -> RoutesEnded
    [] tool = "scan"    -> ScanEnded

(* RTCP_Parser opens its file before it begins to walk.                   *)
Holds ==
  CASE tool = "rtcp"    -> {"file"}
    [] tool = "files"   -> held
    [] tool = "windows" -> IF snapshot THEN {"snapshot"} ELSE {}
    [] tool = "routes"  -> blocks
    [] tool = "scan"    -> kept

Spec == Init /\ [][Next]_vars /\ WF_vars(ToolStep)
----------------------------------------------------------------------------
(***************************************************************************)
(* EverythingReleased: whichever calls failed, a tool that ends has closed *)
(* its handles and freed its memory but for what the code never gives      *)
(* back.  That is the file of RTCP_Parser; the snapshot of Source.cpp;     *)
(* with IpForwardTool2's table both the buffer it replaced and the table,  *)
(* which goes to HeapFree and not to FreeMibTable; and of the scan, once   *)
(* the number typed was right, the list of devices, with it an adapter     *)
(* object without a file or else the compiled filter, and the handle of    *)
(* the thread.  A scan that starts goes on to use its handle.              *)
(***************************************************************************)
Leftovers ==
  CASE tool = "rtcp"   -> {{"file"}}
    [] tool = "files"  -> {{}, {"snapshot"}}
    [] tool = "routes" ->
         {IF route_tool = 2 /\ written # 0 THEN {"ours", "system's"} ELSE {}}
    [] tool = "scan" /\ nChoose \in DOMAIN devices ->
         IF scan_at = "started"
         THEN {{"devices", "filter", "handle"}, {"devices", "filter", "handle", "thread"}}
         ELSE {{"devices"}, {"devices", "adapter"}, {"devices", "filter"}}
    [] OTHER           -> {{}}
EverythingReleased == Ended => Holds \in Leftovers

(***************************************************************************)
(* ToolsEnd: if a tool is given the processor it ends, whatever the other  *)
(* programs do and whatever length a block of an RTCP packet claims, 0     *)
(* among them.                                                             *)
(***************************************************************************)
ToolsEnd == <>Ended
============================================================================
