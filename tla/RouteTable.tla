---------------------------- MODULE RouteTable ----------------------------
(***************************************************************************)
(* IpForwardTool and IpForwardTool2: get the table of routes, print it,    *)
(* free it.  The first asks for the size of the table and gets the table   *)
(* with a second call; routes come and go between the two.  Sizes are      *)
(* numbers of routes, and there is always a route (to the host itself).    *)
(***************************************************************************)
EXTENDS Naturals

CONSTANTS
  MaxRoutes,    (* bound: routes there can be                              *)
  MaxReroutes   (* bound: changes of the table by the system               *)

ASSUME RouteAssumption == MaxRoutes \in Nat \ {0} /\ MaxReroutes \in Nat

OneEntry == 1   (* sizeof (MIB_IPFORWARDTABLE)                             *)

VARIABLES
  route_tool,   (* 1: IpForwardTool, 2: IpForwardTool2                     *)
  route_at,     (* the call main makes next                                *)
  routes,       (* routes of the system                                    *)
  reroutes,     (* changes so far                                          *)
  room,         (* routes the buffer has room for                          *)
  dwSize,       (* routes GetIpForwardTable is told there is room for      *)
  written,      (* routes the system wrote into the buffer                 *)
  blocks,       (* "ours", "system's": memory the program holds            *)
  grown,        (* a route came after the size was asked for (history)     *)
  refused       (* a call failed for another reason (history)              *)

route == <<route_tool, route_at, routes, reroutes, room, dwSize, written,
           blocks, grown, refused>>

RoutesInit ==
  /\ route_tool \in {1, 2} /\ route_at = "malloc"
  /\ routes \in 1 .. MaxRoutes /\ reroutes = 0
  /\ room = 0 /\ dwSize = 0 /\ written = 0 /\ blocks = {}
  /\ grown = FALSE /\ refused = FALSE

Malloc ==
  /\ route_at = "malloc"
  /\ \/ /\ blocks' = {"ours"} /\ room' = OneEntry
        /\ route_at' = IF route_tool = 1 THEN "size" ELSE "table2"
        /\ UNCHANGED refused
     \/ refused' = TRUE /\ route_at' = "ended" /\ UNCHANGED <<blocks, room>>
  /\ UNCHANGED <<route_tool, routes, reroutes, dwSize, written, grown>>

(* Slip: the buffer for one route is kept.                                 *)
RoomKept == room
RoomAllocated == dwSize'

(* GetIpForwardTable with a size of 0.  Any failure but a lack of room is  *)
(* left to the second call to find, with the size still 0.                 *)
AskSize ==
  /\ route_at = "size"
  /\ \/ /\ dwSize' = routes
        /\ \/ room' = RoomAllocated /\ route_at' = "fill" /\ UNCHANGED <<blocks, refused>>
           \/ /\ blocks' = {} /\ room' = 0                   (* no memory *)
              /\ refused' = TRUE /\ route_at' = "ended"
     \/ refused' = TRUE /\ route_at' = "fill" /\ UNCHANGED <<dwSize, room, blocks>>
  /\ UNCHANGED <<route_tool, routes, reroutes, written, grown>>

(* The second call, printing, and FREE on both ways.                       *)
FillTable ==
  /\ route_at = "fill"
  /\ \/ routes <= dwSize /\ written' = routes /\ UNCHANGED <<dwSize, refused>>
     \/ routes > dwSize /\ dwSize' = routes /\ UNCHANGED <<written, refused>>
     \/ refused' = TRUE /\ UNCHANGED <<written, dwSize>>
  /\ blocks' = blocks \ {"ours"}
  /\ route_at' = "ended"
  /\ UNCHANGED <<route_tool, routes, reroutes, room, grown>>

(* GetIpForwardTable2 puts the address of its own table over ours.         *)
GetIpForwardTable2 ==
  /\ route_at = "table2"
  /\ \/ /\ blocks' = blocks \cup {"system's"} /\ route_at' = "print"
        /\ room' = routes /\ written' = routes /\ UNCHANGED refused
     \/ /\ blocks' = blocks \ {"ours"} /\ route_at' = "ended"
        /\ refused' = TRUE /\ UNCHANGED <<room, written>>
  /\ UNCHANGED <<route_tool, routes, reroutes, dwSize, grown>>

(* HeapFree on the system's table, which is no block of the program's heap *)
(* but FreeMibTable's to release: it stays.                                *)
FreeTable2 ==
  /\ route_at = "print"
  /\ route_at' = "ended"
  /\ UNCHANGED <<route_tool, routes, reroutes, room, dwSize, written, blocks,
                 grown, refused>>

RoutesStep ==
  \/ Malloc \/ AskSize \/ FillTable \/ GetIpForwardTable2 \/ FreeTable2

(* Routes come and go.                                                     *)
Reroute ==
  /\ reroutes < MaxReroutes /\ route_at # "ended"
  /\ reroutes' = reroutes + 1
  /\ routes' \in (1 .. MaxRoutes) \ {routes}
  /\ grown' = (grown \/ (route_at = "fill" /\ routes' > routes))
  /\ UNCHANGED <<route_tool, route_at, room, dwSize, written, blocks, refused>>

RoutesEnded == route_at = "ended"
---------------------------------------------------------------------------
(***************************************************************************)
(* TableFitsOrGrew: the system never writes more routes than the buffer    *)
(* has room for, and a tool ends without a table only if a call failed or  *)
(* the table of IpForwardTool grew after its size was asked for (there is  *)
(* no second try).                                                         *)
(***************************************************************************)
TableFitsOrGrew ==
  /\ written <= room
  /\ RoutesEnded /\ written = 0 => refused \/ grown
===========================================================================
