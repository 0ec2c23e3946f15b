--------------------------- MODULE ToolsProofs ---------------------------
(***************************************************************************)
(* The small tools, for every packet, every list of windows and of         *)
(* devices, every table of routes, and whatever the other programs do.     *)
(***************************************************************************)
EXTENDS Tools, FiniteSetTheorems, SequenceTheorems, TLAPS

(* RTCP_Parser: the fields are numbers.                                    *)
RtcpInv ==
  /\ packet_length \in Nat /\ offset \in Nat /\ pHeader \in Nat \X Nat
  /\ OverreadsOnlyMalformed

(* GetOriginalFileName: what is held at which step, and which drive was    *)
(* found.                                                                  *)
HeldAt(step) ==
  CASE step = "start"                              -> {}
    [] step \in {"next", "OpenProcess", "open"}    -> {"snapshot"}
    [] step \in {"image", "GetLogicalDriveStrings", "drives"} -> {"snapshot", "process"}
    [] step = "data"                               -> {"snapshot", "version data"}
FileSteps == {"start", "next", "OpenProcess", "image", "GetLogicalDriveStrings", "drives",
              "open", "data"}
NoneOf(n) == \A m \in 1 .. n : ~Matches(DeviceOf[m])
Found ==
  /\ path = "drive"  => drive \in 1 .. Drives /\ Matches(DeviceOf[drive]) /\ NoneOf(drive - 1)
  /\ path = "device" => NoneOf(Drives)
FilesInv ==
  /\ \/ file_at \in FileSteps /\ held = HeldAt(file_at)
     \/ file_at = "ended" /\ held \in {{}, {"snapshot"}}
  /\ file_at \in {"OpenProcess", "image", "GetLogicalDriveStrings", "drives"} => path = "empty"
  /\ path \in {"empty", "drive", "device"}
  /\ file_at \in {"GetLogicalDriveStrings", "drives"} => device \in Volumes
  /\ file_at = "GetLogicalDriveStrings" => drive = 1
  /\ file_at = "drives" => drive \in Nat \ {0} /\ NoneOf(drive - 1)
  /\ file_at \in {"open", "data"} /\ path # "empty" => device \in Volumes
  /\ file_at \in {"open", "data"} /\ drive # NoDrive => Found

(* IpForwardTool and IpForwardTool2: the memory held at which step, and    *)
(* what is known of the sizes.                                             *)
BlocksAt(step) ==
  CASE step = "malloc"                    -> {}
    [] step \in {"size", "fill", "table2"} -> {"ours"}
    [] step = "print"                     -> {"ours", "system's"}
    [] step = "ended" -> IF route_tool = 2 /\ written # 0 THEN {"ours", "system's"} ELSE {}
RouteInv ==
  /\ route_tool \in {1, 2} /\ routes \in Nat \ {0}
  /\ {room, dwSize, written} \subseteq Nat
  /\ route_at \in {"malloc", "size", "fill", "table2", "print", "ended"}
  /\ blocks = BlocksAt(route_at)
  /\ route_at \in {"table2", "print"} => route_tool = 2
  /\ route_at \in {"size", "fill"} => route_tool = 1
  /\ route_at \in {"malloc", "size", "fill", "table2"} => written = 0
  /\ route_at = "malloc" => dwSize = 0
  /\ route_at = "size" => dwSize <= room
  /\ route_at = "fill" => dwSize <= room /\ (routes <= dwSize \/ grown \/ refused)
  /\ route_at = "print" => written # 0
  /\ TableFitsOrGrew

(* The scan up to its thread: what is kept at which step.                  *)
KeptAt(step) ==
  CASE step = "start"                             -> {{}}
    [] step \in {"choose", "address", "open adapter", "open"} -> {{"devices"}}
    [] step = "malloc"                            -> {{"devices", "adapter"}}
    [] step = "request"                           -> {{"devices", "adapter", "OID data"}}
    [] step = "compile"                           -> {{"devices", "handle"}}
    [] step \in {"filter", "thread"}              -> {{"devices", "handle", "filter"}}
    [] step = "started" ->
         {{"devices", "filter", "handle"}, {"devices", "filter", "handle", "thread"}}
    [] step = "gave up" ->
         IF nChoose \in DOMAIN devices
         THEN {{"devices"}, {"devices", "adapter"}, {"devices", "filter"}} ELSE {{}}
ScanInv ==
  /\ scan_at \in {"start", "choose", "address", "open adapter", "malloc", "request", "open",
                  "compile", "filter", "thread", "started", "gave up"}
  /\ kept \in KeptAt(scan_at)
  /\ scan_at = "start" => nChoose \notin DOMAIN devices
  /\ scan_at \notin {"start", "choose", "gave up"} => nChoose \in DOMAIN devices

(* DealAllWindows.  No window is in a list twice.                          *)
Unrepeated(s) == \A j, k \in DOMAIN s : s[j] = s[k] => j = k
WindowType ==
  /\ method \in {"GetWindow", "EnumWindow", "GetOwnerWnd"}
  /\ zorder \in Seq(Windows) /\ Unrepeated(zorder)
  /\ listed \in Seq(Windows) /\ Unrepeated(listed)
  /\ hWnd \in Windows \cup {NoWindow}
  /\ doing \in {"start", "check", "name", "next", "ended"}
  /\ visits \in [Windows -> Nat]
  /\ stayed \subseteq ToSet(zorder)
  /\ snapshot => doing = "name"
  /\ doing = "name" => method = "GetOwnerWnd"

(* EnumWindows: what is still listed is unvisited, what is no more, and    *)
(* not in hand, is visited if it stayed.                                   *)
Listing ==
  method # "GetWindow" /\ doing # "start" =>
    /\ doing = "check" => hWnd \in Windows /\ visits[hWnd] = 0 /\ hWnd \notin ToSet(listed)
    /\ \A w \in ToSet(listed) : visits[w] = 0
    /\ \A w \in stayed \ ToSet(listed) : (doing = "check" => w # hWnd) => visits[w] = 1
    /\ doing = "ended" => listed = << >>

(* GetWindow: as long as the window in hand is in the list and none passes *)
(* it, those above it are visited and those below are not.                 *)
Behind == Above(hWnd) \cup (IF doing = "next" THEN {hWnd} ELSE {})
Walking ==
  method = "GetWindow" /\ ~lost /\ ~passed =>
    /\ doing \in {"check", "next"} =>
         /\ hWnd = NoWindow \/ hWnd \in ToSet(zorder)
         /\ hWnd = NoWindow => \A w \in stayed : visits[w] = 1
         /\ hWnd # NoWindow =>
              \A w \in stayed : visits[w] = IF w \in Behind THEN 1 ELSE 0
    /\ doing = "ended" => \A w \in stayed : visits[w] = 1

WindowInv == WindowType /\ Listing /\ Walking

Inv ==
  /\ tool \in {"rtcp", "windows", "files", "routes", "scan"}
  /\ RtcpInv /\ FilesInv /\ RouteInv /\ ScanInv /\ WindowInv
--------------------------------------------------------------------------
LEMMA HeadersAreNumbers ==
  ASSUME NEW o
  PROVE  HeadersAt(o) \subseteq Nat \X Nat
<1>1. BlockTypes \cup {0} \subseteq Nat /\ BlockLengths \cup {0} \subseteq Nat
  <2>1. \A m : 0 .. m \subseteq Nat
    OBVIOUS
  <2>2. BlockTypes \subseteq Nat
    <3>1. BlockTypes \subseteq 0 .. 2 ^ 8 - 1
      BY RtcpAssumption
    <3> QED BY <2>1, <3>1
  <2>3. BlockLengths \subseteq Nat
    <3>1. BlockLengths \subseteq 0 .. 2 ^ 16 - 1
      BY RtcpAssumption
    <3> QED BY <2>1, <3>1
  <2> QED BY <2>2, <2>3
<1>2. CASE o + 4 <= packet_length
  BY <1>1, <1>2 DEF HeadersAt
<1>3. CASE ~(o + 4 <= packet_length) /\ o + 4 <= BufferSize
  BY <1>1, <1>3 DEF HeadersAt
<1>4. CASE ~(o + 4 <= packet_length) /\ ~(o + 4 <= BufferSize)
  BY <1>1, <1>4 DEF HeadersAt
<1> QED BY <1>2, <1>3, <1>4

LEMMA RtcpStep ==
  ASSUME RtcpInv, ParseBlock
  PROVE  RtcpInv'
<1> DEFINE type == pHeader[1]  length == pHeader[2]
<1>1. /\ overread' = (overread \/ offset + ReadUpTo(type) > packet_length)
      /\ malformed' = \/ malformed
                      \/ offset + 4 * length + 4 > packet_length
                      \/ length < (IF type = SR THEN 6 ELSE 1)
      /\ offset' = offset + Advance(length) /\ packet_length' = packet_length
      /\ pHeader' \in {pHeader} \cup HeadersAt(offset')
  BY DEF ParseBlock
<1>2. type \in Nat /\ length \in Nat /\ offset \in Nat /\ packet_length \in Nat
  BY DEF RtcpInv
<1>3. pHeader' \in Nat \X Nat
  BY <1>1, HeadersAreNumbers DEF RtcpInv
<1> HIDE DEF type, length
<1>4. offset + ReadUpTo(type) > packet_length =>
        \/ offset + 4 * length + 4 > packet_length
        \/ length < (IF type = SR THEN 6 ELSE 1)
  BY <1>2 DEF ReadUpTo
<1>5. offset' \in Nat /\ packet_length' \in Nat
  BY <1>1, <1>2 DEF Advance
<1> QED BY <1>1, <1>3, <1>4, <1>5 DEF RtcpInv, OverreadsOnlyMalformed

LEMMA FilesStepInv ==
  ASSUME FilesInv, FilesStep
  PROVE  FilesInv'
<1>1. CASE CreateToolhelp32Snapshot \/ Process32Next \/ OpenProcess
  <2>1. CASE CreateToolhelp32Snapshot
    BY <2>1 DEF CreateToolhelp32Snapshot, GoesTo, FilesInv, FileSteps, HeldAt
  <2>2. CASE Process32Next
    BY <2>2 DEF Process32Next, GoesTo, FilesInv, FileSteps, HeldAt
  <2>3. CASE OpenProcess
    BY <2>3 DEF OpenProcess, GoesTo, FilesInv, FileSteps, HeldAt, Found
  <2> QED BY <1>1, <2>1, <2>2, <2>3
<1>2. CASE GetProcessImageFileName
  <2>1. CASE /\ file_at = "image" /\ file_at' = "GetLogicalDriveStrings" /\ held' = held
             /\ path' = path /\ device' \in Volumes /\ drive' = 1
    BY <2>1 DEF FilesInv, FileSteps, HeldAt
  <2>2. CASE /\ file_at = "image" /\ file_at' = "open" /\ held' = held \ {"process"}
             /\ path' = path
    BY <2>2 DEF FilesInv, FileSteps, HeldAt, Found
  <2> QED BY <1>2, <2>1, <2>2 DEF GetProcessImageFileName, GoesTo, FullPathDone
<1>3. CASE GetLogicalDriveStrings
  <2>1. /\ file_at = "GetLogicalDriveStrings" /\ device' = device /\ path = "empty" /\ drive = 1
        /\ device \in Volumes /\ held = {"snapshot", "process"}
    BY <1>3 DEF GetLogicalDriveStrings, FilesInv, FileSteps, HeldAt
  <2>2. CASE file_at' = "drives" /\ UNCHANGED <<held, drive, path>>
    BY <2>1, <2>2 DEF FilesInv, FileSteps, HeldAt, NoneOf
  <2>3. CASE /\ drive' = NoDrive /\ path' = "device" /\ file_at' = "open"
             /\ held' = held \ {"process"}
    BY <2>1, <2>3 DEF FilesInv, FileSteps, HeldAt
  <2> QED BY <1>3, <2>2, <2>3 DEF GetLogicalDriveStrings, FullPathDone, GoesTo
<1>4. CASE TryDrive
  <2>1. /\ file_at = "drives" /\ device' = device /\ path = "empty"
        /\ held = {"snapshot", "process"}
        /\ drive \in Nat \ {0} /\ device \in Volumes /\ NoneOf(drive - 1) /\ Drives \in Nat
    BY <1>4, FileAssumption DEF TryDrive, FilesInv, FileSteps, HeldAt
  <2>2. \A n : NoneOf(n)' = NoneOf(n)
    BY <2>1 DEF NoneOf, Matches
  <2>3. CASE /\ drive <= Drives /\ Matches(DeviceOf[drive]) /\ path' = "drive"
             /\ file_at' = "open" /\ held' = held \ {"process"} /\ drive' = drive
    <3>1. drive \in 1 .. Drives
      BY <2>1, <2>3
    <3>2. Matches(DeviceOf[drive])'
      BY <2>1, <2>3 DEF Matches
    <3>3. NoneOf(drive - 1)'
      BY <2>1, <2>2, <2>3 DEF NoneOf, Matches
    <3>4. Found'
      BY <2>3, <3>1, <3>2, <3>3 DEF Found
    <3> QED BY <2>1, <2>3, <3>4 DEF FilesInv, FileSteps, HeldAt
  <2>4. CASE /\ drive <= Drives /\ ~Matches(DeviceOf[drive])
             /\ drive' = drive + 1 /\ file_at' = file_at /\ held' = held /\ path' = path
    <3>1. NoneOf(drive' - 1)
      BY <2>1, <2>4 DEF NoneOf
    <3>2. NoneOf(drive - 1)'
      BY <2>1, <2>4, <3>1 DEF NoneOf, Matches
    <3> QED BY <2>1, <2>4, <3>2 DEF FilesInv, FileSteps, HeldAt
  <2>5. CASE /\ drive' = NoDrive /\ path' = path /\ file_at' = "open"
             /\ held' = held \ {"process"}
    BY <2>1, <2>5 DEF FilesInv, FileSteps, HeldAt
  <2>6. CASE /\ drive > Drives /\ path' = "device" /\ file_at' = "open"
             /\ held' = held \ {"process"} /\ drive' = drive
    <3>1. NoneOf(Drives)
      BY <2>1, <2>6 DEF NoneOf
    <3>2. Found'
      BY <2>1, <2>6, <3>1 DEF Found, NoneOf, Matches
    <3> QED BY <2>1, <2>6, <3>2 DEF FilesInv, FileSteps, HeldAt
  <2> QED BY <1>4, <2>3, <2>4, <2>5, <2>6 DEF TryDrive, FullPathDone, GoesTo
<1>5. CASE GetFileVersionInfo \/ Close
  <2>1. device' = device /\ drive' = drive /\ path' = path
    BY <1>5 DEF GetFileVersionInfo, Close
  <2>2. CASE GetFileVersionInfo
    <3>1. /\ file_at = "open" /\ file_at' \in {"data", "next"}
          /\ file_at' \in FileSteps /\ held' = HeldAt(file_at')
      BY <2>2 DEF GetFileVersionInfo, GoesTo, FilesInv, FileSteps, HeldAt
    <3>2. Found => Found'
      BY <2>1 DEF Found, NoneOf, Matches
    <3> QED BY <2>1, <3>1, <3>2 DEF FilesInv, FileSteps, HeldAt
  <2>3. CASE Close
    <3>1. file_at' = "next" /\ held' = HeldAt(file_at')
      BY <2>3 DEF Close, GoesTo, FilesInv, FileSteps, HeldAt
    <3> QED BY <2>1, <3>1 DEF FilesInv, FileSteps, HeldAt
  <2> QED BY <1>5, <2>2, <2>3
<1> QED BY <1>1, <1>2, <1>3, <1>4, <1>5 DEF FilesStep

(* A device name matches the device of a path and its separator just if it *)
(* is that device's name or the beginning of it.                           *)
LEMMA MatchIsPrefix ==
  ASSUME NEW C, NEW z \in C, NEW d \in Seq(C), NEW e \in Seq(C), d # << >> => d[Len(d)] # z
  PROVE  IsPrefix(d, Append(e, z)) <=> d = e \/ IsStrictPrefix(d, e)
<1> DEFINE t == Append(e, z)
<1>1. /\ Len(d) \in Nat /\ Len(e) \in Nat /\ t \in Seq(C)
      /\ Len(t) = Len(e) + 1 /\ t[Len(e) + 1] = z
      /\ \A k \in 1 .. Len(e) : t[k] = e[k]
  OBVIOUS
<1> HIDE DEF t
<1>2. ASSUME IsPrefix(d, t) PROVE d = e \/ IsStrictPrefix(d, e)
  <2>1. Len(d) <= Len(t) /\ SubSeq(d, 1, Len(d)) = SubSeq(t, 1, Len(d))
    BY <1>2 DEF IsPrefix
  <2>2. \A k \in 1 .. Len(d) : d[k] = t[k]
    <3> SUFFICES ASSUME NEW k \in 1 .. Len(d) PROVE d[k] = t[k]
      OBVIOUS
    <3>1. SubSeq(d, 1, Len(d))[k] = d[k] /\ SubSeq(t, 1, Len(d))[k] = t[k]
      BY <1>1, <2>1
    <3> QED BY <2>1, <3>1
  <2>3. Len(d) <= Len(e)
    <3> SUFFICES ASSUME Len(d) = Len(e) + 1 PROVE FALSE
      BY <1>1, <2>1
    <3>1. d # << >> /\ Len(d) \in 1 .. Len(d)
      BY <1>1
    <3> QED BY <1>1, <2>2, <3>1
  <2>4. \A k \in 1 .. Len(d) : d[k] = e[k]
    BY <1>1, <2>2, <2>3
  <2>5. SubSeq(d, 1, Len(d)) = SubSeq(e, 1, Len(d))
    BY <1>1, <2>3, <2>4
  <2> QED BY <2>3, <2>5 DEF IsPrefix, IsStrictPrefix
<1>3. ASSUME d = e \/ IsStrictPrefix(d, e) PROVE IsPrefix(d, t)
  <2>1. Len(d) <= Len(e) /\ SubSeq(d, 1, Len(d)) = SubSeq(e, 1, Len(d))
    BY <1>1, <1>3 DEF IsPrefix, IsStrictPrefix
  <2>2. SubSeq(t, 1, Len(d)) = SubSeq(e, 1, Len(d))
    BY <1>1, <2>1
  <2> QED BY <1>1, <2>1, <2>2 DEF IsPrefix
<1> QED BY <1>2, <1>3 DEF t

LEMMA RoutesStepInv ==
  ASSUME RouteInv, RoutesStep
  PROVE  RouteInv'
<1>1. CASE Malloc
  BY <1>1 DEF Malloc, RouteInv, BlocksAt, OneEntry, TableFitsOrGrew, RoutesEnded
<1>2. CASE AskSize
  BY <1>2 DEF AskSize, RouteInv, BlocksAt, RoomAllocated, TableFitsOrGrew, RoutesEnded
<1>3. CASE FillTable
  BY <1>3 DEF FillTable, RouteInv, BlocksAt, TableFitsOrGrew, RoutesEnded
<1>4. CASE GetIpForwardTable2
  BY <1>4 DEF GetIpForwardTable2, RouteInv, BlocksAt, TableFitsOrGrew, RoutesEnded
<1>5. CASE FreeTable2
  BY <1>5 DEF FreeTable2, RouteInv, BlocksAt, TableFitsOrGrew, RoutesEnded
<1> QED BY <1>1, <1>2, <1>3, <1>4, <1>5 DEF RoutesStep

LEMMA RerouteInv ==
  ASSUME RouteInv, Reroute
  PROVE  RouteInv'
<1>1. routes' \in Nat \ {0}
  BY RouteAssumption DEF Reroute
<1>2. /\ UNCHANGED <<route_tool, route_at, room, dwSize, written, blocks, refused>>
      /\ route_at # "ended"
      /\ grown' = (grown \/ (route_at = "fill" /\ routes' > routes))
  BY DEF Reroute
<1>3. BlocksAt(route_at)' = BlocksAt(route_at)
  BY <1>2 DEF BlocksAt
<1>4. TableFitsOrGrew'
  BY <1>2 DEF RouteInv, TableFitsOrGrew, RoutesEnded
<1>5. route_at = "fill" => routes' <= dwSize \/ grown' \/ refused
  <2>1. (grown => grown') /\ (route_at = "fill" /\ routes' > routes => grown')
    BY <1>2, Zenon
  <2>2. routes \in Nat /\ dwSize \in Nat
    BY DEF RouteInv
  <2>3. route_at = "fill" => routes <= dwSize \/ grown \/ refused
    BY DEF RouteInv
  <2> QED BY <1>1, <2>1, <2>2, <2>3
<1> QED BY <1>1, <1>2, <1>3, <1>4, <1>5 DEF RouteInv

LEMMA ScanStepInv ==
  ASSUME ScanInv, ScanStep
  PROVE  ScanInv'
<1>1. CASE FindAllDevs
  <2>1. CASE kept' = {"devices"} /\ scan_at' = "choose"
    BY <2>1 DEF ScanInv, KeptAt
  <2>2. CASE scan_at' = "gave up" /\ kept' = kept /\ devices' = devices
    <3>1. kept = {} /\ nChoose \notin DOMAIN devices /\ nChoose' = nChoose
      BY <1>1 DEF FindAllDevs, ScanInv, KeptAt
    <3> QED BY <2>2, <3>1 DEF ScanInv, KeptAt
  <2> QED BY <1>1, <2>1, <2>2 DEF FindAllDevs, GiveUpScan
<1>2. CASE Choose
  BY <1>2 DEF Choose, GiveUpScan, ScanInv, KeptAt
<1>3. CASE GetSelfAddr
  BY <1>3 DEF GetSelfAddr, GiveUpScan, ScanInv, KeptAt
<1>4. CASE OpenAdapter \/ MallocOidData \/ PacketRequest
  BY <1>4 DEF OpenAdapter, MallocOidData, PacketRequest, GiveUpScan, ScanInv, KeptAt
<1>5. CASE OpenLive \/ CompileFilter
  BY <1>5 DEF OpenLive, CompileFilter, GiveUpScan, ScanInv, KeptAt
<1>6. CASE SetFilter \/ StartThread
  BY <1>6 DEF SetFilter, StartThread, GiveUpScan, ScanInv, KeptAt
<1> QED BY <1>1, <1>2, <1>3, <1>4, <1>5, <1>6 DEF ScanStep
--------------------------------------------------------------------------
LEMMA ConcatFacts ==
  ASSUME NEW S, NEW a \in Seq(S), NEW b \in Seq(S)
  PROVE  /\ a \o b \in Seq(S) /\ Len(a \o b) = Len(a) + Len(b)
         /\ \A j \in 1 .. Len(a) : (a \o b)[j] = a[j]
         /\ \A j \in Len(a) + 1 .. Len(a) + Len(b) : (a \o b)[j] = b[j - Len(a)]
  OBVIOUS

(* In a list, v comes somewhere before w.                                  *)
Over(s, v, w) == \E j, k \in DOMAIN s : j < k /\ s[j] = v /\ s[k] = w

LEMMA RemoveFacts ==
  ASSUME NEW S, NEW s \in Seq(S), NEW k \in DOMAIN s, Unrepeated(s)
  PROVE  /\ RemoveAt(s, k) \in Seq(S) /\ Unrepeated(RemoveAt(s, k))
         /\ Len(RemoveAt(s, k)) = Len(s) - 1
         /\ \A j \in 1 .. Len(s) - 1 :
              RemoveAt(s, k)[j] = IF j < k THEN s[j] ELSE s[j + 1]
         /\ ToSet(RemoveAt(s, k)) = ToSet(s) \ {s[k]}
         /\ \A v, w \in S \ {s[k]} : Over(RemoveAt(s, k), v, w) <=> Over(s, v, w)
<1> DEFINE a == SubSeq(s, 1, k - 1)
           b == SubSeq(s, k + 1, Len(s))
           r == a \o b
<1>1. Len(s) \in Nat /\ DOMAIN s = 1 .. Len(s) /\ k \in 1 .. Len(s)
  OBVIOUS
<1>2. /\ a \in Seq(S) /\ Len(a) = k - 1 /\ \A j \in 1 .. k - 1 : a[j] = s[j]
      /\ b \in Seq(S) /\ Len(b) = Len(s) - k /\ \A j \in 1 .. Len(s) - k : b[j] = s[j + k]
  <2>1. \A j \in 1 .. Len(s) : s[j] \in S
    OBVIOUS
  <2>2. /\ a \in Seq(S) /\ Len(a) = (IF 1 <= k - 1 THEN (k - 1) - 1 + 1 ELSE 0)
        /\ \A j \in 1 .. (k - 1) - 1 + 1 : a[j] = s[1 + j - 1]
    BY <1>1, <2>1, SubSeqProperties
  <2>3. /\ b \in Seq(S)
        /\ Len(b) = (IF k + 1 <= Len(s) THEN Len(s) - (k + 1) + 1 ELSE 0)
        /\ \A j \in 1 .. Len(s) - (k + 1) + 1 : b[j] = s[(k + 1) + j - 1]
    BY <1>1, <2>1, SubSeqProperties
  <2> HIDE DEF a, b
  <2>4. Len(a) = k - 1 /\ \A j \in 1 .. k - 1 : 1 + j - 1 = j /\ a[j] = s[j]
    BY <1>1, <2>2
  <2>5. Len(s) - (k + 1) + 1 = Len(s) - k /\ \A j \in 1 .. Len(s) - k : (k + 1) + j - 1 = j + k
    BY <1>1
  <2>6. Len(b) = Len(s) - k
    BY <1>1, <2>3
  <2>7. \A j \in 1 .. Len(s) - k : b[j] = s[j + k]
    BY <2>3, <2>5
  <2> QED BY <2>2, <2>3, <2>4, <2>6, <2>7
<1> HIDE DEF a, b
<1>3. /\ r \in Seq(S) /\ Len(r) = Len(a) + Len(b)
      /\ \A j \in 1 .. Len(a) : r[j] = a[j]
      /\ \A j \in Len(a) + 1 .. Len(a) + Len(b) : r[j] = b[j - Len(a)]
  BY <1>2, ConcatFacts
<1> HIDE DEF r
<1>4. Len(r) = Len(s) - 1 /\ DOMAIN r = 1 .. Len(s) - 1
  BY <1>1, <1>2, <1>3
<1>5. \A j \in 1 .. Len(s) - 1 : r[j] = IF j < k THEN s[j] ELSE s[j + 1]
  <2> SUFFICES ASSUME NEW j \in 1 .. Len(s) - 1
               PROVE  r[j] = IF j < k THEN s[j] ELSE s[j + 1]
    OBVIOUS
  <2>1. CASE j < k
    <3>1. j \in 1 .. Len(a) /\ j \in 1 .. k - 1
      BY <1>1, <1>2, <2>1
    <3>2. r[j] = a[j] /\ a[j] = s[j]
      BY <1>2, <1>3, <3>1
    <3> QED BY <2>1, <3>2
  <2>2. CASE j >= k
    <3>1. j - Len(a) \in 1 .. Len(s) - k /\ (j - Len(a)) + k = j + 1
      BY <1>1, <1>2, <2>2
    <3>2. j \in Len(a) + 1 .. Len(a) + Len(b)
      BY <1>1, <1>2, <2>2
    <3>3. r[j] = b[j - Len(a)] /\ b[j - Len(a)] = s[(j - Len(a)) + k]
      BY <1>2, <1>3, <3>1, <3>2
    <3> QED BY <1>1, <2>2, <3>1, <3>3
  <2> QED BY <1>1, <2>1, <2>2
<1>6. Unrepeated(r)
  <2> SUFFICES ASSUME NEW i \in DOMAIN r, NEW j \in DOMAIN r, r[i] = r[j] PROVE i = j
    BY DEF Unrepeated
  <2>1. PICK x \in DOMAIN s : r[i] = s[x] /\ x = IF i < k THEN i ELSE i + 1
    BY <1>1, <1>4, <1>5
  <2>2. PICK y \in DOMAIN s : r[j] = s[y] /\ y = IF j < k THEN j ELSE j + 1
    BY <1>1, <1>4, <1>5
  <2>3. x = y
    BY <2>1, <2>2 DEF Unrepeated
  <2> QED BY <1>1, <1>4, <2>1, <2>2, <2>3
<1>7. ToSet(r) = ToSet(s) \ {s[k]}
  <2>1. ASSUME NEW j \in DOMAIN r PROVE r[j] \in ToSet(s) \ {s[k]}
    <3>1. PICK x \in DOMAIN s : r[j] = s[x] /\ x = IF j < k THEN j ELSE j + 1
      BY <1>1, <1>4, <1>5
    <3>2. x # k
      BY <1>1, <1>4, <3>1
    <3> QED BY <3>1, <3>2 DEF ToSet, Unrepeated
  <2>2. ASSUME NEW x \in DOMAIN s, s[x] # s[k] PROVE \E j \in DOMAIN r : r[j] = s[x]
    <3>1. CASE x < k
      BY <1>1, <1>4, <1>5, <3>1
    <3>2. CASE x > k
      <4>1. x - 1 \in 1 .. Len(s) - 1 /\ ~(x - 1 < k) /\ (x - 1) + 1 = x
        BY <1>1, <3>2
      <4>2. r[x - 1] = s[x]
        BY <1>5, <4>1
      <4> QED BY <1>4, <4>1, <4>2
    <3> QED BY <1>1, <2>2, <3>1, <3>2
  <2> QED BY <2>1, <2>2 DEF ToSet
<1>8. r = RemoveAt(s, k)
  BY DEF r, a, b, RemoveAt
<1>9. ASSUME NEW v \in S \ {s[k]}, NEW w \in S \ {s[k]} PROVE Over(r, v, w) <=> Over(s, v, w)
  <2>1. ASSUME Over(r, v, w) PROVE Over(s, v, w)
    <3>1. PICK i \in DOMAIN r, j \in DOMAIN r : i < j /\ r[i] = v /\ r[j] = w
      BY <2>1 DEF Over
    <3>2. PICK x \in DOMAIN s : r[i] = s[x] /\ x = IF i < k THEN i ELSE i + 1
      BY <1>1, <1>4, <1>5
    <3>3. PICK y \in DOMAIN s : r[j] = s[y] /\ y = IF j < k THEN j ELSE j + 1
      BY <1>1, <1>4, <1>5
    <3>4. x < y
      BY <1>1, <1>4, <3>1, <3>2, <3>3
    <3> QED BY <3>1, <3>2, <3>3, <3>4 DEF Over
  <2>2. ASSUME Over(s, v, w) PROVE Over(r, v, w)
    <3>1. PICK x \in DOMAIN s, y \in DOMAIN s : x < y /\ s[x] = v /\ s[y] = w
      BY <2>2 DEF Over
    <3>2. x # k /\ y # k
      BY <3>1
    <3>3. PICK i \in DOMAIN r : i = IF x < k THEN x ELSE x - 1
      BY <1>1, <1>4, <3>2
    <3>4. PICK j \in DOMAIN r : j = IF y < k THEN y ELSE y - 1
      BY <1>1, <1>4, <3>2
    <3>5. r[i] = s[x] /\ r[j] = s[y] /\ i < j
      BY <1>1, <1>4, <1>5, <3>1, <3>2, <3>3, <3>4
    <3> QED BY <3>1, <3>5 DEF Over
  <2> QED BY <2>1, <2>2
<1> QED BY <1>3, <1>4, <1>5, <1>6, <1>7, <1>8, <1>9

LEMMA InsertFacts ==
  ASSUME NEW S, NEW s \in Seq(S), NEW n \in 1 .. Len(s) + 1, NEW w \in S,
         w \notin ToSet(s), Unrepeated(s)
  PROVE  /\ InsertAt(s, n, w) \in Seq(S) /\ Unrepeated(InsertAt(s, n, w))
         /\ ToSet(InsertAt(s, n, w)) = ToSet(s) \cup {w}
         /\ \A u, v \in S \ {w} : Over(InsertAt(s, n, w), u, v) <=> Over(s, u, v)
<1> DEFINE a == SubSeq(s, 1, n - 1)
           b == SubSeq(s, n, Len(s))
           c == a \o <<w>>
           r == c \o b
<1>1. Len(s) \in Nat /\ DOMAIN s = 1 .. Len(s)
  OBVIOUS
<1>2. /\ a \in Seq(S) /\ Len(a) = n - 1 /\ \A j \in 1 .. n - 1 : a[j] = s[j]
      /\ b \in Seq(S) /\ Len(b) = Len(s) - n + 1
      /\ \A j \in 1 .. Len(s) - n + 1 : b[j] = s[j + n - 1]
  <2>1. \A j \in 1 .. Len(s) : s[j] \in S
    OBVIOUS
  <2>2. /\ a \in Seq(S) /\ Len(a) = (IF 1 <= n - 1 THEN (n - 1) - 1 + 1 ELSE 0)
        /\ \A j \in 1 .. (n - 1) - 1 + 1 : a[j] = s[1 + j - 1]
    BY <1>1, <2>1, SubSeqProperties
  <2>3. /\ b \in Seq(S) /\ Len(b) = (IF n <= Len(s) THEN Len(s) - n + 1 ELSE 0)
        /\ \A j \in 1 .. Len(s) - n + 1 : b[j] = s[n + j - 1]
    BY <1>1, <2>1, SubSeqProperties
  <2> HIDE DEF a, b
  <2>4. Len(a) = n - 1 /\ \A j \in 1 .. n - 1 : 1 + j - 1 = j /\ a[j] = s[j]
    BY <1>1, <2>2
  <2>5. Len(b) = Len(s) - n + 1
    BY <1>1, <2>3
  <2>6. \A j \in 1 .. Len(s) - n + 1 : n + j - 1 = j + n - 1 /\ b[j] = s[j + n - 1]
    BY <1>1, <2>3
  <2> QED BY <2>2, <2>3, <2>4, <2>5, <2>6
<1> HIDE DEF a, b
<1>3. <<w>> \in Seq(S) /\ Len(<<w>>) = 1 /\ <<w>>[1] = w
  OBVIOUS
<1>4. /\ c \in Seq(S) /\ Len(c) = n /\ c[n] = w
      /\ \A j \in 1 .. n - 1 : c[j] = s[j]
  <2>1. /\ c \in Seq(S) /\ Len(c) = Len(a) + 1
        /\ \A j \in 1 .. Len(a) : c[j] = a[j]
        /\ \A j \in Len(a) + 1 .. Len(a) + 1 : c[j] = <<w>>[j - Len(a)]
    <3> DEFINE one == <<w>>
    <3>1. one \in Seq(S) /\ Len(one) = 1
      BY <1>3
    <3> HIDE DEF one
    <3>2. a \in Seq(S)
      BY <1>2
    <3>3. /\ a \o one \in Seq(S) /\ Len(a \o one) = Len(a) + Len(one)
          /\ \A j \in 1 .. Len(a) : (a \o one)[j] = a[j]
          /\ \A j \in Len(a) + 1 .. Len(a) + Len(one) : (a \o one)[j] = one[j - Len(a)]
      BY <3>1, <3>2, ConcatFacts
    <3> QED BY <3>1, <3>3 DEF one
  <2> HIDE DEF c
  <2>2. n \in Len(a) + 1 .. Len(a) + 1 /\ n - Len(a) = 1 /\ Len(c) = n
    BY <1>1, <1>2, <2>1
  <2> QED BY <1>2, <1>3, <2>1, <2>2
<1> HIDE DEF c
<1>5. /\ r \in Seq(S) /\ Len(r) = Len(c) + Len(b)
      /\ \A j \in 1 .. Len(c) : r[j] = c[j]
      /\ \A j \in Len(c) + 1 .. Len(c) + Len(b) : r[j] = b[j - Len(c)]
  BY <1>2, <1>4, ConcatFacts
<1> HIDE DEF r
<1>6. DOMAIN r = 1 .. Len(s) + 1 /\ r[n] = w
  BY <1>1, <1>2, <1>4, <1>5
<1>7. \A j \in 1 .. n - 1 : r[j] = s[j]
  BY <1>1, <1>4, <1>5
<1>8. \A j \in n + 1 .. Len(s) + 1 : r[j] = s[j - 1]
  <2> SUFFICES ASSUME NEW j \in n + 1 .. Len(s) + 1 PROVE r[j] = s[j - 1]
    OBVIOUS
  <2>1. j - n \in 1 .. Len(s) - n + 1 /\ (j - n) + n - 1 = j - 1
    BY <1>1
  <2>2. j \in Len(c) + 1 .. Len(c) + Len(b) /\ j - Len(c) = j - n
    BY <1>1, <1>2, <1>4
  <2> QED BY <1>2, <1>5, <2>1, <2>2
<1>9. \A j \in DOMAIN s : s[j] # w
  BY DEF ToSet
(* The places in the longer list and those in the shorter one.             *)
<1>10. ASSUME NEW j \in DOMAIN r, r[j] # w
       PROVE  \E x \in DOMAIN s : r[j] = s[x] /\ x = IF j < n THEN j ELSE j - 1
  <2>1. j \in 1 .. n - 1 \/ j \in n + 1 .. Len(s) + 1
    BY <1>1, <1>6, <1>10
  <2> QED BY <1>1, <1>7, <1>8, <2>1
<1>11. ASSUME NEW x \in DOMAIN s
       PROVE  \E j \in DOMAIN r : r[j] = s[x] /\ j = IF x < n THEN x ELSE x + 1
  <2>1. CASE x < n
    BY <1>1, <1>6, <1>7, <2>1
  <2>2. CASE x >= n
    <3>1. x + 1 \in n + 1 .. Len(s) + 1 /\ (x + 1) - 1 = x
      BY <1>1, <2>2
    <3>2. r[x + 1] = s[x] /\ x + 1 \in DOMAIN r /\ ~(x < n)
      BY <1>1, <1>6, <1>8, <2>2, <3>1
    <3> QED BY <3>2
  <2> QED BY <1>1, <2>1, <2>2
<1>12. Unrepeated(r)
  <2> SUFFICES ASSUME NEW i \in DOMAIN r, NEW j \in DOMAIN r, r[i] = r[j] PROVE i = j
    BY DEF Unrepeated
  <2>1. CASE r[i] = w
    <3>1. \A k \in 1 .. n - 1 : r[k] # w
      BY <1>1, <1>7, <1>9
    <3>2. \A k \in n + 1 .. Len(s) + 1 : r[k] # w
      BY <1>1, <1>8, <1>9
    <3>3. \A k \in DOMAIN r : r[k] = w => k = n
      BY <1>1, <1>6, <3>1, <3>2
    <3> QED BY <2>1, <3>3
  <2>2. CASE r[i] # w
    <3>1. PICK x \in DOMAIN s : r[i] = s[x] /\ x = IF i < n THEN i ELSE i - 1
      BY <1>10, <2>2
    <3>2. PICK y \in DOMAIN s : r[j] = s[y] /\ y = IF j < n THEN j ELSE j - 1
      BY <1>10, <2>2
    <3>3. x = y /\ i # n /\ j # n
      BY <1>6, <2>2, <3>1, <3>2 DEF Unrepeated
    <3> QED BY <1>1, <1>6, <3>1, <3>2, <3>3
  <2> QED BY <2>1, <2>2
<1>13. ToSet(r) = ToSet(s) \cup {w}
  <2>1. ASSUME NEW j \in DOMAIN r PROVE r[j] \in ToSet(s) \cup {w}
    BY <1>10 DEF ToSet
  <2>2. ASSUME NEW x \in DOMAIN s PROVE \E j \in DOMAIN r : r[j] = s[x]
    BY <1>11
  <2>3. n \in DOMAIN r
    BY <1>1, <1>6
  <2>4. ToSet(s) \cup {w} \subseteq ToSet(r)
    BY <1>6, <2>2, <2>3 DEF ToSet
  <2> QED BY <2>1, <2>4 DEF ToSet
<1>14. ASSUME NEW u \in S \ {w}, NEW v \in S \ {w} PROVE Over(r, u, v) <=> Over(s, u, v)
  <2>1. ASSUME Over(r, u, v) PROVE Over(s, u, v)
    <3>1. PICK i \in DOMAIN r, j \in DOMAIN r : i < j /\ r[i] = u /\ r[j] = v
      BY <2>1 DEF Over
    <3>2. PICK x \in DOMAIN s : r[i] = s[x] /\ x = IF i < n THEN i ELSE i - 1
      BY <1>10, <3>1
    <3>3. PICK y \in DOMAIN s : r[j] = s[y] /\ y = IF j < n THEN j ELSE j - 1
      BY <1>10, <3>1
    <3>4. i # n /\ j # n
      BY <1>6, <3>1
    <3>5. x < y
      BY <1>1, <1>6, <3>1, <3>2, <3>3, <3>4
    <3> QED BY <3>1, <3>2, <3>3, <3>5 DEF Over
  <2>2. ASSUME Over(s, u, v) PROVE Over(r, u, v)
    <3>1. PICK x \in DOMAIN s, y \in DOMAIN s : x < y /\ s[x] = u /\ s[y] = v
      BY <2>2 DEF Over
    <3>2. PICK i \in DOMAIN r : r[i] = s[x] /\ i = IF x < n THEN x ELSE x + 1
      BY <1>11
    <3>3. PICK j \in DOMAIN r : r[j] = s[y] /\ j = IF y < n THEN y ELSE y + 1
      BY <1>11
    <3>4. i < j
      BY <1>1, <3>1, <3>2, <3>3
    <3> QED BY <3>1, <3>2, <3>3, <3>4 DEF Over
  <2> QED BY <2>1, <2>2
<1>15. r = InsertAt(s, n, w)
  BY DEF r, c, a, b, InsertAt
<1> QED BY <1>5, <1>12, <1>13, <1>14, <1>15

LEMMA ListFacts ==
  ASSUME NEW S, NEW s \in Seq(S), s # << >>, Unrepeated(s)
  PROVE  /\ Head(s) \in S /\ Head(s) \in ToSet(s) /\ Tail(s) \in Seq(S)
         /\ Unrepeated(Tail(s)) /\ ToSet(Tail(s)) = ToSet(s) \ {Head(s)}
         /\ 1 \in DOMAIN s /\ Head(s) = s[1]
<1>1. /\ Len(s) \in Nat \ {0} /\ DOMAIN s = 1 .. Len(s)
      /\ Head(s) = s[1] /\ s[1] \in S
      /\ Tail(s) \in Seq(S) /\ DOMAIN Tail(s) = 1 .. Len(s) - 1
      /\ \A j \in 1 .. Len(s) - 1 : Tail(s)[j] = s[j + 1]
  OBVIOUS
<1> DEFINE r == Tail(s)
<1> HIDE DEF r
<1>2. DOMAIN r = 1 .. Len(s) - 1 /\ \A j \in 1 .. Len(s) - 1 : r[j] = s[j + 1]
  BY <1>1 DEF r
<1>3. Unrepeated(r)
  <2> SUFFICES ASSUME NEW i \in DOMAIN r, NEW j \in DOMAIN r, r[i] = r[j] PROVE i = j
    BY DEF Unrepeated
  <2>1. i + 1 \in DOMAIN s /\ j + 1 \in DOMAIN s /\ s[i + 1] = s[j + 1]
    BY <1>1, <1>2
  <2>2. i + 1 = j + 1
    BY <2>1 DEF Unrepeated
  <2> QED BY <1>1, <1>2, <2>2
<1>4. ToSet(r) = ToSet(s) \ {s[1]}
  <2>1. ASSUME NEW j \in DOMAIN r PROVE r[j] \in ToSet(s) \ {s[1]}
    <3>1. j + 1 \in DOMAIN s /\ j + 1 # 1 /\ r[j] = s[j + 1] /\ 1 \in DOMAIN s
      BY <1>1, <1>2
    <3> QED BY <3>1 DEF ToSet, Unrepeated
  <2>2. ASSUME NEW x \in DOMAIN s, s[x] # s[1] PROVE \E j \in DOMAIN r : r[j] = s[x]
    <3>1. x - 1 \in 1 .. Len(s) - 1 /\ (x - 1) + 1 = x
      BY <1>1, <2>2
    <3> QED BY <1>2, <3>1
  <2> QED BY <2>1, <2>2 DEF ToSet
<1>5. 1 \in DOMAIN s /\ s[1] \in ToSet(s)
  BY <1>1 DEF ToSet
<1> QED BY <1>1, <1>3, <1>4, <1>5 DEF r

LEMMA FirstWindows ==
  ASSUME NEW n \in 0 .. Cardinality(Windows)
  PROVE  /\ SubSeq(SetToSeq(Windows), 1, n) \in Seq(Windows)
         /\ Unrepeated(SubSeq(SetToSeq(Windows), 1, n))
<1> DEFINE N == Cardinality(Windows)
           f == SetToSeq(Windows)
<1>1. N \in Nat /\ n \in Nat /\ n <= N
  BY WindowAssumption, FS_CardinalityType
<1>2. \E g \in [1 .. N -> Windows] : IsInjective(g)
  <2>1. ExistsBijection(1 .. N, Windows)
    BY WindowAssumption, <1>1, FS_CardinalityType
  <2>2. PICK g : g \in Bijection(1 .. N, Windows)
    BY <2>1 DEF ExistsBijection
  <2> QED BY <2>2 DEF Bijection, Injection, IsInjective
<1>3. f \in [1 .. N -> Windows] /\ IsInjective(f)
  BY <1>2 DEF SetToSeq
<1> HIDE DEF f, N
<1>4. f \in Seq(Windows) /\ Len(f) = N
  BY <1>1, <1>3
<1>5. /\ SubSeq(f, 1, n) \in Seq(Windows) /\ DOMAIN SubSeq(f, 1, n) = 1 .. n
      /\ \A j \in 1 .. n : SubSeq(f, 1, n)[j] = f[j]
  BY <1>1, <1>4
<1>6. Unrepeated(SubSeq(f, 1, n))
  BY <1>1, <1>3, <1>5 DEF Unrepeated, IsInjective
<1> QED BY <1>5, <1>6 DEF f
--------------------------------------------------------------------------
(* GetWindow(GW_HWNDNEXT): what comes behind the window at a place.        *)
LEMMA AfterFacts ==
  ASSUME NEW k \in DOMAIN zorder, zorder \in Seq(Windows), Unrepeated(zorder)
  PROVE  After(zorder[k]) = IF k = Len(zorder) THEN NoWindow ELSE zorder[k + 1]
<1> DEFINE behind == {n \in 2 .. Len(zorder) : zorder[n - 1] = zorder[k]}
<1>1. Len(zorder) \in Nat /\ DOMAIN zorder = 1 .. Len(zorder)
  OBVIOUS
<1>2. \A n \in 2 .. Len(zorder) : n - 1 \in DOMAIN zorder
  BY <1>1
<1>3. \A n \in behind : n = k + 1
  <2> SUFFICES ASSUME NEW n \in behind PROVE n = k + 1
    OBVIOUS
  <2>1. n - 1 = k
    BY <1>2 DEF Unrepeated
  <2> QED BY <1>1, <2>1
<1>4. behind = IF k = Len(zorder) THEN {} ELSE {k + 1}
  <2>1. CASE k = Len(zorder)
    BY <1>1, <1>3, <2>1
  <2>2. CASE k # Len(zorder)
    <3>1. k + 1 \in 2 .. Len(zorder) /\ (k + 1) - 1 = k
      BY <1>1, <2>2
    <3>2. k + 1 \in behind
      BY <3>1
    <3> QED BY <1>3, <2>2, <3>2
  <2> QED BY <2>1, <2>2
<1>5. After(zorder[k]) = IF behind = {} THEN NoWindow ELSE zorder[CHOOSE n \in behind : TRUE]
  BY DEF After
<1> HIDE DEF behind
<1> QED BY <1>4, <1>5

LEMMA AfterNone ==
  ASSUME zorder \in Seq(Windows)
  PROVE  After(NoWindow) = NoWindow
<1>1. \A k \in 2 .. Len(zorder) : zorder[k - 1] # NoWindow
  <2> SUFFICES ASSUME NEW k \in 2 .. Len(zorder) PROVE zorder[k - 1] # NoWindow
    OBVIOUS
  <2>1. zorder[k - 1] \in Windows
    OBVIOUS
  <2> QED BY <2>1, WindowAssumption
<1> QED BY <1>1 DEF After

(* What is above the window at a place.                                    *)
LEMMA AboveFacts ==
  ASSUME NEW p \in DOMAIN zorder, zorder \in Seq(Windows), Unrepeated(zorder)
  PROVE  /\ p = 1 => Above(zorder[p]) = {}
         /\ zorder[p] \notin Above(zorder[p])
         /\ p + 1 \in DOMAIN zorder =>
              Above(zorder[p + 1]) = Above(zorder[p]) \cup {zorder[p]}
         /\ p = Len(zorder) => ToSet(zorder) \subseteq Above(zorder[p]) \cup {zorder[p]}
<1>1. /\ Len(zorder) \in Nat /\ DOMAIN zorder = 1 .. Len(zorder)
      /\ \A j \in DOMAIN zorder : zorder[j] \in Windows
  OBVIOUS
<1>2. ASSUME NEW q \in DOMAIN zorder, NEW v
      PROVE  v \in Above(zorder[q]) <=> \E j \in DOMAIN zorder : j < q /\ zorder[j] = v
  <2>1. \A k \in DOMAIN zorder : zorder[k] = zorder[q] => k = q
    BY DEF Unrepeated
  <2> QED BY <1>1, <2>1 DEF Above
<1>3. p = 1 => Above(zorder[p]) = {}
  BY <1>1, <1>2
<1>4. zorder[p] \notin Above(zorder[p])
  <2>1. \A j \in DOMAIN zorder : zorder[j] = zorder[p] => ~(j < p)
    BY <1>1 DEF Unrepeated
  <2> QED BY <1>2, <2>1
<1>5. ASSUME p + 1 \in DOMAIN zorder
      PROVE  Above(zorder[p + 1]) = Above(zorder[p]) \cup {zorder[p]}
  <2>1. \A j \in DOMAIN zorder : j < p + 1 <=> j < p \/ j = p
    BY <1>1
  <2>2. \A v : v \in Above(zorder[p + 1]) <=> v \in Above(zorder[p]) \cup {zorder[p]}
    BY <1>2, <1>5, <2>1
  <2> QED BY <2>2
<1>6. ASSUME p = Len(zorder) PROVE ToSet(zorder) \subseteq Above(zorder[p]) \cup {zorder[p]}
  <2>1. \A j \in DOMAIN zorder : j < p \/ j = p
    BY <1>1, <1>6
  <2> QED BY <1>2, <2>1 DEF ToSet
<1> QED BY <1>3, <1>4, <1>5, <1>6

LEMMA StartWalkInv ==
  ASSUME WindowInv, StartWalk
  PROVE  WindowInv'
<1>1. /\ zorder' = zorder /\ method' = method /\ snapshot' = snapshot
      /\ visits' = [w \in Windows |-> 0] /\ stayed' = ToSet(zorder)
      /\ zorder \in Seq(Windows) /\ Unrepeated(zorder)
      /\ method \in {"GetWindow", "EnumWindow", "GetOwnerWnd"} /\ ~snapshot
  BY DEF StartWalk, WindowInv, WindowType
<1>2. /\ Len(zorder) \in Nat /\ DOMAIN zorder = 1 .. Len(zorder)
      /\ \A j \in DOMAIN zorder : zorder[j] \in Windows
  BY <1>1
<1>3. ToSet(zorder) \subseteq Windows
  BY <1>2 DEF ToSet
<1>4. CASE method = "GetWindow"
  <2>1. /\ doing' = "check" /\ listed' = listed
        /\ hWnd' = IF zorder = << >> THEN NoWindow ELSE Head(zorder)
    BY <1>4 DEF StartWalk
  <2>2. zorder = << >> => hWnd' = NoWindow /\ ToSet(zorder) = {}
    BY <2>1 DEF ToSet
  <2>3. zorder # << >> => /\ hWnd' \in Windows /\ hWnd' \in ToSet(zorder)
                          /\ hWnd' = zorder[1] /\ 1 \in DOMAIN zorder
    BY <1>1, <2>1, ListFacts
  <2>4. WindowType'
    BY <1>1, <2>1, <2>2, <2>3 DEF WindowInv, WindowType, Unrepeated, ToSet
  <2>5. Listing'
    BY <1>1, <1>4 DEF Listing
  <2>6. hWnd' = NoWindow => stayed' = {}
    BY <1>1, <1>3, <2>2, <2>3, WindowAssumption
  <2>7. hWnd' # NoWindow => Above(hWnd)' = {}
    <3>1. hWnd' # NoWindow => Above(hWnd') = {}
      BY <1>1, <2>2, <2>3, AboveFacts
    <3> QED BY <1>1, <3>1 DEF Above
  <2>8. \A w \in stayed' : visits'[w] = 0
    BY <1>1, <1>3
  <2>9. hWnd' = NoWindow \/ hWnd' \in ToSet(zorder)'
    BY <1>1, <2>2, <2>3 DEF ToSet
  <2> QED BY <2>1, <2>4, <2>5, <2>6, <2>7, <2>8, <2>9 DEF WindowInv, Walking, Behind
<1>5. CASE method # "GetWindow"
  <2>1. doing' = "next" /\ listed' = zorder /\ hWnd' = NoWindow
    BY <1>5 DEF StartWalk
  <2>2. WindowType'
    BY <1>1, <2>1 DEF WindowInv, WindowType, Unrepeated, ToSet
  <2>3. Listing'
    BY <1>1, <1>3, <2>1 DEF Listing, ToSet
  <2>4. Walking'
    BY <1>1, <1>5 DEF Walking
  <2> QED BY <2>2, <2>3, <2>4 DEF WindowInv
<1> QED BY <1>4, <1>5

LEMMA NextWindowInv ==
  ASSUME WindowInv, NextWindow
  PROVE  WindowInv'
<1>1. /\ zorder' = zorder /\ method' = method /\ snapshot' = snapshot
      /\ visits' = visits /\ stayed' = stayed /\ lost' = lost /\ passed' = passed
      /\ doing = "next" /\ zorder \in Seq(Windows) /\ Unrepeated(zorder)
      /\ stayed \subseteq ToSet(zorder) /\ ~snapshot
  BY DEF NextWindow, WindowInv, WindowType
<1>2. /\ Len(zorder) \in Nat /\ DOMAIN zorder = 1 .. Len(zorder)
      /\ \A j \in DOMAIN zorder : zorder[j] \in Windows
  BY <1>1
<1>3. CASE method = "GetWindow"
  <2>1. hWnd' = After(hWnd) /\ doing' = "check" /\ listed' = listed
    BY <1>3 DEF NextWindow
  <2>2. hWnd' \in Windows \cup {NoWindow}
    <3>1. ASSUME NEW k \in 2 .. Len(zorder) PROVE zorder[k] \in Windows
      BY <1>2
    <3> DEFINE behind == {k \in 2 .. Len(zorder) : zorder[k - 1] = hWnd}
    <3>2. behind # {} => (CHOOSE k \in behind : TRUE) \in behind
      OBVIOUS
    <3>3. After(hWnd) = IF behind = {} THEN NoWindow ELSE zorder[CHOOSE k \in behind : TRUE]
      BY DEF After
    <3> HIDE DEF After
    <3> QED BY <2>1, <3>1, <3>2, <3>3
  <2>3. WindowType'
    BY <1>1, <2>1, <2>2 DEF WindowInv, WindowType, Unrepeated, ToSet
  <2>4. Listing'
    BY <1>1, <1>3 DEF Listing
  <2>5. Walking'
    <3> SUFFICES ASSUME ~lost, ~passed PROVE Walking'
      BY <1>1 DEF Walking
    <3>1. hWnd = NoWindow \/ hWnd \in ToSet(zorder)
      BY <1>1, <1>3 DEF WindowInv, Walking
    <3>2. CASE hWnd = NoWindow
      <4>1. hWnd' = NoWindow
        BY <1>1, <2>1, <3>2, AfterNone
      <4>2. \A w \in stayed : visits[w] = 1
        BY <1>1, <1>3, <3>2 DEF WindowInv, Walking
      <4> QED BY <1>1, <2>1, <4>1, <4>2 DEF Walking
    <3>3. CASE hWnd \in ToSet(zorder)
      <4>1. PICK p \in DOMAIN zorder : zorder[p] = hWnd
        BY <3>3 DEF ToSet
      <4>2. hWnd' = IF p = Len(zorder) THEN NoWindow ELSE zorder[p + 1]
        BY <1>1, <2>1, <4>1, AfterFacts
      <4>3. hWnd # NoWindow
        BY <1>2, <4>1, WindowAssumption
      <4>4. \A w \in stayed :
              visits[w] = IF w \in Above(hWnd) \cup {hWnd} THEN 1 ELSE 0
        BY <1>1, <1>3, <4>3 DEF WindowInv, Walking, Behind
      <4>5. CASE p = Len(zorder)
        <5>1. \A w \in stayed : visits[w] = 1
          BY <1>1, <4>1, <4>4, <4>5, AboveFacts
        <5> QED BY <1>1, <2>1, <4>2, <4>5, <5>1 DEF Walking
      <4>6. CASE p # Len(zorder)
        <5>1. p + 1 \in DOMAIN zorder /\ hWnd' = zorder[p + 1]
          BY <1>2, <4>2, <4>6
        <5>2. hWnd' # NoWindow /\ hWnd' \in ToSet(zorder)'
          BY <1>1, <1>2, <5>1, WindowAssumption DEF ToSet
        <5>3. Above(hWnd') = Above(hWnd) \cup {hWnd}
          BY <1>1, <4>1, <5>1, AboveFacts
        <5>4. Above(hWnd)' = Above(hWnd) \cup {hWnd}
          BY <1>1, <5>3 DEF Above
        <5> QED BY <1>1, <2>1, <4>4, <5>2, <5>4 DEF Walking, Behind
      <4> QED BY <4>5, <4>6
    <3> QED BY <3>1, <3>2, <3>3
  <2> QED BY <2>3, <2>4, <2>5 DEF WindowInv
<1>4. CASE method # "GetWindow" /\ listed = << >>
  <2>1. doing' = "ended" /\ hWnd' = hWnd /\ listed' = listed
    BY <1>4 DEF NextWindow
  <2>2. WindowType'
    BY <1>1, <2>1 DEF WindowInv, WindowType, Unrepeated, ToSet
  <2>3. ToSet(listed) = {}
    BY <1>4 DEF ToSet
  <2>4. Listing'
    BY <1>1, <1>4, <2>1, <2>3 DEF WindowInv, Listing, ToSet
  <2> QED BY <1>1, <1>4, <2>2, <2>4 DEF WindowInv, Walking
<1>5. CASE method # "GetWindow" /\ listed # << >>
  <2>1. doing' = "check" /\ hWnd' = Head(listed) /\ listed' = Tail(listed)
    BY <1>5 DEF NextWindow
  <2>2. /\ Head(listed) \in Windows /\ Head(listed) \in ToSet(listed)
        /\ Tail(listed) \in Seq(Windows) /\ Unrepeated(Tail(listed))
        /\ ToSet(Tail(listed)) = ToSet(listed) \ {Head(listed)}
    BY <1>5, ListFacts DEF WindowInv, WindowType
  <2>3. WindowType'
    BY <1>1, <2>1, <2>2 DEF WindowInv, WindowType, Unrepeated, ToSet
  <2>4. ToSet(listed)' = ToSet(Tail(listed))
    BY <2>1 DEF ToSet
  <2>5. Listing'
    BY <1>1, <1>5, <2>1, <2>2, <2>4 DEF WindowInv, Listing
  <2> QED BY <1>1, <1>5, <2>3, <2>5 DEF WindowInv, Walking
<1> QED BY <1>3, <1>4, <1>5

LEMMA CheckWindowInv ==
  ASSUME WindowInv, CheckWindow
  PROVE  WindowInv'
<1>1. /\ zorder' = zorder /\ method' = method /\ snapshot' = snapshot /\ listed' = listed
      /\ hWnd' = hWnd /\ stayed' = stayed /\ lost' = lost /\ passed' = passed
      /\ doing = "check" /\ zorder \in Seq(Windows) /\ Unrepeated(zorder)
      /\ method \in {"GetWindow", "EnumWindow", "GetOwnerWnd"}
      /\ stayed \subseteq ToSet(zorder) /\ ~snapshot /\ visits \in [Windows -> Nat]
  BY DEF CheckWindow, WindowInv, WindowType
<1>2. /\ Len(zorder) \in Nat /\ DOMAIN zorder = 1 .. Len(zorder)
      /\ \A j \in DOMAIN zorder : zorder[j] \in Windows
  BY <1>1
<1>3. ToSet(zorder)' = ToSet(zorder) /\ ToSet(listed)' = ToSet(listed)
      /\ stayed \subseteq Windows
  BY <1>1, <1>2 DEF ToSet
<1>4. CASE IsWindow(hWnd)
  <2>1. PICK p \in DOMAIN zorder : zorder[p] = hWnd
    BY <1>4 DEF IsWindow
  <2>2. hWnd \in Windows /\ hWnd # NoWindow /\ hWnd \in ToSet(zorder)
    BY <1>2, <2>1, WindowAssumption DEF ToSet
  <2>3. /\ visits' = [visits EXCEPT ![hWnd] = @ + 1]
        /\ doing' = IF method = "GetOwnerWnd" THEN "name" ELSE "next"
    BY <1>4 DEF CheckWindow
  <2>4. /\ visits' \in [Windows -> Nat]
        /\ \A w \in Windows : visits'[w] = IF w = hWnd THEN visits[w] + 1 ELSE visits[w]
    BY <1>1, <2>2, <2>3
  <2>5. WindowType'
    BY <1>1, <1>3, <2>3, <2>4 DEF WindowInv, WindowType, Unrepeated
  <2>6. Listing'
    <3> SUFFICES ASSUME method # "GetWindow" PROVE Listing'
      BY <1>1 DEF Listing
    <3>1. /\ visits[hWnd] = 0 /\ hWnd \notin ToSet(listed)
          /\ \A w \in ToSet(listed) : visits[w] = 0
          /\ \A w \in stayed \ ToSet(listed) : w # hWnd => visits[w] = 1
      BY <1>1 DEF WindowInv, Listing
    <3>2. ToSet(listed) \subseteq Windows
      <4>1. \A j \in DOMAIN listed : listed[j] \in Windows
        BY DEF WindowInv, WindowType
      <4> QED BY <4>1 DEF ToSet
    <3>3. \A w \in ToSet(listed) : visits'[w] = 0
      BY <2>4, <3>1, <3>2
    <3>4. \A w \in stayed \ ToSet(listed) : visits'[w] = 1
      BY <1>3, <2>4, <3>1
    <3>5. doing' # "check" /\ doing' # "ended"
      BY <2>3
    <3> QED BY <1>1, <1>3, <3>3, <3>4, <3>5 DEF Listing
  <2>7. Walking'
    <3> SUFFICES ASSUME ~lost, ~passed, method = "GetWindow" PROVE Walking'
      BY <1>1 DEF Walking
    <3>1. doing' = "next"
      BY <2>3
    <3>2. \A w \in stayed : visits[w] = IF w \in Above(hWnd) THEN 1 ELSE 0
      BY <1>1, <2>2 DEF WindowInv, Walking, Behind
    <3>3. hWnd \notin Above(hWnd)
      BY <1>1, <2>1, AboveFacts
    <3>4. \A w \in stayed :
            visits'[w] = IF w \in Above(hWnd) \cup {hWnd} THEN 1 ELSE 0
      BY <1>3, <2>4, <3>2, <3>3
    <3>5. Above(hWnd)' = Above(hWnd)
      BY <1>1 DEF Above
    <3> QED BY <1>1, <1>3, <2>2, <3>1, <3>4, <3>5 DEF Walking, Behind
  <2> QED BY <2>5, <2>6, <2>7 DEF WindowInv
<1>5. CASE ~IsWindow(hWnd)
  <2>1. visits' = visits /\ doing' = IF method = "GetWindow" THEN "ended" ELSE "next"
    BY <1>5 DEF CheckWindow, WhenGone
  <2>2. hWnd \notin ToSet(zorder)
    BY <1>5 DEF IsWindow, ToSet
  <2>3. WindowType'
    BY <1>1, <1>3, <2>1 DEF WindowInv, WindowType, Unrepeated
  <2>4. Listing'
    BY <1>1, <1>3, <2>1, <2>2 DEF WindowInv, Listing
  <2>5. Walking'
    <3> SUFFICES ASSUME ~lost, ~passed, method = "GetWindow" PROVE Walking'
      BY <1>1 DEF Walking
    <3>1. hWnd = NoWindow
      BY <1>1, <2>2 DEF WindowInv, Walking
    <3>2. \A w \in stayed : visits[w] = 1
      BY <1>1, <3>1 DEF WindowInv, Walking
    <3> QED BY <1>1, <2>1, <3>2 DEF Walking
  <2> QED BY <2>3, <2>4, <2>5 DEF WindowInv
<1> QED BY <1>4, <1>5

LEMMA OwnerStepsInv ==
  ASSUME WindowInv, TakeSnapshot \/ SearchSnapshot \/ NextRound
  PROVE  WindowInv'
<1>1. /\ zorder' = zorder /\ method' = method /\ listed' = listed
      /\ hWnd' = hWnd /\ stayed' = stayed /\ visits' = visits
      /\ method = "GetOwnerWnd"
      /\ snapshot' => doing' = "name"
      /\ \/ doing = "name" /\ doing' \in {"name", "next"}
         \/ doing' = "start"
  BY DEF TakeSnapshot, SearchSnapshot, NextRound, WindowInv, WindowType
<1>2. ToSet(zorder)' = ToSet(zorder) /\ ToSet(listed)' = ToSet(listed)
  BY <1>1 DEF ToSet
<1>3. WindowType'
  BY <1>1, <1>2 DEF WindowInv, WindowType, Unrepeated
<1>4. Listing'
  BY <1>1, <1>2 DEF WindowInv, Listing
<1>5. Walking'
  BY <1>1 DEF Walking
<1> QED BY <1>3, <1>4, <1>5 DEF WindowInv

(* The walk along the siblings goes on as it did if what stayed is still   *)
(* on the same side of the window in hand.                                 *)
LEMMA SidesKept ==
  ASSUME WindowInv, UNCHANGED <<method, hWnd, doing, visits>>, doing # "ended",
         stayed' \subseteq stayed, ~lost' => ~lost, ~passed' => ~passed,
         ~lost' /\ ~passed' /\ hWnd \in ToSet(zorder) =>
           /\ hWnd \in ToSet(zorder)'
           /\ \A v \in stayed' : v \in Above(hWnd)' <=> v \in Above(hWnd)
  PROVE  Walking'
<1> SUFFICES ASSUME ~lost, ~passed, ~lost', ~passed', method = "GetWindow",
                    doing \in {"check", "next"}
             PROVE  Walking'
  BY Zenon DEF Walking
<1>1. hWnd = NoWindow \/ hWnd \in ToSet(zorder)
  BY DEF WindowInv, Walking
<1>2. CASE hWnd = NoWindow
  <2>1. \A v \in stayed : visits[v] = 1
    BY <1>2 DEF WindowInv, Walking
  <2> QED BY <1>2, <2>1 DEF Walking
<1>3. CASE hWnd # NoWindow
  <2>1. hWnd \in ToSet(zorder)'
    BY <1>1, <1>3, Zenon
  <2>2. \A v \in stayed' : v \in Behind' <=> v \in Behind
    <3>1. \A v \in stayed' : v \in Above(hWnd)' <=> v \in Above(hWnd)
      BY <1>1, <1>3, Zenon
    <3> QED BY <3>1 DEF Behind
  <2>3. \A v \in stayed : visits[v] = IF v \in Behind THEN 1 ELSE 0
    BY <1>3 DEF WindowInv, Walking
  <2>4. \A v \in stayed' : visits'[v] = IF v \in Behind' THEN 1 ELSE 0
    BY <2>2, <2>3
  <2> QED BY <1>3, <2>1, <2>4 DEF Walking
<1> QED BY <1>2, <1>3

LEMMA OpenInv ==
  ASSUME WindowInv, NEW w \in Windows, Open(w)
  PROVE  WindowInv'
<1>1. /\ method' = method /\ listed' = listed /\ snapshot' = snapshot
      /\ hWnd' = hWnd /\ stayed' = stayed /\ visits' = visits /\ doing' = doing
      /\ zorder \in Seq(Windows) /\ Unrepeated(zorder) /\ stayed \subseteq ToSet(zorder)
      /\ doing # "ended"
  BY DEF Open, Change, WindowInv, WindowType
<1>2. (~lost' => ~lost) /\ (~passed' => ~passed)
  BY DEF Open
<1>3. PICK n \in 1 .. Len(zorder) + 1 : zorder' = InsertAt(zorder, n, w)
  BY DEF Open, Change
<1>4. w \notin ToSet(zorder) /\ ToSet(zorder) \subseteq Windows
  BY <1>1 DEF Open, IsWindow, ToSet
<1>5. PICK z : z = zorder'
  OBVIOUS
<1>6. /\ z \in Seq(Windows) /\ Unrepeated(z) /\ ToSet(z) = ToSet(zorder) \cup {w}
      /\ \A u, v \in Windows \ {w} : Over(z, u, v) <=> Over(zorder, u, v)
  BY <1>1, <1>3, <1>4, <1>5, InsertFacts
<1>7. ToSet(zorder)' = ToSet(z) /\ ToSet(listed)' = ToSet(listed) /\ Unrepeated(zorder)'
  BY <1>1, <1>5, <1>6 DEF ToSet, Unrepeated
<1>8. WindowType'
  <2>1. Unrepeated(listed)'
    BY <1>1 DEF WindowInv, WindowType, Unrepeated
  <2>2. zorder' \in Seq(Windows) /\ stayed' \subseteq ToSet(zorder)'
    BY <1>1, <1>5, <1>6, <1>7
  <2> QED BY <1>1, <1>7, <2>1, <2>2 DEF WindowInv, WindowType
<1>9. Listing'
  BY <1>1, <1>7 DEF WindowInv, Listing
<1>10. ASSUME hWnd \in ToSet(zorder)
       PROVE  /\ hWnd \in ToSet(zorder)'
              /\ \A v \in stayed' : v \in Above(hWnd)' <=> v \in Above(hWnd)
  <2>1. \A v \in stayed : Over(z, v, hWnd) <=> Over(zorder, v, hWnd)
    BY <1>1, <1>4, <1>6, <1>10
  <2>2. \A v : /\ v \in Above(hWnd)' <=> v \in Windows /\ Over(z, v, hWnd)
               /\ v \in Above(hWnd) <=> v \in Windows /\ Over(zorder, v, hWnd)
    BY <1>1, <1>5 DEF Above, Over
  <2> QED BY <1>1, <1>6, <1>7, <1>10, <2>1, <2>2
<1>11. Walking'
  BY <1>1, <1>2, <1>10, SidesKept
<1> QED BY <1>8, <1>9, <1>11 DEF WindowInv

LEMMA WithoutFacts ==
  ASSUME NEW w, zorder \in Seq(Windows), Unrepeated(zorder), IsWindow(w)
  PROVE  /\ w \in ToSet(zorder)
         /\ Without(w) \in Seq(Windows) /\ Unrepeated(Without(w))
         /\ Len(Without(w)) = Len(zorder) - 1
         /\ ToSet(Without(w)) = ToSet(zorder) \ {w}
         /\ \A u, v \in Windows \ {w} : Over(Without(w), u, v) <=> Over(zorder, u, v)
<1> DEFINE k == CHOOSE k \in DOMAIN zorder : zorder[k] = w
<1>1. k \in DOMAIN zorder /\ zorder[k] = w
  BY DEF IsWindow
<1>2. Without(w) = RemoveAt(zorder, k)
  BY DEF Without
<1> HIDE DEF k
<1>3. w \in ToSet(zorder)
  BY <1>1 DEF ToSet
<1> QED BY <1>1, <1>2, <1>3, RemoveFacts

LEMMA ShutInv ==
  ASSUME WindowInv, NEW w \in Windows, Shut(w)
  PROVE  WindowInv'
<1>1. /\ method' = method /\ listed' = listed /\ snapshot' = snapshot
      /\ hWnd' = hWnd /\ stayed' = stayed \ {w} /\ visits' = visits /\ doing' = doing
      /\ zorder' = Without(w)
      /\ zorder \in Seq(Windows) /\ Unrepeated(zorder) /\ stayed \subseteq ToSet(zorder)
      /\ doing # "ended" /\ IsWindow(w)
  BY DEF Shut, Change, WindowInv, WindowType
<1>2. (~lost' => ~lost) /\ (w = hWnd => lost') /\ (~passed' => ~passed)
  BY DEF Shut
<1>3. ToSet(zorder) \subseteq Windows
  BY <1>1 DEF ToSet
<1>4. PICK z : z = zorder'
  OBVIOUS
<1>5. /\ z \in Seq(Windows) /\ Unrepeated(z) /\ ToSet(z) = ToSet(zorder) \ {w}
      /\ \A u, v \in Windows \ {w} : Over(z, u, v) <=> Over(zorder, u, v)
  BY <1>1, <1>4, WithoutFacts
<1>6. ToSet(zorder)' = ToSet(z) /\ ToSet(listed)' = ToSet(listed) /\ Unrepeated(zorder)'
  BY <1>1, <1>4, <1>5 DEF ToSet, Unrepeated
<1>7. WindowType'
  <2>1. Unrepeated(listed)'
    BY <1>1 DEF WindowInv, WindowType, Unrepeated
  <2>2. zorder' \in Seq(Windows) /\ stayed' \subseteq ToSet(zorder)'
    BY <1>1, <1>4, <1>5, <1>6
  <2> QED BY <1>1, <1>6, <2>1, <2>2 DEF WindowInv, WindowType
<1>8. Listing'
  BY <1>1, <1>6 DEF WindowInv, Listing
<1>9. ASSUME ~lost', hWnd \in ToSet(zorder)
      PROVE  /\ hWnd \in ToSet(zorder)'
             /\ \A v \in stayed' : v \in Above(hWnd)' <=> v \in Above(hWnd)
  <2>1. hWnd # w
    BY <1>2, <1>9
  <2>2. \A v \in stayed \ {w} : Over(z, v, hWnd) <=> Over(zorder, v, hWnd)
    BY <1>1, <1>3, <1>5, <1>9, <2>1
  <2>3. \A v : /\ v \in Above(hWnd)' <=> v \in Windows /\ Over(z, v, hWnd)
               /\ v \in Above(hWnd) <=> v \in Windows /\ Over(zorder, v, hWnd)
    BY <1>1, <1>4 DEF Above, Over
  <2> QED BY <1>1, <1>5, <1>6, <1>9, <2>1, <2>2, <2>3
<1>10. Walking'
  BY <1>1, <1>2, <1>9, SidesKept
<1> QED BY <1>7, <1>8, <1>10 DEF WindowInv

LEMMA SetWindowPosInv ==
  ASSUME WindowInv, NEW w \in Windows, SetWindowPos(w)
  PROVE  WindowInv'
<1>1. /\ method' = method /\ listed' = listed /\ snapshot' = snapshot
      /\ hWnd' = hWnd /\ stayed' = stayed /\ visits' = visits /\ doing' = doing
      /\ zorder \in Seq(Windows) /\ Unrepeated(zorder) /\ stayed \subseteq ToSet(zorder)
      /\ doing # "ended" /\ IsWindow(w)
  BY DEF SetWindowPos, Change, WindowInv, WindowType
<1>2. (~lost' => ~lost) /\ (~passed' => ~passed /\ Above(hWnd)' = Above(hWnd))
  BY DEF SetWindowPos
<1>3. PICK v : v = Without(w)
  OBVIOUS
<1>4. /\ v \in Seq(Windows) /\ Unrepeated(v) /\ ToSet(v) = ToSet(zorder) \ {w}
      /\ Len(v) = Len(zorder) - 1 /\ w \in ToSet(zorder)
  BY <1>1, <1>3, WithoutFacts
<1>5. PICK n \in DOMAIN zorder : zorder' = InsertAt(v, n, w)
  BY <1>3 DEF SetWindowPos, Change
<1>6. n \in 1 .. Len(v) + 1
  BY <1>1, <1>4
<1>7. PICK z : z = zorder'
  OBVIOUS
<1>8. z \in Seq(Windows) /\ Unrepeated(z) /\ ToSet(z) = ToSet(zorder)
  <2>1. w \notin ToSet(v)
    BY <1>4
  <2>2. /\ InsertAt(v, n, w) \in Seq(Windows) /\ Unrepeated(InsertAt(v, n, w))
        /\ ToSet(InsertAt(v, n, w)) = ToSet(v) \cup {w}
    BY <1>4, <1>6, <2>1, InsertFacts
  <2>3. ToSet(v) \cup {w} = ToSet(zorder)
    BY <1>4
  <2> QED BY <1>5, <1>7, <2>2, <2>3
<1>9. ToSet(zorder)' = ToSet(zorder) /\ ToSet(listed)' = ToSet(listed) /\ Unrepeated(zorder)'
  <2>1. ToSet(zorder)' = ToSet(z) /\ ToSet(listed)' = ToSet(listed)
    BY <1>1, <1>7 DEF ToSet
  <2>2. Unrepeated(zorder)'
    BY <1>7, <1>8 DEF Unrepeated
  <2> QED BY <1>8, <2>1, <2>2
<1>10. WindowType'
  <2>1. Unrepeated(listed)'
    BY <1>1 DEF WindowInv, WindowType, Unrepeated
  <2>2. zorder' \in Seq(Windows) /\ stayed' \subseteq ToSet(zorder)'
    BY <1>1, <1>7, <1>8, <1>9
  <2> QED BY <1>1, <1>9, <2>1, <2>2 DEF WindowInv, WindowType
<1>11. Listing'
  BY <1>1, <1>9 DEF WindowInv, Listing
<1>12. Walking'
  BY <1>1, <1>2, <1>9, SidesKept
<1> QED BY <1>10, <1>11, <1>12 DEF WindowInv

LEMMA WindowStepInv ==
  ASSUME WindowInv, WindowWalkStep \/ OtherPrograms
  PROVE  WindowInv'
<1>1. CASE WindowWalkStep
  BY <1>1, StartWalkInv, NextWindowInv, CheckWindowInv, OwnerStepsInv DEF WindowWalkStep
<1>2. CASE OtherPrograms
  BY <1>2, OpenInv, ShutInv, SetWindowPosInv DEF OtherPrograms
<1> QED BY <1>1, <1>2
--------------------------------------------------------------------------
LEMMA InitInv == Init => Inv
<1> SUFFICES ASSUME Init PROVE Inv
  OBVIOUS
<1>1. RtcpInv
  <2>1. packet_length \in PacketSizes /\ offset = 0 /\ pHeader \in HeadersAt(0)
    BY DEF Init, RtcpInit
  <2>2. ~overread
    BY Zenon DEF Init, RtcpInit
  <2>3. packet_length \in Nat
    <3>1. \A m : 0 .. m \subseteq Nat
      OBVIOUS
    <3>2. PacketSizes \subseteq 0 .. BufferSize
      BY RtcpAssumption
    <3> QED BY <2>1, <3>1, <3>2
  <2> QED BY <2>1, <2>2, <2>3, HeadersAreNumbers DEF RtcpInv, OverreadsOnlyMalformed
<1>2. FilesInv
  BY DEF Init, FilesInit, FilesInv, FileSteps, HeldAt
<1>3. RouteInv
  BY RouteAssumption DEF Init, RoutesInit, RouteInv, BlocksAt, TableFitsOrGrew, RoutesEnded
<1>4. ScanInv
  <2>1. DOMAIN devices = {}
    BY DEF Init, ScanInit
  <2> QED BY <2>1 DEF Init, ScanInit, ScanInv, KeptAt
<1>5. WindowInv
  <2>1. /\ method \in {"GetWindow", "EnumWindow", "GetOwnerWnd"}
        /\ zorder \in {SubSeq(SetToSeq(Windows), 1, n) : n \in 0 .. Cardinality(Windows)}
        /\ listed = << >> /\ hWnd = NoWindow /\ doing = "start"
        /\ visits = [w \in Windows |-> 0] /\ snapshot = FALSE /\ stayed = {}
    BY DEF Init, WindowInit
  <2>2. PICK n \in 0 .. Cardinality(Windows) : zorder = SubSeq(SetToSeq(Windows), 1, n)
    BY <2>1
  <2>3. zorder \in Seq(Windows) /\ Unrepeated(zorder)
    BY <2>2, FirstWindows
  <2>4. listed \in Seq(Windows) /\ Unrepeated(listed)
    BY <2>1 DEF Unrepeated
  <2>5. WindowType
    BY <2>1, <2>3, <2>4 DEF WindowType
  <2> QED BY <2>1, <2>5 DEF WindowInv, Listing, Walking
<1>6. tool \in {"rtcp", "windows", "files", "routes", "scan"}
  BY DEF Init
<1> QED BY <1>1, <1>2, <1>3, <1>4, <1>5, <1>6 DEF Inv

(* A tool that does not run stays as it is.                                *)
LEMMA RtcpStays ==
  ASSUME RtcpInv, UNCHANGED rtcp PROVE RtcpInv'
BY DEF RtcpInv, rtcp, OverreadsOnlyMalformed

LEMMA FilesStays ==
  ASSUME FilesInv, UNCHANGED files PROVE FilesInv'
BY DEF FilesInv, files, FileSteps, HeldAt, Found, NoneOf, Matches

LEMMA RouteStays ==
  ASSUME RouteInv, UNCHANGED route PROVE RouteInv'
BY DEF RouteInv, route, BlocksAt, TableFitsOrGrew, RoutesEnded

LEMMA ScanStays ==
  ASSUME ScanInv, UNCHANGED scan PROVE ScanInv'
BY DEF ScanInv, scan, KeptAt

LEMMA WindowStays ==
  ASSUME WindowInv, UNCHANGED windows PROVE WindowInv'
<1>1. WindowType'
  BY DEF WindowInv, windows, WindowType, Unrepeated, ToSet
<1>2. Listing'
  BY DEF WindowInv, windows, Listing, ToSet
<1>3. Walking'
  BY DEF WindowInv, windows, Walking, Behind, Above, ToSet
<1> QED BY <1>1, <1>2, <1>3 DEF WindowInv

LEMMA StepInv == Inv /\ [Next]_vars => Inv'
<1> SUFFICES ASSUME Inv, [Next]_vars PROVE Inv'
  OBVIOUS
<1>1. RtcpInv /\ FilesInv /\ RouteInv /\ ScanInv /\ WindowInv
  BY DEF Inv
<1>2. tool' = tool
  BY DEF Next, ToolStep, Others, vars
<1>3. ParseBlock \/ UNCHANGED rtcp
  BY DEF Next, ToolStep, Others, vars
<1>4. FilesStep \/ UNCHANGED files
  BY DEF Next, ToolStep, Others, vars
<1>5. RoutesStep \/ Reroute \/ UNCHANGED route
  BY DEF Next, ToolStep, Others, vars
<1>6. ScanStep \/ UNCHANGED scan
  BY DEF Next, ToolStep, Others, vars
<1>7. WindowWalkStep \/ OtherPrograms \/ UNCHANGED windows
  BY DEF Next, ToolStep, Others, vars
<1>8. RtcpInv'
  BY <1>1, <1>3, RtcpStep, RtcpStays
<1>9. FilesInv'
  BY <1>1, <1>4, FilesStepInv, FilesStays
<1>10. RouteInv'
  BY <1>1, <1>5, RoutesStepInv, RerouteInv, RouteStays
<1>11. ScanInv'
  BY <1>1, <1>6, ScanStepInv, ScanStays
<1>12. WindowInv'
  BY <1>1, <1>7, WindowStepInv, WindowStays
<1> QED BY <1>2, <1>8, <1>9, <1>10, <1>11, <1>12 DEF Inv

(* The strengthening holds always, for every one of the tools.             *)
THEOREM Invariance == Spec => []Inv
BY InitInv, StepInv, PTL DEF Spec
--------------------------------------------------------------------------
(* RTCP_Parser: bytes behind the packet are read only if a block is longer *)
(* than what is left of it, or shorter than its type needs.                *)
THEOREM OnlyMalformedIsOverread == Spec => []OverreadsOnlyMalformed
<1>1. Inv => OverreadsOnlyMalformed
  BY DEF Inv, RtcpInv
<1> QED BY <1>1, Invariance, PTL

(* DealAllWindows: whatever other programs open, close and move, a window  *)
(* that stays through a round is noted once in it by the walks along the   *)
(* list of EnumWindows, and by GetWindow's unless the window in hand is    *)
(* closed or another passes it.                                            *)
THEOREM StayingWindowIsVisitedOnce == Spec => []StayingVisitedOnce
<1>1. Inv => StayingVisitedOnce
  <2> SUFFICES ASSUME Inv, doing = "ended", method = "GetWindow" => ~lost /\ ~passed,
                      NEW w \in stayed
               PROVE  visits[w] = 1
    BY DEF StayingVisitedOnce
  <2>1. CASE method = "GetWindow"
    BY <2>1 DEF Inv, WindowInv, Walking
  <2>2. CASE method # "GetWindow"
    <3>1. listed = << >>
      BY <2>2 DEF Inv, WindowInv, Listing
    <3>2. w \notin ToSet(listed)
      BY <3>1 DEF ToSet
    <3> QED BY <2>2, <3>2 DEF Inv, WindowInv, Listing
  <2> QED BY <2>1, <2>2
<1> QED BY <1>1, Invariance, PTL

LEMMA WiderSequence ==
  ASSUME NEW A, NEW B, NEW s \in Seq(A)
  PROVE  s \in Seq(A \cup B)
OBVIOUS

(* GetOriginalFileName: the path is on the first drive whose device name   *)
(* is the image's or the beginning of it; so on the image's own, or on one *)
(* before it that shadows it.  A path keeps the device's name only if      *)
(* there is no such drive or the drives could not be listed.               *)
THEOREM OwnDriveIsFound == Spec => []OwnDriveUnlessShadowed
<1>1. Inv => OwnDriveUnlessShadowed
  <2> SUFFICES ASSUME Inv, file_at \in {"open", "data"}, drive # NoDrive, path # "empty"
               PROVE  /\ path = "drive" =>
                           Suits(drive) /\ \A n \in 1 .. drive - 1 : ~Suits(n)
                      /\ path = "device" => \A n \in 1 .. Drives : ~Suits(n)
    BY DEF OwnDriveUnlessShadowed
  <2>1. device \in Volumes /\ Found
    BY DEF Inv, FilesInv
  <2>2. ASSUME NEW n \in 1 .. Drives PROVE Suits(n) <=> Matches(DeviceOf[n])
    <3> DEFINE C == STRING \cup {Separator}
    <3>1. DeviceOf[n] \in Seq(STRING) /\ device \in Seq(STRING)
      BY <2>1, FileAssumption
    <3>2. DeviceOf[n] \in Seq(C) /\ device \in Seq(C)
      BY <3>1, WiderSequence
    <3>3. DeviceOf[n] # << >> => DeviceOf[n][Len(DeviceOf[n])] # Separator
      BY FileAssumption
    <3>4. Separator \in C
      OBVIOUS
    <3> HIDE DEF C
    <3> QED BY <3>2, <3>3, <3>4, MatchIsPrefix DEF Suits, Matches
  <2>3. CASE path = "drive"
    <3>1. drive \in 1 .. Drives /\ Matches(DeviceOf[drive]) /\ NoneOf(drive - 1)
      BY <2>1, <2>3 DEF Found
    <3>2. \A n \in 1 .. drive - 1 : n \in 1 .. Drives /\ ~Matches(DeviceOf[n])
      BY <3>1, FileAssumption DEF NoneOf
    <3> QED BY <2>2, <2>3, <3>1, <3>2
  <2>4. CASE path = "device"
    BY <2>1, <2>2, <2>4 DEF Found, NoneOf
  <2> QED BY <2>3, <2>4
<1> QED BY <1>1, Invariance, PTL

(* IpForwardTool: the buffer has room for what the system writes into it,  *)
(* and the tool ends without a table only after a failure or if the table  *)
(* grew between the two calls.                                             *)
THEOREM TableFits == Spec => []TableFitsOrGrew
<1>1. Inv => TableFitsOrGrew
  BY DEF Inv, RouteInv
<1> QED BY <1>1, Invariance, PTL

(* Whichever calls failed, a tool that ends has kept one of the sets of    *)
(* things that the code never gives back, and nothing else.                *)
THEOREM ToolsRelease == Spec => []EverythingReleased
<1>1. Inv => EverythingReleased
  <2> SUFFICES ASSUME Inv, Ended PROVE Holds \in Leftovers
    BY DEF EverythingReleased
  <2>1. CASE tool = "rtcp"
    BY <2>1 DEF Holds, Leftovers
  <2>2. CASE tool = "windows"
    <3>1. ~snapshot
      BY <2>2 DEF Inv, WindowInv, WindowType, Ended, WindowsEnded
    <3> QED BY <2>2, <3>1 DEF Holds, Leftovers
  <2>3. CASE tool = "files"
    <3>1. held \in {{}, {"snapshot"}}
      BY <2>3 DEF Inv, FilesInv, FileSteps, Ended, FilesEnded
    <3> QED BY <2>3, <3>1 DEF Holds, Leftovers
  <2>4. CASE tool = "routes"
    <3>1. blocks = IF route_tool = 2 /\ written # 0 THEN {"ours", "system's"} ELSE {}
      BY <2>4 DEF Inv, RouteInv, BlocksAt, Ended, RoutesEnded
    <3> QED BY <2>4, <3>1 DEF Holds, Leftovers
  <2>5. CASE tool = "scan"
    <3>1. kept \in KeptAt(scan_at) /\ scan_at \in {"started", "gave up"}
          /\ (scan_at = "started" => nChoose \in DOMAIN devices)
      BY <2>5 DEF Inv, ScanInv, Ended, ScanEnded
    <3>2. CASE scan_at = "started"
      BY <2>5, <3>1, <3>2 DEF Holds, Leftovers, KeptAt
    <3>3. CASE scan_at = "gave up"
      BY <2>5, <3>1, <3>3 DEF Holds, Leftovers, KeptAt
    <3> QED BY <3>1, <3>2, <3>3
  <2> QED BY <2>1, <2>2, <2>3, <2>4, <2>5 DEF Inv
<1> QED BY <1>1, Invariance, PTL
==========================================================================
