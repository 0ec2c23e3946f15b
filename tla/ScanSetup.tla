----------------------------- MODULE ScanSetup -----------------------------
(***************************************************************************)
(* LocalAreaNetworkScan: main up to the thread that sends the requests     *)
(* (LanScan goes on from there).  It lists the devices, lets the user      *)
(* choose one, finds its addresses and opens it; most calls can fail.      *)
(***************************************************************************)
EXTENDS Integers, Sequences

CONSTANTS
  DeviceLists, (* what pcap_findalldevs can list: of each device, the      *)
               (* kinds of its addresses: "other", "inet", "no mask"       *)
  Typed        (* numbers the user can type                                *)

ASSUME ScanAssumption ==
  /\ \A list \in DeviceLists : \A i \in DOMAIN list :
       list[i] \subseteq {"other", "inet", "no mask"}
  /\ Typed \subseteq Int

VARIABLES
  scan_at,    (* the step of main                                          *)
  devices,    (* the list                                                  *)
  nChoose,
  kept        (* "devices", "adapter", "OID data", "handle", "filter",     *)
              (* "thread"                                                  *)

scan == <<scan_at, devices, nChoose, kept>>

ScanInit ==
  /\ scan_at = "start" /\ devices = << >> /\ nChoose = 0
  /\ kept = {}

GiveUpScan == scan_at' = "gave up"

FindAllDevs ==
  /\ scan_at = "start"
  /\ \/ /\ devices' \in DeviceLists
        /\ kept' = {"devices"} /\ scan_at' = "choose"
     \/ GiveUpScan /\ UNCHANGED <<devices, kept>>
  /\ UNCHANGED nChoose

Choose ==
  /\ scan_at = "choose"
  /\ nChoose' \in Typed
  /\ IF nChoose' \in DOMAIN devices
     THEN scan_at' = "address" /\ UNCHANGED kept
     ELSE GiveUpScan /\ kept' = kept \ {"devices"}
  /\ UNCHANGED devices

(* An address of IPv4, and none of them without a mask.                    *)
GetSelfAddr ==
  /\ scan_at = "address"
  /\ IF devices[nChoose] \cap {"inet", "no mask"} = {"inet"}
     THEN scan_at' = "open adapter" ELSE GiveUpScan
  /\ UNCHANGED <<devices, nChoose, kept>>

(* An adapter object without a file is taken for none, and not closed.     *)
OpenAdapter ==
  /\ scan_at = "open adapter"
  /\ \/ kept' = kept \cup {"adapter"} /\ (scan_at' = "malloc" \/ GiveUpScan)
     \/ GiveUpScan /\ UNCHANGED kept
  /\ UNCHANGED <<devices, nChoose>>

MallocOidData ==
  /\ scan_at = "malloc"
  /\ \/ kept' = kept \cup {"OID data"} /\ scan_at' = "request"
     \/ GiveUpScan /\ kept' = kept \ {"adapter"}
  /\ UNCHANGED <<devices, nChoose>>

(* PacketRequest, and what get_mac frees in both cases.                    *)
PacketRequest ==
  /\ scan_at = "request"
  /\ kept' = kept \ {"OID data", "adapter"}
  /\ GiveUpScan \/ scan_at' = "open"
  /\ UNCHANGED <<devices, nChoose>>

OpenLive ==
  /\ scan_at = "open"
  /\ \/ kept' = kept \cup {"handle"} /\ scan_at' = "compile"
     \/ GiveUpScan /\ UNCHANGED kept
  /\ UNCHANGED <<devices, nChoose>>

(* pcap_compile allocates the program in fcode; no pcap_freecode follows.  *)
CompileFilter ==
  /\ scan_at = "compile"
  /\ \/ kept' = kept \cup {"filter"} /\ scan_at' = "filter"
     \/ GiveUpScan /\ kept' = kept \ {"handle"}
  /\ UNCHANGED <<devices, nChoose>>

(* pcap_setfilter                                                          *)
SetFilter ==
  /\ scan_at = "filter"
  /\ \/ scan_at' = "thread" /\ UNCHANGED kept
     \/ GiveUpScan /\ kept' = kept \ {"handle"}
  /\ UNCHANGED <<devices, nChoose>>

(* CreateThread, whose answer is dropped: the handle is never closed.      *)
StartThread ==
  /\ scan_at = "thread"
  /\ scan_at' = "started"
  /\ kept' = kept \cup {"thread"} \/ UNCHANGED kept
  /\ UNCHANGED <<devices, nChoose>>

ScanStep ==
  \/ FindAllDevs \/ Choose \/ GetSelfAddr \/ OpenAdapter \/ MallocOidData
  \/ PacketRequest \/ OpenLive \/ CompileFilter \/ SetFilter \/ StartThread
ScanEnded == scan_at \in {"started", "gave up"}
============================================================================
