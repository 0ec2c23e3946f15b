----------------------------- MODULE LanScan -----------------------------
(***************************************************************************)
(* LocalAreaNetworkScan.cpp from the creation of the sending thread on:    *)
(* SendArpPacket asks for the addresses of the subnet, waits and raises    *)
(* g_bFlag; main prints the answers the capture handle delivers until it   *)
(* sees the flag.  A tick is the 1000 ms read timeout of the handle.       *)
(***************************************************************************)
EXTENDS Naturals, Sequences, FiniteSets

CONSTANTS
  HostBits,   (* numbers of zero bits the netmask can have                 *)
  Device,     (* other hosts that answer, by their number in the subnet    *)
  MaxDelay,   (* ticks a device takes at most to answer                    *)
  Grace,      (* ticks of Sleep(3000)                                      *)
  Self,       (* this host                                                 *)
  Stranger,   (* a host from which unasked ARP packets are captured        *)
  MaxChatter, (* bound on those packets                                    *)
  MaxErrors,  (* bound on failing calls of pcap_next_ex                    *)
  Failures    (* the calls that can fail: "CreateThread", "send"           *)

ASSUME LanScanAssumption ==
  /\ HostBits \subseteq 0 .. 30
  /\ IsFiniteSet(Device) /\ Device \subseteq Nat /\ {Self, Stranger} \subseteq Nat \ Device
  /\ {MaxDelay, Grace, MaxChatter, MaxErrors} \subseteq Nat
  /\ Failures \subseteq {"CreateThread", "send"}

VARIABLES
  bits,     (* zero bits of the netmask                                    *)
  delay,    (* device -> ticks it takes to answer                          *)
  main,     (* "create", "loop", "next", "close", "closed" or "exited"     *)
  sender,   (* "none", "init", "send", "grace" or "done"                   *)
  i,        (* loop variable of SendArpPacket                              *)
  wait,     (* ticks left of its Sleep                                     *)
  flag,     (* g_bFlag                                                     *)
  open,     (* the capture handle is open                                  *)
  asked,    (* hosts that were sent a request                              *)
  due,      (* device -> ticks until its answer, for those yet to answer   *)
  driver,   (* captured packets that no read has delivered yet             *)
  queue,    (* packets pcap_next_ex can return at once                     *)
  seen,     (* hosts that were printed                                     *)
  chatter, errors, lost   (* counts of unasked packets and failed calls    *)

setting == <<bits, delay>>
thread  == <<sender, i, wait, flag>>
network == <<asked, due>>
capture == <<driver, queue>>
counts  == <<chatter, errors, lost>>
vars    == <<setting, main, thread, open, network, capture, seen, counts>>

Request(h) == [op |-> "request", from |-> h]
Reply(h)   == [op |-> "reply", from |-> h]

Init ==
  /\ bits \in HostBits
  /\ delay \in [Device -> 0 .. MaxDelay]
  /\ main = "create"
  /\ sender = "none" /\ i = 0 /\ wait = 0 /\ flag = FALSE
  /\ open = TRUE
  /\ asked = {} /\ due = [d \in {} |-> 0]
  /\ driver = <<>> /\ queue = <<>>
  /\ seen = {}
  /\ chatter = 0 /\ errors = 0 /\ lost = 0

Up == main \notin {"closed", "exited"}
--------------------------------------------------------------------------
(* main.  The result of CreateThread is not looked at.                     *)
CreateThread ==
  /\ main = "create"
  /\ main' = "loop"
  /\ \/ sender' = "init"
     \/ "CreateThread" \in Failures /\ sender' = "none"
  /\ UNCHANGED <<setting, i, wait, flag, open, network, capture, seen, counts>>

CheckFlag ==
  /\ main = "loop"
  /\ main' = IF flag THEN "close" ELSE "next"
  /\ UNCHANGED <<setting, thread, open, network, capture, seen, counts>>

PrintedAny(packet) == {packet.from}    (* slip: requests are printed as well *)

(* What is printed of a captured ARP packet.                               *)
Printed(packet) == IF packet.op = "reply" THEN {packet.from} ELSE {}

Deliver ==
  /\ main = "next" /\ queue # <<>>
  /\ main' = "loop"
  /\ seen' = seen \cup Printed(Head(queue))
  /\ queue' = Tail(queue)
  /\ UNCHANGED <<setting, thread, open, network, driver, counts>>

NextFails ==
  /\ main = "next" /\ errors < MaxErrors
  /\ main' = "loop"
  /\ errors' = errors + 1
  /\ UNCHANGED <<setting, thread, open, network, capture, seen, chatter, lost>>

Close ==
  /\ main = "close"
  /\ main' = "closed"
  /\ open' = FALSE
  /\ UNCHANGED <<setting, thread, network, capture, seen, counts>>
--------------------------------------------------------------------------
(* calculateSubnetHosts.                                                   *)
SubnetHosts(b) == 2 ^ b - 2

(* SendArpPacket.  The mask 255.255.255.255 is inet_addr's error value,    *)
(* and the error ends the process.                                         *)
Begin ==
  /\ Up /\ sender = "init"
  /\ IF bits = 0 THEN main' = "exited" /\ UNCHANGED sender
     ELSE sender' = "send" /\ UNCHANGED main
  /\ UNCHANGED <<setting, i, wait, flag, open, network, capture, seen, counts>>

(* The request for host number i; the handle captures it as well.          *)
Send ==
  /\ Up /\ sender = "send" /\ i < SubnetHosts(bits)
  /\ i' = i + 1
  /\ \/ /\ asked' = asked \cup {i}
        /\ due' = IF i \in Device
                  THEN [d \in DOMAIN due \cup {i} |-> delay[d]] ELSE due
        /\ driver' = Append(driver, Request(Self))
        /\ UNCHANGED lost
     \/ /\ "send" \in Failures
        /\ lost' = lost + 1
        /\ UNCHANGED <<network, driver>>
  /\ UNCHANGED <<setting, main, sender, wait, flag, open, queue, seen, chatter, errors>>

SendDoneNoGrace ==            (* slip: does not sleep                        *)
  /\ Up /\ sender = "send" /\ i >= SubnetHosts(bits)
  /\ sender' = "grace"
  /\ UNCHANGED <<setting, main, i, wait, flag, open, network, capture, seen, counts>>

SendDoneEarlyFlag ==          (* slip: raises the flag, then sleeps          *)
  /\ Up /\ sender = "send" /\ i >= SubnetHosts(bits)
  /\ sender' = "grace"
  /\ wait' = Grace /\ flag' = TRUE
  /\ UNCHANGED <<setting, main, i, open, network, capture, seen, counts>>

SendDone ==
  /\ Up /\ sender = "send" /\ i >= SubnetHosts(bits)
  /\ sender' = "grace"
  /\ wait' = Grace
  /\ UNCHANGED <<setting, main, i, flag, open, network, capture, seen, counts>>

RaiseNoFlag ==                (* slip: returns without raising the flag      *)
  /\ Up /\ sender = "grace" /\ wait = 0
  /\ sender' = "done"
  /\ UNCHANGED <<setting, main, i, wait, flag, open, network, capture, seen, counts>>

RaiseFlag ==
  /\ Up /\ sender = "grace" /\ wait = 0
  /\ sender' = "done"
  /\ flag' = TRUE
  /\ UNCHANGED <<setting, main, i, wait, open, network, capture, seen, counts>>
--------------------------------------------------------------------------
(* The network.  Packets of others are captured at any time.               *)
Chatter ==
  /\ Up /\ chatter < MaxChatter
  /\ chatter' = chatter + 1
  /\ \E packet \in {Request(Stranger), Reply(Stranger)} :
       driver' = Append(driver, packet)
  /\ UNCHANGED <<setting, main, thread, open, network, queue, seen, errors, lost>>

(* Devices whose time has come answer.                                     *)
Answer(d) ==
  /\ Up /\ d \in DOMAIN due /\ due[d] = 0
  /\ due' = [x \in DOMAIN due \ {d} |-> due[x]]
  /\ driver' = Append(driver, Reply(d))
  /\ UNCHANGED <<setting, main, thread, open, asked, queue, seen, counts>>

(* Time passes while main waits in pcap_next_ex for packets and the sender *)
(* sleeps.  The timeout hands over what was captured before.               *)
Tick ==
  /\ main = "next" /\ queue = <<>>
  /\ \/ sender \in {"none", "done"} /\ UNCHANGED wait
     \/ sender = "grace" /\ wait > 0 /\ wait' = wait - 1
  /\ \A d \in DOMAIN due : due[d] > 0
  /\ due' = [d \in DOMAIN due |-> due[d] - 1]
  /\ queue' = driver /\ driver' = <<>>
  /\ main' = IF driver = <<>> THEN "loop" ELSE "next"
  /\ UNCHANGED <<setting, sender, i, flag, open, asked, seen, counts>>

Main   == CreateThread \/ CheckFlag \/ Deliver \/ NextFails \/ Close
Sender == Begin \/ Send \/ SendDone \/ RaiseFlag
Time   == Tick \/ \E d \in Device : Answer(d)

Next == Main \/ Sender \/ Time \/ Chatter

Spec == Init /\ [][Next]_vars /\ WF_vars(Main) /\ WF_vars(Sender) /\ WF_vars(Time)
--------------------------------------------------------------------------
(* Every device that was asked and takes at least two ticks less than the  *)
(* grace period is printed before main closes the handle, whatever other   *)
(* packets arrive ("a buffer time, so that the process does not end before *)
(* a device is done", LocalAreaNetworkScan.cpp 227-229).                   *)
EarlyAnswersPrinted ==
  main = "closed" =>
    \A d \in asked \cap Device : delay[d] + 2 <= Grace => d \in seen

(* Only hosts that really answered are printed: not this host, whose       *)
(* requests are captured too, and no device before it was asked (376-380). *)
OnlyAnswersPrinted ==
  seen \subseteq ((asked \cap Device) \ DOMAIN due) \cup {Stranger}

(* While the sending thread is at work the handle is open and main has not *)
(* returned: the thread works on that handle and on main's own variables.  *)
ThreadOutlivedByMain ==
  sender \in {"init", "send", "grace"} /\ main # "exited" => open

(* Once the thread was created the program comes to its end, whatever      *)
(* fails afterwards.                                                       *)
Terminates == sender # "none" ~> ~Up

(* The comment on the thread: requests go to all the IP addresses that are *)
(* possible in the local network (177, 212).                               *)
AllHostsAsked ==
  sender = "done" /\ lost = 0 => \A h \in 1 .. 2 ^ bits - 2 : h \in asked
==========================================================================
