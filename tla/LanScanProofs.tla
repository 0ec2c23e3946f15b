-------------------------- MODULE LanScanProofs --------------------------
(***************************************************************************)
(* The scan, for every subnet, every set of devices with every delay and   *)
(* every grace period: the answers that come in time are printed, only     *)
(* answers are printed, and the sending thread never works on a closed     *)
(* handle.                                                                 *)
(***************************************************************************)
EXTENDS LanScan, TLAPS

Packet == [op : {"request", "reply"}, from : Nat]

TypeOK ==
  /\ bits \in HostBits /\ delay \in [Device -> Nat]
  /\ main \in {"create", "loop", "next", "close", "closed", "exited"}
  /\ sender \in {"none", "init", "send", "grace", "done"}
  /\ i \in Nat /\ wait \in Nat /\ flag \in BOOLEAN /\ open \in BOOLEAN
  /\ DOMAIN due \subseteq asked \cap Device /\ due \in [DOMAIN due -> Nat]
  /\ driver \in Seq(Packet) /\ queue \in Seq(Packet)

(* The packet is among those captured.                                     *)
Has(packets, p) == \E k \in DOMAIN packets : packets[k] = p

(* Who can have answered: a device that was asked, or the stranger.        *)
Answered == ((asked \cap Device) \ DOMAIN due) \cup {Stranger}
OnlyTrueReplies(packets) ==
  \A k \in DOMAIN packets : packets[k].op = "reply" => packets[k].from \in Answered
AskedOnce == \A h \in asked : h \in Nat /\ h < i

(* The order of the end: the flag, then main's close.                      *)
EndInOrder ==
  /\ flag => sender = "done"
  /\ main \in {"close", "closed"} => flag
  /\ main # "closed" => open
  /\ main = "create" => sender = "none"
  /\ sender \in {"none", "init"} => asked = {}

(* Where the answer of a device stands that takes two ticks less than the  *)
(* grace period, and how much of the grace period is left then.            *)
InTime(d) ==
  \/ d \in seen
  \/ /\ sender = "send"
     /\ (d \in DOMAIN due /\ due[d] = delay[d]) \/ Has(driver, Reply(d))
  \/ /\ sender = "grace"
     /\ \/ d \in DOMAIN due /\ due[d] + Grace = delay[d] + wait
        \/ wait >= 2 /\ Has(driver, Reply(d))
        \/ wait >= 1 /\ Has(queue, Reply(d))
DueWhileSending == sender = "send" => \A d \in DOMAIN due : due[d] = delay[d]

Inv ==
  /\ TypeOK /\ AskedOnce /\ EndInOrder /\ DueWhileSending
  /\ OnlyAnswersPrinted /\ OnlyTrueReplies(driver) /\ OnlyTrueReplies(queue)
  /\ \A d \in asked \cap Device : delay[d] + 2 <= Grace => InTime(d)
--------------------------------------------------------------------------
LEMMA AppendFacts ==
  ASSUME NEW s \in Seq(Packet), NEW p \in Packet
  PROVE  /\ Append(s, p) \in Seq(Packet)
         /\ \A k \in DOMAIN Append(s, p) :
              Append(s, p)[k] = p \/ (k \in DOMAIN s /\ Append(s, p)[k] = s[k])
         /\ \A q : Has(s, q) => Has(Append(s, p), q)
         /\ Has(Append(s, p), p)
<1> DEFINE t == Append(s, p)
<1>1. /\ t \in Seq(Packet) /\ Len(t) = Len(s) + 1 /\ t[Len(s) + 1] = p
      /\ \A k \in 1 .. Len(s) : t[k] = s[k]
  OBVIOUS
<1>2. DOMAIN s = 1 .. Len(s) /\ DOMAIN t = 1 .. Len(s) + 1 /\ Len(s) \in Nat
  BY <1>1
<1> HIDE DEF t
<1>3. \A k \in DOMAIN t : t[k] = p \/ (k \in DOMAIN s /\ t[k] = s[k])
  BY <1>1, <1>2
<1>4. (\A q : Has(s, q) => Has(t, q)) /\ Has(t, p)
  BY <1>1, <1>2 DEF Has
<1> QED BY <1>1, <1>3, <1>4 DEF t

LEMMA TailFacts ==
  ASSUME NEW s \in Seq(Packet), s # <<>>
  PROVE  /\ Tail(s) \in Seq(Packet) /\ Head(s) \in Packet
         /\ \E k \in DOMAIN s : Head(s) = s[k]
         /\ \A k \in DOMAIN Tail(s) : k + 1 \in DOMAIN s /\ Tail(s)[k] = s[k + 1]
         /\ \A q : Has(s, q) => q = Head(s) \/ Has(Tail(s), q)
<1> DEFINE t == Tail(s)
<1>1. /\ t \in Seq(Packet) /\ Len(t) = Len(s) - 1
      /\ \A k \in 1 .. Len(t) : t[k] = s[k + 1]
      /\ Head(s) = s[1] /\ Len(s) \in Nat \ {0}
  OBVIOUS
<1>2. DOMAIN s = 1 .. Len(s) /\ DOMAIN t = 1 .. Len(t) /\ s[1] \in Packet
  BY <1>1
<1> HIDE DEF t
<1>3. /\ \E k \in DOMAIN s : Head(s) = s[k]
      /\ \A k \in DOMAIN t : k + 1 \in DOMAIN s /\ t[k] = s[k + 1]
  BY <1>1, <1>2
<1>4. ASSUME NEW q, Has(s, q) PROVE q = Head(s) \/ Has(t, q)
  <2>1. PICK k \in 1 .. Len(s) : s[k] = q
    BY <1>2, <1>4 DEF Has
  <2>2. CASE k = 1
    BY <1>1, <2>1, <2>2
  <2>3. CASE k # 1
    <3>1. k - 1 \in 1 .. Len(t) /\ t[k - 1] = q
      BY <1>1, <2>1, <2>3
    <3> QED BY <1>2, <3>1 DEF Has
  <2> QED BY <2>2, <2>3
<1> QED BY <1>1, <1>2, <1>3, <1>4 DEF t

LEMMA PacketFacts ==
  /\ \A h \in Nat : Request(h) \in Packet /\ Reply(h) \in Packet
  /\ \A h : Request(h).op # "reply" /\ Reply(h).op = "reply" /\ Reply(h).from = h
  /\ Device \subseteq Nat /\ Self \in Nat /\ Stranger \in Nat /\ Grace \in Nat
  /\ MaxDelay \in Nat
  BY LanScanAssumption DEF Request, Reply, Packet

LEMMA InitInv == Init => Inv
<1> SUFFICES ASSUME Init PROVE Inv
  OBVIOUS
<1>1. delay \in [Device -> Nat]
  BY PacketFacts DEF Init
<1>2. DOMAIN due = {} /\ due \in [DOMAIN due -> Nat]
  BY DEF Init
<1>3. driver \in Seq(Packet) /\ queue \in Seq(Packet) /\ DOMAIN driver = {} /\ DOMAIN queue = {}
  BY DEF Init
<1>4. TypeOK
  BY <1>1, <1>2, <1>3 DEF Init, TypeOK
<1> QED
  BY <1>3, <1>4 DEF Inv, Init, AskedOnce, EndInOrder, DueWhileSending, OnlyAnswersPrinted,
                    OnlyTrueReplies

(* Steps of main that deliver nothing, and the end of the thread's start.  *)
LEMMA MainStep ==
  ASSUME Inv, CreateThread \/ CheckFlag \/ NextFails \/ Close \/ Begin
  PROVE  Inv'
<1>1. UNCHANGED <<bits, delay, i, wait, flag, asked, due, driver, queue, seen>>
  BY DEF CreateThread, CheckFlag, NextFails, Close, Begin, setting, thread, network, capture
<1>2. TypeOK'
  BY <1>1 DEF CreateThread, CheckFlag, NextFails, Close, Begin, thread, Inv, TypeOK
<1>3. AskedOnce' /\ OnlyAnswersPrinted' /\ OnlyTrueReplies(driver)' /\ OnlyTrueReplies(queue)'
  BY <1>1 DEF Inv, AskedOnce, OnlyAnswersPrinted, OnlyTrueReplies, Answered
<1>4. EndInOrder'
  BY <1>1 DEF CreateThread, CheckFlag, NextFails, Close, Begin, Up, thread, Inv, TypeOK,
              EndInOrder
<1>5. asked = {} \/ sender' = sender
  BY DEF CreateThread, CheckFlag, NextFails, Close, Begin, thread, Inv, EndInOrder
<1>6. DueWhileSending'
  BY <1>1, <1>5 DEF Inv, TypeOK, DueWhileSending
<1>7. ASSUME NEW d \in asked' \cap Device, delay'[d] + 2 <= Grace PROVE InTime(d)'
  BY <1>1, <1>5, <1>7 DEF Inv, InTime
<1> QED BY <1>2, <1>3, <1>4, <1>6, <1>7 DEF Inv

LEMMA DeliverStep ==
  ASSUME Inv, Deliver
  PROVE  Inv'
<1>1. /\ main = "next" /\ queue # <<>> /\ main' = "loop" /\ queue' = Tail(queue)
      /\ seen' = seen \cup Printed(Head(queue))
      /\ UNCHANGED <<bits, delay, sender, i, wait, flag, open, asked, due, driver>>
  BY DEF Deliver, setting, thread, network
<1>2. queue \in Seq(Packet)
  BY DEF Inv, TypeOK
<1>3. /\ queue' \in Seq(Packet) /\ Head(queue) \in Packet
      /\ \E k \in DOMAIN queue : Head(queue) = queue[k]
      /\ \A k \in DOMAIN queue' : k + 1 \in DOMAIN queue /\ queue'[k] = queue[k + 1]
      /\ \A q : Has(queue, q) => q = Head(queue) \/ Has(queue', q)
  BY <1>1, <1>2, TailFacts
<1>4. TypeOK'
  BY <1>1, <1>3 DEF Inv, TypeOK
<1>5. AskedOnce' /\ EndInOrder' /\ DueWhileSending'
  BY <1>1 DEF Inv, AskedOnce, EndInOrder, DueWhileSending
<1>6. Answered' = Answered
  BY <1>1 DEF Answered
<1>7. OnlyTrueReplies(driver)' /\ OnlyTrueReplies(queue)'
  BY <1>1, <1>3, <1>6 DEF Inv, OnlyTrueReplies
<1>8. OnlyAnswersPrinted'
  <2>1. Printed(Head(queue)) \subseteq Answered
    BY <1>3 DEF Inv, OnlyTrueReplies, Printed
  <2> QED BY <1>1, <2>1 DEF Inv, OnlyAnswersPrinted, Answered
<1>9. ASSUME NEW d \in asked' \cap Device, delay'[d] + 2 <= Grace PROVE InTime(d)'
  <2>1. InTime(d)
    BY <1>1, <1>9 DEF Inv
  <2>2. CASE Has(queue, Reply(d)) /\ Reply(d) = Head(queue)
    <3>1. d \in Printed(Head(queue))
      BY <2>2, PacketFacts DEF Printed
    <3> QED BY <1>1, <3>1 DEF InTime
  <2>3. CASE Has(queue, Reply(d)) => Has(queue', Reply(d))
    BY <1>1, <2>1, <2>3 DEF InTime
  <2> QED BY <1>3, <2>2, <2>3
<1> QED BY <1>4, <1>5, <1>7, <1>8, <1>9 DEF Inv

LEMMA SendStep ==
  ASSUME Inv, Send
  PROVE  Inv'
<1>1. /\ sender = "send" /\ i' = i + 1
      /\ UNCHANGED <<bits, delay, main, sender, wait, flag, open, queue, seen>>
      /\ \/ /\ asked' = asked \cup {i}
            /\ due' = IF i \in Device
                      THEN [d \in DOMAIN due \cup {i} |-> delay[d]] ELSE due
            /\ driver' = Append(driver, Request(Self))
         \/ UNCHANGED <<asked, due, driver>>
  BY DEF Send, setting, network
<1>2. TypeOK /\ AskedOnce /\ DueWhileSending /\ i \in Nat
  BY DEF Inv, TypeOK
<1>3. CASE UNCHANGED <<asked, due, driver>>
  <2>1. TypeOK'
    BY <1>1, <1>2, <1>3 DEF TypeOK
  <2>2. AskedOnce'
    BY <1>1, <1>2, <1>3 DEF AskedOnce
  <2>3. EndInOrder' /\ DueWhileSending' /\ OnlyAnswersPrinted'
        /\ OnlyTrueReplies(driver)' /\ OnlyTrueReplies(queue)'
    BY <1>1, <1>3 DEF Inv, EndInOrder, DueWhileSending, OnlyAnswersPrinted, OnlyTrueReplies,
                      Answered
  <2>4. ASSUME NEW d \in asked' \cap Device, delay'[d] + 2 <= Grace PROVE InTime(d)'
    BY <1>1, <1>3, <2>4 DEF Inv, InTime
  <2> QED BY <2>1, <2>2, <2>3, <2>4 DEF Inv
<1>4. CASE /\ asked' = asked \cup {i}
           /\ due' = IF i \in Device
                     THEN [d \in DOMAIN due \cup {i} |-> delay[d]] ELSE due
           /\ driver' = Append(driver, Request(Self))
  <2>1. DOMAIN due' = IF i \in Device THEN DOMAIN due \cup {i} ELSE DOMAIN due
    BY <1>4
  <2>2. \A d \in DOMAIN due' : due'[d] = delay[d]
    BY <1>1, <1>2, <1>4 DEF DueWhileSending
  <2>3. due' \in [DOMAIN due' -> Nat] /\ DOMAIN due' \subseteq asked' \cap Device
    BY <1>2, <1>4, <2>1 DEF TypeOK
  <2>4. /\ driver' \in Seq(Packet)
        /\ \A k \in DOMAIN driver' : driver'[k] = Request(Self) \/
             (k \in DOMAIN driver /\ driver'[k] = driver[k])
        /\ \A q : Has(driver, q) => Has(driver', q)
    BY <1>2, <1>4, AppendFacts, PacketFacts DEF TypeOK
  <2>5. TypeOK'
    BY <1>1, <1>2, <2>3, <2>4 DEF TypeOK
  <2>6. AskedOnce' /\ i \notin asked
    BY <1>1, <1>2, <1>4 DEF AskedOnce
  <2>7. EndInOrder' /\ DueWhileSending'
    BY <1>1, <2>2 DEF Inv, EndInOrder, DueWhileSending
  <2>8. Answered \subseteq Answered'
    BY <1>4, <2>1, <2>6 DEF Answered
  <2>9. OnlyAnswersPrinted'
    BY <1>1, <2>8 DEF Inv, OnlyAnswersPrinted, Answered
  <2>10. OnlyTrueReplies(driver)' /\ OnlyTrueReplies(queue)'
    BY <1>1, <2>4, <2>8, PacketFacts DEF Inv, OnlyTrueReplies
  <2>11. ASSUME NEW d \in asked' \cap Device, delay'[d] + 2 <= Grace PROVE InTime(d)'
    <3>1. CASE d = i
      BY <1>1, <2>1, <2>2, <2>11, <3>1 DEF InTime
    <3>2. CASE d # i
      <4>1. InTime(d)
        BY <1>1, <1>4, <2>11, <3>2 DEF Inv
      <4>2. CASE d \in DOMAIN due
        BY <1>1, <2>1, <2>2, <4>2 DEF InTime
      <4>3. CASE d \notin DOMAIN due
        BY <1>1, <2>4, <4>1, <4>3 DEF InTime
      <4> QED BY <4>2, <4>3
    <3> QED BY <3>1, <3>2
  <2> QED BY <2>5, <2>6, <2>7, <2>9, <2>10, <2>11 DEF Inv
<1> QED BY <1>1, <1>3, <1>4

LEMMA EndStep ==
  ASSUME Inv, SendDone \/ RaiseFlag
  PROVE  Inv'
<1>1. /\ UNCHANGED <<bits, delay, main, i, open, asked, due, driver, queue, seen>>
      /\ \/ /\ sender = "send" /\ sender' = "grace" /\ wait' = Grace /\ flag' = flag
         \/ /\ sender = "grace" /\ wait = 0 /\ sender' = "done" /\ flag' = TRUE /\ wait' = wait
  BY DEF SendDone, RaiseFlag, setting, network, capture
<1>2. TypeOK'
  BY <1>1, PacketFacts DEF Inv, TypeOK
<1>3. AskedOnce' /\ OnlyAnswersPrinted' /\ OnlyTrueReplies(driver)' /\ OnlyTrueReplies(queue)'
  BY <1>1 DEF Inv, AskedOnce, OnlyAnswersPrinted, OnlyTrueReplies, Answered
<1>4. EndInOrder' /\ DueWhileSending'
  BY <1>1 DEF Inv, EndInOrder, DueWhileSending
<1>5. ASSUME NEW d \in asked' \cap Device, delay'[d] + 2 <= Grace PROVE InTime(d)'
  <2>1. InTime(d) /\ delay[d] \in Nat /\ (d \in DOMAIN due => due[d] \in Nat)
    BY <1>1, <1>5 DEF Inv, TypeOK
  <2>2. CASE sender = "send"
    BY <1>1, <1>5, <2>1, <2>2, PacketFacts DEF InTime
  <2>3. CASE sender = "grace"
    <3>1. wait = 0 /\ delay[d] + 2 <= Grace
      BY <1>1, <1>5, <2>3
    <3>2. d \in DOMAIN due => due[d] + Grace # delay[d] + wait
      BY <2>1, <3>1, PacketFacts
    <3>3. d \in seen
      BY <2>1, <2>3, <3>1, <3>2 DEF InTime
    <3> QED BY <1>1, <3>3 DEF InTime
  <2> QED BY <1>1, <2>2, <2>3
<1> QED BY <1>2, <1>3, <1>4, <1>5 DEF Inv

LEMMA ChatterStep ==
  ASSUME Inv, Chatter
  PROVE  Inv'
<1>1. PICK p \in {Request(Stranger), Reply(Stranger)} : driver' = Append(driver, p)
  BY DEF Chatter
<1>2. UNCHANGED <<bits, delay, main, sender, i, wait, flag, open, asked, due, queue, seen>>
  BY DEF Chatter, setting, thread, network
<1>3. p \in Packet /\ (p.op = "reply" => p.from \in Answered)
  BY PacketFacts DEF Answered
<1>4. /\ driver' \in Seq(Packet)
      /\ \A k \in DOMAIN driver' : driver'[k] = p \/
           (k \in DOMAIN driver /\ driver'[k] = driver[k])
      /\ \A q : Has(driver, q) => Has(driver', q)
  BY <1>1, <1>3, AppendFacts DEF Inv, TypeOK
<1>5. TypeOK'
  BY <1>2, <1>4 DEF Inv, TypeOK
<1>6. AskedOnce' /\ EndInOrder' /\ DueWhileSending' /\ OnlyAnswersPrinted'
  BY <1>2 DEF Inv, AskedOnce, EndInOrder, DueWhileSending, OnlyAnswersPrinted
<1>7. OnlyTrueReplies(driver)' /\ OnlyTrueReplies(queue)'
  <2>1. Answered' = Answered
    BY <1>2 DEF Answered
  <2> QED BY <1>2, <1>3, <1>4, <2>1 DEF Inv, OnlyTrueReplies
<1>8. ASSUME NEW d \in asked' \cap Device, delay'[d] + 2 <= Grace PROVE InTime(d)'
  BY <1>2, <1>4, <1>8 DEF Inv, InTime
<1> QED BY <1>5, <1>6, <1>7, <1>8 DEF Inv

LEMMA AnswerStep ==
  ASSUME Inv, NEW a \in Device, Answer(a)
  PROVE  Inv'
<1>1. /\ a \in DOMAIN due /\ due[a] = 0
      /\ due' = [x \in DOMAIN due \ {a} |-> due[x]]
      /\ driver' = Append(driver, Reply(a))
      /\ UNCHANGED <<bits, delay, main, sender, i, wait, flag, open, asked, queue, seen>>
  BY DEF Answer, setting, thread
<1>2. /\ DOMAIN due' = DOMAIN due \ {a} /\ \A d \in DOMAIN due' : due'[d] = due[d]
      /\ due' \in [DOMAIN due' -> Nat]
  BY <1>1 DEF Inv, TypeOK
<1>3. a \in Answered' /\ Answered \subseteq Answered'
  BY <1>1, <1>2 DEF Inv, TypeOK, Answered
<1>4. /\ driver' \in Seq(Packet)
      /\ \A k \in DOMAIN driver' : driver'[k] = Reply(a) \/
           (k \in DOMAIN driver /\ driver'[k] = driver[k])
      /\ \A q : Has(driver, q) => Has(driver', q)
      /\ Has(driver', Reply(a))
  BY <1>1, AppendFacts, PacketFacts DEF Inv, TypeOK
<1>5. TypeOK'
  BY <1>1, <1>2, <1>4 DEF Inv, TypeOK
<1>6. AskedOnce' /\ EndInOrder' /\ DueWhileSending' /\ OnlyAnswersPrinted'
  <2>1. AskedOnce' /\ EndInOrder'
    BY <1>1 DEF Inv, AskedOnce, EndInOrder
  <2>2. DueWhileSending'
    BY <1>1, <1>2 DEF Inv, DueWhileSending
  <2>3. OnlyAnswersPrinted'
    BY <1>1, <1>3 DEF Inv, OnlyAnswersPrinted, Answered
  <2> QED BY <2>1, <2>2, <2>3
<1>7. OnlyTrueReplies(driver)' /\ OnlyTrueReplies(queue)'
  BY <1>1, <1>3, <1>4, PacketFacts DEF Inv, OnlyTrueReplies
<1>8. ASSUME NEW d \in asked' \cap Device, delay'[d] + 2 <= Grace PROVE InTime(d)'
  <2>1. InTime(d) /\ delay[d] \in Nat /\ delay[d] + 2 <= Grace
    BY <1>1, <1>8 DEF Inv, TypeOK
  <2>2. CASE d = a /\ d \in DOMAIN due
    <3>1. due[d] + Grace = delay[d] + wait => wait >= 2
      BY <1>1, <2>1, <2>2, PacketFacts DEF Inv, TypeOK
    <3> QED BY <1>1, <1>4, <2>1, <2>2, <3>1 DEF InTime
  <2>3. CASE ~(d = a /\ d \in DOMAIN due)
    BY <1>1, <1>2, <1>4, <2>1, <2>3 DEF InTime
  <2> QED BY <2>2, <2>3
<1> QED BY <1>5, <1>6, <1>7, <1>8 DEF Inv

LEMMA TickStep ==
  ASSUME Inv, Tick
  PROVE  Inv'
<1>1. /\ main = "next" /\ main' \in {"loop", "next"} /\ queue = <<>>
      /\ \/ sender \in {"none", "done"} /\ wait' = wait
         \/ sender = "grace" /\ wait > 0 /\ wait' = wait - 1
      /\ \A d \in DOMAIN due : due[d] > 0
      /\ due' = [d \in DOMAIN due |-> due[d] - 1]
      /\ queue' = driver /\ driver' = <<>>
      /\ UNCHANGED <<bits, delay, sender, i, flag, open, asked, seen>>
  BY DEF Tick, setting
<1>2. /\ DOMAIN due' = DOMAIN due /\ \A d \in DOMAIN due : due'[d] = due[d] - 1
      /\ due' \in [DOMAIN due' -> Nat]
  BY <1>1 DEF Inv, TypeOK
<1>3. driver' \in Seq(Packet) /\ DOMAIN driver' = {} /\ wait' \in Nat
  BY <1>1 DEF Inv, TypeOK
<1>4. TypeOK'
  BY <1>1, <1>2, <1>3 DEF Inv, TypeOK
<1>5. AskedOnce' /\ EndInOrder' /\ DueWhileSending' /\ OnlyAnswersPrinted'
  BY <1>1, <1>2 DEF Inv, AskedOnce, EndInOrder, DueWhileSending, OnlyAnswersPrinted
<1>6. OnlyTrueReplies(driver)' /\ OnlyTrueReplies(queue)'
  <2>1. Answered' = Answered
    BY <1>1, <1>2 DEF Answered
  <2> QED BY <1>1, <1>3, <2>1 DEF Inv, OnlyTrueReplies
<1>7. ASSUME NEW d \in asked' \cap Device, delay'[d] + 2 <= Grace PROVE InTime(d)'
  <2>1. InTime(d) /\ delay[d] \in Nat /\ (d \in DOMAIN due => due[d] \in Nat)
    BY <1>1, <1>7 DEF Inv, TypeOK
  <2>2. ~Has(queue, Reply(d)) /\ wait \in Nat /\ Grace \in Nat
    BY <1>1, PacketFacts DEF Has, Inv, TypeOK
  <2>3. CASE d \in seen
    BY <1>1, <2>3 DEF InTime
  <2>4. CASE d \notin seen
    <3>1. sender = "grace" /\ wait' = wait - 1 /\ wait > 0
      BY <1>1, <2>1, <2>4 DEF InTime
    <3>2. CASE d \in DOMAIN due /\ due[d] + Grace = delay[d] + wait
      <4>1. due'[d] + Grace = delay[d] + wait'
        BY <1>2, <2>1, <2>2, <3>1, <3>2
      <4> QED BY <1>1, <1>2, <3>1, <3>2, <4>1 DEF InTime
    <3>3. CASE wait >= 2 /\ Has(driver, Reply(d))
      <4>1. wait' >= 1
        BY <2>2, <3>1, <3>3
      <4> QED BY <1>1, <3>1, <3>3, <4>1 DEF InTime
    <3> QED BY <2>1, <2>2, <2>4, <3>1, <3>2, <3>3 DEF InTime
  <2> QED BY <2>3, <2>4
<1> QED BY <1>4, <1>5, <1>6, <1>7 DEF Inv

LEMMA StutterInv == Inv /\ UNCHANGED vars => Inv'
<1> SUFFICES ASSUME Inv, UNCHANGED vars PROVE Inv'
  OBVIOUS
<1>1. UNCHANGED <<bits, delay, main, sender, i, wait, flag, open, asked, due, driver, queue, seen>>
  BY DEF vars, setting, thread, network, capture
<1>2. TypeOK' /\ AskedOnce' /\ EndInOrder' /\ DueWhileSending' /\ OnlyAnswersPrinted'
  BY <1>1 DEF Inv, TypeOK, AskedOnce, EndInOrder, DueWhileSending, OnlyAnswersPrinted
<1>3. OnlyTrueReplies(driver)' /\ OnlyTrueReplies(queue)'
  BY <1>1 DEF Inv, OnlyTrueReplies, Answered
<1>4. ASSUME NEW d \in asked' \cap Device, delay'[d] + 2 <= Grace PROVE InTime(d)'
  BY <1>1, <1>4 DEF Inv, InTime
<1> QED BY <1>2, <1>3, <1>4 DEF Inv
--------------------------------------------------------------------------
(* The invariant holds throughout the scan, whichever calls fail.          *)
THEOREM Invariance == Spec => []Inv
<1>1. Inv /\ [Next]_vars => Inv'
  BY MainStep, DeliverStep, SendStep, EndStep, ChatterStep, AnswerStep, TickStep, StutterInv
  DEF Next, Main, Sender, Time
<1> QED BY InitInv, <1>1, PTL DEF Spec

(* Only hosts that were asked and answered are printed, besides those that *)
(* send replies unasked: not the requests of this host, which the handle   *)
(* captures as well (LocalAreaNetworkScan.cpp 376-380).                    *)
THEOREM OnlyAnswersArePrinted == Spec => []OnlyAnswersPrinted
<1>1. Inv => OnlyAnswersPrinted
  BY DEF Inv
<1> QED BY Invariance, <1>1, PTL

(* The sending thread never works on a handle that main has closed: main   *)
(* closes it only behind g_bFlag, the last thing the thread writes (229,   *)
(* 351-397).                                                               *)
THEOREM HandleOutlivesThread == Spec => []ThreadOutlivedByMain
<1>1. Inv => ThreadOutlivedByMain
  BY DEF Inv, TypeOK, EndInOrder, ThreadOutlivedByMain
<1> QED BY Invariance, <1>1, PTL

(* Whatever else is captured, the answer of a device that needs two read   *)
(* timeouts less than the grace period is printed before the scan ends     *)
(* (226-229).                                                              *)
THEOREM EarlyAnswersArePrinted == Spec => []EarlyAnswersPrinted
<1>1. Inv => EarlyAnswersPrinted
  BY DEF Inv, EndInOrder, EarlyAnswersPrinted, InTime
<1> QED BY Invariance, <1>1, PTL
==========================================================================
