--------------------------- MODULE PatchProofs ---------------------------
(***************************************************************************)
(* What Mhook_SetHook needs while it overwrites a function: the other      *)
(* threads held out of the way (Suspend), and a trampoline in reach        *)
(* (JumpReach).                                                            *)
(*                                                                         *)
(* Threads, for any number of them, whichever calls fail and however often *)
(* mhook tries: the suspend counts balance but for the second attempts     *)
(* that failed, and as long as nothing went wrong nobody runs into bytes   *)
(* that are being overwritten.                                             *)
(*                                                                         *)
(* Jumps and displacements, for every address, every memory map and every  *)
(* granularity: they reach, as long as the structure is not larger than a  *)
(* granule.                                                                *)
(***************************************************************************)
EXTENDS Suspend, JumpReach, TLAPS

(* Every variable holds a value of its kind.                               *)
TypeOK ==
  /\ code \in {"orig", "torn", "jump"} /\ ptr \in {"sys", "tramp"}
  /\ life \in [Worker -> {"unborn", "alive", "dead", "crashed"}]
  /\ ip \in [Worker -> {"out", "entry", "mid", "hook", "tramp"}]
  /\ susp \in [Worker -> Nat] /\ app \in [Worker -> Nat]
  /\ missed \in [Worker -> Nat]
  /\ pc \in {"idle", "snapshot", "malloc", "walk", "suspend", "look", "sleep",
             "patch", "patching", "publish", "resume", "free"}
  /\ todo \subseteq Worker /\ held \subseteq Worker
  /\ cur \in Worker \cup {NULL} /\ tries \in Nat
  /\ buffer \in BOOLEAN /\ clean \in BOOLEAN

(* The suspend counts, also of the threads that are created later.         *)
Extra(w) == IF w \in held \/ (pc = "look" /\ cur = w) THEN 1 ELSE 0
Balance ==
  \A w \in Worker :
    life[w] \in {"alive", "unborn"} =>
      /\ susp[w] <= app[w] + Extra(w)
      /\ app[w] + Extra(w) <= susp[w] + missed[w]
NoMiss == clean => \A w \in Worker : missed[w] = 0

(* A thread that is to come is outside, nobody suspended it, and it is in  *)
(* none of mhook's lists.                                                  *)
ToCome ==
  \A w \in Worker :
    life[w] = "unborn" =>
      ip[w] = "out" /\ app[w] = 0 /\ w \notin todo \cup held /\ w # cur

(* Where the patching thread is in its walk over the snapshot.             *)
Walk ==
  /\ IF pc \in {"suspend", "look", "sleep"} THEN cur \in todo ELSE cur = NULL
  /\ todo \cap held = {}
  /\ pc \notin {"malloc", "walk", "suspend", "look", "sleep"} => todo = {}
  /\ pc \in {"idle", "snapshot", "malloc", "free"} => held = {}

(* The bytes and the pointer disagree only from the overwriting to the     *)
(* moment the pointer moves.                                               *)
Text ==
  CASE pc = "patching" -> code = "torn"
    [] pc = "publish"  -> code = IF ptr = "sys" THEN "jump" ELSE "orig"
    [] OTHER           -> code = IF ptr = "sys" THEN "orig" ELSE "jump"

(* If nothing went wrong, every thread alive is still to be visited or is  *)
(* held, those held are out of the way, and once the bytes changed nobody  *)
(* stands behind the first of them.                                        *)
Covered ==
  /\ clean
  /\ pc \in {"malloc", "walk", "suspend", "look", "sleep", "patch", "patching",
             "publish"}
  => \A w \in Worker : Alive(w) => w \in todo \cup held
HeldOut == clean => \A w \in held : Alive(w) => ~InRange(w)
NobodyBehind ==
  clean /\ code # "orig" => \A w \in Worker : Alive(w) => ip[w] # "mid"

Inv ==
  /\ TypeOK
  /\ Balance
  /\ NoMiss
  /\ ToCome
  /\ Walk
  /\ Text
  /\ Covered
  /\ HeldOut
  /\ NobodyBehind
  /\ NoCrashWhenClean
--------------------------------------------------------------------------
LEMMA InitInv == Init => Inv
<1> SUFFICES ASSUME Init PROVE Inv
  OBVIOUS
<1> USE SuspendAssumption DEF Init, Alive
<1>1. TypeOK
  <2>1. app \in [Worker -> Nat] /\ susp = app
    OBVIOUS
  <2>2. ip \in [Worker -> {"out", "entry", "mid", "hook", "tramp"}]
    OBVIOUS
  <2> QED BY <2>1, <2>2 DEF TypeOK
<1>2. Balance /\ NoMiss /\ ToCome
  BY DEF Balance, NoMiss, Extra, NoMiss, ToCome
<1>3. Walk /\ Text /\ Covered
  BY DEF Walk, Text, Covered
<1>4. HeldOut /\ NobodyBehind /\ NoCrashWhenClean
  BY DEF HeldOut, NobodyBehind, NoCrashWhenClean
<1> QED
  BY <1>1, <1>2, <1>3, <1>4 DEF Inv
--------------------------------------------------------------------------
(* The other threads.  Only one that runs takes a step; by Balance mhook   *)
(* does not hold it, so if nothing went wrong nothing is being overwritten *)
(* and the bytes it fetches are whole.                                     *)
LEMMA ExecuteInv ==
  ASSUME Inv, NEW w \in Worker, Running(w), Execute(w)
  PROVE  Inv'
<1> USE SuspendAssumption
    DEF Inv, TypeOK, Execute, MoveTo, Crash, text, walk, Alive, Running
<1> DEFINE Moves == /\ ip' = [ip EXCEPT ![w] = ip'[w]]
                    /\ ip'[w] \in {"out", "entry", "mid", "hook", "tramp"}
                    /\ life' = life
           Goes  == /\ ip' = ip
                    /\ life' = [life EXCEPT ![w] = life'[w]]
                    /\ life'[w] \in {"dead", "crashed"}
<1>1. Moves \/ Goes
  BY DEF CallFunction, Return, Fetch, FetchMid, HookCalls, Exit
<1>2. clean => w \notin held /\ ~(pc = "look" /\ cur = w)
  BY DEF Balance, NoMiss, Extra
<1>3. TypeOK'
  BY <1>1
<1>4. Balance' /\ NoMiss'
  BY <1>1 DEF Balance, NoMiss, Extra
<1>5. ToCome'
  BY <1>1 DEF ToCome
<1>6. Walk' /\ Text'
  BY DEF Walk, Text
<1>7. Covered'
  BY <1>1 DEF Covered
<1>8. HeldOut'
  BY <1>1, <1>2 DEF HeldOut, InRange
<1>9. NobodyBehind'
  BY DEF NobodyBehind, CallFunction, Return, Fetch, FetchMid, HookCalls, Exit
<1>10. NoCrashWhenClean'
  <2>1. clean => ~Crash(w)
    <3>1. clean => code # "torn"
      BY <1>2 DEF Covered, Walk, Text
    <3>2. clean /\ ip[w] = "mid" => code = "orig"
      BY DEF NobodyBehind
    <3> QED
      BY <3>1, <3>2 DEF CallFunction, Return, Fetch, FetchMid, HookCalls, Exit
  <2>2. clean => life'[w] # "crashed"
    BY <2>1 DEF NoCrashWhenClean, CallFunction, Return, Fetch, FetchMid,
       HookCalls, Exit
  <2> QED
    BY <1>1, <2>2 DEF NoCrashWhenClean
<1> QED
  BY <1>3, <1>4, <1>5, <1>6, <1>7, <1>8, <1>9, <1>10

LEMMA WorkInv ==
  ASSUME Inv, NEW w \in Worker, Work(w)
  PROVE  Inv'
<1> USE DEF Inv, TypeOK, Work, text, threads, walk, Alive
<1>1. CASE Execute(w)
  BY <1>1, ExecuteInv
<1>2. CASE UseHeap(w)
  BY <1>2 DEF UseHeap, Balance, NoMiss, Extra, ToCome, Walk, Text, Covered,
     HeldOut,
              InRange, NobodyBehind, NoCrashWhenClean
<1>3. ASSUME NEW n \in Worker, Spawn(w, n) PROVE Inv'
  <2> USE <1>3 DEF Spawn
  <2>1. TypeOK' /\ Balance' /\ NoMiss' /\ ToCome'
    BY DEF Balance, NoMiss, Extra, ToCome
  <2>2. Walk' /\ Text' /\ Covered'
    BY DEF Walk, Text, Covered
  <2>3. HeldOut' /\ NobodyBehind' /\ NoCrashWhenClean'
    BY DEF ToCome, HeldOut, InRange, NobodyBehind, NoCrashWhenClean
  <2> QED BY <2>1, <2>2, <2>3
<1>4. ASSUME NEW n \in Worker, AppResume(n) PROVE Inv'
  <2> USE <1>4 DEF AppResume, Resumed
  <2>1. life[n] # "unborn"
    BY DEF ToCome
  <2>2. TypeOK' /\ Balance' /\ NoMiss'
    BY <2>1 DEF Balance, NoMiss, Extra
  <2>3. ToCome' /\ Walk' /\ Text' /\ Covered'
    BY DEF ToCome, Walk, Text, Covered
  <2>4. HeldOut' /\ NobodyBehind' /\ NoCrashWhenClean'
    BY DEF HeldOut, InRange, NobodyBehind, NoCrashWhenClean
  <2> QED BY <2>2, <2>3, <2>4
<1> QED
  BY <1>1, <1>2, <1>3, <1>4
--------------------------------------------------------------------------
(* The patching thread, up to the overwriting: whoever is alive is in the  *)
(* snapshot, and whoever leaves the list of those to be visited is held,   *)
(* is gone, or costs the call its cleanness.                               *)
LEMMA SnapshotInv ==
  ASSUME Inv, Snapshot \/ Malloc
  PROVE  Inv'
<1> USE DEF Inv, TypeOK, Snapshot, Malloc, Goto, text, threads, Alive
<1>1. TypeOK'
  OBVIOUS
<1>2. Balance'
  BY DEF Balance, Extra
<1>3. NoMiss' /\ ToCome'
  BY DEF NoMiss, ToCome, Walk
<1>4. Walk' /\ Text'
  BY DEF Walk, Text
<1>5. Covered' /\ HeldOut'
  BY DEF Covered, HeldOut, InRange
<1>6. NobodyBehind' /\ NoCrashWhenClean'
  BY DEF NobodyBehind, NoCrashWhenClean
<1> QED
  BY <1>1, <1>2, <1>3, <1>4, <1>5, <1>6

LEMMA OpenInv ==
  ASSUME Inv, NEW w \in todo, Open(w)
  PROVE  Inv'
<1> USE DEF Inv, TypeOK, Open, Goto, text, threads, Alive
<1>1. TypeOK'
  <2>1. cur' \in Worker \cup {NULL} /\ todo' \subseteq Worker
    OBVIOUS
  <2>2. clean' \in BOOLEAN
    OBVIOUS
  <2> QED BY <2>1, <2>2
<1>2. Walk'
  BY DEF Walk
<1>3. Balance' /\ NoMiss' /\ ToCome' /\ Text'
  BY DEF Balance, NoMiss, Extra, ToCome, Walk, Text
<1>4. Covered'
  BY DEF Covered
<1>5. HeldOut' /\ NobodyBehind' /\ NoCrashWhenClean'
  BY DEF HeldOut, InRange, NobodyBehind, NoCrashWhenClean
<1> QED
  BY <1>1, <1>2, <1>3, <1>4, <1>5

LEMMA SuspendItInv ==
  ASSUME Inv, SuspendIt
  PROVE  Inv'
<1> USE SuspendAssumption
    DEF Inv, TypeOK, SuspendIt, Suspended, Goto, text, threads, Alive
<1>1. cur \in Worker /\ cur \in todo /\ cur \notin held
  BY DEF Walk
<1>2. TypeOK'
  <2>1. susp' \in [Worker -> Nat]
    BY <1>1
  <2> QED BY <1>1, <2>1
<1>3. Walk'
  BY <1>1 DEF Walk
<1>4. Balance' /\ NoMiss' /\ ToCome'
  BY <1>1 DEF Balance, NoMiss, Extra, ToCome
<1>5. Text'
  BY DEF Text
<1>6. Covered'
  BY DEF Covered
<1>7. HeldOut' /\ NobodyBehind' /\ NoCrashWhenClean'
  BY DEF HeldOut, InRange, NobodyBehind, NoCrashWhenClean
<1> QED
  BY <1>2, <1>3, <1>4, <1>5, <1>6, <1>7

LEMMA LookInv ==
  ASSUME Inv, Look
  PROVE  Inv'
<1> USE SuspendAssumption
    DEF Inv, TypeOK, Look, SeenIn, SeenOut, Leave, Keep, Retry, GiveUp, Resumed,
        Goto, text, threads, Running, Alive
<1>1. cur \in Worker /\ cur \in todo /\ cur \notin held
  BY DEF Walk
<1>2. TypeOK'
  <2>1. susp' \in [Worker -> Nat]
    BY <1>1
  <2>2. pc' \in {"walk", "sleep"} /\ tries' \in Nat
    OBVIOUS
  <2>3. clean' \in BOOLEAN
    OBVIOUS
  <2>4. todo' \subseteq Worker /\ held' \subseteq Worker
    BY <1>1
  <2>5. cur' \in Worker \cup {NULL}
    BY <1>1
  <2> QED BY <2>1, <2>2, <2>3, <2>4, <2>5
<1>3. Walk'
  BY <1>1 DEF Walk
<1>4. Balance' /\ NoMiss' /\ ToCome'
  <2>1. Balance'
    BY <1>1 DEF Balance, Extra
  <2>2. NoMiss' /\ ToCome'
    BY <1>1 DEF NoMiss, ToCome
  <2> QED BY <2>1, <2>2
<1>5. Text' /\ Covered'
  <2>1. Text'
    BY DEF Text
  <2>2. Covered'
    BY <1>1 DEF Covered
  <2> QED BY <2>1, <2>2
<1>6. HeldOut'
  <2>1. clean /\ life[cur] = "alive" => susp[cur] > 0
    BY <1>1 DEF Balance, NoMiss, Extra
  <2>2. held' \subseteq held \cup {cur}
    OBVIOUS
  <2>3. clean' /\ cur \in held' /\ life[cur] = "alive" => ~InRange(cur)
    <3>1. susp[cur] \in Nat /\ cur \notin held
      BY <1>1
    <3>2. CASE Keep /\ SeenOut /\ UNCHANGED clean
      BY <3>1, <3>2, <2>1
    <3>3. CASE held' = held \/ ~clean' \/ life[cur] # "alive"
      BY <3>1, <3>3
    <3> QED BY <3>2, <3>3
  <2>4. UNCHANGED <<life, ip>> /\ (clean' => clean)
    OBVIOUS
  <2> QED BY <2>2, <2>3, <2>4 DEF HeldOut, InRange
<1>7. NobodyBehind' /\ NoCrashWhenClean'
  <2>1. UNCHANGED <<code, life, ip>> /\ (clean' => clean)
    OBVIOUS
  <2> QED BY <2>1 DEF NobodyBehind, NoCrashWhenClean
<1> QED
  BY <1>2, <1>3, <1>4, <1>5, <1>6, <1>7

LEMMA ResuspendInv ==
  ASSUME Inv, Resuspend
  PROVE  Inv'
<1> USE SuspendAssumption
    DEF Inv, TypeOK, Resuspend, Suspended, Goto, text, threads, Alive
<1>1. cur \in Worker /\ cur \in todo /\ cur \notin held
  BY DEF Walk
<1>2. TypeOK'
  <2>1. susp' \in [Worker -> Nat] /\ missed' \in [Worker -> Nat]
    BY <1>1
  <2>2. pc' = "look" /\ tries' \in Nat
    OBVIOUS
  <2>3. clean' \in BOOLEAN
    OBVIOUS
  <2> QED BY <2>1, <2>2, <2>3
<1>3. Walk'
  BY <1>1 DEF Walk
<1>4. Balance' /\ NoMiss' /\ ToCome'
  BY <1>1 DEF Balance, NoMiss, Extra, ToCome
<1>5. Text'
  BY DEF Text
<1>6. Covered'
  BY DEF Covered
<1>7. HeldOut' /\ NobodyBehind' /\ NoCrashWhenClean'
  BY DEF HeldOut, InRange, NobodyBehind, NoCrashWhenClean
<1> QED
  BY <1>2, <1>3, <1>4, <1>5, <1>6, <1>7

(* The overwriting.  At the end of the walk nobody is left to be visited,  *)
(* so if nothing went wrong all are held, and out of the way.              *)
LEMMA PatchInv ==
  ASSUME Inv, WalkDone \/ Patch \/ PatchEnd \/ Publish
  PROVE  Inv'
<1> USE DEF Inv, TypeOK, WalkDone, Patch, PatchEnd, Publish, Goto, text,
       threads,
            walk, Alive
<1>1. TypeOK' /\ Balance' /\ NoMiss' /\ ToCome'
  BY DEF Balance, NoMiss, Extra, ToCome
<1>2. Walk' /\ Text'
  BY DEF Walk, Text
<1>3. Covered' /\ HeldOut' /\ NoCrashWhenClean'
  BY DEF Covered, HeldOut, InRange, NoCrashWhenClean
<1>4. NobodyBehind'
  BY DEF NobodyBehind, Covered, HeldOut, InRange, Walk
<1> QED
  BY <1>1, <1>2, <1>3, <1>4

(* Behind the overwriting the threads are let go one after the other.      *)
LEMMA ResumeInv ==
  ASSUME Inv, Start \/ (\E w \in held : Resume(w)) \/ ResumeDone \/ FreeBuffer
  PROVE  Inv'
<1> USE DEF Inv, TypeOK, Start, Resume, ResumeDone, FreeBuffer, Resumed, Goto,
       text,
            threads, walk, Alive
<1>1. TypeOK'
  <2>1. susp' \in [Worker -> Nat]
    BY DEF Balance, NoMiss, Extra
  <2> QED BY <2>1
<1>2. Walk' /\ Text'
  BY DEF Walk, Text
<1>3. Balance' /\ NoMiss' /\ ToCome'
  BY DEF Balance, NoMiss, Extra, ToCome, Walk
<1>4. Covered' /\ HeldOut'
  BY DEF Covered, HeldOut, InRange
<1>5. NobodyBehind' /\ NoCrashWhenClean'
  BY DEF NobodyBehind, NoCrashWhenClean
<1> QED
  BY <1>1, <1>2, <1>3, <1>4, <1>5

LEMMA StutterInv == Inv /\ UNCHANGED vars => Inv'
  BY DEF Inv, vars, text, threads, walk, TypeOK, Balance, NoMiss, Extra, ToCome,
     Walk,
         Text, Covered, HeldOut, InRange, NobodyBehind, NoCrashWhenClean, Alive
--------------------------------------------------------------------------
(* The invariant holds in every reachable state.                           *)
THEOREM Invariance == Spec => []Inv
<1>1. Inv /\ [Next]_vars => Inv'
  BY WorkInv, SnapshotInv, OpenInv, SuspendItInv, LookInv, ResuspendInv,
     PatchInv,
     ResumeInv, StutterInv DEF Next, Patcher
<1> QED BY InitInv, <1>1, PTL DEF Spec

(* Whatever fails, mhook leaves no thread suspended that it does not hold  *)
(* or look at, and a suspension of the application's is lost only to a     *)
(* second SuspendThread that failed, one to each (the ways through         *)
(* SuspendOneThread, mhook.cpp 376-416).                                   *)
THEOREM SuspendCountsBalance == Spec => []SuspendBalance
<1>1. Inv => SuspendBalance
  BY DEF Inv, TypeOK, Balance, Extra, SuspendBalance, Alive
<1> QED BY Invariance, <1>1, PTL

(* If no call failed, no thread appeared and none had to be given up, all  *)
(* the others stand still, out of the way, from the end of the walk until  *)
(* the application's pointer has moved (mhook.cpp 680-682, 759, 785, 799). *)
THEOREM OthersStandStill == Spec => []QuietWhilePatching
<1>1. Inv => QuietWhilePatching
  BY DEF Inv, TypeOK, Balance, NoMiss, Extra, Walk, Covered, HeldOut,
     QuietWhilePatching, Alive, Running
<1> QED BY Invariance, <1>1, PTL

(* Under that condition no thread runs into half-written or displaced      *)
(* bytes, in any number of hooks and unhooks.                              *)
THEOREM NobodyCrashes == Spec => []NoCrashWhenClean
<1>1. Inv => NoCrashWhenClean
  BY DEF Inv
<1> QED BY Invariance, <1>1, PTL

(* Under that condition a hook that runs while the function is patched     *)
(* reaches the original through the pointer, never itself.                 *)
THEOREM HookReachesOriginal == Spec => []HookFindsOriginal
<1>1. Inv => HookFindsOriginal
  BY DEF Inv, TypeOK, Balance, NoMiss, Extra, Walk, Text, Covered, HookFindsOriginal,
     Alive, Running
<1> QED BY Invariance, <1>1, PTL
--------------------------------------------------------------------------
(* The reach of jumps.                                                     *)

(* The displacements found so far lie within the recorded limits.          *)
RipsInLimits ==
  \A r \in rips : LET d == r.disp + r.at - OperandAt IN down <= d /\ d <= up

(* An instruction with a rip-relative operand is long enough to be the     *)
(* last one taken, so there is at most one, and its place in rips[] is     *)
(* three bytes behind its beginning.                                       *)
OneOperand ==
  \/ operands = {} /\ rips = {}
  \/ /\ len >= Short
     /\ \E o \in operands :
          /\ operands = {o}
          /\ rips = {[at |-> o.from + OperandAt, disp |-> o.disp]}
          /\ o.at \in Nat /\ o.from \in Nat /\ o.to \in Nat /\ o.disp \in Int
          /\ o.from + OperandAt + 4 <= o.to

(* Enough instructions were taken before the search began.                 *)
Enough == phase \in {"search", "emit", "done"} => len >= Short

(* The search never goes below the window, and what it takes starts inside *)
(* the window and not in the first granule.                                *)
SearchInWindow == phase = "search" => pbAlloc >= Lower
BlockInWindow ==
  phase \in {"emit", "done"} =>
    block >= Gran /\ block >= Lower /\ block < Upper + Gran

(* What Emit wrote.                                                        *)
EmitDone ==
  phase = "done" =>
    /\ back = JumpSize(block + OffTramp + len, sys + len)
    /\ entry = EntrySize
    /\ fixed = {[at |-> r.at, disp |-> Wrap(r.disp - Moved)] : r \in rips}

ReachInv ==
  /\ ReachTypeOK
  /\ RipsInLimits
  /\ OneOperand
  /\ Enough
  /\ SearchInWindow
  /\ BlockInWindow
  /\ EmitDone
--------------------------------------------------------------------------
(* Rounding up to the granularity.                                         *)
LEMMA AlignUpBounds ==
  ASSUME NEW a \in Nat, a >= 1
  PROVE  /\ AlignUp(a) \in Nat
         /\ AlignUp(a) >= a
         /\ AlignUp(a) < a + Gran
         /\ AlignUp(a) >= Gran
<1> DEFINE q == (a + (Gran - 1)) \div Gran
           m == (a + (Gran - 1)) % Gran
<1>1. Gran \in Nat /\ Gran >= 64
  BY JumpReachAssumption
<1>2. q \in Int /\ m \in 0 .. (Gran - 1) /\ a + (Gran - 1) = Gran * q + m
  BY <1>1
<1>3. AlignUp(a) = Gran * q
  BY <1>1, <1>2 DEF AlignUp
<1> HIDE DEF q, m
<1>4. Gran * q > 0
  BY <1>1, <1>2
<1>5. q >= 1
  BY <1>1, <1>2, <1>4
<1>6. Gran * q >= Gran
  BY <1>1, <1>2, <1>5
<1> QED BY <1>1, <1>2, <1>3, <1>6

(* A displacement in the range of 32 bits is not changed by cutting it.    *)
LEMMA WrapIdentity ==
  ASSUME NEW x \in Int, Encodable(x)
  PROVE  Wrap(x) = x
<1>1. Half \in Nat /\ Half > 0
  BY JumpReachAssumption
<1>2. x + Half \in 0 .. (2 * Half - 1)
  BY <1>1 DEF Encodable
<1>3. (x + Half) % (2 * Half) = x + Half
  BY <1>1, <1>2
<1> QED BY <1>1, <1>3 DEF Wrap
--------------------------------------------------------------------------
LEMMA ReachInitInv == ReachInit => ReachInv
  BY JumpReachAssumption
  DEF ReachInit, ReachInv, ReachTypeOK, RipsInLimits, OneOperand, Enough,
     SearchInWindow, BlockInWindow, EmitDone

(* The window's lower end is an address.                                   *)
LEMMA LowerType == ReachTypeOK => Lower \in Nat /\ Lower >= 1 /\ Upper \in Int
  BY JumpReachAssumption DEF ReachTypeOK, Lower, Upper, Near

LEMMA PlainInv == ASSUME ReachInv, NEW n \in Lengths, Plain(n) PROVE ReachInv'
<1> USE DEF ReachInv, Plain, found, made
<1>1. ReachTypeOK'
  BY JumpReachAssumption DEF ReachTypeOK, Short
<1>2. RipsInLimits'
  BY DEF RipsInLimits
<1>3. OneOperand'
  <2>1. operands = {} /\ rips = {}
    BY DEF OneOperand, ReachTypeOK, Short
  <2> QED BY <2>1 DEF OneOperand
<1> QED BY <1>1, <1>2, <1>3 DEF Enough, SearchInWindow, BlockInWindow, EmitDone

LEMMA RipInv ==
  ASSUME ReachInv, NEW t \in Target, NEW f \in RipForms, Rip(t, f)
  PROVE  ReachInv'
<1> DEFINE d == Displacement(t, f[1])
           r0 == [at |-> len + OperandAt, disp |-> d]
           o0 == Operand(d, f)
<1>1. /\ phase = "disasm" /\ phase' = phase /\ len \in 0 .. 4
      /\ f[1] \in 7 .. 15 /\ f[2] \in 3 .. 11
      /\ d \in Int /\ Encodable(d)
  <2>1. t \in Nat /\ sys \in Nat /\ len \in 0 .. 19
    BY JumpReachAssumption DEF ReachInv, ReachTypeOK
  <2>2. f[1] \in 7 .. 15 /\ f[2] \in 3 .. 11
    BY JumpReachAssumption
  <2> QED BY <2>1, <2>2 DEF Rip, Displacement, Short
<1>2. /\ rips' = rips \cup {r0}
      /\ operands' = operands \cup {o0}
      /\ up'   = IF d + len > up THEN d + len ELSE up
      /\ down' = IF d + len < down THEN d + len ELSE down
      /\ len'  = len + f[1]
      /\ UNCHANGED <<sys, hook, pbAlloc, block, entry, back, fixed>>
  BY DEF Rip, made
<1>3. rips = {} /\ operands = {}
  BY <1>1 DEF ReachInv, OneOperand, Short
<1>4. /\ o0.at = len + f[2] /\ o0.from = len /\ o0.to = len + f[1] /\ o0.disp = d
      /\ r0.at = len + OperandAt /\ r0.disp = d
  BY DEF Operand
<1>5. r0 = [at |-> o0.from + OperandAt, disp |-> o0.disp]
  BY <1>4
<1> HIDE DEF d, r0, o0
<1>6. ReachTypeOK'
  <2>1. up' \in Nat /\ down' \in Int /\ down' <= 0 /\ len' \in 0 .. 19
    BY <1>1, <1>2 DEF ReachInv, ReachTypeOK
  <2>2. \A r \in rips' : r.at \in 3 .. 7 /\ r.disp \in Int /\ Encodable(r.disp)
    BY <1>1, <1>2, <1>3, <1>4 DEF OperandAt
  <2> QED BY <1>1, <1>2, <2>1, <2>2 DEF ReachInv, ReachTypeOK
<1>7. RipsInLimits'
  BY <1>1, <1>2, <1>3, <1>4 DEF RipsInLimits, OperandAt, ReachInv, ReachTypeOK
<1>8. OneOperand'
  <2>1. len' >= Short
    BY <1>1, <1>2 DEF Short
  <2>2. operands' = {o0} /\ rips' = {[at |-> o0.from + OperandAt, disp |-> o0.disp]}
    BY <1>2, <1>3, <1>5
  <2>3. /\ o0.at \in Nat /\ o0.from \in Nat /\ o0.to \in Nat /\ o0.disp \in Int
        /\ o0.from + OperandAt + 4 <= o0.to
    BY <1>1, <1>4 DEF OperandAt
  <2> QED BY <2>1, <2>2, <2>3 DEF OneOperand
<1> QED BY <1>1, <1>6, <1>7, <1>8 DEF ReachInv, Enough, SearchInWindow,
   BlockInWindow, EmitDone

LEMMA SearchInv ==
  ASSUME ReachInv, StartSearch \/ Stop \/ NoBlock
              \/ \E r \in RegionAt(pbAlloc) : Take(r) \/ Skip(r)
  PROVE  ReachInv'
<1>0. Lower \in Nat /\ Lower >= 1 /\ Upper \in Int
  BY LowerType DEF ReachInv
<1>1. CASE StartSearch
  BY <1>0, <1>1
  DEF ReachInv, StartSearch, found, made, ReachTypeOK, RipsInLimits, OneOperand, Enough,
     SearchInWindow,
      BlockInWindow, EmitDone, Lower
<1>2. CASE Stop \/ NoBlock
  BY <1>2
  DEF ReachInv, Stop, NoBlock, found, made, ReachTypeOK, RipsInLimits, OneOperand, Enough,
     SearchInWindow,
      BlockInWindow, EmitDone
<1>3. CASE \E r \in RegionAt(pbAlloc) : Take(r)
  <2>1. /\ phase = "search" /\ phase' = "emit" /\ pbAlloc < Upper
        /\ block' = AlignUp(pbAlloc)
        /\ UNCHANGED <<sys, hook, len, rips, operands, up, down, pbAlloc, entry, back,
              fixed>>
    BY <1>3 DEF Take, found, made
  <2>2. pbAlloc \in Nat /\ pbAlloc >= Lower
    BY <2>1 DEF ReachInv, ReachTypeOK, SearchInWindow
  <2>3. /\ block' \in Nat /\ block' >= pbAlloc
        /\ block' < pbAlloc + Gran /\ block' >= Gran
    BY <1>0, <2>1, <2>2, AlignUpBounds
  <2>4. Lower' = Lower /\ Upper' = Upper
    BY <2>1 DEF Lower, Upper
  <2>5. BlockInWindow'
    BY <1>0, <2>1, <2>2, <2>3, <2>4, JumpReachAssumption DEF BlockInWindow
  <2> QED BY <2>1, <2>3, <2>5
      DEF ReachInv, ReachTypeOK, RipsInLimits, OneOperand, Enough, SearchInWindow, EmitDone
<1>4. CASE \E r \in RegionAt(pbAlloc) : Skip(r)
  <2> PICK r \in RegionAt(pbAlloc) : Skip(r)
    BY <1>4
  <2>1. r[2] \in Nat /\ pbAlloc < r[2]
    BY JumpReachAssumption DEF RegionAt
  <2>2. /\ phase = "search" /\ phase' = "search" /\ pbAlloc' = r[2]
        /\ UNCHANGED <<sys, hook, len, rips, operands, up, down, block, entry, back,
              fixed>>
    BY DEF Skip, found, made
  <2>3. SearchInWindow'
    BY <1>0, <2>1, <2>2 DEF ReachInv, ReachTypeOK, SearchInWindow, Lower
  <2> QED BY <2>1, <2>2, <2>3
      DEF ReachInv, ReachTypeOK, RipsInLimits, OneOperand, Enough, BlockInWindow, EmitDone
<1> QED BY <1>1, <1>2, <1>3, <1>4

LEMMA EmitInv == ASSUME ReachInv, Emit PROVE ReachInv'
<1>1. /\ phase = "emit" /\ phase' = "done"
      /\ UNCHANGED <<sys, hook, len, rips, operands, up, down, pbAlloc, block>>
      /\ back' = JumpSize(block + OffTramp + len, sys + len)
      /\ entry' = EntrySize
      /\ fixed' = {[at |-> r.at, disp |-> Wrap(r.disp - Moved)] : r \in rips}
  BY DEF Emit, found
<1>2. back' \in {Short, LongJump} /\ entry' \in {Short, LongJump}
  BY <1>1 DEF EntrySize, JumpSize
<1>3. EmitDone'
  BY <1>1 DEF EmitDone, EntrySize, UsesStub, Moved
<1> QED BY <1>1, <1>2, <1>3
    DEF ReachInv, ReachTypeOK, RipsInLimits, OneOperand, Enough, SearchInWindow,
       BlockInWindow, Lower, Upper

LEMMA ReachStutterInv == ReachInv /\ UNCHANGED reachVars => ReachInv'
  BY DEF ReachInv, reachVars, found, made, ReachTypeOK, RipsInLimits, OneOperand, Enough,
     SearchInWindow, BlockInWindow,
         EmitDone, Lower, Upper, EntrySize, UsesStub, Moved

(* The invariant holds in every reachable state.                           *)
THEOREM ReachInvariance == ReachSpec => []ReachInv
<1>1. ReachInv /\ [ReachNext]_reachVars => ReachInv'
  BY PlainInv, RipInv, SearchInv, EmitInv, ReachStutterInv DEF ReachNext
<1> QED BY ReachInitInv, <1>1, PTL DEF ReachSpec
--------------------------------------------------------------------------
(* The heart of it: a block found by the search lies so close that every   *)
(* displacement between it and the function is near, with room to spare    *)
(* for an offset within the block and for each rip-relative operand.       *)
LEMMA BlockIsNear ==
  ASSUME ReachInv, phase \in {"emit", "done"}, NEW off \in Nat, Short <= off,
            off + 32 <= Gran
  PROVE  /\ Distance(block + off + Short, sys) <= Near
         /\ Distance(sys + Short, block + off) <= Near
         /\ \A r \in rips : Encodable(r.disp - (block + off - sys))
<1>1. /\ block \in Nat /\ sys \in Nat /\ up \in Nat /\ down \in Int /\ down <= 0
      /\ block >= Gran /\ block >= Lower /\ block < Upper + Gran
  BY JumpReachAssumption DEF ReachInv, ReachTypeOK, BlockInWindow
<1>2. block - sys >= up - Near /\ (block - sys > up - Near \/ sys + up >= Half)
  BY <1>1, JumpReachAssumption DEF Lower, Near
<1>3. block - sys < down + Half - 7 * Gran
  <2>1. CASE sys + down < Top - Half
    BY <1>1, <2>1, JumpReachAssumption DEF Upper
  <2>2. CASE ~(sys + down < Top - Half)
    BY <1>1, <2>2, JumpReachAssumption DEF Upper
  <2> QED BY <2>1, <2>2
<1>4. Distance(block + off + Short, sys) <= Near
  BY <1>1, <1>2, <1>3, JumpReachAssumption DEF Distance, Near, Short
<1>5. Distance(sys + Short, block + off) <= Near
  BY <1>1, <1>2, <1>3, JumpReachAssumption DEF Distance, Near, Short
<1>6. ASSUME NEW r \in rips PROVE Encodable(r.disp - (block + off - sys))
  <2>1. /\ r.at \in 3 .. 7 /\ r.disp \in Int
        /\ down <= r.disp + r.at - 3 /\ r.disp + r.at - 3 <= up
    BY DEF ReachInv, ReachTypeOK, RipsInLimits, OperandAt
  <2> QED BY <1>1, <1>2, <1>3, <2>1, JumpReachAssumption DEF Encodable, Near,
     Short
<1> QED BY <1>4, <1>5, <1>6

(* For every address, memory map and displacement the jump back is short   *)
(* and fits behind the saved instructions.                                 *)
THEOREM TheJumpBackFits == ReachSpec => []JumpBackFits
<1>1. ASSUME ReachInv PROVE JumpBackFits
  <2> SUFFICES ASSUME phase = "done"
               PROVE  back = Short /\ len + back <= CodeBytes
    BY DEF JumpBackFits
  <2>1. Distance(block + OffTramp + Short, sys) <= Near
    BY <1>1, BlockIsNear, JumpReachAssumption DEF Short
  <2>2. block \in Nat /\ sys \in Nat /\ len \in 0 .. 19
    BY <1>1, JumpReachAssumption DEF ReachInv, ReachTypeOK
  <2>3. Distance(block + OffTramp + len + Short, sys + len) <= Near
    BY <2>1, <2>2, JumpReachAssumption DEF Distance, Short
  <2>4. back = Short
    BY <1>1, <2>3 DEF ReachInv, EmitDone, JumpSize
  <2> QED BY <2>2, <2>4, JumpReachAssumption DEF Short
<1> QED BY ReachInvariance, <1>1, PTL

(* Wherever the search found memory the function reaches the stub with a   *)
(* short jump.                                                             *)
THEOREM TheStubIsInReach == ReachSpec => []StubInReach
<1>1. ASSUME ReachInv PROVE StubInReach
  <2> SUFFICES ASSUME phase = "done", UsesStub PROVE entry = Short
    BY DEF StubInReach
  <2>1. Distance(sys + Short, block + OffStub) <= Near
    BY <1>1, BlockIsNear, JumpReachAssumption
  <2> QED BY <1>1, <2>1 DEF ReachInv, EmitDone, EntrySize, JumpSize
<1> QED BY ReachInvariance, <1>1, PTL

(* A rip-relative operand that was moved names what it named before if its *)
(* displacement follows three bytes, and is missed by the new displacement *)
(* if it follows more (mhook.cpp 536-545, 644); either way only bytes of   *)
(* its own instruction are overwritten.                                    *)
THEOREM OperandsKeepTargets == ReachSpec => []SameTargets
<1>1. ASSUME ReachInv PROVE SameTargets
  <2> SUFFICES ASSUME phase = "done" PROVE SameTargets
    BY DEF SameTargets
  <2>1. CASE operands = {} /\ rips = {}
    BY <1>1, <2>1 DEF SameTargets, ReachInv, EmitDone
  <2>2. ASSUME NEW o \in operands, operands = {o},
               rips = {[at |-> o.from + OperandAt, disp |-> o.disp]},
               o.at \in Nat, o.from \in Nat, o.to \in Nat, o.disp \in Int,
               o.from + OperandAt + 4 <= o.to
        PROVE  SameTargets
    <3> DEFINE r == [at |-> o.from + OperandAt, disp |-> o.disp]
               n == [at |-> r.at, disp |-> Wrap(r.disp - Moved)]
    <3>1. block \in Nat /\ sys \in Nat
      BY <1>1, JumpReachAssumption DEF ReachInv, ReachTypeOK
    <3>2. OffTramp \in Nat /\ Short <= OffTramp /\ OffTramp + 32 <= Gran
      BY JumpReachAssumption DEF Short
    <3>3. \A x \in rips : Encodable(x.disp - (block + OffTramp - sys))
      BY <1>1, <3>2, BlockIsNear
    <3>4. r.disp = o.disp /\ r.at = o.from + OperandAt
      OBVIOUS
    <3>5. Moved \in Int /\ Encodable(o.disp - Moved)
      BY <2>2, <3>1, <3>2, <3>3, <3>4 DEF Moved
    <3>6. Wrap(o.disp - Moved) = o.disp - Moved
      BY <2>2, <3>5, WrapIdentity
    <3>7. n.at = o.from + OperandAt /\ n.disp = o.disp - Moved
      BY <3>4, <3>6
    <3>8. fixed = {n}
      BY <1>1, <2>2 DEF ReachInv, EmitDone
    <3> HIDE DEF n, r
    <3>9. KeepsTarget(o) <=> o.at = o.from + OperandAt
      BY <2>2, <3>1, <3>2, <3>5, <3>7, <3>8 DEF KeepsTarget, Moved, OperandAt
    <3>10. o.from <= n.at /\ n.at + 4 <= o.to
      BY <2>2, <3>7 DEF OperandAt
    <3> QED BY <2>2, <3>8, <3>9, <3>10 DEF SameTargets
  <2> QED BY <1>1, <2>1, <2>2 DEF ReachInv, OneOperand
<1> QED BY ReachInvariance, <1>1, PTL

(* A direct jump needs the five saved bytes and no more, but for the gap.  *)
THEOREM TheDirectJumpFits == ReachSpec => []DirectJumpFits
<1>1. ASSUME ReachInv PROVE DirectJumpFits
  <2> SUFFICES ASSUME phase = "done", ~UsesStub, ~Gap
               PROVE  entry <= len /\ entry = Short
    BY DEF DirectJumpFits
  <2>1. sys \in Nat /\ hook \in Nat /\ Near \in Nat
    BY <1>1, JumpReachAssumption DEF ReachInv, ReachTypeOK, Near
  <2>2. Distance(sys + Short, hook) <= Near
    BY <2>1, JumpReachAssumption DEF UsesStub, Gap, Distance, Near, Short
  <2>3. entry = Short
    BY <1>1, <2>2 DEF ReachInv, EmitDone, EntrySize, JumpSize
  <2>4. len >= Short
    BY <1>1 DEF ReachInv, Enough
  <2> QED BY <2>3, <2>4
<1> QED BY ReachInvariance, <1>1, PTL
==========================================================================
