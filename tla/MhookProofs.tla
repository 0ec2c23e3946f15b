--------------------------- MODULE MhookProofs ---------------------------
(***************************************************************************)
(* The safety of the hooking service for any number of threads, pointers,  *)
(* routines and blocks, whichever system call fails and whichever threads  *)
(* share a pointer, once the first call ever has returned before another   *)
(* is made (without that EnterCritSec hands out the lock twice).           *)
(* The refinement of HookApi asks besides that no two threads share a      *)
(* pointer variable: Mhook_SetHook reads it ahead of the lock.             *)
(***************************************************************************)
EXTENDS Mhook, CodeSpaceProofs

SetHookLabel == {"resolve", "alloc", "protect", "build", "patch", "publish"}
UnhookLabel  == {"lookup", "restore", "giveback", "free"}
Before       == {"check", "initcs", "zero", "flag", "lock"}
Label        == {"idle", "leave"} \cup Before \cup SetHookLabel \cup UnhookLabel

TrampolineOrZero == [sys : Loc \cup {NULL}, hook : Loc \cup {NULL}, untouched : Content]
Frame == [op : {NULL, "sethook", "unhook"}, p : Ptr \cup {NULL}, h : Routine \cup {NULL},
          sys : Loc \cup {NULL}, hook : Loc \cup {NULL}, blk : Block \cup {NULL},
          ret : BOOLEAN]

TypeOK ==
  /\ inited \in BOOLEAN
  /\ owner \in Caller \cup {NULL}
  /\ hooks \in [Slot -> Block \cup {NULL}]
  /\ mapped \subseteq Block
  /\ tramp \in [Block -> TrampolineOrZero]
  /\ code \in [Loc -> Content]
  /\ ptr \in [Ptr -> Loc]
  /\ pc \in [Caller -> Label]
  /\ frame \in [Caller -> Frame]

(* The first call is alone until it has set the flag, and nothing has      *)
(* happened before it.                                                     *)
FirstUse ==
  /\ ~inited => /\ \A c \in Caller : pc[c] \in {"idle", "check", "initcs", "zero", "flag"}
                /\ \A c, d \in Caller : pc[c] # "idle" /\ pc[d] # "idle" => c = d
                /\ owner = NULL
                /\ hooks = [i \in Slot |-> NULL]
  /\ inited => \A c \in Caller : pc[c] \notin {"initcs", "zero", "flag"}

(* A location that can be called or jumped to: a routine, or a buffer of a *)
(* trampoline that was completed.                                          *)
Good(l) == l \in Loc /\ (l[1] # "fn" => l[2] \in used /\ code[l] # Blank)

PtrsGood  == \A p \in Ptr : Good(ptr[p])
JumpsGood == \A l \in Loc : Good(l) /\ IsJmp(code[l]) => Good(code[l][2])
UsedGood  == \A b \in used : /\ code[Entry(b)] # Blank
                             /\ Good(tramp[b].sys) /\ IsBody(tramp[b].untouched)

(* The arguments of a call, and what it has found so far.                  *)
ArgsOK(c) ==
  LET f == frame[c]
  IN  pc[c] # "idle" =>
        /\ f.p \in Ptr
        /\ \/ /\ f.op = "sethook" /\ f.h \in Routine
              /\ pc[c] \in Before \cup SetHookLabel \cup {"leave"}
              /\ pc[c] # "leave" => Good(f.sys)
           \/ f.op = "unhook" /\ pc[c] \in Before \cup UnhookLabel \cup {"leave"}
        /\ pc[c] \notin {"free", "leave"} => ~f.ret
        /\ pc[c] \in Before \cup {"resolve", "alloc", "lookup"} => f.blk = NULL

(* What SetHook relies on between its steps, and Unhook between its.       *)
SetHookStage(c) ==
  LET f == frame[c]
      b == f.blk
  IN  /\ pc[c] \in {"alloc", "protect", "build", "patch"} =>
           IsBody(code[f.sys]) /\ Good(f.hook) /\ ~IsJmp(code[f.hook])
      /\ pc[c] \in {"protect", "build", "patch"} => b \in registered \ used
      /\ pc[c] = "patch" =>
           /\ code[Entry(b)] = code[f.sys] /\ tramp[b].untouched = code[f.sys]
           /\ code[Stub(b)] = IF IsFar(code, f.sys, f.hook) THEN Jmp(f.hook) ELSE Blank
      /\ pc[c] = "publish" => /\ b \in registered
                              /\ b \in used => IsJmp(code[tramp[b].sys])
UnhookStage(c) ==
  LET b == frame[c].blk
  IN  /\ pc[c] \in {"restore", "giveback", "free"} => b \in registered \cap used
      /\ pc[c] = "restore" => ptr[frame[c].p] = Entry(b)
      /\ pc[c] = "free" => frame[c].ret

Busy(c, labels, b) == pc[c] \in labels /\ frame[c].blk = b
MappedKnown ==
  \A b \in mapped : b \in used \/
    \E c \in Caller : Busy(c, {"protect", "build", "patch", "publish"}, b)
RegisteredJumps ==
  \A b \in registered :
    \/ b \in used /\ IsJmp(code[tramp[b].sys])
    \/ \E c \in Caller :
         Busy(c, {"protect", "build", "patch", "publish", "giveback", "free"}, b)
SysDistinct ==
  \A b1, b2 \in registered \cap used : tramp[b1].sys = tramp[b2].sys => b1 = b2

Answer(c) ==
  pc[c] = "leave" =>
    LET f == frame[c]
        inForce == f.blk \in registered /\ ptr[f.p] = Entry(f.blk)
                     /\ IsJmp(code[tramp[f.blk].sys])
    IN  IF f.op = "sethook" THEN f.ret <=> inForce
        ELSE f.ret <=> f.blk # NULL /\ ~inForce /\ f.blk \notin registered
CallOK(c) == ArgsOK(c) /\ SetHookStage(c) /\ UnhookStage(c) /\ Answer(c)

Sound ==
  /\ SlotAccounting /\ MappedKnown /\ RegisteredJumps /\ SysDistinct
  /\ PtrsGood /\ JumpsGood /\ UsedGood
  /\ \A c \in Caller : CallOK(c)

Inv == TypeOK /\ FirstUse /\ MutualExclusion /\ Sound
--------------------------------------------------------------------------
LEMMA NullFacts ==
  /\ NULL \notin Block /\ NULL \notin Loc /\ NULL \notin Caller
  BY MhookAssumption

LEMMA SlotFacts ==
  /\ IsFiniteSet(Slot) /\ Cardinality(Slot) = MaxHooks
<1>1. MaxHooks \in Nat
  BY MhookAssumption
<1> QED BY <1>1, FS_Interval DEF Slot

LEMMA LoadedType ==
  /\ LoadedCode \in [Loc -> Content]
  /\ \A l \in Loc : l[1] = "fn" /\ IsJmp(LoadedCode[l]) =>
       LoadedCode[l][2] \in Loc /\ LoadedCode[l][2][1] = "fn"
<1>1. \A r \in Routine : Image(r) \in Content
  BY CodeSpaceAssumption, LocFacts, ContentFacts DEF Image, Body, Content
<1>2. \A r \in Routine : IsJmp(Image(r)) => \E x \in Routine : Image(r) = Jmp(Fn(x))
  BY CodeSpaceAssumption DEF Image, Body, IsJmp
<1>3. \A l \in Loc : l[1] = "fn" => l[2] \in Routine
  BY DEF Loc
<1>4. LoadedCode \in [Loc -> Content]
  BY <1>1, <1>3, ContentFacts DEF LoadedCode
<1>5. \A l \in Loc : l[1] = "fn" => LoadedCode[l] = Image(l[2])
  BY DEF LoadedCode
<1>6. \A x \in Routine : Jmp(Fn(x))[2] \in Loc /\ Jmp(Fn(x))[2][1] = "fn"
  BY LocFacts DEF Jmp, Fn
<1> QED BY <1>2, <1>3, <1>4, <1>5, <1>6

LEMMA InitInv == Init => Inv
<1> SUFFICES ASSUME Init PROVE Inv
  OBVIOUS
<1>1. TypeOK
  <2>1. tramp \in [Block -> TrampolineOrZero]
    BY ContentFacts DEF Init, Zero, TrampolineOrZero
  <2>2. frame \in [Caller -> Frame]
    BY DEF Init, Idle, Frame
  <2>3. ptr \in [Ptr -> Loc]
    BY MhookAssumption, LocFacts DEF Init
  <2>4. inited \in BOOLEAN
    BY DEF Init
  <2> QED BY <2>1, <2>2, <2>3, <2>4, LoadedType DEF Init, TypeOK, Label
<1>2. FirstUse /\ MutualExclusion
  BY DEF Init, FirstUse, MutualExclusion, Inside
<1>3. registered = {} /\ used = {} /\ mapped = {}
  BY DEF Init, registered, used
<1>4. SlotAccounting
  <2>1. {i \in Slot : hooks[i] # NULL} = {}
    BY DEF Init
  <2> QED BY <1>3, <2>1, FS_EmptySet DEF Init, SlotAccounting
<1>5. PtrsGood
  BY MhookAssumption, LocFacts DEF Init, PtrsGood, Good, Fn
<1>6. JumpsGood
  BY <1>3, LoadedType DEF Init, JumpsGood, Good
<1>7. \A c \in Caller : CallOK(c)
  BY DEF Init, CallOK, ArgsOK, SetHookStage, UnhookStage, Answer
<1> QED
  BY <1>1, <1>2, <1>3, <1>4, <1>5, <1>6, <1>7
  DEF Inv, Sound, MappedKnown, RegisteredJumps, SysDistinct, UsedGood
--------------------------------------------------------------------------
(* A step that leaves table, code and pointers alone keeps what is said    *)
(* of them, if the caller that takes it has kept to its stage.             *)
LEMMA QuietStep ==
  ASSUME Inv, NEW c \in Caller, UNCHANGED <<table, memory, ptr>>,
         \A d \in Caller \ {c} : pc'[d] = pc[d] /\ frame'[d] = frame[d],
         pc[c] \notin {"build", "patch", "publish", "giveback", "free"},
         pc[c] = "protect" => pc'[c] \in {"build", "publish"} /\ frame'[c] = frame[c],
         CallOK(c)'
  PROVE  Sound'
<1>1. used' = used /\ registered' = registered /\ \A l : Good(l)' <=> Good(l)
  BY DEF used, registered, Good, table, memory
<1>2. SlotAccounting'
  BY <1>1 DEF Inv, Sound, SlotAccounting, table, memory
<1>3. PtrsGood' /\ JumpsGood' /\ UsedGood' /\ SysDistinct'
  <2>1. PtrsGood'
    BY <1>1 DEF Inv, Sound, PtrsGood
  <2>2. JumpsGood'
    BY <1>1 DEF Inv, Sound, JumpsGood, memory
  <2>3. UsedGood'
    BY <1>1 DEF Inv, Sound, UsedGood, memory
  <2>4. SysDistinct'
    BY <1>1 DEF Inv, Sound, SysDistinct, memory
  <2> QED BY <2>1, <2>2, <2>3, <2>4
<1>4. MappedKnown'
  <2> SUFFICES ASSUME NEW b \in mapped', b \notin used'
               PROVE  \E d \in Caller :
                        Busy(d, {"protect", "build", "patch", "publish"}, b)'
    BY DEF MappedKnown
  <2>1. PICK d \in Caller : Busy(d, {"protect", "build", "patch", "publish"}, b)
    BY <1>1 DEF Inv, Sound, MappedKnown, memory
  <2> QED BY <2>1 DEF Busy
<1>5. RegisteredJumps'
  <2> SUFFICES ASSUME NEW b \in registered', ~(b \in used' /\ IsJmp(code'[tramp'[b].sys]))
               PROVE  \E d \in Caller :
                        Busy(d, {"protect", "build", "patch", "publish", "giveback", "free"}, b)'
    BY DEF RegisteredJumps
  <2>1. PICK d \in Caller :
          Busy(d, {"protect", "build", "patch", "publish", "giveback", "free"}, b)
    BY <1>1 DEF Inv, Sound, RegisteredJumps, memory
  <2> QED BY <2>1 DEF Busy
<1>6. ASSUME NEW d \in Caller PROVE CallOK(d)'
  <2>1. CASE d = c
    BY <2>1
  <2>2. CASE d # c
    <3>1. pc'[d] = pc[d] /\ frame'[d] = frame[d] /\ CallOK(d)
      BY <2>2 DEF Inv, Sound
    <3>2. ArgsOK(d)'
      BY <1>1, <3>1 DEF CallOK, ArgsOK
    <3>3. SetHookStage(d)'
      BY <1>1, <3>1 DEF CallOK, SetHookStage, memory
    <3>4. UnhookStage(d)'
      BY <1>1, <3>1 DEF CallOK, UnhookStage
    <3>5. Answer(d)'
      BY <1>1, <3>1 DEF CallOK, Answer, memory
    <3> QED BY <3>2, <3>3, <3>4, <3>5 DEF CallOK
  <2> QED BY <2>1, <2>2
<1> QED BY <1>2, <1>3, <1>4, <1>5, <1>6 DEF Sound

(* The part of the step that every action shares.                          *)
Steps(c, to) == /\ pc' = [pc EXCEPT ![c] = to] /\ to \in Label
                /\ \A d \in Caller \ {c} : frame'[d] = frame[d]
                /\ frame' \in [Caller -> Frame]

LEMMA StepFacts ==
  ASSUME TypeOK, NEW c \in Caller, NEW to, Steps(c, to)
  PROVE  /\ pc' \in [Caller -> Label] /\ frame' \in [Caller -> Frame]
         /\ pc'[c] = to
         /\ \A d \in Caller \ {c} : pc'[d] = pc[d] /\ frame'[d] = frame[d]
  BY DEF TypeOK, Steps

LEMMA CallStep ==
  ASSUME Inv, NEW c \in Caller, NEW p \in Ptr, SerialFirstUse,
         CallUnhook(c, p) \/ \E h \in HooksOf[p] : CallSetHook(c, p, h)
  PROVE  Inv'
<1>1. PICK r \in Frame :
        /\ frame' = [frame EXCEPT ![c] = r]
        /\ r.p = p /\ r.blk = NULL /\ ~r.ret
        /\ \/ r.op = "unhook"
           \/ r.op = "sethook" /\ r.h \in Routine /\ r.sys = ptr[p]
  <2>1. CASE CallUnhook(c, p)
    <3> DEFINE r == [Idle EXCEPT !.op = "unhook", !.p = p]
    <3>1. r \in Frame /\ r.p = p /\ r.blk = NULL /\ ~r.ret /\ r.op = "unhook"
      BY DEF Idle, Frame
    <3>2. frame' = [frame EXCEPT ![c] = r]
      BY <2>1 DEF CallUnhook
    <3> QED BY <3>1, <3>2
  <2>2. CASE \E h \in HooksOf[p] : CallSetHook(c, p, h)
    <3>1. PICK h \in HooksOf[p] : CallSetHook(c, p, h)
      BY <2>2
    <3> DEFINE r == [Idle EXCEPT !.op = "sethook", !.p = p, !.h = h, !.sys = ptr[p]]
    <3>2. h \in Routine /\ ptr[p] \in Loc
      BY MhookAssumption DEF Inv, TypeOK
    <3>3. /\ r \in Frame /\ r.p = p /\ r.blk = NULL /\ ~r.ret /\ r.op = "sethook"
          /\ r.h = h /\ r.sys = ptr[p]
      BY <3>2 DEF Idle, Frame
    <3>4. frame' = [frame EXCEPT ![c] = r]
      BY <3>1 DEF CallSetHook
    <3> QED BY <3>2, <3>3, <3>4
  <2> QED BY <2>1, <2>2
<1>2. /\ MayCall /\ pc[c] = "idle" /\ pc' = [pc EXCEPT ![c] = "check"]
      /\ UNCHANGED <<inited, owner, table, memory, ptr>>
  BY DEF CallUnhook, CallSetHook, Goto
<1>3. frame'[c] = r
  BY <1>1 DEF Inv, TypeOK
<1>4. Steps(c, "check")
  BY <1>1, <1>2 DEF Inv, TypeOK, Steps, Label, Before
<1>5. /\ pc'[c] = "check" /\ pc' \in [Caller -> Label] /\ frame' \in [Caller -> Frame]
      /\ \A d \in Caller \ {c} : pc'[d] = pc[d] /\ frame'[d] = frame[d]
  BY <1>4, StepFacts DEF Inv
<1>6. TypeOK'
  BY <1>2, <1>5 DEF Inv, TypeOK, table, memory
<1>7. CallOK(c)'
  <2>1. ArgsOK(c)'
    <3>1. r.op = "sethook" => Good(r.sys)'
      BY <1>1, <1>2 DEF Inv, Sound, PtrsGood, Good, used, memory
    <3> QED BY <1>1, <1>3, <1>5, <3>1 DEF ArgsOK, Before
  <2> QED BY <1>5, <2>1 DEF CallOK, SetHookStage, UnhookStage, Answer
<1>8. Sound'
  BY <1>2, <1>5, <1>7, QuietStep
<1>9. SerialFirstUse => FirstUse'
  BY <1>2, <1>5 DEF Inv, FirstUse, MayCall, table
<1>10. MutualExclusion'
  BY <1>2, <1>5 DEF Inv, MutualExclusion, Inside
<1> QED BY <1>6, <1>8, <1>9, <1>10 DEF Inv

LEMMA EnterStep ==
  ASSUME Inv, NEW c \in Caller,
         CheckInit(c) \/ InitCs(c) \/ ZeroHooks(c) \/ SetFlag(c) \/ Lock(c)
  PROVE  Inv'
<1>1. PICK to \in Label :
        /\ pc' = [pc EXCEPT ![c] = to]
        /\ \/ pc[c] = "check" /\ to \in {"initcs", "lock"}
           \/ pc[c] = "initcs" /\ to = "zero"
           \/ pc[c] = "zero" /\ to = "flag"
           \/ pc[c] = "flag" /\ to = "lock"
           \/ pc[c] = "lock" /\ to = IF frame[c].op = "sethook" THEN "resolve" ELSE "lookup"
  BY DEF CheckInit, InitCs, ZeroHooks, SetFlag, Lock, Goto, Label, Before,
         SetHookLabel, UnhookLabel
<1>2. UNCHANGED <<memory, ptr, frame, inUse>>
  BY DEF CheckInit, InitCs, ZeroHooks, SetFlag, Lock, table
<1>3. UNCHANGED table
  BY DEF CheckInit, InitCs, ZeroHooks, SetFlag, Lock, table, Goto, Inv, FirstUse
<1>4. Steps(c, to)
  BY <1>1, <1>2 DEF Inv, TypeOK, Steps
<1>5. /\ pc'[c] = to /\ pc' \in [Caller -> Label] /\ frame' \in [Caller -> Frame]
      /\ \A d \in Caller \ {c} : pc'[d] = pc[d] /\ frame'[d] = frame[d]
  BY <1>4, StepFacts DEF Inv
<1>6. TypeOK'
  <2>1. inited' \in BOOLEAN /\ owner' \in Caller \cup {NULL}
    BY DEF CheckInit, InitCs, ZeroHooks, SetFlag, Lock, Inv, TypeOK
  <2> QED BY <1>2, <1>3, <1>5, <2>1 DEF Inv, TypeOK, table, memory
<1>7. CallOK(c)'
  <2>1. ArgsOK(c)'
    <3>1. \A l : Good(l)' <=> Good(l)
      BY <1>2 DEF Good, used, memory
    <3>2. ArgsOK(c) /\ frame'[c] = frame[c]
      BY <1>2 DEF Inv, Sound, CallOK
    <3> QED BY <1>1, <1>5, <3>1, <3>2 DEF ArgsOK, Before, SetHookLabel, UnhookLabel
  <2> QED BY <1>1, <1>5, <2>1 DEF CallOK, SetHookStage, UnhookStage, Answer
<1>8. Sound'
  BY <1>1, <1>2, <1>3, <1>5, <1>7, QuietStep
<1>9. FirstUse'
  BY <1>3, <1>5 DEF Inv, FirstUse, CheckInit, InitCs, ZeroHooks, SetFlag, Lock, Goto, table
<1>10. MutualExclusion'
  <2>1. CASE Lock(c)
    <3>1. owner = NULL /\ owner' = c
      BY <2>1 DEF Lock
    <3>2. \A d \in Caller : ~Inside(d)
      BY <3>1, NullFacts DEF Inv, MutualExclusion
    <3>3. \A d \in Caller \ {c} : ~Inside(d)'
      BY <1>5, <3>2 DEF Inside
    <3> QED BY <3>1, <3>3 DEF MutualExclusion
  <2>2. CASE InitCs(c)
    <3>1. owner' = NULL /\ pc'[c] = "zero"
      BY <1>5, <2>2 DEF InitCs, Goto, Inv, TypeOK
    <3>2. \A d \in Caller : ~Inside(d)
      BY <2>2 DEF InitCs, Goto, Inv, FirstUse, Inside
    <3>3. \A d \in Caller : ~Inside(d)'
      BY <1>5, <3>1, <3>2 DEF Inside
    <3> QED BY <3>3 DEF MutualExclusion
  <2>3. CASE CheckInit(c) \/ ZeroHooks(c) \/ SetFlag(c)
    <3>1. owner' = owner /\ ~Inside(c)'
      BY <1>1, <1>5, <2>3 DEF CheckInit, ZeroHooks, SetFlag, Goto, Inside
    <3>2. \A d \in Caller \ {c} : Inside(d)' => Inside(d)
      BY <1>5 DEF Inside
    <3> QED BY <3>1, <3>2 DEF Inv, MutualExclusion
  <2> QED BY <2>1, <2>2, <2>3
<1> QED BY <1>6, <1>8, <1>9, <1>10 DEF Inv

(* A step under the lock leaves everybody else outside.                    *)
LEMMA InsideStep ==
  ASSUME Inv, NEW c \in Caller, Inside(c), NEW to, Steps(c, to),
         to \notin Before \cup {"idle"}, inited' = inited, owner' = owner
  PROVE  /\ FirstUse' /\ MutualExclusion' /\ inited
         /\ \A d \in Caller \ {c} : ~Inside(d) /\ ~Inside(d)'
<1>1. inited
  BY DEF Inv, FirstUse, Inside
<1>2. /\ pc'[c] = to
      /\ \A d \in Caller \ {c} : pc'[d] = pc[d]
  BY StepFacts DEF Inv
<1>3. owner = c /\ \A d \in Caller \ {c} : ~Inside(d)
  BY DEF Inv, MutualExclusion
<1>4. FirstUse'
  BY <1>1, <1>2 DEF Inv, FirstUse, Before
<1>5. \A d \in Caller \ {c} : ~Inside(d)'
  BY <1>2, <1>3 DEF Inside
<1> QED BY <1>1, <1>3, <1>4, <1>5 DEF MutualExclusion

LEMMA LeaveStep ==
  ASSUME Inv, NEW c \in Caller, Leave(c)
  PROVE  Inv'
<1>1. /\ pc[c] = "leave" /\ pc' = [pc EXCEPT ![c] = "idle"] /\ owner' = NULL
      /\ frame' = [frame EXCEPT ![c] = Idle]
      /\ UNCHANGED <<inited, table, memory, ptr>>
  BY DEF Leave, Goto
<1>2. Steps(c, "idle")
  BY <1>1 DEF Inv, TypeOK, Steps, Frame, Idle, Label
<1>3. /\ pc'[c] = "idle" /\ pc' \in [Caller -> Label] /\ frame' \in [Caller -> Frame]
      /\ \A d \in Caller \ {c} : pc'[d] = pc[d] /\ frame'[d] = frame[d]
  BY <1>2, StepFacts DEF Inv
<1>4. TypeOK'
  BY <1>1, <1>3 DEF Inv, TypeOK, table, memory
<1>5. CallOK(c)'
  BY <1>3 DEF CallOK, ArgsOK, SetHookStage, UnhookStage, Answer
<1>6. Sound'
  BY <1>1, <1>3, <1>5, QuietStep
<1>7. FirstUse'
  BY <1>1, <1>3 DEF Inv, FirstUse, table
<1>8. MutualExclusion'
  BY <1>1, <1>3 DEF Inv, MutualExclusion, Inside
<1> QED BY <1>4, <1>6, <1>7, <1>8 DEF Inv

(* Following jumps from a location that can be called leads to another.    *)
LEMMA GoodStays ==
  ASSUME Inv, NEW l, Good(l)
  PROVE  Good(SkipJumps(code, l))
<1> DEFINE S == {x \in Loc : Good(x)}
<1>1. \A x \in S : IsJmp(code[x]) => code[x][2] \in S
  BY DEF Inv, Sound, JumpsGood, Good
<1>2. S \in SUBSET Loc /\ l \in S
  BY DEF Good
<1>3. SkipJumps(code, l) \in S
  <2> HIDE DEF S
  <2> QED BY <1>1, <1>2, SkipJumpsStays DEF Inv, TypeOK
<1> QED BY <1>3

LEMMA ResolveStep ==
  ASSUME Inv, NEW c \in Caller, Resolve(c)
  PROVE  Inv'
<1> DEFINE sys  == SkipJumps(code, frame[c].sys)
           hook == SkipJumps(code, Fn(frame[c].h))
<1>1. /\ pc[c] = "resolve" /\ Lands(code, sys) /\ Lands(code, hook)
      /\ frame' = [frame EXCEPT ![c].sys = sys, ![c].hook = hook]
      /\ UNCHANGED <<inited, owner, table, memory, ptr>>
      /\ \/ pc' = [pc EXCEPT ![c] = "alloc"] /\ Displaceable(code[sys])
         \/ pc' = [pc EXCEPT ![c] = "leave"]
  BY DEF Resolve, Goto
<1>2. ArgsOK(c) /\ frame[c].op = "sethook" /\ frame[c].h \in Routine
  BY <1>1 DEF Inv, Sound, CallOK, ArgsOK, Before, SetHookLabel, UnhookLabel
<1>3. Good(sys) /\ Good(hook)
  <2>1. Good(frame[c].sys) /\ Good(Fn(frame[c].h))
    BY <1>1, <1>2, LocFacts DEF ArgsOK, Good, Fn
  <2> QED BY <2>1, GoodStays
<1> HIDE DEF sys, hook
<1>4. PICK to \in {"alloc", "leave"} :
        /\ pc' = [pc EXCEPT ![c] = to]
        /\ to = "alloc" => Displaceable(code[sys])
  BY <1>1
<1>5. /\ frame' \in [Caller -> Frame]
      /\ \A d \in Caller \ {c} : frame'[d] = frame[d]
      /\ frame'[c] = [frame[c] EXCEPT !.sys = sys, !.hook = hook]
  <2>1. sys \in Loc /\ hook \in Loc /\ frame[c] \in Frame
    BY <1>3 DEF Good, Inv, TypeOK
  <2> DEFINE r == [frame[c] EXCEPT !.sys = sys, !.hook = hook]
  <2>2. r \in Frame
    BY <2>1 DEF Frame
  <2>3. frame' = [frame EXCEPT ![c] = r]
    BY <1>1 DEF Inv, TypeOK
  <2> HIDE DEF r
  <2>4. /\ frame' \in [Caller -> Frame] /\ frame'[c] = r
        /\ \A d \in Caller \ {c} : frame'[d] = frame[d]
    BY <2>2, <2>3 DEF Inv, TypeOK
  <2> QED BY <2>4 DEF r
<1>6. Steps(c, to)
  BY <1>4, <1>5 DEF Steps, Label, SetHookLabel
<1>7. /\ pc'[c] = to /\ pc' \in [Caller -> Label]
      /\ \A d \in Caller \ {c} : pc'[d] = pc[d] /\ frame'[d] = frame[d]
  BY <1>6, StepFacts DEF Inv
<1>8. TypeOK'
  BY <1>1, <1>5, <1>7 DEF Inv, TypeOK, table, memory
<1>9. /\ frame'[c].op = "sethook" /\ frame'[c].p = frame[c].p /\ frame'[c].h = frame[c].h
      /\ frame'[c].sys = sys /\ frame'[c].hook = hook
      /\ frame'[c].blk = frame[c].blk /\ frame'[c].ret = frame[c].ret
  BY <1>2, <1>5 DEF Inv, TypeOK, Frame
<1>10. CallOK(c)'
  <2>1. \A l : Good(l)' <=> Good(l)
    BY <1>1 DEF Good, used, memory
  <2>2. ArgsOK(c)'
    BY <1>1, <1>2, <1>3, <1>7, <1>9, <2>1 DEF ArgsOK, Before, SetHookLabel
  <2>3. SetHookStage(c)'
    BY <1>1, <1>3, <1>4, <1>7, <1>9, <2>1 DEF SetHookStage, Displaceable, Lands, memory
  <2>4. UnhookStage(c)'
    BY <1>7 DEF UnhookStage
  <2>5. Answer(c)'
    <3>1. frame[c].blk = NULL /\ ~frame[c].ret
      BY <1>1, <1>2 DEF ArgsOK
    <3> QED BY <1>9, <3>1 DEF Answer, registered
  <2> QED BY <2>2, <2>3, <2>4, <2>5 DEF CallOK
<1>11. Sound'
  BY <1>1, <1>7, <1>10, QuietStep
<1>12. FirstUse' /\ MutualExclusion'
  BY <1>1, <1>4, <1>6, InsideStep DEF Inside, Before
<1> QED BY <1>8, <1>11, <1>12 DEF Inv

LEMMA QuietInsideStep ==
  ASSUME Inv, NEW c \in Caller, AllocFails(c) \/ Protect(c) \/ RestoreFails(c)
  PROVE  Inv'
<1>1. PICK to \in {"build", "publish", "leave"} :
        /\ pc' = [pc EXCEPT ![c] = to]
        /\ \/ pc[c] \in {"alloc", "restore"} /\ to = "leave"
           \/ pc[c] = "protect" /\ to \in {"build", "publish"}
  BY DEF AllocFails, Protect, RestoreFails, Goto
<1>2. UNCHANGED <<inited, owner, table, memory, ptr, frame>>
  BY DEF AllocFails, Protect, RestoreFails
<1>3. Steps(c, to)
  BY <1>1, <1>2 DEF Inv, TypeOK, Steps, Label, SetHookLabel
<1>4. /\ pc'[c] = to /\ pc' \in [Caller -> Label]
      /\ \A d \in Caller \ {c} : pc'[d] = pc[d] /\ frame'[d] = frame[d]
  BY <1>3, StepFacts DEF Inv
<1>5. TypeOK'
  BY <1>2, <1>4 DEF Inv, TypeOK, table, memory
<1>6. CallOK(c)'
  <2>1. /\ \A l : Good(l)' <=> Good(l)
        /\ used' = used /\ registered' = registered
    BY <1>2 DEF Good, used, registered, memory, table
  <2>2. CallOK(c) /\ frame'[c] = frame[c]
    BY <1>2 DEF Inv, Sound
  <2>3. ArgsOK(c)'
    BY <1>1, <1>4, <2>1, <2>2 DEF CallOK, ArgsOK, Before, SetHookLabel, UnhookLabel
  <2>4. SetHookStage(c)'
    BY <1>1, <1>2, <1>4, <2>1, <2>2 DEF CallOK, SetHookStage, memory
  <2>5. UnhookStage(c)'
    BY <1>4 DEF UnhookStage
  <2>6. Answer(c)'
    <3>1. CASE pc[c] = "alloc"
      <4>1. frame[c].blk = NULL /\ ~frame[c].ret /\ frame[c].op = "sethook"
        BY <3>1, <2>2 DEF CallOK, ArgsOK, Before, UnhookLabel
      <4> QED BY <2>2, <4>1 DEF Answer, registered
    <3>2. CASE pc[c] = "restore"
      <4>1. ~frame[c].ret /\ frame[c].op # "sethook" /\ frame[c].blk \in registered
        BY <3>2, <2>2 DEF CallOK, ArgsOK, UnhookStage, Before, SetHookLabel
      <4> QED BY <2>1, <2>2, <4>1 DEF Answer
    <3>3. CASE pc[c] = "protect"
      BY <1>1, <1>4, <3>3 DEF Answer
    <3> QED BY <1>1, <3>1, <3>2, <3>3
  <2> QED BY <2>3, <2>4, <2>5, <2>6 DEF CallOK
<1>7. Sound'
  BY <1>1, <1>2, <1>4, <1>6, QuietStep
<1>8. FirstUse' /\ MutualExclusion'
  BY <1>1, <1>2, <1>3, InsideStep DEF Inside, Before
<1> QED BY <1>5, <1>7, <1>8 DEF Inv

LEMMA LookupStep ==
  ASSUME Inv, NEW c \in Caller, Lookup(c)
  PROVE  Inv'
<1> DEFINE found == {i \in Slot : hooks[i] # NULL /\ Entry(hooks[i]) = ptr[frame[c].p]}
<1>1. /\ pc[c] = "lookup" /\ pc' = [pc EXCEPT ![c] = IF found = {} THEN "leave" ELSE "restore"]
      /\ frame' = IF found = {} THEN frame ELSE Set(c, "blk", hooks[First(found)])
      /\ UNCHANGED <<inited, owner, table, memory, ptr>>
  BY DEF Lookup, Goto
<1>2. ArgsOK(c) /\ frame[c].op = "unhook" /\ frame[c].blk = NULL /\ ~frame[c].ret
      /\ frame[c].p \in Ptr
  BY <1>1 DEF Inv, Sound, CallOK, ArgsOK, Before, SetHookLabel
<1>3. PICK b \in Block \cup {NULL}, to \in {"leave", "restore"} :
        /\ pc' = [pc EXCEPT ![c] = to]
        /\ frame' = [frame EXCEPT ![c].blk = b]
        /\ to = "leave" => b = NULL
        /\ to = "restore" => b \in registered \cap used /\ ptr[frame[c].p] = Entry(b)
  <2>1. CASE found = {}
    <3>1. frame' = [frame EXCEPT ![c].blk = NULL]
      BY <1>1, <1>2, <2>1 DEF Inv, TypeOK, Frame
    <3> QED BY <1>1, <2>1, <3>1
  <2>2. CASE found # {}
    <3>1. First(found) \in found
      <4>1. found \in SUBSET Nat
        BY DEF Slot
      <4>2. \E m \in found : \A k \in found : m <= k
        BY <2>2, <4>1, LeastNumber
      <4> HIDE DEF found
      <4> QED BY <4>2 DEF First
    <3> DEFINE b == hooks[First(found)]
    <3>2. b \in registered /\ ptr[frame[c].p] = Entry(b) /\ b \in Block
      BY <3>1 DEF registered, Inv, TypeOK
    <3>3. b \in used
      <4>1. Good(Entry(b))
        BY <1>2, <3>2 DEF Inv, Sound, PtrsGood
      <4> HIDE DEF b
      <4> QED BY <4>1 DEF Good, Entry
    <3>4. frame' = [frame EXCEPT ![c].blk = b]
      BY <1>1, <2>2 DEF Set
    <3> HIDE DEF found, b
    <3> QED BY <1>1, <2>2, <3>2, <3>3, <3>4
  <2> QED BY <2>1, <2>2
<1> HIDE DEF found
<1>4. /\ frame' \in [Caller -> Frame]
      /\ \A d \in Caller \ {c} : frame'[d] = frame[d]
      /\ frame'[c] = [frame[c] EXCEPT !.blk = b]
  BY <1>3 DEF Inv, TypeOK, Frame
<1>5. Steps(c, to)
  BY <1>3, <1>4 DEF Steps, Label, UnhookLabel
<1>6. /\ pc'[c] = to /\ pc' \in [Caller -> Label]
      /\ \A d \in Caller \ {c} : pc'[d] = pc[d] /\ frame'[d] = frame[d]
  BY <1>5, StepFacts DEF Inv
<1>7. TypeOK'
  BY <1>1, <1>4, <1>6 DEF Inv, TypeOK, table, memory
<1>8. /\ frame'[c].op = "unhook" /\ frame'[c].p = frame[c].p
      /\ frame'[c].blk = b /\ ~frame'[c].ret
  BY <1>2, <1>4 DEF Inv, TypeOK, Frame
<1>9. CallOK(c)'
  <2>1. used' = used /\ registered' = registered
    BY <1>1 DEF used, registered, memory, table
  <2>2. ArgsOK(c)'
    BY <1>2, <1>3, <1>6, <1>8 DEF ArgsOK, Before, UnhookLabel
  <2>3. SetHookStage(c)' /\ UnhookStage(c)'
    BY <1>1, <1>3, <1>6, <1>8, <2>1 DEF SetHookStage, UnhookStage
  <2>4. Answer(c)'
    BY <1>3, <1>6, <1>8 DEF Answer
  <2> QED BY <2>2, <2>3, <2>4 DEF CallOK
<1>10. Sound'
  BY <1>1, <1>6, <1>9, QuietStep
<1>11. FirstUse' /\ MutualExclusion'
  BY <1>1, <1>3, <1>5, InsideStep DEF Inside, Before
<1> QED BY <1>7, <1>10, <1>11 DEF Inv
--------------------------------------------------------------------------
(* What a step under the lock does to the memory.                          *)
LEMMA OthersKeep ==
  ASSUME Inv, NEW c \in Caller, CallOK(c)',
         \A d \in Caller \ {c} : ~Inside(d) /\ pc'[d] = pc[d] /\ frame'[d] = frame[d],
         \A l : Good(l) => Good(l)'
  PROVE  \A d \in Caller : CallOK(d)'
<1> SUFFICES ASSUME NEW d \in Caller \ {c} PROVE CallOK(d)'
  OBVIOUS
<1>1. pc'[d] = pc[d] /\ frame'[d] = frame[d] /\ ArgsOK(d) /\ ~Inside(d)
  BY DEF Inv, Sound, CallOK
<1>2. ArgsOK(d)'
  BY <1>1 DEF ArgsOK
<1>3. SetHookStage(d)' /\ UnhookStage(d)' /\ Answer(d)'
  BY <1>1 DEF SetHookStage, UnhookStage, Answer, Inside
<1> QED BY <1>2, <1>3 DEF CallOK

LEMMA SameGood ==
  ASSUME Inv, used' = used, \A b \in used : tramp'[b] = tramp[b],
         \A l \in Loc : l[1] = "fn" \/ l[2] \in used => code'[l] = code[l]
  PROVE  /\ \A l : Good(l)' <=> Good(l)
         /\ \A l : Good(l) => code'[l] = code[l]
         /\ JumpsGood' /\ UsedGood'
<1>1. \A l : Good(l)' <=> Good(l)
  BY DEF Good
<1>2. \A l : Good(l) => code'[l] = code[l]
  BY DEF Good
<1>3. JumpsGood'
  BY <1>1, <1>2 DEF Inv, Sound, JumpsGood
<1>4. UsedGood'
  <2>1. \A b \in used : code'[Entry(b)] = code[Entry(b)]
    BY LocFacts DEF used, Entry, Inv, TypeOK
  <2> QED BY <1>1, <2>1 DEF Inv, Sound, UsedGood
<1> QED BY <1>1, <1>2, <1>3, <1>4

(* A buffer of a block that was never completed.                           *)
LEMMA UnusedBuffers ==
  ASSUME NEW b \in Block, b \notin used
  PROVE  \A l \in Loc : l[1] = "fn" \/ l[2] \in used => l # Entry(b) /\ l # Stub(b)
  BY DEF Entry, Stub

(* Who is at work is the one under the lock.                               *)
LEMMA OnlyBusy ==
  ASSUME Inv, NEW c \in Caller, Inside(c), NEW d \in Caller, Inside(d)
  PROVE  d = c
  BY DEF Inv, MutualExclusion

LEMMA FreeFacts ==
  ASSUME Inv, NEW b \in registered, NEW n \in BOOLEAN, TrampolineFree(b, n),
         n => b \notin used
  PROVE  /\ hooks' \in [Slot -> Block \cup {NULL}]
         /\ registered' = registered \ {b}
         /\ mapped' = (IF n THEN mapped \ {b} ELSE mapped)
         /\ used' = used /\ tramp' = tramp /\ code' = code
         /\ SlotAccounting'
<1>1. SlotsOf(b) # {} /\ b \in Block /\ b # NULL
  BY NullFacts DEF SlotsOf, registered, Inv, TypeOK
<1> DEFINE s == First(SlotsOf(b))
<1>2. s \in Slot /\ hooks[s] = b
  <2>1. SlotsOf(b) \in SUBSET Nat
    BY DEF SlotsOf, Slot
  <2>2. \E m \in SlotsOf(b) : \A k \in SlotsOf(b) : m <= k
    BY <1>1, <2>1, LeastNumber
  <2>3. s \in SlotsOf(b)
    BY <2>2 DEF First
  <2> QED BY <2>3 DEF SlotsOf
<1> HIDE DEF s
<1>3. /\ hooks' = [hooks EXCEPT ![s] = NULL] /\ inUse' = inUse - 1
      /\ mapped' = (IF n THEN mapped \ {b} ELSE mapped)
      /\ tramp' = tramp /\ code' = code
  BY <1>1 DEF TrampolineFree, s
<1>4. \A j \in Slot : hooks'[j] = IF j = s THEN NULL ELSE hooks[j]
  BY <1>3 DEF Inv, TypeOK
<1>5. \A j \in Slot : hooks[j] = b => j = s
  BY <1>1, <1>2 DEF Inv, Sound, SlotAccounting
<1>6. registered' = registered \ {b}
  BY <1>4, <1>5 DEF registered
<1>7. used' = used
  BY <1>3 DEF used
<1>8. SlotAccounting'
  <2> DEFINE full == {j \in Slot : hooks[j] # NULL}
  <2>1. {j \in Slot : hooks'[j] # NULL} = full \ {s} /\ s \in full
    BY <1>1, <1>2, <1>4
  <2>2. IsFiniteSet(full)
    BY SlotFacts, FS_Subset
  <2>3. Cardinality(full \ {s}) = Cardinality(full) - 1
    <3> HIDE DEF full
    <3> QED BY <2>1, <2>2, FS_RemoveElement
  <2>4. inUse = Cardinality(full)
    BY DEF Inv, Sound, SlotAccounting
  <2> HIDE DEF full
  <2>5. inUse' = Cardinality({j \in Slot : hooks'[j] # NULL})
    BY <1>3, <2>1, <2>3, <2>4
  <2>6. \A j, k \in Slot : hooks'[j] = hooks'[k] /\ hooks'[j] # NULL => j = k
    BY <1>4 DEF Inv, Sound, SlotAccounting
  <2>7. registered' \subseteq mapped'
    BY <1>3, <1>6 DEF Inv, Sound, SlotAccounting
  <2> QED BY <2>5, <2>6, <2>7 DEF SlotAccounting
<1> QED BY <1>3, <1>6, <1>7, <1>8 DEF Inv, TypeOK

(* A step that sets one local variable of its own.                         *)
LEMMA SetBlk ==
  ASSUME TypeOK, NEW c \in Caller, NEW b \in Block \cup {NULL},
         frame' = [frame EXCEPT ![c].blk = b]
  PROVE  /\ frame' \in [Caller -> Frame]
         /\ \A d \in Caller \ {c} : frame'[d] = frame[d]
         /\ frame'[c].op = frame[c].op /\ frame'[c].p = frame[c].p
         /\ frame'[c].h = frame[c].h /\ frame'[c].sys = frame[c].sys
         /\ frame'[c].hook = frame[c].hook /\ frame'[c].ret = frame[c].ret
         /\ frame'[c].blk = b
<1> DEFINE r == [frame[c] EXCEPT !.blk = b]
<1>1. frame[c] \in Frame /\ frame \in [Caller -> Frame]
  BY DEF TypeOK
<1>2. r \in Frame
  BY <1>1 DEF Frame
<1>3. /\ r.op = frame[c].op /\ r.p = frame[c].p /\ r.h = frame[c].h
      /\ r.sys = frame[c].sys /\ r.hook = frame[c].hook /\ r.ret = frame[c].ret
      /\ r.blk = b
  BY <1>1 DEF Frame
<1>4. frame' = [frame EXCEPT ![c] = r]
  OBVIOUS
<1> HIDE DEF r
<1>5. /\ frame' \in [Caller -> Frame] /\ frame'[c] = r
      /\ \A d \in Caller \ {c} : frame'[d] = frame[d]
  BY <1>1, <1>2, <1>4
<1> QED BY <1>3, <1>5

LEMMA SetRet ==
  ASSUME TypeOK, NEW c \in Caller, NEW v \in BOOLEAN,
         frame' = [frame EXCEPT ![c].ret = v]
  PROVE  /\ frame' \in [Caller -> Frame]
         /\ \A d \in Caller \ {c} : frame'[d] = frame[d]
         /\ frame'[c].op = frame[c].op /\ frame'[c].p = frame[c].p
         /\ frame'[c].h = frame[c].h /\ frame'[c].sys = frame[c].sys
         /\ frame'[c].hook = frame[c].hook /\ frame'[c].blk = frame[c].blk
         /\ frame'[c].ret = v
<1> DEFINE r == [frame[c] EXCEPT !.ret = v]
<1>1. frame[c] \in Frame /\ frame \in [Caller -> Frame]
  BY DEF TypeOK
<1>2. r \in Frame
  BY <1>1 DEF Frame
<1>3. /\ r.op = frame[c].op /\ r.p = frame[c].p /\ r.h = frame[c].h
      /\ r.sys = frame[c].sys /\ r.hook = frame[c].hook /\ r.blk = frame[c].blk
      /\ r.ret = v
  BY <1>1 DEF Frame
<1>4. frame' = [frame EXCEPT ![c] = r]
  OBVIOUS
<1> HIDE DEF r
<1>5. /\ frame' \in [Caller -> Frame] /\ frame'[c] = r
      /\ \A d \in Caller \ {c} : frame'[d] = frame[d]
  BY <1>1, <1>2, <1>4
<1> QED BY <1>3, <1>5

LEMMA AllocStep ==
  ASSUME Inv, NEW c \in Caller, NEW b \in Block \ mapped, Alloc(c, b)
  PROVE  Inv'
<1>1. /\ inUse < MaxHooks
      /\ pc[c] = "alloc" /\ pc' = [pc EXCEPT ![c] = "protect"]
      /\ mapped' = mapped \cup {b}
      /\ tramp' = [tramp EXCEPT ![b] = Zero]
      /\ code' = [code EXCEPT ![Entry(b)] = Blank, ![Stub(b)] = Blank]
      /\ frame' = [frame EXCEPT ![c].blk = b]
      /\ UNCHANGED <<inited, owner, ptr>>
  BY DEF Alloc, Goto, Set
<1>2. b \notin used /\ b \notin registered
  BY DEF used, Inv, Sound, SlotAccounting
<1>3. /\ CallOK(c) /\ frame[c].op = "sethook" /\ frame[c].p \in Ptr /\ ~frame[c].ret
      /\ frame[c].h \in Routine /\ Good(frame[c].sys)
  BY <1>1 DEF Inv, Sound, CallOK, ArgsOK, Before, UnhookLabel
<1>4. /\ frame' \in [Caller -> Frame]
      /\ \A d \in Caller \ {c} : frame'[d] = frame[d]
      /\ frame'[c].op = "sethook" /\ frame'[c].p = frame[c].p /\ frame'[c].h = frame[c].h
      /\ frame'[c].sys = frame[c].sys /\ frame'[c].hook = frame[c].hook
      /\ frame'[c].blk = b /\ ~frame'[c].ret
  BY <1>1, <1>3, SetBlk DEF Inv
<1>5. Steps(c, "protect")
  BY <1>1, <1>4 DEF Steps, Label, SetHookLabel
<1>6. /\ pc'[c] = "protect" /\ pc' \in [Caller -> Label]
      /\ \A d \in Caller \ {c} : pc'[d] = pc[d] /\ frame'[d] = frame[d]
  BY <1>5, StepFacts DEF Inv
<1>7. FirstUse' /\ MutualExclusion' /\ \A d \in Caller \ {c} : ~Inside(d)
  BY <1>1, <1>5, InsideStep DEF Inside, Before
<1>8. /\ \A x \in Block \ {b} : tramp'[x] = tramp[x]
      /\ tramp'[b].sys = NULL /\ tramp' \in [Block -> TrampolineOrZero]
  BY <1>1, ContentFacts DEF Inv, TypeOK, Zero, TrampolineOrZero
<1>9. /\ \A l \in Loc : l # Entry(b) /\ l # Stub(b) => code'[l] = code[l]
      /\ code' \in [Loc -> Content]
  BY <1>1, LocFacts, ContentFacts DEF Inv, TypeOK
<1>10. used' = used
  BY <1>1, <1>2, <1>8 DEF used, Inv, TypeOK
<1>11. /\ \A l : Good(l)' <=> Good(l)
       /\ \A l : Good(l) => code'[l] = code[l]
       /\ JumpsGood' /\ UsedGood'
  <2>1. \A x \in used : tramp'[x] = tramp[x]
    BY <1>2, <1>8 DEF used, Inv, TypeOK
  <2>2. \A l \in Loc : l[1] = "fn" \/ l[2] \in used => code'[l] = code[l]
    BY <1>2, <1>9, UnusedBuffers
  <2> QED BY <1>10, <2>1, <2>2, SameGood
<1>12. PICK s \in Slot :
         /\ hooks[s] = NULL /\ hooks' = [hooks EXCEPT ![s] = b] /\ inUse' = inUse + 1
  <2>1. SlotsOf(NULL) # {}
    <3> SUFFICES ASSUME SlotsOf(NULL) = {} PROVE FALSE
      OBVIOUS
    <3>1. {i \in Slot : hooks[i] # NULL} = Slot
      BY DEF SlotsOf
    <3>2. inUse = MaxHooks
      BY <3>1, SlotFacts DEF Inv, Sound, SlotAccounting
    <3> QED BY <1>1, <3>2, MhookAssumption
  <2>2. SlotsOf(NULL) \in SUBSET Nat
    BY DEF SlotsOf, Slot
  <2>3. \E m \in SlotsOf(NULL) : \A k \in SlotsOf(NULL) : m <= k
    BY <2>1, <2>2, LeastNumber
  <2>4. First(SlotsOf(NULL)) \in SlotsOf(NULL)
    BY <2>3 DEF First
  <2> QED BY <2>1, <2>4 DEF Alloc, SlotsOf
<1>13. \A j \in Slot : hooks'[j] = IF j = s THEN b ELSE hooks[j]
  BY <1>12 DEF Inv, TypeOK
<1>14. registered' = registered \cup {b}
  BY <1>12, <1>13, NullFacts DEF registered
<1>15. SlotAccounting'
  <2> DEFINE full == {j \in Slot : hooks[j] # NULL}
  <2>1. {j \in Slot : hooks'[j] # NULL} = full \cup {s} /\ s \notin full
    BY <1>12, <1>13, NullFacts
  <2>2. IsFiniteSet(full)
    BY SlotFacts, FS_Subset
  <2>3. Cardinality(full \cup {s}) = Cardinality(full) + 1
    <3> HIDE DEF full
    <3> QED BY <2>1, <2>2, FS_AddElement
  <2>4. inUse = Cardinality(full)
    BY DEF Inv, Sound, SlotAccounting
  <2> HIDE DEF full
  <2>5. inUse' = Cardinality({j \in Slot : hooks'[j] # NULL})
    BY <1>12, <2>1, <2>3, <2>4
  <2>6. \A j \in Slot : hooks[j] # b
    BY <1>2, NullFacts DEF registered
  <2>7. \A j, k \in Slot : hooks'[j] = hooks'[k] /\ hooks'[j] # NULL => j = k
    BY <1>13, <2>6 DEF Inv, Sound, SlotAccounting
  <2>8. registered' \subseteq mapped'
    BY <1>1, <1>14 DEF Inv, Sound, SlotAccounting
  <2> QED BY <2>5, <2>7, <2>8 DEF SlotAccounting
<1>16. TypeOK'
  BY <1>1, <1>4, <1>6, <1>8, <1>9, <1>12 DEF Inv, TypeOK
<1>17. PtrsGood'
  BY <1>1, <1>11 DEF Inv, Sound, PtrsGood
<1>18. Busy(c, {"protect", "build", "patch", "publish"}, b)'
       /\ Busy(c, {"protect", "build", "patch", "publish", "giveback", "free"}, b)'
  BY <1>4, <1>6 DEF Busy
<1>19. MappedKnown'
  <2> SUFFICES ASSUME NEW x \in mapped', x \notin used', x # b PROVE FALSE
    BY <1>18 DEF MappedKnown
  <2>1. PICK d \in Caller : Busy(d, {"protect", "build", "patch", "publish"}, x)
    BY <1>1, <1>10 DEF Inv, Sound, MappedKnown
  <2> QED BY <1>1, <1>7, <2>1 DEF Busy, Inside
<1>20. \A x \in registered : x \in used /\ IsJmp(code[tramp[x].sys]) /\ Good(tramp[x].sys)
  <2> SUFFICES ASSUME NEW x \in registered
               PROVE  x \in used /\ IsJmp(code[tramp[x].sys])
    BY DEF Inv, Sound, UsedGood
  <2> QED BY <1>1, <1>7 DEF Inv, Sound, RegisteredJumps, Busy, Inside
<1>21. RegisteredJumps' /\ SysDistinct'
  <2>1. \A x \in registered : tramp'[x] = tramp[x] /\ code'[tramp[x].sys] = code[tramp[x].sys]
    BY <1>2, <1>8, <1>11, <1>20 DEF used, Inv, TypeOK
  <2>2. RegisteredJumps'
    BY <1>10, <1>14, <1>18, <1>20, <2>1 DEF RegisteredJumps
  <2>3. SysDistinct'
    BY <1>2, <1>10, <1>14, <2>1 DEF Inv, Sound, SysDistinct
  <2> QED BY <2>2, <2>3
<1>22. CallOK(c)'
  <2>1. /\ IsBody(code[frame[c].sys]) /\ Good(frame[c].hook)
        /\ ~IsJmp(code[frame[c].hook])
    BY <1>1, <1>3 DEF CallOK, SetHookStage
  <2>2. ArgsOK(c)'
    BY <1>3, <1>4, <1>6, <1>11 DEF ArgsOK, SetHookLabel, Before
  <2>3. SetHookStage(c)'
    <3>1. PICK f : f = frame'[c]
      OBVIOUS
    <3>2. f.sys = frame[c].sys /\ f.hook = frame[c].hook /\ f.blk = b
      BY <1>4, <3>1
    <3>3. /\ IsBody(code'[f.sys]) /\ ~IsJmp(code'[f.hook])
          /\ Good(f.hook)'
      BY <1>3, <1>11, <2>1, <3>2
    <3>4. b \in registered' \ used'
      BY <1>2, <1>10, <1>14
    <3> QED BY <1>6, <3>1, <3>2, <3>3, <3>4 DEF SetHookStage
  <2>4. UnhookStage(c)' /\ Answer(c)'
    BY <1>6 DEF UnhookStage, Answer
  <2> QED BY <2>2, <2>3, <2>4 DEF CallOK
<1>23. \A d \in Caller : CallOK(d)'
  BY <1>6, <1>7, <1>11, <1>22, OthersKeep
<1> QED
  BY <1>7, <1>11, <1>15, <1>16, <1>17, <1>19, <1>21, <1>23 DEF Inv, Sound

(* While one caller works, what is unfinished is its own.                  *)
LEMMA OthersSettled ==
  ASSUME Inv, NEW c \in Caller, Inside(c)
  PROVE  /\ \A x \in mapped :
              x \in used \/ Busy(c, {"protect", "build", "patch", "publish"}, x)
         /\ \A x \in registered :
              \/ x \in used /\ IsJmp(code[tramp[x].sys])
              \/ Busy(c, {"protect", "build", "patch", "publish", "giveback", "free"}, x)
<1>1. \A d \in Caller : Inside(d) => d = c
  BY OnlyBusy
<1> QED BY <1>1 DEF Inv, Sound, MappedKnown, RegisteredJumps, Busy, Inside

LEMMA BuildStep ==
  ASSUME Inv, NEW c \in Caller, Build(c)
  PROVE  Inv'
<1>1. PICK f : f = frame[c]
  OBVIOUS
<1>2. PICK b : b = f.blk
  OBVIOUS
<1> DEFINE stub == IF IsFar(code, f.sys, f.hook) THEN Jmp(f.hook) ELSE Blank
<1>3. /\ pc[c] = "build" /\ pc' = [pc EXCEPT ![c] = "patch"]
      /\ code' = [code EXCEPT ![Entry(b)] = code[f.sys], ![Stub(b)] = stub]
      /\ tramp' = [tramp EXCEPT ![b].untouched = code[f.sys]]
      /\ UNCHANGED <<inited, owner, table, mapped, ptr, frame>>
  BY <1>1, <1>2 DEF Build, Goto
<1>4. /\ f \in Frame /\ f.op = "sethook" /\ f.p \in Ptr /\ ~f.ret /\ f.h \in Routine
      /\ Good(f.sys) /\ IsBody(code[f.sys]) /\ Good(f.hook) /\ ~IsJmp(code[f.hook])
      /\ b \in registered \ used
  <2>1. CallOK(c) /\ f \in Frame
    BY <1>1 DEF Inv, Sound, TypeOK
  <2> QED BY <1>1, <1>2, <1>3, <2>1
          DEF CallOK, ArgsOK, SetHookStage, Before, UnhookLabel
<1>5. b \in Block /\ b \in mapped /\ b \notin used /\ code[f.sys] \in Content
  BY <1>4 DEF Inv, TypeOK, Sound, SlotAccounting, Good
<1>6. stub \in Content
  BY <1>4, ContentFacts DEF Good
<1> HIDE DEF stub
<1>7. Steps(c, "patch")
  BY <1>3 DEF Inv, TypeOK, Steps, Label, SetHookLabel
<1>8. /\ pc'[c] = "patch" /\ pc' \in [Caller -> Label]
      /\ \A d \in Caller \ {c} : pc'[d] = pc[d] /\ frame'[d] = frame[d]
  BY <1>7, StepFacts DEF Inv
<1>9. FirstUse' /\ MutualExclusion' /\ \A d \in Caller \ {c} : ~Inside(d)
  BY <1>3, <1>7, InsideStep DEF Inside, Before
<1>10. /\ \A x \in Block : tramp'[x].sys = tramp[x].sys
       /\ \A x \in Block \ {b} : tramp'[x] = tramp[x]
       /\ tramp'[b].untouched = code[f.sys]
       /\ tramp' \in [Block -> TrampolineOrZero]
  <2> DEFINE t == [tramp[b] EXCEPT !.untouched = code[f.sys]]
  <2>1. /\ t \in TrampolineOrZero /\ t.sys = tramp[b].sys
        /\ t.untouched = code[f.sys]
    BY <1>5 DEF Inv, TypeOK, TrampolineOrZero
  <2>2. tramp' = [tramp EXCEPT ![b] = t]
    BY <1>3
  <2> HIDE DEF t
  <2> QED BY <1>5, <2>1, <2>2 DEF Inv, TypeOK
<1>11. /\ \A l \in Loc : l # Entry(b) /\ l # Stub(b) => code'[l] = code[l]
       /\ code'[Entry(b)] = code[f.sys] /\ code'[Stub(b)] = stub
       /\ code' \in [Loc -> Content]
  BY <1>3, <1>5, <1>6, LocFacts DEF Inv, TypeOK
<1>12. used' = used /\ registered' = registered
  BY <1>3, <1>10 DEF used, registered, table, Inv, TypeOK
<1>13. /\ \A l : Good(l)' <=> Good(l)
       /\ \A l : Good(l) => code'[l] = code[l]
       /\ JumpsGood' /\ UsedGood'
  <2>1. \A x \in used : tramp'[x] = tramp[x]
    BY <1>5, <1>10 DEF used, Inv, TypeOK
  <2>2. \A l \in Loc : l[1] = "fn" \/ l[2] \in used => code'[l] = code[l]
    BY <1>5, <1>11, UnusedBuffers
  <2> QED BY <1>12, <2>1, <2>2, SameGood
<1>14. SlotAccounting' /\ PtrsGood'
  BY <1>3, <1>12, <1>13 DEF Inv, Sound, SlotAccounting, PtrsGood, table
<1>15. TypeOK'
  BY <1>3, <1>8, <1>10, <1>11 DEF Inv, TypeOK, table
<1>16. /\ \A x \in mapped : x \in used \/ x = b
       /\ \A x \in registered : x = b \/ (x \in used /\ IsJmp(code[tramp[x].sys]))
  BY <1>1, <1>2, <1>3, OthersSettled DEF Busy, Inside
<1>17. MappedKnown' /\ RegisteredJumps' /\ SysDistinct'
  <2>1. /\ Busy(c, {"protect", "build", "patch", "publish"}, b)'
        /\ Busy(c, {"protect", "build", "patch", "publish", "giveback", "free"}, b)'
    BY <1>1, <1>2, <1>3, <1>8 DEF Busy
  <2>2. MappedKnown'
    BY <1>3, <1>12, <1>16, <2>1 DEF MappedKnown
  <2>3. \A x \in used : tramp'[x] = tramp[x] /\ code'[tramp[x].sys] = code[tramp[x].sys]
    BY <1>5, <1>10, <1>13 DEF used, Inv, TypeOK, Sound, UsedGood
  <2>4. RegisteredJumps'
    BY <1>12, <1>16, <2>1, <2>3 DEF RegisteredJumps
  <2>5. SysDistinct'
    BY <1>12, <2>3 DEF Inv, Sound, SysDistinct
  <2> QED BY <2>2, <2>4, <2>5
<1>18. CallOK(c)'
  <2>1. frame'[c] = f /\ code'[f.sys] = code[f.sys] /\ code'[f.hook] = code[f.hook]
    BY <1>1, <1>3, <1>4, <1>13
  <2>2. ArgsOK(c)'
    BY <1>4, <1>8, <1>13, <2>1 DEF ArgsOK, SetHookLabel, Before
  <2>3. IsFar(code', f.sys, f.hook) <=> IsFar(code, f.sys, f.hook)
    BY <2>1 DEF IsFar
  <2>4. Good(f.hook)' /\ b \in registered' \ used'
    BY <1>4, <1>12, <1>13
  <2>5. code'[Stub(b)] = IF IsFar(code', f.sys, f.hook) THEN Jmp(f.hook) ELSE Blank
    BY <1>11, <2>3 DEF stub
  <2>6. SetHookStage(c)'
    BY <1>2, <1>4, <1>8, <1>10, <1>11, <2>1, <2>4, <2>5 DEF SetHookStage
  <2>7. UnhookStage(c)' /\ Answer(c)'
    BY <1>8 DEF UnhookStage, Answer
  <2> QED BY <2>2, <2>6, <2>7 DEF CallOK
<1>19. \A d \in Caller : CallOK(d)'
  BY <1>8, <1>9, <1>13, <1>18, OthersKeep
<1> QED
  BY <1>9, <1>13, <1>14, <1>15, <1>17, <1>19 DEF Inv, Sound

LEMMA PatchStep ==
  ASSUME Inv, NEW c \in Caller, Patch(c)
  PROVE  Inv'
<1>1. PICK f : f = frame[c]
  OBVIOUS
<1>2. PICK b : b = f.blk
  OBVIOUS
<1>3. PICK to : to = IF IsFar(code, f.sys, f.hook) THEN Stub(b) ELSE f.hook
  OBVIOUS
<1>4. /\ pc[c] = "patch" /\ pc' = [pc EXCEPT ![c] = "publish"]
      /\ code' = [code EXCEPT ![f.sys] = Jmp(to)]
      /\ tramp' = [tramp EXCEPT ![b].sys = f.sys, ![b].hook = f.hook]
      /\ UNCHANGED <<inited, owner, table, mapped, ptr, frame>>
  BY <1>1, <1>2, <1>3 DEF Patch, Goto
<1>5. CallOK(c) /\ f \in Frame
  BY <1>1 DEF Inv, Sound, TypeOK
<1>6. /\ f.op = "sethook" /\ f.p \in Ptr /\ ~f.ret /\ f.h \in Routine /\ Good(f.sys)
  BY <1>1, <1>4, <1>5 DEF CallOK, ArgsOK, Before, UnhookLabel
<1>7. /\ IsBody(code[f.sys]) /\ Good(f.hook) /\ ~IsJmp(code[f.hook])
      /\ b \in registered /\ b \notin used
      /\ code[Entry(b)] = code[f.sys] /\ tramp[b].untouched = code[f.sys]
      /\ code[Stub(b)] = IF IsFar(code, f.sys, f.hook) THEN Jmp(f.hook) ELSE Blank
  BY <1>1, <1>2, <1>4, <1>5 DEF CallOK, SetHookStage
<1>8. /\ b \in Block /\ b \in mapped /\ f.sys \in Loc /\ f.hook \in Loc /\ to \in Loc
      /\ f.sys # Entry(b) /\ f.sys # Stub(b)
  <2>1. b \in Block /\ b \in mapped /\ f.sys \in Loc /\ f.hook \in Loc
    BY <1>6, <1>7 DEF Inv, TypeOK, Sound, SlotAccounting, Good
  <2>2. f.sys # Entry(b) /\ f.sys # Stub(b)
    BY <1>6, <1>7 DEF Good, Entry, Stub
  <2> QED BY <1>3, <2>1, <2>2, LocFacts
<1>9. Steps(c, "publish")
  BY <1>4 DEF Inv, TypeOK, Steps, Label, SetHookLabel
<1>10. /\ pc'[c] = "publish" /\ pc' \in [Caller -> Label]
       /\ \A d \in Caller \ {c} : pc'[d] = pc[d] /\ frame'[d] = frame[d]
  BY <1>9, StepFacts DEF Inv
<1>11. FirstUse' /\ MutualExclusion' /\ \A d \in Caller \ {c} : ~Inside(d)
  BY <1>4, <1>9, InsideStep DEF Inside, Before
<1>12. /\ \A x \in Block \ {b} : tramp'[x] = tramp[x]
       /\ tramp'[b].sys = f.sys /\ tramp'[b].untouched = code[f.sys]
       /\ tramp' \in [Block -> TrampolineOrZero]
  <2> DEFINE t == [tramp[b] EXCEPT !.sys = f.sys, !.hook = f.hook]
  <2>1. t \in TrampolineOrZero /\ t.sys = f.sys /\ t.untouched = code[f.sys]
    BY <1>7, <1>8 DEF Inv, TypeOK, TrampolineOrZero
  <2>2. tramp' = [tramp EXCEPT ![b] = t]
    BY <1>4
  <2> HIDE DEF t
  <2> QED BY <1>8, <2>1, <2>2 DEF Inv, TypeOK
<1>13. /\ \A l \in Loc : l # f.sys => code'[l] = code[l]
       /\ code'[f.sys] = Jmp(to) /\ code' \in [Loc -> Content]
  BY <1>4, <1>8, ContentFacts DEF Inv, TypeOK
<1>14. used' = used \cup {b} /\ registered' = registered
  <2>1. registered' = registered
    BY <1>4 DEF registered, table
  <2>2. \A x \in Block : tramp'[x].sys # NULL <=> (tramp[x].sys # NULL \/ x = b)
    BY <1>8, <1>12, NullFacts
  <2> QED BY <1>4, <1>8, <2>1, <2>2 DEF used, Inv, TypeOK
<1>15. /\ IsJmp(Jmp(to)) /\ Jmp(to) # Blank /\ Jmp(to)[2] = to
       /\ code[f.sys] # Blank /\ ~IsJmp(code[f.sys])
  BY <1>7, <1>8, ContentFacts DEF Jmp, Inv, TypeOK
<1>16. \A l : Good(l) => Good(l)'
  BY <1>13, <1>14, <1>15 DEF Good
<1>17. Good(f.sys)' /\ Good(f.hook)' /\ Good(to)'
  <2>1. CASE IsFar(code, f.sys, f.hook)
    <3>1. code'[Stub(b)] # Blank /\ Stub(b)[2] = b
      BY <1>7, <1>8, <1>13, <2>1, LocFacts, ContentFacts DEF Stub
    <3> QED BY <1>3, <1>6, <1>7, <1>8, <1>14, <1>16, <2>1, <3>1 DEF Good
  <2>2. CASE ~IsFar(code, f.sys, f.hook)
    BY <1>3, <1>6, <1>7, <1>16, <2>2
  <2> QED BY <2>1, <2>2
<1>18. JumpsGood'
  <2> SUFFICES ASSUME NEW l \in Loc, Good(l)', IsJmp(code'[l])
               PROVE  Good(code[l][2])'
    BY DEF JumpsGood
  <2>1. PICK t : t = code'[l][2]
    OBVIOUS
  <2>2. CASE l = f.sys
    BY <1>13, <1>15, <1>17, <2>1, <2>2
  <2>3. CASE l # f.sys /\ Good(l)
    <3>1. Good(code[l][2]) /\ code'[l] = code[l]
      BY <1>13, <2>3 DEF Inv, Sound, JumpsGood
    <3> QED BY <1>16, <2>1, <3>1
  <2>4. CASE l # f.sys /\ ~Good(l)
    <3>1. code'[l] = code[l]
      BY <1>13, <2>4
    <3>2. l[1] # "fn" /\ l[2] = b
      BY <1>14, <2>4, <3>1 DEF Good
    <3>3. l = Entry(b) \/ l = Stub(b)
      BY <3>2 DEF Loc, Entry, Stub
    <3>4. l = Stub(b) /\ code[l] = Jmp(f.hook)
      BY <1>7, <1>15, <3>1, <3>3, ContentFacts
    <3> QED BY <1>17, <2>1, <3>1, <3>4 DEF Jmp
  <2> QED BY <2>2, <2>3, <2>4
<1>19. UsedGood'
  <2> SUFFICES ASSUME NEW x \in used'
               PROVE  /\ code'[Entry(x)] # Blank
                      /\ Good(tramp[x].sys)' /\ IsBody(tramp'[x].untouched)
    BY DEF UsedGood
  <2>1. PICK t : t = tramp'[x].sys
    OBVIOUS
  <2>2. CASE x = b
    <3>1. code'[Entry(x)] = code[f.sys]
      BY <1>7, <1>8, <1>13, <2>2, LocFacts
    <3> QED BY <1>7, <1>12, <1>15, <1>17, <2>1, <2>2, <3>1
  <2>3. CASE x # b
    <3>1. x \in used /\ x \in Block /\ tramp'[x] = tramp[x]
      BY <1>12, <1>14, <2>3 DEF used, Inv, TypeOK
    <3>2. code[Entry(x)] # Blank /\ Good(tramp[x].sys) /\ IsBody(tramp[x].untouched)
      BY <3>1 DEF Inv, Sound, UsedGood
    <3>3. code'[Entry(x)] # Blank
      BY <1>13, <1>15, <3>1, <3>2, LocFacts
    <3> QED BY <1>16, <2>1, <3>1, <3>2, <3>3
  <2> QED BY <2>2, <2>3
<1>20. SlotAccounting' /\ PtrsGood'
  BY <1>4, <1>14, <1>16 DEF Inv, Sound, SlotAccounting, PtrsGood, table
<1>21. TypeOK'
  BY <1>4, <1>10, <1>12, <1>13 DEF Inv, TypeOK, table
<1>22. /\ \A x \in mapped : x \in used'
       /\ \A x \in registered : x = b \/ (x \in used /\ IsJmp(code[tramp[x].sys]))
  BY <1>1, <1>2, <1>4, <1>14, OthersSettled DEF Busy, Inside
<1>23. \A x \in registered : x # b =>
         /\ x \in used /\ tramp'[x] = tramp[x] /\ tramp[x].sys # f.sys
         /\ code'[tramp[x].sys] = code[tramp[x].sys] /\ IsJmp(code[tramp[x].sys])
  <2> SUFFICES ASSUME NEW x \in registered, x # b
               PROVE  /\ x \in used /\ tramp'[x] = tramp[x] /\ tramp[x].sys # f.sys
                      /\ code'[tramp[x].sys] = code[tramp[x].sys]
                      /\ IsJmp(code[tramp[x].sys])
    OBVIOUS
  <2>1. x \in used /\ IsJmp(code[tramp[x].sys]) /\ Good(tramp[x].sys)
    BY <1>22 DEF Inv, Sound, UsedGood
  <2>2. tramp[x].sys # f.sys /\ tramp[x].sys \in Loc
    BY <1>15, <2>1 DEF Good
  <2>3. tramp'[x] = tramp[x]
    BY <1>12, <2>1 DEF used, Inv, TypeOK
  <2> QED BY <1>13, <2>1, <2>2, <2>3
<1>24. MappedKnown' /\ RegisteredJumps' /\ SysDistinct'
  <2>1. Busy(c, {"protect", "build", "patch", "publish", "giveback", "free"}, b)'
    BY <1>1, <1>2, <1>4, <1>10 DEF Busy
  <2>2. MappedKnown'
    BY <1>4, <1>22 DEF MappedKnown
  <2>3. RegisteredJumps'
    BY <1>14, <1>23, <2>1 DEF RegisteredJumps
  <2>4. SysDistinct'
    BY <1>12, <1>14, <1>23 DEF Inv, Sound, SysDistinct
  <2> QED BY <2>2, <2>3, <2>4
<1>25. CallOK(c)'
  <2>1. frame'[c] = f
    BY <1>1, <1>4
  <2>2. ArgsOK(c)'
    BY <1>6, <1>10, <1>17, <2>1 DEF ArgsOK, SetHookLabel, Before
  <2>3. SetHookStage(c)'
    BY <1>2, <1>7, <1>10, <1>12, <1>13, <1>14, <1>15, <2>1 DEF SetHookStage
  <2>4. UnhookStage(c)' /\ Answer(c)'
    BY <1>10 DEF UnhookStage, Answer
  <2> QED BY <2>2, <2>3, <2>4 DEF CallOK
<1>26. \A d \in Caller : CallOK(d)'
  BY <1>10, <1>11, <1>16, <1>25, OthersKeep
<1> QED
  BY <1>11, <1>18, <1>19, <1>20, <1>21, <1>24, <1>26 DEF Inv, Sound

LEMMA PublishStep ==
  ASSUME Inv, NEW c \in Caller, Publish(c)
  PROVE  Inv'
<1>1. PICK f : f = frame[c]
  OBVIOUS
<1>2. PICK b : b = f.blk
  OBVIOUS
<1>3. /\ pc[c] = "publish" /\ pc' = [pc EXCEPT ![c] = "leave"]
      /\ UNCHANGED <<inited, owner>>
  BY DEF Publish, Goto
<1>4. CallOK(c) /\ f \in Frame
  BY <1>1 DEF Inv, Sound, TypeOK
<1>5. /\ f.op = "sethook" /\ f.p \in Ptr /\ ~f.ret /\ f.h \in Routine
      /\ b \in registered /\ (b \in used => IsJmp(code[tramp[b].sys]))
  BY <1>1, <1>2, <1>3, <1>4 DEF CallOK, ArgsOK, SetHookStage, Before, UnhookLabel
<1>6. b \in Block /\ b \in mapped /\ (tramp[b].sys # NULL <=> b \in used)
  BY <1>5 DEF Inv, TypeOK, Sound, SlotAccounting, used
<1>7. /\ \A x \in mapped : x \in used \/ x = b
      /\ \A x \in registered : x = b \/ (x \in used /\ IsJmp(code[tramp[x].sys]))
  BY <1>1, <1>2, <1>3, OthersSettled DEF Busy, Inside
<1>8. /\ frame' \in [Caller -> Frame]
      /\ \A d \in Caller \ {c} : frame'[d] = frame[d]
      /\ frame'[c].op = "sethook" /\ frame'[c].p = f.p /\ frame'[c].h = f.h
      /\ b \in used => frame'[c].blk = b /\ frame'[c].ret
      /\ b \notin used => frame'[c].blk = NULL /\ ~frame'[c].ret
  <2>1. CASE b \in used
    <3>1. frame' = [frame EXCEPT ![c].ret = TRUE]
      BY <1>1, <1>2, <1>6, <2>1 DEF Publish, Set
    <3> QED BY <1>1, <1>2, <1>5, <2>1, <3>1, SetRet DEF Inv
  <2>2. CASE b \notin used
    <3>1. frame' = [frame EXCEPT ![c].blk = NULL]
      BY <1>1, <1>2, <1>6, <2>2 DEF Publish, Set
    <3> QED BY <1>1, <1>5, <2>2, <3>1, SetBlk DEF Inv
  <2> QED BY <2>1, <2>2
<1>9. Steps(c, "leave")
  BY <1>3, <1>8 DEF Steps, Label
<1>10. /\ pc'[c] = "leave" /\ pc' \in [Caller -> Label]
       /\ \A d \in Caller \ {c} : pc'[d] = pc[d] /\ frame'[d] = frame[d]
  BY <1>9, StepFacts DEF Inv
<1>11. FirstUse' /\ MutualExclusion' /\ \A d \in Caller \ {c} : ~Inside(d)
  BY <1>3, <1>9, InsideStep DEF Inside, Before
<1>12. /\ used' = used /\ tramp' = tramp /\ code' = code
       /\ hooks' \in [Slot -> Block \cup {NULL}] /\ SlotAccounting'
       /\ mapped' = mapped \cap used
       /\ registered' = registered \cap used
       /\ ptr' = IF b \in used THEN [ptr EXCEPT ![f.p] = Entry(b)] ELSE ptr
  <2>1. CASE b \in used
    <3>1. UNCHANGED <<table, memory>> /\ ptr' = [ptr EXCEPT ![f.p] = Entry(b)]
      BY <1>1, <1>2, <1>6, <2>1 DEF Publish
    <3>2. used' = used /\ registered' = registered
      BY <3>1 DEF used, registered, table, memory
    <3>3. SlotAccounting'
      BY <3>1, <3>2 DEF Inv, Sound, SlotAccounting, table, memory
    <3> QED BY <1>7, <2>1, <3>1, <3>2, <3>3 DEF Inv, TypeOK, table, memory, used
  <2>2. CASE b \notin used
    <3>1. TrampolineFree(b, TRUE) /\ ptr' = ptr
      BY <1>1, <1>2, <1>6, <2>2 DEF Publish
    <3>2. /\ hooks' \in [Slot -> Block \cup {NULL}]
          /\ registered' = registered \ {b} /\ mapped' = mapped \ {b}
          /\ used' = used /\ tramp' = tramp /\ code' = code /\ SlotAccounting'
      BY <1>5, <2>2, <3>1, FreeFacts
    <3> QED BY <1>7, <2>2, <3>1, <3>2
  <2> QED BY <2>1, <2>2
<1>13. /\ \A l : Good(l)' <=> Good(l)
       /\ JumpsGood' /\ UsedGood'
  BY <1>12, SameGood
<1>14. PtrsGood' /\ ptr' \in [Ptr -> Loc]
  <2>1. b \in used => Good(Entry(b))
    BY <1>6, LocFacts DEF Inv, Sound, UsedGood, Good, Entry
  <2>2. b \in used => Entry(b) \in Loc
    BY <2>1 DEF Good
  <2>3. \A p \in Ptr : Good(ptr'[p])
    BY <1>5, <1>12, <2>1 DEF Inv, Sound, PtrsGood, TypeOK
  <2> QED BY <1>5, <1>12, <1>13, <2>2, <2>3 DEF PtrsGood, Inv, TypeOK
<1>15. TypeOK'
  BY <1>3, <1>8, <1>10, <1>12, <1>14 DEF Inv, TypeOK
<1>16. MappedKnown' /\ RegisteredJumps' /\ SysDistinct'
  <2>1. MappedKnown'
    BY <1>12 DEF MappedKnown
  <2>2. RegisteredJumps'
    BY <1>5, <1>7, <1>12 DEF RegisteredJumps
  <2>3. SysDistinct'
    BY <1>12 DEF Inv, Sound, SysDistinct
  <2> QED BY <2>1, <2>2, <2>3
<1>17. CallOK(c)'
  <2>1. ArgsOK(c)'
    BY <1>5, <1>8, <1>10 DEF ArgsOK, Before
  <2>2. SetHookStage(c)' /\ UnhookStage(c)'
    BY <1>10 DEF SetHookStage, UnhookStage
  <2>3. Answer(c)'
    <3>1. CASE b \in used
      <4>1. ptr'[f.p] = Entry(b) /\ b \in registered' /\ IsJmp(code'[tramp'[b].sys])
        BY <1>5, <1>12, <3>1 DEF Inv, TypeOK
      <4> QED BY <1>8, <3>1, <4>1 DEF Answer
    <3>2. CASE b \notin used
      BY <1>8, <3>2 DEF Answer, registered
    <3> QED BY <3>1, <3>2
  <2> QED BY <2>1, <2>2, <2>3 DEF CallOK
<1>18. \A d \in Caller : CallOK(d)'
  BY <1>10, <1>11, <1>13, <1>17, OthersKeep
<1> QED
  BY <1>11, <1>12, <1>13, <1>14, <1>15, <1>16, <1>18 DEF Inv, Sound

(* What Unhook has found before it writes anything.                        *)
LEMMA UnhookFacts ==
  ASSUME Inv, NEW c \in Caller, pc[c] \in {"restore", "giveback", "free"},
         NEW b, b = frame[c].blk
  PROVE  /\ frame[c] \in Frame /\ frame[c].op = "unhook" /\ frame[c].p \in Ptr
         /\ b \in registered /\ b \in used /\ b \in Block /\ b \in mapped
         /\ Good(tramp[b].sys) /\ IsBody(tramp[b].untouched)
         /\ tramp[b].untouched \in Content
         /\ \A x \in mapped : x \in used
         /\ \A x \in registered : x = b \/ (x \in used /\ IsJmp(code[tramp[x].sys]))
         /\ pc[c] = "restore" => \A x \in registered : IsJmp(code[tramp[x].sys])
         /\ pc[c] = "free" <=> frame[c].ret
<1>1. CallOK(c) /\ frame[c] \in Frame
  BY DEF Inv, Sound, TypeOK
<1>2. frame[c].op = "unhook" /\ frame[c].p \in Ptr /\ (pc[c] # "free" => ~frame[c].ret)
  BY <1>1 DEF CallOK, ArgsOK, Before, SetHookLabel
<1>3. b \in registered /\ b \in used /\ (pc[c] = "free" => frame[c].ret)
  BY <1>1 DEF CallOK, UnhookStage
<1>4. b \in Block /\ b \in mapped
  BY <1>3 DEF used, Inv, TypeOK
<1>5. /\ Good(tramp[b].sys) /\ IsBody(tramp[b].untouched)
      /\ tramp[b].untouched \in Content
  BY <1>3, <1>4 DEF Inv, Sound, UsedGood, TypeOK, TrampolineOrZero
<1>6. /\ \A x \in mapped : x \in used
      /\ \A x \in registered : x = b \/ (x \in used /\ IsJmp(code[tramp[x].sys]))
      /\ pc[c] = "restore" => \A x \in registered : IsJmp(code[tramp[x].sys])
  BY OthersSettled DEF Busy, Inside
<1> QED BY <1>1, <1>2, <1>3, <1>4, <1>5, <1>6

LEMMA RestoreStep ==
  ASSUME Inv, NEW c \in Caller, Restore(c)
  PROVE  Inv'
<1>1. PICK b : b = frame[c].blk
  OBVIOUS
<1>2. PICK s : s = tramp[b].sys
  OBVIOUS
<1>3. /\ pc[c] = "restore" /\ pc' = [pc EXCEPT ![c] = "giveback"]
      /\ code' = [code EXCEPT ![s] = tramp[b].untouched]
      /\ UNCHANGED <<inited, owner, table, mapped, tramp, ptr, frame>>
  BY <1>1, <1>2 DEF Restore, Goto
<1>4. /\ frame[c] \in Frame /\ frame[c].op = "unhook" /\ frame[c].p \in Ptr
      /\ b \in registered /\ b \in used /\ Good(s) /\ IsBody(tramp[b].untouched)
      /\ tramp[b].untouched \in Content
      /\ \A x \in mapped : x \in used
      /\ \A x \in registered : x = b \/ (x \in used /\ IsJmp(code[tramp[x].sys]))
      /\ ~frame[c].ret
  BY <1>1, <1>2, <1>3, UnhookFacts
<1>5. s \in Loc /\ tramp[b].untouched # Blank /\ ~IsJmp(tramp[b].untouched)
  BY <1>4, ContentFacts DEF Good
<1>6. Steps(c, "giveback")
  BY <1>3 DEF Inv, TypeOK, Steps, Label, UnhookLabel
<1>7. /\ pc'[c] = "giveback" /\ pc' \in [Caller -> Label]
      /\ \A d \in Caller \ {c} : pc'[d] = pc[d] /\ frame'[d] = frame[d]
  BY <1>6, StepFacts DEF Inv
<1>8. FirstUse' /\ MutualExclusion' /\ \A d \in Caller \ {c} : ~Inside(d)
  BY <1>3, <1>6, InsideStep DEF Inside, Before
<1>9. /\ \A l \in Loc : l # s => code'[l] = code[l]
      /\ code'[s] = tramp[b].untouched /\ code' \in [Loc -> Content]
  BY <1>3, <1>4, <1>5 DEF Inv, TypeOK
<1>10. used' = used /\ registered' = registered
  BY <1>3 DEF used, registered, table
<1>11. \A l : Good(l)' <=> Good(l)
  BY <1>4, <1>5, <1>9, <1>10 DEF Good
<1>12. PtrsGood' /\ SlotAccounting' /\ TypeOK'
  <2>1. PtrsGood'
    BY <1>3, <1>11 DEF Inv, Sound, PtrsGood
  <2>2. SlotAccounting'
    BY <1>3, <1>10 DEF Inv, Sound, SlotAccounting, table
  <2>3. TypeOK'
    BY <1>3, <1>7, <1>9 DEF Inv, TypeOK, table
  <2> QED BY <2>1, <2>2, <2>3
<1>13. JumpsGood'
  <2> SUFFICES ASSUME NEW l \in Loc, Good(l)', IsJmp(code'[l])
               PROVE  Good(code[l][2])'
    BY DEF JumpsGood
  <2>1. l # s /\ Good(l) /\ code'[l] = code[l]
    BY <1>5, <1>9, <1>11
  <2>2. Good(code[l][2])
    BY <2>1 DEF Inv, Sound, JumpsGood
  <2>3. PICK t : t = code[l][2]
    OBVIOUS
  <2> QED BY <1>11, <2>1, <2>2, <2>3
<1>14. UsedGood'
  <2>1. \A x \in used : x \in Block /\ Entry(x) \in Loc
    BY LocFacts DEF used, Inv, TypeOK
  <2>2. \A x \in used : code'[Entry(x)] # Blank
    BY <1>5, <1>9, <2>1 DEF Inv, Sound, UsedGood
  <2> QED BY <1>3, <1>10, <1>11, <2>2 DEF Inv, Sound, UsedGood
<1>15. MappedKnown' /\ RegisteredJumps' /\ SysDistinct'
  <2>1. MappedKnown'
    BY <1>3, <1>4, <1>10 DEF MappedKnown
  <2>2. \A x \in registered : x # b => x \in used /\ IsJmp(code'[tramp[x].sys])
    <3> SUFFICES ASSUME NEW x \in registered, x # b
                 PROVE  x \in used /\ IsJmp(code'[tramp[x].sys])
      OBVIOUS
    <3>1. x \in used /\ IsJmp(code[tramp[x].sys]) /\ Good(tramp[x].sys)
      BY <1>4 DEF Inv, Sound, UsedGood
    <3>2. tramp[x].sys # s
      BY <1>2, <1>4, <3>1 DEF Inv, Sound, SysDistinct
    <3> QED BY <1>9, <3>1, <3>2 DEF Good
  <2>3. Busy(c, {"protect", "build", "patch", "publish", "giveback", "free"}, b)'
    BY <1>1, <1>3, <1>7 DEF Busy
  <2>4. RegisteredJumps'
    BY <1>3, <1>10, <2>2, <2>3 DEF RegisteredJumps
  <2>5. SysDistinct'
    BY <1>3, <1>10 DEF Inv, Sound, SysDistinct
  <2> QED BY <2>1, <2>4, <2>5
<1>16. CallOK(c)'
  <2>1. frame'[c] = frame[c]
    BY <1>3
  <2>2. ArgsOK(c)'
    BY <1>4, <1>7, <2>1 DEF ArgsOK, UnhookLabel, Before
  <2>3. SetHookStage(c)' /\ UnhookStage(c)' /\ Answer(c)'
    BY <1>1, <1>4, <1>7, <1>10, <2>1 DEF SetHookStage, UnhookStage, Answer
  <2> QED BY <2>2, <2>3 DEF CallOK
<1>17. \A d \in Caller : CallOK(d)'
  BY <1>7, <1>8, <1>11, <1>16, OthersKeep
<1> QED
  BY <1>8, <1>12, <1>13, <1>14, <1>15, <1>17 DEF Inv, Sound

LEMMA GiveBackStep ==
  ASSUME Inv, NEW c \in Caller, GiveBack(c)
  PROVE  Inv'
<1>1. PICK b : b = frame[c].blk
  OBVIOUS
<1>2. PICK s : s = tramp[b].sys
  OBVIOUS
<1>3. /\ pc[c] = "giveback" /\ pc' = [pc EXCEPT ![c] = "free"]
      /\ ptr' = [ptr EXCEPT ![frame[c].p] = s]
      /\ frame' = [frame EXCEPT ![c].ret = TRUE]
      /\ UNCHANGED <<inited, owner, table, memory>>
  BY <1>1, <1>2 DEF GiveBack, Goto, Set
<1>4. /\ frame[c].op = "unhook" /\ frame[c].p \in Ptr
      /\ b \in registered /\ b \in used /\ Good(s)
      /\ \A x \in mapped : x \in used
      /\ \A x \in registered : x = b \/ (x \in used /\ IsJmp(code[tramp[x].sys]))
  BY <1>1, <1>2, <1>3, UnhookFacts
<1>5. /\ frame' \in [Caller -> Frame]
      /\ \A d \in Caller \ {c} : frame'[d] = frame[d]
      /\ frame'[c].op = "unhook" /\ frame'[c].p = frame[c].p
      /\ frame'[c].blk = b /\ frame'[c].ret
  BY <1>1, <1>3, <1>4, SetRet DEF Inv
<1>6. Steps(c, "free")
  BY <1>3, <1>5 DEF Steps, Label, UnhookLabel
<1>7. /\ pc'[c] = "free" /\ pc' \in [Caller -> Label]
      /\ \A d \in Caller \ {c} : pc'[d] = pc[d] /\ frame'[d] = frame[d]
  BY <1>6, StepFacts DEF Inv
<1>8. FirstUse' /\ MutualExclusion' /\ \A d \in Caller \ {c} : ~Inside(d)
  BY <1>3, <1>6, InsideStep DEF Inside, Before
<1>9. /\ used' = used /\ registered' = registered /\ tramp' = tramp /\ code' = code
      /\ mapped' = mapped
  BY <1>3 DEF used, registered, table, memory
<1>10. (\A l : Good(l)' <=> Good(l)) /\ JumpsGood' /\ UsedGood'
  BY <1>9, SameGood
<1>11. TypeOK'
  BY <1>3, <1>4, <1>5, <1>7, <1>9 DEF Inv, TypeOK, table, Good
<1>12. PtrsGood'
  <2>1. \A p \in Ptr : Good(ptr'[p])
    BY <1>3, <1>4 DEF Inv, Sound, PtrsGood, TypeOK
  <2> QED BY <1>10, <2>1 DEF PtrsGood
<1>13. SlotAccounting' /\ SysDistinct'
  BY <1>3, <1>9 DEF Inv, Sound, SlotAccounting, SysDistinct, table
<1>14. MappedKnown' /\ RegisteredJumps'
  <2>1. Busy(c, {"protect", "build", "patch", "publish", "giveback", "free"}, b)'
    BY <1>5, <1>7 DEF Busy
  <2> QED BY <1>4, <1>9, <2>1 DEF MappedKnown, RegisteredJumps
<1>15. CallOK(c)'
  <2>1. ArgsOK(c)'
    BY <1>4, <1>5, <1>7 DEF ArgsOK, UnhookLabel, Before
  <2>2. SetHookStage(c)' /\ UnhookStage(c)' /\ Answer(c)'
    BY <1>4, <1>5, <1>7, <1>9 DEF SetHookStage, UnhookStage, Answer
  <2> QED BY <2>1, <2>2 DEF CallOK
<1>16. \A d \in Caller : CallOK(d)'
  BY <1>7, <1>8, <1>10, <1>15, OthersKeep
<1> QED
  BY <1>8, <1>10, <1>11, <1>12, <1>13, <1>14, <1>16 DEF Inv, Sound

LEMMA FreeStep ==
  ASSUME Inv, NEW c \in Caller, Free(c)
  PROVE  Inv'
<1>1. PICK b : b = frame[c].blk
  OBVIOUS
<1>2. /\ pc[c] = "free" /\ pc' = [pc EXCEPT ![c] = "leave"]
      /\ TrampolineFree(b, FALSE)
      /\ UNCHANGED <<inited, owner, ptr, frame>>
  BY <1>1 DEF Free, Goto
<1>3. /\ frame[c].op = "unhook" /\ frame[c].p \in Ptr
      /\ b \in registered /\ b \in used /\ b \in Block /\ frame[c].ret
      /\ \A x \in mapped : x \in used
      /\ \A x \in registered : x = b \/ (x \in used /\ IsJmp(code[tramp[x].sys]))
  BY <1>1, <1>2, UnhookFacts
<1>4. Steps(c, "leave")
  BY <1>2 DEF Inv, TypeOK, Steps, Label
<1>5. /\ pc'[c] = "leave" /\ pc' \in [Caller -> Label]
      /\ \A d \in Caller \ {c} : pc'[d] = pc[d] /\ frame'[d] = frame[d]
  BY <1>4, StepFacts DEF Inv
<1>6. FirstUse' /\ MutualExclusion' /\ \A d \in Caller \ {c} : ~Inside(d)
  BY <1>2, <1>4, InsideStep DEF Inside, Before
<1>7. /\ hooks' \in [Slot -> Block \cup {NULL}]
      /\ registered' = registered \ {b} /\ mapped' = mapped
      /\ used' = used /\ tramp' = tramp /\ code' = code /\ SlotAccounting'
  BY <1>2, <1>3, FreeFacts
<1>8. (\A l : Good(l)' <=> Good(l)) /\ JumpsGood' /\ UsedGood'
  BY <1>7, SameGood
<1>9. TypeOK'
  BY <1>2, <1>5, <1>7 DEF Inv, TypeOK
<1>10. PtrsGood' /\ SysDistinct'
  BY <1>2, <1>7, <1>8 DEF Inv, Sound, PtrsGood, SysDistinct
<1>11. MappedKnown' /\ RegisteredJumps'
  BY <1>3, <1>7 DEF MappedKnown, RegisteredJumps
<1>12. CallOK(c)'
  <2>1. frame'[c] = frame[c]
    BY <1>2
  <2>2. ArgsOK(c)'
    BY <1>3, <1>5, <2>1 DEF ArgsOK, Before
  <2>3. SetHookStage(c)' /\ UnhookStage(c)'
    BY <1>5 DEF SetHookStage, UnhookStage
  <2>4. Answer(c)'
    BY <1>1, <1>3, <1>7, <2>1, NullFacts DEF Answer
  <2> QED BY <2>2, <2>3, <2>4 DEF CallOK
<1>13. \A d \in Caller : CallOK(d)'
  BY <1>5, <1>6, <1>8, <1>12, OthersKeep
<1> QED
  BY <1>6, <1>7, <1>8, <1>9, <1>10, <1>11, <1>13 DEF Inv, Sound

LEMMA StutterInv == Inv /\ UNCHANGED vars => Inv'
<1> SUFFICES ASSUME Inv, UNCHANGED vars PROVE Inv'
  OBVIOUS
<1>1. UNCHANGED <<inited, owner, hooks, inUse, mapped, tramp, code, ptr, pc, frame>>
  BY DEF vars, table, memory
<1>2. used' = used /\ registered' = registered /\ \A l : Good(l)' <=> Good(l)
  BY <1>1 DEF used, registered, Good
<1>3. TypeOK'
  BY <1>1 DEF Inv, TypeOK
<1>4. FirstUse' /\ MutualExclusion'
  BY <1>1 DEF Inv, FirstUse, MutualExclusion, Inside
<1>5. SlotAccounting'
  BY <1>1, <1>2 DEF Inv, Sound, SlotAccounting
<1>6. MappedKnown' /\ RegisteredJumps' /\ SysDistinct'
  BY <1>1, <1>2 DEF Inv, Sound, MappedKnown, RegisteredJumps, SysDistinct, Busy
<1>7. PtrsGood' /\ JumpsGood' /\ UsedGood'
  BY <1>1, <1>2 DEF Inv, Sound, PtrsGood, JumpsGood, UsedGood
<1>8. ASSUME NEW c \in Caller PROVE CallOK(c)'
  <2>1. CallOK(c)
    BY DEF Inv, Sound
  <2>2. ArgsOK(c)' /\ UnhookStage(c)' /\ Answer(c)'
    BY <1>1, <1>2, <2>1 DEF CallOK, ArgsOK, UnhookStage, Answer
  <2>3. SetHookStage(c)'
    BY <1>1, <1>2, <2>1 DEF CallOK, SetHookStage
  <2> QED BY <2>2, <2>3 DEF CallOK
<1> QED BY <1>3, <1>4, <1>5, <1>6, <1>7, <1>8 DEF Inv, Sound
--------------------------------------------------------------------------
(* Whatever the threads do, one step at a time, and whichever system call  *)
(* fails, the invariant holds (Mhook_SetHook, Mhook_Unhook, mhook.cpp      *)
(* 664-813).                                                               *)
THEOREM Invariance ==
  ASSUME SerialFirstUse
  PROVE  Spec => []Inv
<1>1. Inv /\ [Next]_vars => Inv'
  <2> SUFFICES ASSUME Inv, Next PROVE Inv'
    BY StutterInv
  <2>1. PICK c \in Caller :
          \/ \E p \in PtrsOf[c] : \E h \in HooksOf[p] : CallSetHook(c, p, h)
          \/ \E p \in PtrsOf[c] : CallUnhook(c, p)
          \/ Work(c)
    BY DEF Next
  <2>2. CASE \E p \in PtrsOf[c] : \E h \in HooksOf[p] : CallSetHook(c, p, h)
    BY <2>2, MhookAssumption, CallStep
  <2>3. CASE \E p \in PtrsOf[c] : CallUnhook(c, p)
    BY <2>3, MhookAssumption, CallStep
  <2>4. CASE Work(c)
    BY <2>4, EnterStep, LeaveStep, ResolveStep, AllocStep, QuietInsideStep, BuildStep,
       PatchStep, PublishStep, LookupStep, RestoreStep, GiveBackStep, FreeStep DEF Work
  <2> QED BY <2>1, <2>2, <2>3, <2>4
<1> QED BY InitInv, <1>1, PTL DEF Spec

(* At most one thread is between EnterCritSec and LeaveCritSec, and it is  *)
(* the owner of g_cs (mhook.cpp 167-183, 669, 780).                        *)
THEOREM LockExcludes ==
  ASSUME SerialFirstUse
  PROVE  Spec => []MutualExclusion
<1>1. Inv => MutualExclusion
  BY DEF Inv
<1> QED BY Invariance, <1>1, PTL

(* g_nHooksInUse counts the occupied slots of g_pHooks, no block has two   *)
(* slots and every registered block is mapped (mhook.cpp 320-324,          *)
(* 354-366): one more call to TrampolineAlloc or TrampolineFree than was   *)
(* due, on any path, would break it.                                       *)
THEOREM TableIsAccounted ==
  ASSUME SerialFirstUse
  PROVE  Spec => []SlotAccounting
<1>1. Inv => SlotAccounting
  BY DEF Inv, Sound
<1> QED BY Invariance, <1>1, PTL

(* While nobody is at work no block is mapped that is not used, and every  *)
(* registered one has its function patched: a SetHook that fails at any    *)
(* of its calls to the system leaves nothing behind (mhook.cpp 756-765).   *)
THEOREM FailureLeavesNothing ==
  ASSUME SerialFirstUse
  PROVE  Spec => []NothingHalfDone
<1>1. Inv => NothingHalfDone
  <2> SUFFICES ASSUME Inv, \A c \in Caller : ~Inside(c)
               PROVE  /\ mapped = used
                      /\ \A b \in registered : IsJmp(code[tramp[b].sys])
    BY DEF NothingHalfDone
  <2>1. mapped = used
    BY DEF Inv, Sound, MappedKnown, Busy, Inside, used
  <2>2. \A b \in registered : IsJmp(code[tramp[b].sys])
    BY DEF Inv, Sound, RegisteredJumps, Busy, Inside
  <2> QED BY <2>1, <2>2
<1> QED BY Invariance, <1>1, PTL

(* What the pointers and the jumps in patched routines lead to is mapped   *)
(* and written at every moment, between any two steps of a call too        *)
(* (mhook.cpp 715-757, 793-808).                                           *)
THEOREM NoDanglingCode ==
  ASSUME SerialFirstUse
  PROVE  Spec => []NothingFreedIsReachable
<1>1. Inv => NothingFreedIsReachable
  <2> SUFFICES ASSUME Inv PROVE NothingFreedIsReachable
    OBVIOUS
  <2>1. \A l : Good(l) => (l[1] # "fn" => l[2] \in mapped /\ code[l] # Blank)
    BY DEF Good, used
  <2>2. \A p \in Ptr : Good(ptr[p])
    BY DEF Inv, Sound, PtrsGood
  <2>3. \A l \in Loc : l[1] = "fn" /\ IsJmp(code[l]) => Good(code[l][2])
    BY DEF Inv, Sound, JumpsGood, Good
  <2> QED BY <2>1, <2>2, <2>3 DEF NothingFreedIsReachable
<1> QED BY Invariance, <1>1, PTL

(* SetHook and Unhook answer TRUE exactly when they did what was asked     *)
(* (mhook.cpp 773 and 812).                                                *)
THEOREM AnswersAreTrue ==
  ASSUME SerialFirstUse
  PROVE  Spec => []AnswerIsTrue
<1>1. Inv => AnswerIsTrue
  BY DEF Inv, Sound, CallOK, Answer, AnswerIsTrue
<1> QED BY Invariance, <1>1, PTL
--------------------------------------------------------------------------
(* The refinement of HookApi.  While one thread is at work in the lock,    *)
(* it alone decides what the abstract pointers and trampolines are.        *)
Shown(c, label, p) == pc[c] = label /\ frame[c].p = p /\ frame[c].blk \in used
ViewOf(c) ==
  (\A d \in Caller \ {c} : ~Inside(d)) =>
    /\ removing = IF pc[c] \in {"giveback", "free"} THEN {frame[c].blk} ELSE {}
    /\ \A p \in Ptr : abstractPtr(p) =
         IF Shown(c, "publish", p) THEN Entry(frame[c].blk)
         ELSE IF Shown(c, "giveback", p) THEN tramp[frame[c].blk].sys ELSE ptr[p]
View == \A c \in Caller : ViewOf(c)

LEMMA ViewHolds == View
<1> SUFFICES ASSUME NEW c \in Caller, \A d \in Caller \ {c} : ~Inside(d)
             PROVE  /\ removing = IF pc[c] \in {"giveback", "free"} THEN {frame[c].blk} ELSE {}
                    /\ \A p \in Ptr : abstractPtr(p) =
                         IF Shown(c, "publish", p) THEN Entry(frame[c].blk)
                         ELSE IF Shown(c, "giveback", p) THEN tramp[frame[c].blk].sys ELSE ptr[p]
  BY DEF View, ViewOf
<1>1. removing = IF pc[c] \in {"giveback", "free"} THEN {frame[c].blk} ELSE {}
  BY DEF removing, Inside
<1>2. ASSUME NEW p \in Ptr
      PROVE  abstractPtr(p) =
               IF Shown(c, "publish", p) THEN Entry(frame[c].blk)
               ELSE IF Shown(c, "giveback", p) THEN tramp[frame[c].blk].sys ELSE ptr[p]
  <2> DEFINE pending == {d \in Caller : Shown(d, "publish", p)}
             undoing == {d \in Caller : Shown(d, "giveback", p)}
  <2>1. pending = (IF Shown(c, "publish", p) THEN {c} ELSE {})
        /\ undoing = (IF Shown(c, "giveback", p) THEN {c} ELSE {})
    BY DEF Inside, Shown
  <2>2. (CHOOSE d \in {c} : TRUE) = c
    OBVIOUS
  <2>3. abstractPtr(p) = IF pending # {} THEN Entry(frame[CHOOSE d \in pending : TRUE].blk)
          ELSE IF undoing # {} THEN tramp[frame[CHOOSE d \in undoing : TRUE].blk].sys
          ELSE ptr[p]
    BY DEF abstractPtr, Shown
  <2> HIDE DEF pending, undoing
  <2> QED BY <2>1, <2>2, <2>3
<1> QED BY <1>1, <1>2

(* What a call knows, between its steps, of what SetHook will do at once.  *)
(* The pointer was read ahead of the lock, the jumps were followed some    *)
(* steps ago: what was found is still so.                                  *)
Knows(c) ==
  LET f == frame[c]
  IN  pc[c] # "idle" =>
        /\ f.p \in PtrsOf[c]
        /\ f.op = "sethook" => f.h \in HooksOf[f.p]
        /\ f.op = "sethook" /\ pc[c] \in Before \cup {"resolve"} => f.sys = ptr[f.p]
        /\ pc[c] \in {"alloc", "protect", "build", "patch"} =>
             /\ f.sys = SkipJumps(code, ptr[f.p]) /\ f.hook = SkipJumps(code, Fn(f.h))
             /\ Displaceable(code[f.sys])

(* The bytes of all that can be called decide where SkipJumps leads.       *)
LEMMA GoodAgree ==
  ASSUME Inv, NEW d \in [Loc -> Content], \A l : Good(l) => d[l] = code[l],
         NEW l, Good(l)
  PROVE  SkipJumps(d, l) = SkipJumps(code, l)
<1> DEFINE S == {x \in Loc : Good(x)}
<1>1. \A x \in S : IsJmp(code[x]) => code[x][2] \in S
  BY DEF Inv, Sound, JumpsGood, Good
<1>2. S \in SUBSET Loc /\ l \in S /\ \A x \in S : d[x] = code[x]
  BY DEF Good
<1> HIDE DEF S
<1> QED BY <1>1, <1>2, SkipJumpsAgree DEF Inv, TypeOK

(* What a step does to others: they are outside, or nothing has changed.   *)
LEMMA OthersKnow ==
  ASSUME NEW d \in Caller, Knows(d), pc'[d] = pc[d], frame'[d] = frame[d],
         pc[d] # "idle" => ptr'[frame[d].p] = ptr[frame[d].p],
         ~Inside(d) \/ code' = code
  PROVE  Knows(d)'
  BY DEF Knows, Inside

(* A step of one thread leaves the others' places and variables alone, and *)
(* touches code and pointers under the lock only.                          *)
Touches(c) ==
  /\ \A d \in Caller \ {c} : pc'[d] = pc[d] /\ frame'[d] = frame[d]
  /\ code' = code \/ Inside(c)
  /\ ptr' = ptr \/ \E v : ptr' = [ptr EXCEPT ![frame[c].p] = v] /\ pc[c] # "idle"

LEMMA StepTouches ==
  ASSUME Inv, NEW c \in Caller,
         \/ \E p \in PtrsOf[c] : \E h \in HooksOf[p] : CallSetHook(c, p, h)
         \/ \E p \in PtrsOf[c] : CallUnhook(c, p)
         \/ Work(c)
  PROVE  Touches(c)
<1>1. \A d \in Caller \ {c} : pc'[d] = pc[d]
  <2>1. \E from, to : Goto(c, from, to)
    BY DEF CallSetHook, CallUnhook, Work, CheckInit, InitCs, ZeroHooks, SetFlag, Lock, Leave,
         Resolve, AllocFails, Protect, Build, Patch, Publish, Alloc, Lookup, Restore,
         RestoreFails, GiveBack, Free
  <2> QED BY <2>1 DEF Goto, Inv, TypeOK
<1>2. \A d \in Caller \ {c} : frame'[d] = frame[d]
  <2>1. CASE \/ CheckInit(c) \/ InitCs(c) \/ ZeroHooks(c) \/ SetFlag(c) \/ Lock(c)
             \/ AllocFails(c) \/ Protect(c) \/ Build(c) \/ Patch(c)
             \/ Restore(c) \/ RestoreFails(c) \/ Free(c)
    BY <2>1 DEF CheckInit, InitCs, ZeroHooks, SetFlag, Lock, AllocFails, Protect, Build,
         Patch, Restore, RestoreFails, Free
  <2>2. CASE \/ \E p \in PtrsOf[c] : \E h \in HooksOf[p] : CallSetHook(c, p, h)
             \/ \E p \in PtrsOf[c] : CallUnhook(c, p)
             \/ Leave(c) \/ Resolve(c)
    BY <2>2 DEF CallSetHook, CallUnhook, Leave, Resolve, Inv, TypeOK
  <2>3. CASE \/ \E b \in Block \ mapped : Alloc(c, b)
             \/ Publish(c) \/ Lookup(c) \/ GiveBack(c)
    BY <2>3 DEF Alloc, Publish, Lookup, GiveBack, Set, Inv, TypeOK
  <2> QED BY <2>1, <2>2, <2>3 DEF Work
<1>3. code' = code \/ Inside(c)
  BY DEF CallSetHook, CallUnhook, Work, CheckInit, InitCs, ZeroHooks, SetFlag, Lock, Leave,
         Resolve, AllocFails, Protect, Build, Patch, Publish, Alloc, Lookup, Restore,
         RestoreFails, GiveBack, Free, Goto, Inside, memory
<1>4. ptr' = ptr \/ \E v : ptr' = [ptr EXCEPT ![frame[c].p] = v] /\ pc[c] # "idle"
  <2>1. CASE Publish(c)
    BY <2>1 DEF Publish, Goto
  <2>2. CASE GiveBack(c)
    BY <2>2 DEF GiveBack, Goto
  <2>3. CASE ~Publish(c) /\ ~GiveBack(c)
    BY <2>3 DEF CallSetHook, CallUnhook, Work, CheckInit, InitCs, ZeroHooks, SetFlag, Lock,
         Leave, Resolve, AllocFails, Protect, Build, Patch, Alloc, Lookup, Restore,
         RestoreFails, Free
  <2> QED BY <2>1, <2>2, <2>3
<1> QED BY <1>1, <1>2, <1>3, <1>4 DEF Touches

(* So nobody else's knowledge is disturbed if no two callers share a       *)
(* pointer variable.                                                       *)
LEMMA OthersStillKnow ==
  ASSUME OwnPtrs, Inv, \A d \in Caller : Knows(d), NEW c \in Caller, Touches(c),
         pc[c] # "idle" \/ ptr' = ptr
  PROVE  \A d \in Caller \ {c} : Knows(d)'
<1> SUFFICES ASSUME NEW d \in Caller \ {c} PROVE Knows(d)'
  OBVIOUS
<1>1. Knows(c) /\ Knows(d) /\ pc'[d] = pc[d] /\ frame'[d] = frame[d]
  BY DEF Touches
<1>2. ~Inside(d) \/ code' = code
  BY OnlyBusy DEF Touches
<1>3. pc[d] # "idle" => ptr'[frame[d].p] = ptr[frame[d].p]
  <2> SUFFICES ASSUME pc[d] # "idle", ptr' # ptr PROVE ptr'[frame[d].p] = ptr[frame[d].p]
    OBVIOUS
  <2>1. frame[d].p \in PtrsOf[d] /\ frame[c].p \in PtrsOf[c] /\ frame[d].p \in Ptr
    BY <1>1, MhookAssumption DEF Knows
  <2>2. frame[d].p # frame[c].p
    BY <2>1 DEF OwnPtrs
  <2>3. PICK v : ptr' = [ptr EXCEPT ![frame[c].p] = v]
    BY DEF Touches
  <2> QED BY <2>1, <2>2, <2>3 DEF Inv, TypeOK
<1> QED BY <1>1, <1>2, <1>3, OthersKnow

(* While SetHook works on buffers that nothing leads to yet, what it found *)
(* of the function and of the hook stays true.                             *)
LEMMA KnowledgeLasts ==
  ASSUME Inv, NEW c \in Caller, Knows(c),
         pc[c] \in {"alloc", "protect", "build"}, pc'[c] \in {"protect", "build", "patch"},
         ptr' = ptr, code' \in [Loc -> Content], \A l : Good(l) => code'[l] = code[l],
         frame'[c].p = frame[c].p, frame'[c].h = frame[c].h, frame'[c].op = frame[c].op,
         frame'[c].sys = frame[c].sys, frame'[c].hook = frame[c].hook
  PROVE  Knows(c)'
<1>1. ArgsOK(c) /\ frame[c].op = "sethook" /\ frame[c].p \in Ptr /\ frame[c].h \in Routine
      /\ Good(frame[c].sys)
  BY DEF Inv, Sound, CallOK, ArgsOK, Before, UnhookLabel
<1>2. Good(ptr[frame[c].p]) /\ Good(Fn(frame[c].h))
  BY <1>1, LocFacts DEF Inv, Sound, PtrsGood, Good, Fn
<1>3. /\ SkipJumps(code', ptr[frame[c].p]) = SkipJumps(code, ptr[frame[c].p])
      /\ SkipJumps(code', Fn(frame[c].h)) = SkipJumps(code, Fn(frame[c].h))
  BY <1>2, GoodAgree
<1> QED BY <1>1, <1>3 DEF Knows, Before

(* What the caller itself knows after its step.                            *)
LEMMA CallerKnows ==
  ASSUME Inv, NEW c \in Caller, Knows(c),
         \/ \E p \in PtrsOf[c] : \E h \in HooksOf[p] : CallSetHook(c, p, h)
         \/ \E p \in PtrsOf[c] : CallUnhook(c, p)
         \/ Work(c)
  PROVE  Knows(c)'
<1> USE DEF Before
<1>1. ASSUME NEW p \in PtrsOf[c], NEW h \in HooksOf[p], CallSetHook(c, p, h)
      PROVE  Knows(c)'
  <2>1. /\ pc'[c] = "check" /\ ptr' = ptr
        /\ frame'[c] = [Idle EXCEPT !.op = "sethook", !.p = p, !.h = h, !.sys = ptr[p]]
    BY <1>1 DEF CallSetHook, Goto, Inv, TypeOK
  <2>2. frame'[c].p = p /\ frame'[c].h = h /\ frame'[c].sys = ptr[p]
    BY <2>1 DEF Idle
  <2> QED BY <2>1, <2>2 DEF Knows
<1>2. ASSUME NEW p \in PtrsOf[c], CallUnhook(c, p) PROVE Knows(c)'
  <2>1. pc'[c] = "check" /\ frame'[c] = [Idle EXCEPT !.op = "unhook", !.p = p]
    BY <1>2 DEF CallUnhook, Goto, Inv, TypeOK
  <2>2. frame'[c].p = p /\ frame'[c].op = "unhook"
    BY <2>1 DEF Idle
  <2> QED BY <2>1, <2>2 DEF Knows
<1>3. CASE CheckInit(c) \/ InitCs(c) \/ ZeroHooks(c) \/ SetFlag(c) \/ Lock(c)
  <2>1. /\ pc[c] \in {"check", "initcs", "zero", "flag", "lock"}
        /\ pc'[c] \in Before \cup {"resolve", "lookup"} /\ ptr' = ptr /\ frame' = frame
    BY <1>3 DEF CheckInit, InitCs, ZeroHooks, SetFlag, Lock, Goto, Inv, TypeOK
  <2> QED BY <2>1 DEF Knows
<1>4. CASE Leave(c)
  BY <1>4 DEF Leave, Goto, Knows, Inv, TypeOK
<1>5. CASE Resolve(c)
  <2> DEFINE sys  == SkipJumps(code, frame[c].sys)
             hook == SkipJumps(code, Fn(frame[c].h))
  <2>1. /\ pc[c] = "resolve" /\ code' = code /\ ptr' = ptr
        /\ frame' = [frame EXCEPT ![c].sys = sys, ![c].hook = hook]
        /\ pc'[c] = IF Displaceable(code[sys]) THEN "alloc" ELSE "leave"
    BY <1>5 DEF Resolve, Goto, Inv, TypeOK, memory
  <2>2. frame[c].op = "sethook"
    BY <2>1 DEF Inv, Sound, CallOK, ArgsOK, UnhookLabel
  <2> HIDE DEF sys, hook
  <2>3. /\ frame'[c].op = frame[c].op /\ frame'[c].p = frame[c].p
        /\ frame'[c].h = frame[c].h /\ frame'[c].sys = sys /\ frame'[c].hook = hook
    <3>1. frame'[c] = [frame[c] EXCEPT !.sys = sys, !.hook = hook] /\ frame[c] \in Frame
      BY <2>1 DEF Inv, TypeOK
    <3> QED BY <3>1 DEF Frame
  <2>4. sys = SkipJumps(code, ptr[frame[c].p]) /\ hook = SkipJumps(code, Fn(frame[c].h))
    BY <2>1, <2>2 DEF Knows, sys, hook
  <2> QED BY <2>1, <2>2, <2>3, <2>4 DEF Knows
<1>6. CASE AllocFails(c) \/ Patch(c) \/ Restore(c) \/ RestoreFails(c) \/ Free(c)
  <2>1. frame' = frame /\ pc[c] # "idle"
        /\ pc'[c] \in {"leave", "publish", "giveback"}
    BY <1>6 DEF AllocFails, Patch, Restore, RestoreFails, Free, Goto, Inv, TypeOK
  <2> QED BY <2>1 DEF Knows
<1>7. CASE Protect(c)
  <2>1. /\ frame' = frame /\ code' = code /\ ptr' = ptr
        /\ pc[c] = "protect" /\ pc'[c] \in {"build", "publish"}
    BY <1>7 DEF Protect, Goto, Inv, TypeOK, memory
  <2> QED BY <2>1 DEF Knows
<1>8. CASE Publish(c) \/ Lookup(c) \/ GiveBack(c)
  <2>1. pc[c] # "idle" /\ pc'[c] \in {"leave", "restore", "free"}
    BY <1>8 DEF Publish, Lookup, GiveBack, Goto, Inv, TypeOK
  <2>2. \/ frame' = frame \/ (\E v : frame' = [frame EXCEPT ![c].blk = v])
        \/ frame' = [frame EXCEPT ![c].ret = TRUE]
    BY <1>8 DEF Publish, Lookup, GiveBack, Set
  <2>3. /\ frame'[c].op = frame[c].op /\ frame'[c].p = frame[c].p
        /\ frame'[c].h = frame[c].h
    BY <2>2 DEF Inv, TypeOK, Frame
  <2> QED BY <2>1, <2>3 DEF Knows
<1>9. ASSUME NEW b \in Block \ mapped, Alloc(c, b) PROVE Knows(c)'
  <2>1. /\ pc[c] = "alloc" /\ pc'[c] = "protect" /\ ptr' = ptr
        /\ frame' = [frame EXCEPT ![c].blk = b]
        /\ code' = [code EXCEPT ![Entry(b)] = Blank, ![Stub(b)] = Blank]
    BY <1>9 DEF Alloc, Goto, Set, Inv, TypeOK
  <2>2. /\ frame'[c].op = frame[c].op /\ frame'[c].p = frame[c].p
        /\ frame'[c].h = frame[c].h /\ frame'[c].sys = frame[c].sys
        /\ frame'[c].hook = frame[c].hook
    BY <2>1, SetBlk DEF Inv
  <2>3. \A l : Good(l) => code'[l] = code[l]
    BY <2>1, UnusedBuffers DEF Good, used, Inv, TypeOK
  <2>4. code' \in [Loc -> Content]
    BY <2>1, ContentFacts DEF Inv, TypeOK
  <2> QED BY <2>1, <2>2, <2>3, <2>4, KnowledgeLasts
<1>10. CASE Build(c)
  <2>1. /\ pc[c] = "build" /\ pc'[c] = "patch" /\ ptr' = ptr /\ frame' = frame
    BY <1>10 DEF Build, Goto, Inv, TypeOK
  <2>2. PICK b : b = frame[c].blk
    OBVIOUS
  <2>3. b \in Block /\ b \notin used
    BY <2>1, <2>2 DEF Inv, Sound, CallOK, SetHookStage, registered, TypeOK
  <2>4. PICK x, y : code' = [code EXCEPT ![Entry(b)] = x, ![Stub(b)] = y]
    BY <1>10, <2>2 DEF Build
  <2>5. \A l : Good(l) => code'[l] = code[l]
    BY <2>3, <2>4, UnusedBuffers DEF Good, Inv, TypeOK
  <2>6. code' \in [Loc -> Content]
    BY <1>10, BuildStep DEF Inv, TypeOK
  <2> QED BY <2>1, <2>5, <2>6, KnowledgeLasts
<1> QED BY <1>1, <1>2, <1>3, <1>4, <1>5, <1>6, <1>7, <1>8, <1>9, <1>10 DEF Work
--------------------------------------------------------------------------
(* Everything that can be called shows its bytes in the abstract code.     *)
LEMMA AbstractCodeFacts ==
  ASSUME Inv
  PROVE  /\ abstractCode \in [Loc -> Content]
         /\ \A l : Good(l) => abstractCode[l] = code[l]
<1>1. abstractCode \in [Loc -> Content]
  BY ContentFacts DEF abstractCode, Inv, TypeOK
<1>2. \A l : Good(l) => abstractCode[l] = code[l]
  BY DEF abstractCode, Good
<1> QED BY <1>1, <1>2

(* The abstract state is a function of what is in use, what is registered, *)
(* and the pointers as they show.                                          *)
LEMMA SameView ==
  ASSUME used' = used, installed' = installed, \A b \in used : tramp'[b] = tramp[b],
         \A l \in Loc : l[1] = "fn" \/ l[2] \in used => code'[l] = code[l],
         \A p \in Ptr : abstractPtr(p)' = abstractPtr(p)
  PROVE  UNCHANGED Api!vars
<1>1. abstractCode' = abstractCode
  BY DEF abstractCode
<1>2. abstractTramp' = abstractTramp
  BY DEF abstractTramp, installed
<1>3. abstractLeaked' = abstractLeaked
  BY DEF abstractLeaked
<1>4. [p \in Ptr |-> abstractPtr(p)]' = [p \in Ptr |-> abstractPtr(p)]
  OBVIOUS
<1> QED BY <1>1, <1>2, <1>3, <1>4 DEF Api!vars

(* A step at which the bytes of no hooked function change, by a thread     *)
(* that neither shows a pointer of its own nor removes a trampoline.       *)
LEMMA QuietApi ==
  ASSUME NEW c \in Caller, Touches(c), used' = used,
         registered' \cap used = registered \cap used, \A b \in used : tramp'[b] = tramp[b],
         \A l \in Loc : l[1] = "fn" \/ l[2] \in used => code'[l] = code[l], ptr' = ptr,
         pc[c] \notin {"giveback", "free"}, pc'[c] \notin {"giveback", "free"},
         pc[c] = "publish" => frame[c].blk \notin used,
         pc'[c] = "publish" => frame'[c].blk \notin used
  PROVE  UNCHANGED Api!vars
<1>1. \A d \in Caller \ {c} : pc'[d] = pc[d] /\ frame'[d] = frame[d]
  BY DEF Touches
<1>2. removing' = removing
  BY <1>1 DEF removing
<1>3. installed' = installed
  BY <1>2 DEF installed
<1>4. ASSUME NEW p \in Ptr PROVE abstractPtr(p)' = abstractPtr(p)
  <2> DEFINE pending == {d \in Caller : Shown(d, "publish", p)}
             undoing == {d \in Caller : Shown(d, "giveback", p)}
             first(S) == CHOOSE d \in S : TRUE
  <2>1. {d \in Caller : Shown(d, "publish", p)'} = pending
        /\ {d \in Caller : Shown(d, "giveback", p)'} = undoing
    BY <1>1 DEF Shown
  <2>2. abstractPtr(p) = IF pending # {} THEN Entry(frame[first(pending)].blk)
          ELSE IF undoing # {} THEN tramp[frame[first(undoing)].blk].sys ELSE ptr[p]
    BY DEF abstractPtr, Shown
  <2>3. abstractPtr(p)' = IF pending # {} THEN Entry(frame'[first(pending)].blk)
          ELSE IF undoing # {} THEN tramp'[frame'[first(undoing)].blk].sys ELSE ptr'[p]
    <3>1. abstractPtr(p)' =
            IF {d \in Caller : Shown(d, "publish", p)'} # {}
            THEN Entry(frame'[first({d \in Caller : Shown(d, "publish", p)'})].blk)
            ELSE IF {d \in Caller : Shown(d, "giveback", p)'} # {}
            THEN tramp'[frame'[first({d \in Caller : Shown(d, "giveback", p)'})].blk].sys
            ELSE ptr'[p]
      BY DEF abstractPtr, Shown
    <3> HIDE DEF pending, undoing, first
    <3> QED BY <2>1, <3>1
  <2>4. pending # {} => /\ first(pending) \in Caller \ {c}
                        /\ frame[first(pending)].blk \in used
    BY DEF Shown
  <2>5. undoing # {} => /\ first(undoing) \in Caller \ {c}
                        /\ frame[first(undoing)].blk \in used
    BY DEF Shown
  <2> HIDE DEF pending, undoing, first
  <2> QED BY <1>1, <2>2, <2>3, <2>4, <2>5
<1> QED BY <1>3, <1>4, SameView

(* What shows while c is at work, before and after its step.               *)
LEMMA WorkerView ==
  ASSUME Inv, NEW c \in Caller, Inside(c), Touches(c)
  PROVE  ViewOf(c) /\ ViewOf(c)'
         /\ (\A d \in Caller \ {c} : ~Inside(d)) /\ (\A d \in Caller \ {c} : ~Inside(d))'
<1>1. View'
  BY ViewHolds, PTL
<1>2. \A d \in Caller \ {c} : ~Inside(d) /\ ~Inside(d)'
  BY OnlyBusy DEF Touches, Inside
<1> QED BY <1>1, <1>2, ViewHolds DEF View

(* Entering and leaving the lock, looking things up, and preparing a       *)
(* block do not show.                                                      *)
LEMMA LookingIsQuiet ==
  ASSUME Inv, NEW c \in Caller, Touches(c),
         \/ \E p \in PtrsOf[c] : \E h \in HooksOf[p] : CallSetHook(c, p, h)
         \/ \E p \in PtrsOf[c] : CallUnhook(c, p)
         \/ CheckInit(c) \/ InitCs(c) \/ ZeroHooks(c) \/ SetFlag(c) \/ Lock(c) \/ Leave(c)
         \/ Resolve(c) \/ AllocFails(c) \/ Protect(c) \/ Lookup(c) \/ RestoreFails(c)
  PROVE  UNCHANGED Api!vars
<1>1. UNCHANGED <<memory, ptr>>
  BY DEF CallSetHook, CallUnhook, CheckInit, InitCs, ZeroHooks, SetFlag, Lock, Leave,
         Resolve, AllocFails, Protect, Lookup, RestoreFails
<1>2. hooks' = hooks
  BY DEF CallSetHook, CallUnhook, CheckInit, InitCs, ZeroHooks, SetFlag, Lock, Leave,
         Resolve, AllocFails, Protect, Lookup, RestoreFails, Goto, Inv, FirstUse, table
<1>3. /\ pc[c] \notin {"giveback", "free", "publish"}
      /\ pc'[c] \notin {"giveback", "free"}
      /\ pc'[c] = "publish" => pc[c] = "protect" /\ frame' = frame
  BY DEF CallSetHook, CallUnhook, CheckInit, InitCs, ZeroHooks, SetFlag, Lock, Leave,
         Resolve, AllocFails, Protect, Lookup, RestoreFails, Goto, Inv, TypeOK
<1>4. pc'[c] = "publish" => frame'[c].blk \notin used
  BY <1>3 DEF Inv, Sound, CallOK, SetHookStage
<1>5. used' = used /\ registered' = registered
  BY <1>1, <1>2 DEF used, registered, memory
<1> QED BY <1>1, <1>3, <1>4, <1>5, QuietApi DEF memory

(* A block that nothing leads to yet is not part of the abstract code.     *)
LEMMA PreparingIsQuiet ==
  ASSUME Inv, NEW c \in Caller, Touches(c), Build(c) \/ \E b \in Block \ mapped : Alloc(c, b)
  PROVE  UNCHANGED Api!vars
<1>1. CASE Build(c)
  <2>1. PICK b : b = frame[c].blk
    OBVIOUS
  <2>2. /\ pc[c] = "build" /\ pc'[c] = "patch"
        /\ \E x, y : code' = [code EXCEPT ![Entry(b)] = x, ![Stub(b)] = y]
        /\ tramp' = [tramp EXCEPT ![b].untouched = code[frame[c].sys]]
        /\ UNCHANGED <<table, mapped, ptr>>
    BY <1>1, <2>1 DEF Build, Goto, Inv, TypeOK
  <2>3. b \in Block /\ b \notin used
    BY <2>1, <2>2 DEF Inv, Sound, CallOK, SetHookStage, registered, TypeOK
  <2>4. \A l \in Loc : l[1] = "fn" \/ l[2] \in used => code'[l] = code[l]
    BY <2>2, <2>3, UnusedBuffers DEF Inv, TypeOK
  <2>5. /\ \A x \in Block : tramp'[x].sys = tramp[x].sys
        /\ \A x \in used : tramp'[x] = tramp[x]
    BY <2>2, <2>3 DEF Inv, TypeOK, TrampolineOrZero, used
  <2>6. used' = used /\ registered' = registered
    BY <2>2, <2>5 DEF used, registered, table, Inv, TypeOK
  <2> QED BY <2>2, <2>4, <2>5, <2>6, QuietApi
<1>2. ASSUME NEW b \in Block \ mapped, Alloc(c, b) PROVE UNCHANGED Api!vars
  <2>1. /\ pc[c] = "alloc" /\ pc'[c] = "protect" /\ ptr' = ptr
        /\ mapped' = mapped \cup {b}
        /\ tramp' = [tramp EXCEPT ![b] = Zero]
        /\ code' = [code EXCEPT ![Entry(b)] = Blank, ![Stub(b)] = Blank]
    BY <1>2 DEF Alloc, Goto, Inv, TypeOK
  <2>2. b \notin used
    BY DEF used
  <2>3. \A l \in Loc : l[1] = "fn" \/ l[2] \in used => code'[l] = code[l]
    BY <2>1, <2>2, UnusedBuffers DEF Inv, TypeOK
  <2>4. tramp'[b].sys = NULL /\ \A x \in Block \ {b} : tramp'[x] = tramp[x]
    BY <2>1 DEF Inv, TypeOK, Zero
  <2>5. used' = used /\ \A x \in used : tramp'[x] = tramp[x]
    BY <2>1, <2>2, <2>4 DEF used, Inv, TypeOK
  <2>6. registered' \cap used = registered \cap used
    <3>1. hooks' = hooks \/ hooks' = [hooks EXCEPT ![First(SlotsOf(NULL))] = b]
      BY <1>2 DEF Alloc, table
    <3>2. CASE hooks' = hooks
      BY <3>2 DEF registered
    <3>3. CASE /\ hooks' = [hooks EXCEPT ![First(SlotsOf(NULL))] = b]
               /\ hooks' # hooks
      <4>1. SlotsOf(NULL) # {}
        BY <1>2, <3>3 DEF Alloc, table
      <4>2. First(SlotsOf(NULL)) \in SlotsOf(NULL)
        <5>1. SlotsOf(NULL) \in SUBSET Nat
          BY DEF SlotsOf, Slot
        <5>2. \E m \in SlotsOf(NULL) : \A k \in SlotsOf(NULL) : m <= k
          BY <4>1, <5>1, LeastNumber
        <5> QED BY <5>2 DEF First
      <4>3. hooks[First(SlotsOf(NULL))] = NULL
        BY <4>2 DEF SlotsOf
      <4>4. registered' \subseteq registered \cup {b} /\ registered \subseteq registered'
        BY <3>3, <4>3 DEF registered, Inv, TypeOK
      <4> QED BY <2>2, <4>4
    <3> QED BY <3>1, <3>2, <3>3
  <2> QED BY <2>1, <2>3, <2>5, <2>6, QuietApi
<1> QED BY <1>1, <1>2

(* The pointer moves, and the table is cleared, behind the step that the   *)
(* others see.                                                             *)
LEMMA PublishIsQuiet ==
  ASSUME Inv, NEW c \in Caller, Touches(c), Publish(c)
  PROVE  UNCHANGED Api!vars
<1>1. PICK f : f = frame[c]
  OBVIOUS
<1>2. PICK b : b = f.blk
  OBVIOUS
<1>3. pc[c] = "publish" /\ pc'[c] = "leave"
  BY DEF Publish, Goto, Inv, TypeOK
<1>4. b \in registered /\ b \in Block /\ f.p \in Ptr /\ (tramp[b].sys # NULL <=> b \in used)
  <2>1. CallOK(c)
    BY DEF Inv, Sound
  <2>2. b \in registered /\ f.p \in Ptr
    BY <1>1, <1>2, <1>3, <2>1 DEF CallOK, SetHookStage, ArgsOK
  <2> QED BY <2>2 DEF Inv, Sound, SlotAccounting, TypeOK, used
<1>5. CASE b \in used
  <2>1. /\ ptr' = [ptr EXCEPT ![f.p] = Entry(b)]
        /\ UNCHANGED <<table, memory>>
    BY <1>1, <1>2, <1>4, <1>5 DEF Publish
  <2>2. used' = used /\ registered' = registered
    BY <2>1 DEF used, registered, table, memory
  <2>3. ViewOf(c) /\ ViewOf(c)' /\ (\A d \in Caller \ {c} : ~Inside(d))
        /\ (\A d \in Caller \ {c} : ~Inside(d))'
    BY <1>3, WorkerView DEF Inside
  <2>4. removing = {} /\ removing' = {}
    BY <1>3, <2>3 DEF ViewOf
  <2>5. ASSUME NEW p \in Ptr PROVE abstractPtr(p)' = abstractPtr(p)
    <3>1. abstractPtr(p)' = ptr'[p]
      BY <1>3, <2>3 DEF ViewOf, Shown
    <3>2. abstractPtr(p) = IF f.p = p THEN Entry(b) ELSE ptr[p]
      BY <1>1, <1>2, <1>3, <1>5, <2>3 DEF ViewOf, Shown
    <3> QED BY <1>4, <2>1, <3>1, <3>2 DEF Inv, TypeOK
  <2>6. installed' = installed
    BY <2>2, <2>4 DEF installed
  <2> QED BY <2>1, <2>2, <2>5, <2>6, SameView DEF memory
<1>6. CASE b \notin used
  <2>1. TrampolineFree(b, TRUE) /\ ptr' = ptr
    BY <1>1, <1>2, <1>4, <1>6 DEF Publish
  <2>2. registered' = registered \ {b} /\ used' = used /\ tramp' = tramp /\ code' = code
    BY <1>4, <1>6, <2>1, FreeFacts
  <2> QED BY <1>1, <1>2, <1>3, <1>6, <2>1, <2>2, QuietApi
<1> QED BY <1>5, <1>6

(* Unhook's last steps come after the bytes are back.                      *)
LEMMA GiveBackIsQuiet ==
  ASSUME Inv, NEW c \in Caller, Touches(c), GiveBack(c) \/ Free(c)
  PROVE  UNCHANGED Api!vars
<1>1. PICK b : b = frame[c].blk
  OBVIOUS
<1>2. pc[c] \in {"giveback", "free"}
  BY DEF GiveBack, Free, Goto
<1>3. b \in registered /\ b \in used /\ frame[c].p \in Ptr
  BY <1>1, <1>2, UnhookFacts
<1>4. ViewOf(c) /\ ViewOf(c)' /\ (\A d \in Caller \ {c} : ~Inside(d))
      /\ (\A d \in Caller \ {c} : ~Inside(d))'
  BY <1>2, WorkerView DEF Inside
<1>5. removing = {b}
  BY <1>1, <1>2, <1>4 DEF ViewOf
<1>6. CASE GiveBack(c)
  <2>1. /\ pc[c] = "giveback" /\ pc'[c] = "free"
        /\ ptr' = [ptr EXCEPT ![frame[c].p] = tramp[b].sys]
        /\ frame' = [frame EXCEPT ![c].ret = TRUE]
        /\ UNCHANGED <<table, memory>>
    BY <1>1, <1>6 DEF GiveBack, Goto, Set, Inv, TypeOK
  <2>2. frame'[c].blk = b
    BY <1>1, <2>1, SetRet DEF Inv
  <2>3. used' = used /\ registered' = registered
    BY <2>1 DEF used, registered, table, memory
  <2>4. removing' = {b}
    BY <1>4, <2>1, <2>2 DEF ViewOf
  <2>5. installed' = installed
    BY <1>5, <2>3, <2>4 DEF installed
  <2>6. ASSUME NEW p \in Ptr PROVE abstractPtr(p)' = abstractPtr(p)
    <3>1. abstractPtr(p)' = ptr'[p]
      BY <1>4, <2>1 DEF ViewOf, Shown
    <3>2. abstractPtr(p) = IF frame[c].p = p THEN tramp[b].sys ELSE ptr[p]
      BY <1>1, <1>3, <1>4, <2>1 DEF ViewOf, Shown
    <3> QED BY <1>3, <2>1, <3>1, <3>2 DEF Inv, TypeOK
  <2> QED BY <2>1, <2>3, <2>5, <2>6, SameView DEF memory
<1>7. CASE Free(c)
  <2>1. /\ pc[c] = "free" /\ pc'[c] = "leave" /\ TrampolineFree(b, FALSE)
        /\ ptr' = ptr
    BY <1>1, <1>7 DEF Free, Goto, Inv, TypeOK
  <2>2. registered' = registered \ {b} /\ used' = used /\ tramp' = tramp /\ code' = code
    BY <1>3, <2>1, FreeFacts
  <2>3. removing' = {}
    BY <1>4, <2>1 DEF ViewOf
  <2>4. installed' = installed
    BY <1>5, <2>2, <2>3 DEF installed
  <2>5. \A p \in Ptr : abstractPtr(p)' = abstractPtr(p)
    BY <1>4, <2>1 DEF ViewOf, Shown
  <2> QED BY <2>2, <2>4, <2>5, SameView
<1> QED BY <1>6, <1>7
--------------------------------------------------------------------------
(* The two modules say the same of the code: they extend the same one.     *)
LEMMA ApiOperators ==
  /\ Api!LoadedCode = LoadedCode
  /\ \A c, l : Api!SkipJumps(c, l) = SkipJumps(c, l)
  /\ \A c, l : Api!Lands(c, l) <=> Lands(c, l)
  /\ \A c : Api!Displaceable(c) <=> Displaceable(c)
  /\ \A b : Api!Entry(b) = Entry(b)
  /\ \A r : Api!Fn(r) = Fn(r)
  /\ \A S : Api!Cardinality(S) = Cardinality(S)
  /\ Api!Blank = Blank
<1>1. Api!LoadedCode = LoadedCode
  BY DEF LoadedCode, Api!LoadedCode, Loc, Api!Loc, Image, Api!Image, Jmp, Api!Jmp, Fn, Api!Fn,
         Body, Api!Body, Blank, Api!Blank
<1>2. \A c, l : Api!SkipJumps(c, l) = SkipJumps(c, l)
  BY DEF SkipJumps, Api!SkipJumps, Loc, Api!Loc, IsJmp, Api!IsJmp, Cardinality,
         Api!Cardinality, IsFiniteSet, Api!IsFiniteSet
<1>3. \A c, l : Api!Lands(c, l) <=> Lands(c, l)
  BY DEF Lands, Api!Lands, Loc, Api!Loc, IsJmp, Api!IsJmp
<1>4. \A c : Api!Displaceable(c) <=> Displaceable(c)
  BY DEF Displaceable, Api!Displaceable, IsBody, Api!IsBody
<1>5. \A S : Api!Cardinality(S) = Cardinality(S)
  BY DEF Cardinality, Api!Cardinality, IsFiniteSet, Api!IsFiniteSet
<1> QED BY <1>1, <1>2, <1>3, <1>4, <1>5 DEF Entry, Api!Entry, Fn, Api!Fn, Blank, Api!Blank

(* So are the bytes that SetHook writes.                                   *)
LEMMA ApiPatched ==
  ASSUME NEW c, NEW s, NEW h, NEW b
  PROVE  Api!Patched(c, s, h, b) =
           [c EXCEPT ![Entry(b)] = c[s],
                     ![Stub(b)]  = IF IsFar(c, s, h) THEN Jmp(h) ELSE Blank,
                     ![s]        = Jmp(IF IsFar(c, s, h) THEN Stub(b) ELSE h)]
<1>1. /\ Api!Entry(b) = Entry(b) /\ Api!Stub(b) = Stub(b) /\ Api!Blank = Blank
      /\ (Api!IsFar(c, s, h) <=> IsFar(c, s, h)) /\ \A l : Api!Jmp(l) = Jmp(l)
  BY DEF Entry, Api!Entry, Stub, Api!Stub, Blank, Api!Blank, IsFar, Api!IsFar, Jmp, Api!Jmp
<1> QED BY <1>1 DEF Api!Patched, Api!EntryJump

(* Before the first call both show the code as it was loaded.              *)
LEMMA InitRefines == Init => Api!Init /\ \A c \in Caller : Knows(c)
<1> SUFFICES ASSUME Init PROVE Api!Init /\ \A c \in Caller : Knows(c)
  OBVIOUS
<1>1. registered = {} /\ used = {} /\ installed = {}
  BY DEF Init, registered, used, installed
<1>2. abstractCode = Api!LoadedCode
  <2>1. \A l \in Loc : l[1] # "fn" => LoadedCode[l] = Blank
    BY DEF LoadedCode
  <2>2. abstractCode = [l \in Loc |-> LoadedCode[l]]
    BY <1>1, <2>1 DEF Init, abstractCode
  <2>3. [l \in Loc |-> LoadedCode[l]] = LoadedCode
    BY DEF LoadedCode
  <2> QED BY <2>2, <2>3, ApiOperators
<1>3. abstractTramp = [b \in {} |-> Api!Blank]
  BY <1>1 DEF abstractTramp
<1>4. abstractLeaked = {}
  BY <1>1 DEF abstractLeaked
<1>5. [p \in Ptr |-> abstractPtr(p)] = [p \in Ptr |-> Api!Fn(PtrInit[p])]
  BY ApiOperators DEF Init, abstractPtr
<1>6. \A c \in Caller : Knows(c)
  BY DEF Init, Knows
<1> QED BY <1>2, <1>3, <1>4, <1>5, <1>6 DEF Api!Init
--------------------------------------------------------------------------
(* Putting the bytes back is the abstract Unhook.                          *)
LEMMA RestoreRefines ==
  ASSUME Inv, NEW c \in Caller, Touches(c), Restore(c)
  PROVE  \E p \in Ptr : Api!Unhook(p)
<1>1. PICK b : b = frame[c].blk
  OBVIOUS
<1>2. PICK p : p = frame[c].p
  OBVIOUS
<1>3. /\ pc[c] = "restore" /\ pc'[c] = "giveback"
      /\ code' = [code EXCEPT ![tramp[b].sys] = tramp[b].untouched]
      /\ UNCHANGED <<table, mapped, tramp, ptr, frame>>
  BY <1>1 DEF Restore, Goto, Inv, TypeOK
<1>4. CallOK(c)
  BY DEF Inv, Sound
<1>5. b \in registered /\ b \in used /\ p \in Ptr /\ ptr[p] = Entry(b)
  BY <1>1, <1>2, <1>3, <1>4 DEF CallOK, UnhookStage, ArgsOK
<1>6. ViewOf(c) /\ ViewOf(c)' /\ (\A d \in Caller \ {c} : ~Inside(d))
      /\ (\A d \in Caller \ {c} : ~Inside(d))'
  BY <1>3, WorkerView DEF Inside
<1>7. used' = used /\ registered' = registered
  BY <1>3 DEF used, registered, table
<1>8. removing = {} /\ removing' = {b}
  BY <1>1, <1>3, <1>6 DEF ViewOf
<1>9. b \in installed /\ installed' = installed \ {b}
  BY <1>5, <1>7, <1>8 DEF installed
<1>10. /\ \A q \in Ptr : abstractPtr(q) = ptr[q]
       /\ \A q \in Ptr : abstractPtr(q)' = IF q = p THEN tramp[b].sys ELSE ptr[q]
  <2>1. \A q \in Ptr : abstractPtr(q) = ptr[q]
    BY <1>3, <1>6 DEF ViewOf, Shown
  <2>2. \A q \in Ptr : abstractPtr(q)' =
          IF Shown(c, "giveback", q)' THEN tramp'[frame'[c].blk].sys ELSE ptr'[q]
    BY <1>3, <1>6 DEF ViewOf, Shown
  <2>3. \A q \in Ptr : Shown(c, "giveback", q)' <=> q = p
    BY <1>1, <1>2, <1>3, <1>5, <1>7 DEF Shown
  <2> QED BY <1>1, <1>3, <2>1, <2>2, <2>3
<1>11. Good(tramp[b].sys) /\ tramp[b].untouched \in Content
  BY <1>5 DEF Inv, Sound, UsedGood, TypeOK, used, TrampolineOrZero
<1>12. abstractCode' = [abstractCode EXCEPT ![tramp[b].sys] = tramp[b].untouched]
  BY <1>3, <1>7, <1>11 DEF abstractCode, Good, Inv, TypeOK
<1>13. abstractTramp[b] = tramp[b] /\ DOMAIN abstractTramp = installed
  BY <1>9 DEF abstractTramp
<1>14. abstractTramp' = [x \in installed \ {b} |-> abstractTramp[x]]
  BY <1>3, <1>9 DEF abstractTramp
<1>15. abstractLeaked' = abstractLeaked \cup {b}
  BY <1>5, <1>7, <1>9 DEF abstractLeaked
<1>16. [q \in Ptr |-> abstractPtr(q)]' =
         [[q \in Ptr |-> abstractPtr(q)] EXCEPT ![p] = tramp[b].sys]
  BY <1>5, <1>10
<1>17. Api!Unhook(p)
  BY <1>5, <1>9, <1>10, <1>12, <1>13, <1>14, <1>15, <1>16, ApiOperators
  DEF Api!Unhook, Api!live
<1> QED BY <1>5, <1>17
--------------------------------------------------------------------------
(* A block that is registered and not in use leaves room in the table for  *)
(* those that are.                                                         *)
LEMMA RoomForOne ==
  ASSUME Inv, NEW b \in registered \ used
  PROVE  Cardinality(installed) < MaxHooks
<1>1. IsFiniteSet(registered) /\ Cardinality(registered) <= MaxHooks
  <2> DEFINE taken == {hooks[i] : i \in Slot}
  <2>1. hooks \in Surjection(Slot, taken)
    BY DEF Surjection, Inv, TypeOK
  <2>2. IsFiniteSet(taken) /\ Cardinality(taken) <= MaxHooks
    BY <2>1, SlotFacts, FS_Surjection
  <2>3. registered \subseteq taken
    BY DEF registered
  <2> HIDE DEF taken
  <2>4. IsFiniteSet(registered) /\ Cardinality(registered) <= Cardinality(taken)
    BY <2>2, <2>3, FS_Subset
  <2> QED BY <2>2, <2>4, FS_CardinalityType, MhookAssumption
<1>2. IsFiniteSet(registered \ {b}) /\ Cardinality(registered \ {b}) = Cardinality(registered) - 1
  BY <1>1, FS_RemoveElement
<1>3. installed \subseteq registered \ {b}
  BY DEF installed
<1>4. Cardinality(installed) <= Cardinality(registered \ {b}) /\ IsFiniteSet(installed)
  BY <1>2, <1>3, FS_Subset
<1> QED BY <1>1, <1>2, <1>4, FS_CardinalityType, MhookAssumption

(* The data members of a trampoline, all set.                              *)
LEMMA SetMembers ==
  ASSUME NEW t \in TrampolineOrZero, NEW s, NEW k
  PROVE  [t EXCEPT !.sys = s, !.hook = k] = [sys |-> s, hook |-> k, untouched |-> t.untouched]
<1>1. [t EXCEPT !.sys = s, !.hook = k] \in [sys : {s}, hook : {k}, untouched : {t.untouched}]
  BY DEF TrampolineOrZero
<1>2. \A r \in [sys : {s}, hook : {k}, untouched : {t.untouched}] :
        r = [sys |-> s, hook |-> k, untouched |-> t.untouched]
  OBVIOUS
<1> QED BY <1>1, <1>2

(* Writing the jump is the abstract SetHook.                               *)
LEMMA PatchRefines ==
  ASSUME Inv, NEW c \in Caller, Knows(c), Touches(c), Patch(c)
  PROVE  \E p \in Ptr : \E h \in HooksOf[p] : Api!SetHook(p, h)
<1>1. PICK b : b = frame[c].blk
  OBVIOUS
<1>2. PICK p, h : p = frame[c].p /\ h = frame[c].h
  OBVIOUS
<1>3. PICK s, k : s = frame[c].sys /\ k = frame[c].hook
  OBVIOUS
<1>4. PICK jump : jump = Jmp(IF IsFar(code, s, k) THEN Stub(b) ELSE k)
  OBVIOUS
<1>5. /\ pc[c] = "patch" /\ pc'[c] = "publish"
      /\ code' = [code EXCEPT ![s] = jump]
      /\ tramp' = [tramp EXCEPT ![b].sys = s, ![b].hook = k]
      /\ UNCHANGED <<table, mapped, ptr, frame>>
  BY <1>1, <1>3, <1>4 DEF Patch, Goto, Inv, TypeOK
<1>6. CallOK(c) /\ frame[c].op = "sethook"
  BY <1>5 DEF Inv, Sound, CallOK, ArgsOK, Before, UnhookLabel
<1>7. /\ p \in Ptr /\ h \in Routine /\ h \in HooksOf[p] /\ Good(s) /\ Good(k)
      /\ IsBody(code[s]) /\ ~IsJmp(code[k]) /\ Displaceable(code[s])
      /\ b \in registered \ used
      /\ code[Entry(b)] = code[s] /\ tramp[b].untouched = code[s]
      /\ code[Stub(b)] = IF IsFar(code, s, k) THEN Jmp(k) ELSE Blank
      /\ s = SkipJumps(code, ptr[p]) /\ k = SkipJumps(code, Fn(h))
  BY <1>1, <1>2, <1>3, <1>5, <1>6 DEF CallOK, ArgsOK, SetHookStage, Knows
<1>8. b \in Block /\ b \in mapped
  BY <1>7 DEF Inv, Sound, SlotAccounting, TypeOK
<1>9. ViewOf(c) /\ ViewOf(c)' /\ (\A d \in Caller \ {c} : ~Inside(d))
      /\ (\A d \in Caller \ {c} : ~Inside(d))'
  BY <1>5, WorkerView DEF Inside
<1>10. removing = {} /\ removing' = {}
  BY <1>5, <1>9 DEF ViewOf
<1>11. tramp'[b] = [sys |-> s, hook |-> k, untouched |-> code[s]]
       /\ \A x \in Block \ {b} : tramp'[x] = tramp[x]
  <2>2. PICK t : t = tramp[b]
    OBVIOUS
  <2>1. /\ tramp'[b] = [t EXCEPT !.sys = s, !.hook = k]
        /\ \A x \in Block \ {b} : tramp'[x] = tramp[x]
    <3>1. tramp' = [tramp EXCEPT ![b] = [t EXCEPT !.sys = s, !.hook = k]]
      BY <1>5, <2>2
    <3>2. DOMAIN tramp = Block
      BY DEF Inv, TypeOK
    <3> QED BY <1>8, <3>1, <3>2
  <2>3. t \in TrampolineOrZero /\ t.untouched = code[s]
    BY <1>7, <1>8, <2>2 DEF Inv, TypeOK
  <2>4. [t EXCEPT !.sys = s, !.hook = k] = [sys |-> s, hook |-> k, untouched |-> code[s]]
    BY <2>3, SetMembers
  <2> QED BY <2>1, <2>2, <2>4
<1>12. used' = used \cup {b} /\ registered' = registered
  <2>1. s # NULL
    BY <1>7, NullFacts DEF Good
  <2> QED BY <1>5, <1>8, <1>11, <2>1 DEF used, registered, table, Inv, TypeOK
<1>13. installed' = installed \cup {b} /\ b \notin installed
  BY <1>7, <1>10, <1>12 DEF installed
<1>14. /\ SkipJumps(abstractCode, ptr[p]) = s /\ SkipJumps(abstractCode, Fn(h)) = k
       /\ abstractCode[s] = code[s] /\ abstractCode[k] = code[k]
  <2>1. Good(ptr[p]) /\ Good(Fn(h))
    BY <1>7, LocFacts DEF Inv, Sound, PtrsGood, Good, Fn
  <2> QED BY <1>7, <2>1, GoodAgree, AbstractCodeFacts
<1>15. \A q \in Ptr : /\ abstractPtr(q) = ptr[q]
                       /\ abstractPtr(q)' = IF q = p THEN Entry(b) ELSE ptr[q]
  <2>1. \A q \in Ptr : abstractPtr(q) = ptr[q]
    BY <1>5, <1>9 DEF ViewOf, Shown
  <2>2. \A q \in Ptr : abstractPtr(q)' =
          IF Shown(c, "publish", q)' THEN Entry(frame'[c].blk) ELSE ptr'[q]
    BY <1>5, <1>9 DEF ViewOf, Shown
  <2>3. \A q \in Ptr : Shown(c, "publish", q)' <=> q = p
    BY <1>1, <1>2, <1>5, <1>12 DEF Shown
  <2> QED BY <1>1, <1>5, <2>1, <2>2, <2>3
<1>16. abstractCode' = Api!Patched(abstractCode, s, k, b)
  <2>1. IsFar(abstractCode, s, k) <=> IsFar(code, s, k)
    BY <1>14 DEF IsFar
  <2>2. s # Entry(b) /\ s # Stub(b) /\ s \in Loc
    BY <1>7 DEF Good, Entry, Stub
  <2>3. \A l \in Loc : l[1] # "fn" /\ l[2] = b <=> l = Entry(b) \/ l = Stub(b)
    BY <1>8 DEF Loc, Entry, Stub
  <2>4. Entry(b) \in Loc /\ Stub(b) \in Loc /\ Entry(b) # Stub(b)
        /\ Entry(b)[1] # "fn" /\ Stub(b)[1] # "fn" /\ Entry(b)[2] = b /\ Stub(b)[2] = b
    BY <1>8 DEF Loc, Entry, Stub
  <2> DEFINE patched == [abstractCode EXCEPT ![Entry(b)] = code[s],
                           ![Stub(b)] = code[Stub(b)], ![s] = jump]
  <2>5. Api!Patched(abstractCode, s, k, b) = patched
    BY <1>4, <1>7, <1>14, <2>1, ApiPatched
  <2>6. abstractCode' = [l \in Loc |-> IF l[1] = "fn" \/ l[2] \in used \cup {b}
                                       THEN code'[l] ELSE Blank]
    BY <1>12 DEF abstractCode
  <2>7. ASSUME NEW l \in Loc
        PROVE  patched[l] = IF l[1] = "fn" \/ l[2] \in used \cup {b} THEN code'[l] ELSE Blank
    <3>1. patched[l] = IF l = s THEN jump ELSE IF l = Stub(b) THEN code[Stub(b)]
                       ELSE IF l = Entry(b) THEN code[s] ELSE abstractCode[l]
      BY <2>2, <2>4, AbstractCodeFacts
    <3>2. code'[l] = IF l = s THEN jump ELSE code[l]
      BY <1>5, <2>2 DEF Inv, TypeOK
    <3>3. abstractCode[l] = IF l[1] = "fn" \/ l[2] \in used THEN code[l] ELSE Blank
      BY DEF abstractCode
    <3>4. s[1] = "fn" \/ s[2] \in used
      BY <1>7 DEF Good
    <3> HIDE DEF patched
    <3> QED BY <1>7, <2>2, <2>3, <2>4, <3>1, <3>2, <3>3, <3>4
  <2>8. patched = [l \in Loc |-> patched[l]]
    BY AbstractCodeFacts
  <2> HIDE DEF patched
  <2> QED BY <2>5, <2>6, <2>7, <2>8
<1>17. DOMAIN abstractTramp = installed /\ installed \subseteq used
  BY DEF abstractTramp, installed
<1>18. abstractTramp' = [x \in installed \cup {b} |->
          IF x = b THEN [sys |-> s, hook |-> k, untouched |-> abstractCode[s]]
          ELSE abstractTramp[x]]
  BY <1>11, <1>13, <1>14, <1>17 DEF abstractTramp, used, Inv, TypeOK
<1>19. abstractLeaked' = abstractLeaked
  BY <1>7, <1>12, <1>13 DEF abstractLeaked
<1>20. [q \in Ptr |-> abstractPtr(q)]' =
         [[q \in Ptr |-> abstractPtr(q)] EXCEPT ![p] = Entry(b)]
  BY <1>7, <1>15
<1>21. b \in Block \ (installed \cup abstractLeaked)
  BY <1>7, <1>8, <1>17 DEF abstractLeaked
<1>22. Cardinality(installed) < MaxHooks
  BY <1>7, RoomForOne
<1>23. Lands(abstractCode, s) /\ Lands(abstractCode, k) /\ Displaceable(abstractCode[s])
  BY <1>7, <1>14 DEF Lands, Good, IsBody, IsJmp
<1>24. Api!SetHook(p, h)
  BY <1>7, <1>14, <1>15, <1>16, <1>17, <1>18, <1>19, <1>20, <1>21, <1>22, <1>23, ApiOperators
  DEF Api!SetHook, Api!live, Api!RoomLeft, Api!FreeBlock
<1> QED BY <1>7, <1>24
--------------------------------------------------------------------------
(* Every call knows what it has to.                                        *)
AllKnow == \A c \in Caller : Knows(c)

(* Every step of a thread is a step of the service or shows nothing.       *)
LEMMA StepRefines ==
  ASSUME OwnPtrs, Inv, AllKnow, Next
  PROVE  (Api!Next \/ UNCHANGED Api!vars) /\ AllKnow'
<1>1. PICK c \in Caller :
        \/ \E p \in PtrsOf[c] : \E h \in HooksOf[p] : CallSetHook(c, p, h)
        \/ \E p \in PtrsOf[c] : CallUnhook(c, p)
        \/ Work(c)
  BY DEF Next
<1>2. Touches(c)
  BY <1>1, StepTouches
<1>3. AllKnow'
  <2>1. Knows(c)'
    BY <1>1, CallerKnows DEF AllKnow
  <2>2. pc[c] # "idle" \/ ptr' = ptr
    BY <1>2 DEF Touches
  <2>3. \A d \in Caller \ {c} : Knows(d)'
    BY <1>2, <2>2, OthersStillKnow DEF AllKnow
  <2> QED BY <2>1, <2>3 DEF AllKnow
<1>4. CASE Patch(c)
  BY <1>2, <1>3, <1>4, PatchRefines DEF AllKnow, Api!Next
<1>5. CASE Restore(c)
  BY <1>2, <1>3, <1>5, RestoreRefines DEF Api!Next
<1>6. CASE Publish(c) \/ GiveBack(c) \/ Free(c)
  BY <1>2, <1>3, <1>6, PublishIsQuiet, GiveBackIsQuiet
<1>7. CASE Build(c) \/ \E b \in Block \ mapped : Alloc(c, b)
  BY <1>2, <1>3, <1>7, PreparingIsQuiet
<1>8. CASE \/ \E p \in PtrsOf[c] : \E h \in HooksOf[p] : CallSetHook(c, p, h)
           \/ \E p \in PtrsOf[c] : CallUnhook(c, p)
           \/ CheckInit(c) \/ InitCs(c) \/ ZeroHooks(c) \/ SetFlag(c) \/ Lock(c) \/ Leave(c)
           \/ Resolve(c) \/ AllocFails(c) \/ Protect(c) \/ Lookup(c) \/ RestoreFails(c)
  BY <1>2, <1>3, <1>8, LookingIsQuiet
<1> QED BY <1>1, <1>4, <1>5, <1>6, <1>7, <1>8 DEF Work

(* A state that does not change shows the same.                            *)
LEMMA StutterRefines ==
  ASSUME AllKnow, UNCHANGED vars
  PROVE  UNCHANGED Api!vars /\ AllKnow'
<1>1. UNCHANGED <<inited, owner, hooks, inUse, mapped, tramp, code, ptr, pc, frame>>
  BY DEF vars, table, memory
<1>2. used' = used /\ registered' = registered /\ removing' = removing
  BY <1>1 DEF used, registered, removing
<1>3. installed' = installed
  BY <1>2 DEF installed
<1>4. \A p \in Ptr : abstractPtr(p)' = abstractPtr(p)
  BY <1>1, <1>2 DEF abstractPtr
<1>5. UNCHANGED Api!vars
  BY <1>1, <1>2, <1>3, <1>4, SameView
<1>6. AllKnow'
  BY <1>1 DEF AllKnow, Knows
<1> QED BY <1>5, <1>6

(* Mhook_SetHook and Mhook_Unhook, run by many threads, with every call    *)
(* that can fail between their steps, behave to the application like two   *)
(* single steps: SetHook at the write of the jump (mhook.cpp 729-742),     *)
(* Unhook when the bytes are put back (mhook.cpp 792-794), and everything  *)
(* else, failures included, shows nothing (mhook.cpp 664-813).             *)
THEOREM ImplementsService ==
  ASSUME SerialFirstUse, OwnPtrs
  PROVE  Spec => ImplementsHookApi
<1>1. Init => Api!Init /\ AllKnow
  BY InitRefines DEF AllKnow
<1>2. Inv /\ AllKnow /\ [Next]_vars => [Api!Next]_(Api!vars) /\ AllKnow'
  <2> SUFFICES ASSUME Inv, AllKnow, [Next]_vars
               PROVE  (Api!Next \/ UNCHANGED Api!vars) /\ AllKnow'
    OBVIOUS
  <2> QED BY StepRefines, StutterRefines
<1>3. Spec => []Inv
  BY Invariance
<1> QED BY <1>1, <1>2, <1>3, PTL DEF Spec, ImplementsHookApi, Api!Spec
--------------------------------------------------------------------------
(* The abstract service once more, with what is proved about it: its       *)
(* operators are those of Api, so its theorems hold of the implementation. *)
Service == INSTANCE HookApiProofs WITH
  code   <- abstractCode,
  tramp  <- abstractTramp,
  leaked <- abstractLeaked,
  ptr    <- [p \in Ptr |-> abstractPtr(p)]

(* The two instances have the same behaviours.                             *)
LEMMA SameService == Api!Spec => Service!Spec
<1>1. /\ \A c, l : Api!SkipJumps(c, l) = Service!SkipJumps(c, l)
      /\ \A c, l : Api!Lands(c, l) <=> Service!Lands(c, l)
      /\ \A c : Api!Displaceable(c) <=> Service!Displaceable(c)
      /\ \A b : Api!Entry(b) = Service!Entry(b)
      /\ \A r : Api!Fn(r) = Service!Fn(r)
      /\ Api!Blank = Service!Blank /\ Api!LoadedCode = Service!LoadedCode
  BY DEF Api!SkipJumps, Service!SkipJumps, Api!Lands, Service!Lands, Api!Loc, Service!Loc,
         Api!IsJmp, Service!IsJmp, Api!Displaceable, Service!Displaceable, Api!IsBody,
         Service!IsBody, Api!Entry, Service!Entry, Api!Fn, Service!Fn, Api!Blank,
         Service!Blank, Api!LoadedCode, Service!LoadedCode, Api!Image, Service!Image,
         Api!Jmp, Service!Jmp, Api!Body, Service!Body, Api!Cardinality, Service!Cardinality,
         Api!IsFiniteSet, Service!IsFiniteSet
<1>2. \A c, s, h, b : Api!Patched(c, s, h, b) = Service!Patched(c, s, h, b)
  <2> SUFFICES ASSUME NEW c, NEW s, NEW h, NEW b
               PROVE  Api!Patched(c, s, h, b) = Service!Patched(c, s, h, b)
    OBVIOUS
  <2>1. /\ Api!Entry(b) = Service!Entry(b) /\ Api!Stub(b) = Service!Stub(b)
        /\ Api!Blank = Service!Blank /\ (Api!IsFar(c, s, h) <=> Service!IsFar(c, s, h))
        /\ \A l : Api!Jmp(l) = Service!Jmp(l)
    BY <1>1 DEF Api!Stub, Service!Stub, Api!Jmp, Service!Jmp, Api!IsFar, Service!IsFar
  <2>2. Api!EntryJump(c, s, h, b) = Service!EntryJump(c, s, h, b)
    BY <2>1 DEF Api!EntryJump, Service!EntryJump
  <2> QED BY <2>1, <2>2 DEF Api!Patched, Service!Patched
<1>3. Api!Init => Service!Init
  BY <1>1 DEF Api!Init, Service!Init
<1>4. Api!Next => Service!Next
  <2>1. \A S : Api!Cardinality(S) = Service!Cardinality(S)
    BY DEF Api!Cardinality, Service!Cardinality, Api!IsFiniteSet, Service!IsFiniteSet
  <2>2. \A p, h : Api!SetHook(p, h) => Service!SetHook(p, h)
    <3> SUFFICES ASSUME NEW p, NEW h, Api!SetHook(p, h) PROVE Service!SetHook(p, h)
      OBVIOUS
    <3>1. /\ Api!live = Service!live /\ Api!FreeBlock = Service!FreeBlock
          /\ (Api!RoomLeft <=> Service!RoomLeft)
      BY <2>1 DEF Api!RoomLeft, Service!RoomLeft, Api!FreeBlock, Service!FreeBlock,
         Api!live, Service!live
    <3> DEFINE at == [q \in Ptr |-> abstractPtr(q)][p]
    <3>2. PICK s : s = Service!SkipJumps(abstractCode, at)
      OBVIOUS
    <3>3. PICK k : k = Service!SkipJumps(abstractCode, Service!Fn(h))
      OBVIOUS
    <3>4. Api!SkipJumps(abstractCode, at) = s
          /\ Api!SkipJumps(abstractCode, Api!Fn(h)) = k
      BY <1>1, <3>2, <3>3
    <3>5. /\ Api!Lands(abstractCode, s) <=> Service!Lands(abstractCode, s)
          /\ Api!Lands(abstractCode, k) <=> Service!Lands(abstractCode, k)
          /\ Api!Displaceable(abstractCode[s]) <=> Service!Displaceable(abstractCode[s])
      BY <1>1
    <3>6. \A b : Api!Patched(abstractCode, s, k, b) = Service!Patched(abstractCode, s, k, b)
      BY <1>2
    <3>7. \A b : Api!Entry(b) = Service!Entry(b)
      BY <1>1
    <3> HIDE DEF at
    <3>8. /\ Api!Lands(abstractCode, s) /\ Api!Lands(abstractCode, k)
          /\ Api!Displaceable(abstractCode[s]) /\ Api!RoomLeft
      BY <3>4 DEF Api!SetHook, at
    <3>9. PICK b \in Api!FreeBlock :
            /\ abstractCode' = Api!Patched(abstractCode, s, k, b)
            /\ abstractTramp' = [x \in Api!live \cup {b} |->
                  IF x = b THEN [sys |-> s, hook |-> k, untouched |-> abstractCode[s]]
                  ELSE abstractTramp[x]]
            /\ [q \in Ptr |-> abstractPtr(q)]' =
                 [[q \in Ptr |-> abstractPtr(q)] EXCEPT ![p] = Api!Entry(b)]
            /\ UNCHANGED abstractLeaked
      BY <3>4 DEF Api!SetHook, at
    <3> QED BY <3>1, <3>2, <3>3, <3>5, <3>6, <3>7, <3>8, <3>9 DEF Service!SetHook, at
  <2>3. \A p : Api!Unhook(p) <=> Service!Unhook(p)
    BY <1>1 DEF Api!Unhook, Service!Unhook, Api!live, Service!live
  <2> QED BY <2>2, <2>3 DEF Api!Next, Service!Next
<1>5. [Api!Next]_(Api!vars) => [Service!Next]_(Service!vars)
  BY <1>4 DEF Api!vars, Service!vars
<1> QED BY <1>3, <1>5, PTL DEF Api!Spec, Service!Spec
(* The function a pointer was initialised to stand for; a pointer that     *)
(* stands for it alone; and what its user can rely on.                     *)
Original(p) == SkipJumps(LoadedCode, Fn(PtrInit[p]))
Sole(p)     == \A q \in Ptr \ {p} : Original(q) # Original(p)
Kept(p) ==
  /\ Runs(code, ptr[p]) = Body(Original(p)[2])
  /\ Runs(code, Fn(PtrInit[p])) \in
       (IF \E b \in registered : ptr[p] = Entry(b) THEN {Body(h) : h \in HooksOf[p]}
        ELSE {Body(Original(p)[2])})
PromisesKept == (\A c \in Caller : ~Inside(c)) => \A p \in Ptr : Sole(p) => Kept(p)

(* Its operators on code are those of CodeSpace.                           *)
LEMMA ServiceOperators ==
  /\ Service!LoadedCode = LoadedCode
  /\ \A c, l : Service!SkipJumps(c, l) = SkipJumps(c, l)
  /\ \A b : Service!Entry(b) = Entry(b)
  /\ \A r : Service!Fn(r) = Fn(r)
  /\ \A r : Service!Body(r) = Body(r)
<1>1. Service!LoadedCode = LoadedCode
  BY DEF LoadedCode, Service!LoadedCode, Loc, Service!Loc, Image, Service!Image, Jmp,
         Service!Jmp, Fn, Service!Fn, Body, Service!Body, Blank, Service!Blank
<1>2. \A c, l : Service!SkipJumps(c, l) = SkipJumps(c, l)
  BY DEF SkipJumps, Service!SkipJumps, Loc, Service!Loc, IsJmp, Service!IsJmp, Cardinality,
         Service!Cardinality, IsFiniteSet, Service!IsFiniteSet
<1> QED BY <1>1, <1>2 DEF Entry, Service!Entry, Fn, Service!Fn, Body, Service!Body

(* While nobody is at work the abstract state is the concrete one.         *)
LEMMA QuietView ==
  ASSUME Inv, \A c \in Caller : ~Inside(c)
  PROVE  /\ \A p \in Ptr : abstractPtr(p) = ptr[p]
         /\ registered = installed
         /\ \A l : Good(l) => Runs(abstractCode, l) = Runs(code, l)
<1>1. \A p \in Ptr : abstractPtr(p) = ptr[p]
  BY DEF abstractPtr, Inside
<1>2. registered = installed
  <2>1. removing = {}
    BY DEF removing, Inside
  <2>2. \A b \in registered : b \in used
    BY DEF Inv, Sound, RegisteredJumps, Busy, Inside
  <2> QED BY <2>1, <2>2 DEF installed
<1>3. ASSUME NEW l, Good(l) PROVE Runs(abstractCode, l) = Runs(code, l)
  <2> DEFINE S == {x \in Loc : Good(x)}
  <2>1. \A x \in S : IsJmp(code[x]) => code[x][2] \in S
    BY DEF Inv, Sound, JumpsGood, Good
  <2>2. S \in SUBSET Loc /\ l \in S
    BY <1>3 DEF Good
  <2>3. SkipJumps(code, l) \in S
    <3> HIDE DEF S
    <3> QED BY <2>1, <2>2, SkipJumpsStays DEF Inv, TypeOK
  <2>4. Good(SkipJumps(code, l))
    BY <2>3
  <2> QED BY <1>3, <2>4, GoodAgree, AbstractCodeFacts DEF Runs
<1> QED BY <1>1, <1>2, <1>3

(* What the service promises of the abstract state it promises of code.    *)
LEMMA PromisesCarryOver ==
  ASSUME Inv, Service!OriginalReachable, Service!HookedExactly
  PROVE  PromisesKept
<1> SUFFICES ASSUME \A c \in Caller : ~Inside(c), NEW p \in Ptr, Sole(p) PROVE Kept(p)
  BY DEF PromisesKept
<1>1. \A q : Service!Target(q) = Original(q)
  BY ServiceOperators DEF Service!Target, Original
<1>2. Service!Alone(p)
  BY <1>1 DEF Service!Alone, Sole
<1>3. \A l : Service!Runs(abstractCode, l) = Runs(abstractCode, l)
  BY ServiceOperators DEF Service!Runs, Runs
<1>4. /\ abstractPtr(p) = ptr[p] /\ Runs(abstractCode, ptr[p]) = Runs(code, ptr[p])
      /\ Runs(abstractCode, Fn(PtrInit[p])) = Runs(code, Fn(PtrInit[p]))
  <2>1. Good(ptr[p]) /\ Good(Fn(PtrInit[p]))
    BY MhookAssumption, LocFacts DEF Inv, Sound, PtrsGood, Good, Fn
  <2> QED BY <2>1, QuietView
<1>5. Runs(code, ptr[p]) = Body(Original(p)[2])
  BY <1>1, <1>2, <1>3, <1>4, ServiceOperators DEF Service!OriginalReachable
<1>6. Service!Hooked(p) <=> \E b \in registered : ptr[p] = Entry(b)
  <2>1. registered = DOMAIN abstractTramp
    BY QuietView DEF abstractTramp
  <2> QED BY <1>4, <2>1, ServiceOperators DEF Service!Hooked, Service!live
<1>7. {Service!Body(h) : h \in HooksOf[p]} = {Body(h) : h \in HooksOf[p]}
  BY ServiceOperators
<1>8. Service!Runs(abstractCode, Service!Fn(PtrInit[p])) \in
        (IF Service!Hooked(p) THEN {Service!Body(h) : h \in HooksOf[p]}
         ELSE {Service!Body(Service!Target(p)[2])})
  BY <1>2 DEF Service!HookedExactly
<1>9. Service!Runs(abstractCode, Service!Fn(PtrInit[p])) = Runs(code, Fn(PtrInit[p]))
  BY <1>3, <1>4, ServiceOperators
<1>10. Service!Body(Service!Target(p)[2]) = Body(Original(p)[2])
  BY <1>1, ServiceOperators
<1> QED BY <1>5, <1>6, <1>7, <1>8, <1>9, <1>10 DEF Kept

(* What HookApi promises holds of the many threads that run mhook.cpp:     *)
(* whenever none of them is at work, and whichever calls failed before,    *)
(* the application reaches the original function through its pointer, and  *)
(* everybody else's calls run a hook exactly while the pointer leads to a  *)
(* registered trampoline (mhook.cpp 757-759 and 798-799).                  *)
THEOREM ServiceIsDelivered ==
  ASSUME SerialFirstUse, OwnPtrs, Service!Loads, Service!OwnHooks
  PROVE  Spec => []PromisesKept
<1>1. Service!CodeSpaceAssumption /\ Service!HookApiAssumption
  BY CodeSpaceAssumption, MhookAssumption
  DEF Service!CodeSpaceAssumption, Service!IsFiniteSet, IsFiniteSet, Service!HookApiAssumption
<1>2. Service!Spec => []Service!OriginalReachable
  BY <1>1, Service!OriginalIsReachable
<1>3. Service!Spec => []Service!HookedExactly
  BY <1>1, Service!CallsAreHooked
<1>4. Inv /\ Service!OriginalReachable /\ Service!HookedExactly => PromisesKept
  BY PromisesCarryOver
<1> QED BY <1>2, <1>3, <1>4, Invariance, SameService, ImplementsService, PTL
        DEF ImplementsHookApi
==========================================================================
