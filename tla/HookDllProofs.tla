--------------------------- MODULE HookDllProofs ---------------------------
(***************************************************************************)
(* The DLL that blocks printing, for any number of functions and threads   *)
(* and however often it is mapped.                                         *)
(***************************************************************************)
EXTENDS HookDll, HookApiProofs

(* bHooked, once DllMain has set it, says that the program is not excluded,*)
(* so a callback finds nothing to do; and only DllMain hooks and unhooks.  *)
Attached == dllMain = {} /\ mapped => (bHooked <=> ~excluded)
Steps(t) ==
  /\ Step(t) \notin {"idle", "hook"} => mapped /\ dllMain \subseteq {t}
  /\ Step(t) \in {"update", "HookApi"} /\ dllMain = {t} => ~bHooked
  /\ Step(t) \in {"set", "unset"} => dllMain = {t}
  /\ Step(t) = "set" => ~excluded
  /\ Step(t) = "store" => (at[t][2] <=> ~excluded)
Ctl ==
  /\ {bHooked, excluded, mapped} \subseteq BOOLEAN
  /\ at \in [Thread -> Place]
  /\ dllMain = {} \/ \E t \in Thread : dllMain = {t}
  /\ Attached
  /\ \A t \in Thread : Steps(t)

(* As long as no Unhook has failed, mhook is used as it wants to be, and   *)
(* every trampoline is some pointer's: unhooking the pointers leaves none. *)
InOrder(p) == \E j \in DOMAIN Order : Order[j] = p
EachHasPtr == \A b \in live : \E p \in Ptr : ptr[p] = Entry(b)
HookedWhere == \A p \in Ptr : Hooked(p) => mapped /\ ~excluded /\ InOrder(p)
Progress(t) ==
  /\ Step(t) \in {"update", "HookApi"} /\ dllMain = {t} => live = {}
  /\ Step(t) = "set" => \A j \in DOMAIN Order : j >= at[t][2] => ~Hooked(Order[j])
  /\ Step(t) = "unset" => \A j \in DOMAIN Order : j < at[t][2] => ~Hooked(Order[j])
Clean ==
  /\ Inv /\ Stack /\ AloneApart
  /\ EachHasPtr /\ HookedWhere
  /\ \A t \in Thread : Progress(t)

(* Nobody is in a hook function of a DLL that is gone.                     *)
Outside ==
  /\ CrashCause
  /\ ~kept /\ ~inside /\ ~mapped => \A t \in Thread : Step(t) # "hook"

DllInv == Ctl /\ (~kept => Clean) /\ Outside
--------------------------------------------------------------------------
LEMMA PlaceFacts ==
  /\ Idle \in Place /\ <<"update", 0>> \in Place /\ <<"HookApi", 0>> \in Place
  /\ <<"hook", 0>> \in Place /\ <<"store", TRUE>> \in Place /\ <<"store", FALSE>> \in Place
  /\ \A k \in 1 .. Len(Order) + 1 : <<"set", k>> \in Place /\ <<"unset", k>> \in Place
  /\ Len(Order) \in Nat /\ DOMAIN Order = 1 .. Len(Order)
  /\ \A j \in DOMAIN Order : Order[j] \in Ptr
<1>1. /\ Idle \in Place /\ <<"update", 0>> \in Place /\ <<"HookApi", 0>> \in Place
      /\ <<"hook", 0>> \in Place
  BY DEF Place, Idle
<1>2. <<"store", TRUE>> \in Place /\ <<"store", FALSE>> \in Place
  <2>1. "store" \in {"store"} /\ TRUE \in BOOLEAN /\ FALSE \in BOOLEAN
    OBVIOUS
  <2>2. \A v \in BOOLEAN : <<"store", v>> \in {"store"} \X BOOLEAN
    OBVIOUS
  <2> QED BY <2>1, <2>2 DEF Place
<1>3. \A k \in 1 .. Len(Order) + 1 : <<"set", k>> \in Place /\ <<"unset", k>> \in Place
  BY DEF Place
<1>4. /\ Len(Order) \in Nat /\ DOMAIN Order = 1 .. Len(Order)
      /\ \A j \in DOMAIN Order : Order[j] \in Ptr
  BY HookDllAssumption
<1> QED BY <1>1, <1>2, <1>3, <1>4

(* A thread that is at a call is at one of them.                           *)
LEMMA CallFacts ==
  ASSUME NEW p \in Place, p[1] \in {"set", "unset"}
  PROVE  p[2] \in 1 .. Len(Order) + 1 /\ p = <<p[1], p[2]>>
BY DEF Place

LEMMA CtlInit == DllInit => Ctl
<1> SUFFICES ASSUME DllInit PROVE Ctl
  OBVIOUS
<1>1. at = [t \in Thread |-> Idle] /\ \A t \in Thread : Step(t) = "idle"
  BY DEF DllInit, Step, Idle
<1>2. at \in [Thread -> Place]
  BY <1>1, PlaceFacts
<1>3. \A t \in Thread : Steps(t)
  BY <1>1 DEF Steps
<1>4. bHooked = FALSE /\ excluded \in BOOLEAN /\ mapped = FALSE /\ dllMain = {}
  BY DEF DllInit
<1> QED BY <1>2, <1>3, <1>4 DEF Ctl, Attached

(* One thread goes to another place.                                       *)
LEMMA GoesTo ==
  ASSUME Ctl, NEW t \in Thread, NEW p \in Place, Goes(t, p)
  PROVE  /\ at' \in [Thread -> Place] /\ at'[t] = p /\ Step(t)' = p[1]
         /\ \A u \in Thread \ {t} : at'[u] = at[u] /\ Step(u)' = Step(u)
BY DEF Ctl, Goes, Step

(* A step that leaves the DLL's state alone but for the place of t.        *)
LEMMA CtlMove ==
  ASSUME Ctl, NEW t \in Thread, NEW p \in Place, Goes(t, p),
         UNCHANGED <<bHooked, excluded, mapped, dllMain>>, Steps(t)'
  PROVE  Ctl'
<1>1. at' \in [Thread -> Place]
  BY GoesTo
<1>2. \A u \in Thread \ {t} : Steps(u)'
  BY GoesTo DEF Ctl, Steps
<1> QED BY <1>1, <1>2 DEF Ctl, Attached

LEMMA CtlStep ==
  ASSUME Ctl, [DllNext]_dllVars
  PROVE  Ctl'
<1>1. CASE UNCHANGED dllVars
  BY <1>1 DEF dllVars, Ctl, Attached, Steps, Step
<1> SUFFICES ASSUME NEW t \in Thread,
                    \/ Load(t) \/ GefApiCBTProc(t) \/ Update(t) \/ HookApi(t) \/ SetNext(t)
                    \/ HookApiReturns(t) \/ Store(t) \/ Detach(t) \/ UnsetNext(t) \/ Unmap(t)
                    \/ \E p \in Ptr : StartDoc(t, p)
                    \/ HookReturns(t)
             PROVE  Ctl'
  BY <1>1 DEF DllNext
<1>2. at[t] \in Place /\ Steps(t) /\ Attached
  BY DEF Ctl
<1>3. CASE Load(t)
  <2>1. /\ Goes(t, <<"update", 0>>) /\ dllMain' = {t} /\ mapped' = TRUE /\ bHooked' = FALSE
        /\ excluded' = excluded /\ \A u \in Thread : Step(u) \in {"idle", "hook"}
    BY <1>3 DEF Load, Attach, Unoccupied
  <2>2. /\ at' \in [Thread -> Place] /\ Step(t)' = "update"
        /\ \A u \in Thread \ {t} : Step(u)' \in {"idle", "hook"}
    BY <2>1, GoesTo, PlaceFacts
  <2>3. \A u \in Thread : Steps(u)'
    BY <2>1, <2>2 DEF Steps
  <2> QED BY <2>1, <2>2, <2>3 DEF Ctl, Attached
<1>4. CASE GefApiCBTProc(t)
  <2>1. Goes(t, <<"update", 0>>) /\ UNCHANGED <<bHooked, excluded, mapped, dllMain>>
        /\ mapped /\ dllMain = {}
    BY <1>4 DEF GefApiCBTProc
  <2>2. Steps(t)'
    BY <2>1, GoesTo, PlaceFacts DEF Steps
  <2> QED BY <2>1, <2>2, CtlMove, PlaceFacts
<1>5. CASE Update(t)
  <2>1. /\ Goes(t, IF bHooked THEN <<"store", TRUE>> ELSE <<"HookApi", 0>>)
        /\ UNCHANGED <<bHooked, excluded, mapped, dllMain>>
        /\ Step(t) = "update" /\ mapped /\ (dllMain = {} \/ (dllMain = {t} /\ ~bHooked))
    BY <1>2, <1>5 DEF Update, Steps
  <2>2. CASE bHooked
    <3>1. Goes(t, <<"store", TRUE>>) /\ dllMain = {} /\ ~excluded
      BY <1>2, <2>1, <2>2 DEF Attached
    <3>2. at'[t] = <<"store", TRUE>> /\ Step(t)' = "store"
      BY <3>1, GoesTo, PlaceFacts
    <3>3. Steps(t)'
      BY <2>1, <3>1, <3>2 DEF Steps
    <3> QED BY <2>1, <3>1, <3>3, CtlMove, PlaceFacts
  <2>3. CASE ~bHooked
    <3>1. Goes(t, <<"HookApi", 0>>)
      BY <2>1, <2>3
    <3>2. Step(t)' = "HookApi"
      BY <3>1, GoesTo, PlaceFacts
    <3>3. Steps(t)'
      BY <2>1, <2>3, <3>2 DEF Steps
    <3> QED BY <2>1, <3>1, <3>3, CtlMove, PlaceFacts
  <2> QED BY <2>2, <2>3
<1>6. CASE HookApi(t)
  <2>1. /\ Goes(t, IF bHooked THEN <<"store", TRUE>>
                   ELSE IF ~excluded THEN <<"set", 1>> ELSE <<"store", FALSE>>)
        /\ UNCHANGED <<bHooked, excluded, mapped, dllMain>>
        /\ Step(t) = "HookApi" /\ mapped /\ (dllMain = {} \/ (dllMain = {t} /\ ~bHooked))
    BY <1>2, <1>6 DEF HookApi, IsNeedToHook, Steps
  <2>2. CASE bHooked
    <3>1. Goes(t, <<"store", TRUE>>) /\ dllMain = {} /\ ~excluded
      BY <1>2, <2>1, <2>2 DEF Attached
    <3>2. at'[t] = <<"store", TRUE>> /\ Step(t)' = "store"
      BY <3>1, GoesTo, PlaceFacts
    <3>3. Steps(t)'
      BY <2>1, <3>1, <3>2 DEF Steps
    <3> QED BY <2>1, <3>1, <3>3, CtlMove, PlaceFacts
  <2>3. CASE ~bHooked /\ ~excluded
    <3>1. Goes(t, <<"set", 1>>) /\ dllMain = {t} /\ 1 \in 1 .. Len(Order) + 1
      BY <1>2, <2>1, <2>3, PlaceFacts DEF Attached
    <3>2. <<"set", 1>> \in Place
      BY <3>1, PlaceFacts
    <3>3. Step(t)' = "set"
      BY <3>1, <3>2, GoesTo
    <3>4. dllMain' = {t} /\ mapped' /\ ~excluded'
      BY <2>1, <2>3, <3>1, Zenon
    <3>5. Steps(t)'
      BY <3>3, <3>4 DEF Steps
    <3> QED BY <2>1, <3>1, <3>5, CtlMove, PlaceFacts
  <2>4. CASE ~bHooked /\ excluded
    <3>1. Goes(t, <<"store", FALSE>>)
      BY <2>1, <2>4
    <3>2. at'[t] = <<"store", FALSE>> /\ Step(t)' = "store"
      BY <3>1, GoesTo, PlaceFacts
    <3>3. Steps(t)'
      BY <2>1, <2>4, <3>2 DEF Steps
    <3> QED BY <2>1, <3>1, <3>3, CtlMove, PlaceFacts
  <2> QED BY <2>2, <2>3, <2>4
<1>7. CASE SetNext(t)
  <2>1. /\ Step(t) = "set" /\ Goes(t, <<"set", at[t][2] + 1>>) /\ at[t][2] <= Len(Order)
        /\ UNCHANGED <<bHooked, excluded, mapped, dllMain>>
    BY <1>7 DEF SetNext
  <2>2. at[t][2] + 1 \in 1 .. Len(Order) + 1
    BY <1>2, <2>1, CallFacts, PlaceFacts DEF Step
  <2>3. Step(t)' = "set"
    BY <2>1, <2>2, GoesTo, PlaceFacts
  <2>4. Steps(t)'
    BY <1>2, <2>1, <2>3 DEF Steps
  <2> QED BY <2>1, <2>2, <2>4, CtlMove, PlaceFacts
<1>8. CASE HookApiReturns(t)
  <2>1. /\ Step(t) = "set" /\ Goes(t, <<"store", TRUE>>)
        /\ UNCHANGED <<bHooked, excluded, mapped, dllMain>>
    BY <1>8 DEF HookApiReturns, Step
  <2>2. at'[t] = <<"store", TRUE>> /\ Step(t)' = "store"
    BY <2>1, GoesTo, PlaceFacts
  <2>3. mapped /\ ~excluded
    BY <1>2, <2>1 DEF Steps
  <2>4. Steps(t)'
    BY <1>2, <2>1, <2>2, <2>3 DEF Steps
  <2> QED BY <2>1, <2>4, CtlMove, PlaceFacts
<1>9. CASE Store(t)
  <2>1. /\ Step(t) = "store" /\ Goes(t, Idle) /\ bHooked' = at[t][2] /\ dllMain' = {}
        /\ UNCHANGED <<excluded, mapped>>
    BY <1>9 DEF Store
  <2>2. mapped /\ dllMain \subseteq {t} /\ (at[t][2] <=> ~excluded)
    BY <1>2, <2>1 DEF Steps
  <2>3. at[t][2] \in BOOLEAN
    BY <1>2, <2>1 DEF Place, Step
  <2>4. at' \in [Thread -> Place] /\ Step(t)' = "idle"
    BY <2>1, GoesTo, PlaceFacts DEF Idle
  <2>5. ASSUME NEW u \in Thread \ {t} PROVE Steps(u)'
    <3>1. at'[u] = at[u] /\ Step(u)' = Step(u) /\ Steps(u)
      BY <2>1, GoesTo, PlaceFacts DEF Ctl
    <3>2. Step(u) \notin {"set", "unset"}
      BY <2>2, <3>1 DEF Steps
    <3> QED BY <2>1, <3>1, <3>2 DEF Steps
  <2>6. Steps(t)'
    BY <2>4 DEF Steps
  <2>7. Attached'
    BY <2>1, <2>2 DEF Attached
  <2>8. {bHooked, excluded, mapped}' \subseteq BOOLEAN
    BY <2>1, <2>3 DEF Ctl
  <2> QED BY <2>1, <2>4, <2>5, <2>6, <2>7, <2>8 DEF Ctl
<1>10. CASE Detach(t)
  <2>1. /\ Goes(t, <<"unset", 1>>) /\ dllMain' = {t} /\ mapped
        /\ UNCHANGED <<bHooked, excluded, mapped>>
        /\ \A u \in Thread : Step(u) \in {"idle", "hook"}
    BY <1>10 DEF Detach, Unoccupied
  <2>2. <<"unset", 1>> \in Place
    <3>1. 1 \in 1 .. Len(Order) + 1
      BY PlaceFacts
    <3> QED BY <3>1, PlaceFacts
  <2>3. /\ at' \in [Thread -> Place] /\ Step(t)' = "unset"
        /\ \A u \in Thread \ {t} : Step(u)' \in {"idle", "hook"}
    BY <2>1, <2>2, GoesTo
  <2>4. \A u \in Thread : Steps(u)'
    BY <2>1, <2>3 DEF Steps
  <2> QED BY <2>1, <2>3, <2>4 DEF Ctl, Attached
<1>11. CASE UnsetNext(t)
  <2>1. /\ Step(t) = "unset" /\ Goes(t, <<"unset", at[t][2] + 1>>) /\ at[t][2] <= Len(Order)
        /\ UNCHANGED <<bHooked, excluded, mapped, dllMain>>
    BY <1>11 DEF UnsetNext, UnHookCount
  <2>2. at[t][2] + 1 \in 1 .. Len(Order) + 1
    BY <1>2, <2>1, CallFacts, PlaceFacts DEF Step
  <2>3. Step(t)' = "unset"
    BY <2>1, <2>2, GoesTo, PlaceFacts
  <2>4. Steps(t)'
    BY <1>2, <2>1, <2>3 DEF Steps
  <2> QED BY <2>1, <2>2, <2>4, CtlMove, PlaceFacts
<1>12. CASE Unmap(t)
  <2>1. /\ Step(t) = "unset" /\ Goes(t, Idle) /\ dllMain' = {} /\ mapped' = FALSE
        /\ UNCHANGED <<bHooked, excluded>>
    BY <1>12 DEF Unmap, Step
  <2>2. at' \in [Thread -> Place] /\ Step(t)' = "idle"
    BY <2>1, GoesTo, PlaceFacts DEF Idle
  <2>3. ASSUME NEW u \in Thread \ {t} PROVE Step(u)' \in {"idle", "hook"}
    <3>1. Step(u)' = Step(u) /\ Steps(u)
      BY <2>1, GoesTo, PlaceFacts DEF Ctl
    <3> QED BY <1>2, <2>1, <3>1 DEF Steps
  <2>4. \A u \in Thread : Steps(u)'
    BY <2>2, <2>3 DEF Steps
  <2> QED BY <2>1, <2>2, <2>4 DEF Ctl, Attached
<1>13. CASE (\E p \in Ptr : StartDoc(t, p)) \/ HookReturns(t)
  <2>1. /\ UNCHANGED <<bHooked, excluded, mapped, dllMain>>
        /\ \/ at' = at
           \/ Goes(t, <<"hook", 0>>)
           \/ Goes(t, Idle)
    BY <1>13 DEF StartDoc, HookReturns
  <2>2. CASE at' = at
    BY <2>1, <2>2 DEF Ctl, Attached, Steps, Step
  <2>3. CASE Goes(t, <<"hook", 0>>)
    <3>1. Step(t)' = "hook"
      BY <2>3, GoesTo, PlaceFacts
    <3>2. Steps(t)'
      BY <3>1 DEF Steps
    <3> QED BY <2>1, <2>3, <3>2, CtlMove, PlaceFacts
  <2>4. CASE Goes(t, Idle)
    <3>1. Step(t)' = "idle"
      BY <2>4, GoesTo, PlaceFacts DEF Idle
    <3>2. Steps(t)'
      BY <3>1 DEF Steps
    <3> QED BY <2>1, <2>4, <3>2, CtlMove, PlaceFacts
  <2> QED BY <2>1, <2>2, <2>3, <2>4
<1> QED
  BY <1>3, <1>4, <1>5, <1>6, <1>7, <1>8, <1>9, <1>10, <1>11, <1>12, <1>13
--------------------------------------------------------------------------
LEMMA VarsStay ==
  ASSUME Inv, Stack, AloneApart, EachHasPtr, UNCHANGED vars
  PROVE  /\ Inv' /\ Stack' /\ AloneApart' /\ EachHasPtr' /\ live' = live
         /\ \A p : Hooked(p)' <=> Hooked(p)
<1>1. AloneApart'
  BY StutterApart DEF AloneApart, Alone, Target
<1>2. EachHasPtr' /\ live' = live /\ \A p : Hooked(p)' <=> Hooked(p)
  BY DEF EachHasPtr, Hooked, live, vars
<1> QED BY <1>1, <1>2, StutterInv, StutterStack

(* Hooking a pointer that is not hooked.                                   *)
LEMMA SetOne ==
  ASSUME Loads, OwnHooks, Inv, Stack, AloneApart, EachHasPtr,
         NEW p \in Ptr, ~Hooked(p), SetHook(p, Gef[p])
  PROVE  /\ Inv' /\ Stack' /\ AloneApart' /\ EachHasPtr'
         /\ \A q \in Ptr : Hooked(q)' => q = p \/ Hooked(q)
<1>1. Gef[p] \in HooksOf[p]
  BY HookDllAssumption
<1>2. [Next]_vars
  BY <1>1 DEF Next
<1>3. Inv' /\ Stack' /\ AloneApart'
  BY <1>1, <1>2, SetHookInv, StackStep, ApartStep
<1>4. PICK b \in FreeBlock, sys \in Loc, hook \in Loc : Installs(p, Gef[p], b, sys, hook)
  BY <1>1, SetHookStep
<1>5. /\ live' = live \cup {b} /\ b \notin live /\ b \in Block
      /\ ptr' = [ptr EXCEPT ![p] = Entry(b)] /\ ptr \in [Ptr -> Loc]
  BY <1>4 DEF Installs, Inv, TypeOK
<1>6. ptr'[p] = Entry(b) /\ \A q \in Ptr \ {p} : ptr'[q] = ptr[q]
  BY <1>5
<1>7. EachHasPtr'
  <2> SUFFICES ASSUME NEW x \in live' PROVE \E q \in Ptr : ptr'[q] = Entry(x)
    BY DEF EachHasPtr
  <2>1. CASE x = b
    BY <1>6, <2>1
  <2>2. CASE x \in live
    <3>1. PICK q \in Ptr : ptr[q] = Entry(x)
      BY <2>2 DEF EachHasPtr
    <3>2. q # p
      BY <2>2, <3>1 DEF Hooked
    <3> QED BY <1>6, <3>1, <3>2
  <2> QED BY <1>5, <2>1, <2>2
<1>8. ASSUME NEW q \in Ptr, Hooked(q)', q # p PROVE Hooked(q)
  <2>1. PICK x \in live' : ptr'[q] = Entry(x)
    BY <1>8 DEF Hooked
  <2>2. ptr[q] = Entry(x)
    BY <1>6, <1>8, <2>1
  <2>3. x \in live
    BY <2>2, LocFacts DEF Stack, PtrKnown
  <2> QED BY <2>2, <2>3 DEF Hooked
<1> QED BY <1>3, <1>7, <1>8

(* Taking a pointer's hook off leaves it unhooked: its trampoline was not  *)
(* on another one, as that one would be some pointer's too.                *)
LEMMA UnsetOne ==
  ASSUME Loads, OwnHooks, Inv, Stack, AloneApart, EachHasPtr, NEW p \in Ptr, Unhook(p)
  PROVE  /\ Inv' /\ Stack' /\ AloneApart' /\ EachHasPtr'
         /\ ~Hooked(p)' /\ \A q \in Ptr : Hooked(q)' => Hooked(q)
<1>1. [Next]_vars
  BY DEF Next
<1>2. Inv' /\ Stack' /\ AloneApart'
  BY <1>1, UnhookInv, StackStep, ApartStep
<1>3. PICK b \in live : Removes(p, b)
  BY UnhookStep
<1>4. /\ ptr[p] = Entry(b) /\ live' = live \ {b}
      /\ ptr' = [ptr EXCEPT ![p] = tramp[b].sys] /\ ptr \in [Ptr -> Loc]
  BY <1>3 DEF Removes, Inv, TypeOK
<1>5. ptr'[p] = tramp[b].sys /\ \A q \in Ptr \ {p} : ptr'[q] = ptr[q]
  BY <1>4
<1>6. EachHasPtr'
  <2> SUFFICES ASSUME NEW x \in live' PROVE \E q \in Ptr : ptr'[q] = Entry(x)
    BY DEF EachHasPtr
  <2>1. PICK q \in Ptr : ptr[q] = Entry(x)
    BY <1>4 DEF EachHasPtr
  <2>2. q # p
    BY <1>4, <2>1, LocFacts
  <2> QED BY <1>5, <2>1, <2>2
<1>7. ~Hooked(p)'
  <2> SUFFICES ASSUME NEW x \in live', ptr'[p] = Entry(x) PROVE FALSE
    BY DEF Hooked
  <2>1. PICK q \in Ptr : ptr[q] = Entry(x)
    BY <1>4 DEF EachHasPtr
  <2>2. OnTop(x)
    BY <1>4, <2>1 DEF Stack, PtrOnTop
  <2> QED BY <1>4, <1>5, <2>2 DEF OnTop
<1>8. ASSUME NEW q \in Ptr, Hooked(q)' PROVE Hooked(q)
  <2>1. q # p
    BY <1>7, <1>8
  <2>2. PICK x \in live' : ptr'[q] = Entry(x)
    BY <1>8 DEF Hooked
  <2> QED BY <1>4, <1>5, <2>1, <2>2 DEF Hooked
<1> QED BY <1>2, <1>6, <1>7, <1>8

(* Mapping the DLL when nothing is hooked: the code is what it was.        *)
LEMMA LoadAnew ==
  ASSUME Loads, OwnHooks, Inv, Stack, AloneApart, live = {}, NEW t \in Thread, Load(t)
  PROVE  Inv' /\ Stack' /\ AloneApart' /\ live' = {}
<1>1. /\ tramp' = [b \in {} |-> Blank] /\ leaked' = leaked
      /\ ptr' = [p \in Ptr |-> Fn(PtrInit[p])]
      /\ code' = [l \in Loc |-> IF l[1] = "fn" /\ InDll(l[2]) THEN Image(l[2]) ELSE code[l]]
  BY DEF Load
<1>2. live' = {}
  BY <1>1 DEF live
<1>3. code' = code
  <2>1. \A l \in Loc : l[1] = "fn" => l[2] \in Routine /\ l = Fn(l[2])
    BY DEF Loc, Fn
  <2>2. \A r \in Routine : code[Fn(r)] = Image(r)
    BY DEF Inv, Conservation
  <2>3. \A l \in Loc : l[1] = "fn" => Image(l[2]) = code[l]
    BY <2>1, <2>2
  <2>4. code \in [Loc -> Content]
    BY DEF Inv, TypeOK
  <2> QED BY <1>1, <2>3, <2>4
<1>4. Inv'
  <2>1. ptr' \in [Ptr -> Loc]
    BY <1>1, LocFacts, HookApiAssumption
  <2>2. Cardinality(live) <= MaxHooks
    BY DEF Inv, TypeOK
  <2>3. TypeOK'
    <3>1. tramp' \in [live' -> Trampoline]
      BY <1>1, <1>2
    <3> QED BY <1>1, <1>2, <1>3, <2>1, <2>2, <3>1 DEF Inv, TypeOK
  <2>4. FreeBlock' = FreeBlock
    BY <1>1, <1>2 DEF FreeBlock
  <2>5. Conservation' /\ StubsJump' /\ FreshBlank'
    BY <1>2, <1>3, <2>4 DEF Inv, Conservation, StubsJump, FreshBlank
  <2> QED
    BY <1>2, <2>3, <2>5 DEF Inv, HookInPlace, OneTrampolinePerFunction, SavedOK, SysKnown
<1>5. Stack'
  <2>1. PtrKnown'
    BY <1>1, HookApiAssumption DEF PtrKnown
  <2>2. FreeBlock' = FreeBlock
    BY <1>1, <1>2 DEF FreeBlock
  <2>3. GivenUp' /\ NoJumpBack' /\ StubLeadsOn' /\ FreshStub'
    BY <1>1, <1>3, <2>2 DEF Stack, GivenUp, NoJumpBack, StubLeadsOn, FreshStub
  <2> QED
    BY <1>2, <2>1, <2>3
    DEF Stack, SysLive, PtrOnTop, PtrOwn, TopClean, SameBytes, NoRing, StubOfHook, HookIsFn
<1>6. AloneApart'
  <2> SUFFICES ASSUME NEW p \in Ptr, Alone(p) PROVE Apart(p)'
    BY DEF AloneApart, Alone, Target
  <2>1. live' = {} /\ Owned(p)' = {}
    BY <1>2 DEF Owned
  <2>2. OwnPtr(p)' /\ OthersAway(p)'
    BY <1>1, <2>1, AloneFacts DEF OwnPtr, OthersAway, AwayFn, Leads, HookFns, Target
  <2> QED BY <2>1, <2>2 DEF Apart, OwnedIsOn, HooksClean, OwnBytes
<1> QED BY <1>2, <1>4, <1>5, <1>6

LEMMA CleanInit ==
  ASSUME Loads, OwnHooks, DllInit
  PROVE  Clean
<1>1. Init /\ live = {} /\ \A p : ~Hooked(p)
  BY DEF DllInit, Init, live, Hooked
<1>2. Inv /\ Stack /\ AloneApart
  BY <1>1, InitInv, InitStack, InitApart DEF AloneApart
<1>3. \A t \in Thread : Progress(t)
  BY <1>1 DEF Progress
<1> QED BY <1>1, <1>2, <1>3 DEF Clean, EachHasPtr, HookedWhere

(* A step that neither hooks nor unhooks.                                  *)
LEMMA CleanMove ==
  ASSUME Ctl, Clean, UNCHANGED <<vars, excluded, mapped>>, NEW t \in Thread, NEW p \in Place,
         Goes(t, p), dllMain' \in {dllMain, {t}, {}}, Progress(t)'
  PROVE  Clean'
<1>1. /\ Inv' /\ Stack' /\ AloneApart' /\ EachHasPtr' /\ live' = live
      /\ \A q : Hooked(q)' <=> Hooked(q)
  BY VarsStay DEF Clean
<1>2. ASSUME NEW u \in Thread \ {t} PROVE Progress(u)'
  <2>1. at'[u] = at[u] /\ Step(u)' = Step(u) /\ Progress(u)
    BY GoesTo DEF Clean
  <2>2. dllMain' = {u} => dllMain = {u}
    OBVIOUS
  <2> QED BY <1>1, <2>1, <2>2 DEF Progress
<1>3. HookedWhere'
  BY <1>1 DEF Clean, HookedWhere, InOrder
<1> QED BY <1>1, <1>2, <1>3 DEF Clean

LEMMA CleanStep ==
  ASSUME Loads, OwnHooks, Ctl, Ctl', Clean, ~kept', [DllNext]_dllVars
  PROVE  Clean'
<1>1. CASE UNCHANGED dllVars
  <2>1. /\ Inv' /\ Stack' /\ AloneApart' /\ EachHasPtr' /\ live' = live
        /\ \A q : Hooked(q)' <=> Hooked(q)
    BY <1>1, VarsStay DEF Clean, dllVars
  <2>2. \A u \in Thread : Progress(u)'
    BY <1>1, <2>1 DEF dllVars, Clean, Progress, Step
  <2>3. HookedWhere'
    BY <1>1, <2>1 DEF dllVars, Clean, HookedWhere, InOrder
  <2> QED BY <2>1, <2>2, <2>3 DEF Clean
<1> SUFFICES ASSUME NEW t \in Thread,
                    \/ Load(t) \/ GefApiCBTProc(t) \/ Update(t) \/ HookApi(t) \/ SetNext(t)
                    \/ HookApiReturns(t) \/ Store(t) \/ Detach(t) \/ UnsetNext(t) \/ Unmap(t)
                    \/ \E p \in Ptr : StartDoc(t, p)
                    \/ HookReturns(t)
             PROVE  Clean'
  BY <1>1 DEF DllNext
<1>2. at[t] \in Place /\ Steps(t) /\ Steps(t)' /\ Progress(t)
  BY DEF Ctl, Clean
<1>3. CASE Load(t)
  <2>1. /\ Goes(t, <<"update", 0>>) /\ ~mapped
        /\ \A u \in Thread : Step(u) \in {"idle", "hook"}
    BY <1>3 DEF Load, Attach, Unoccupied
  <2>2. \A p \in Ptr : ~Hooked(p)
    BY <2>1 DEF Clean, HookedWhere
  <2>3. live = {}
    BY <2>2 DEF Clean, EachHasPtr, Hooked
  <2>4. Inv' /\ Stack' /\ AloneApart' /\ live' = {}
    BY <1>3, <2>3, LoadAnew DEF Clean
  <2>5. \A p \in Ptr : ~Hooked(p)'
    BY <2>4 DEF Hooked
  <2>6. ASSUME NEW u \in Thread PROVE Step(u)' \in {"update", "idle", "hook"}
    BY <2>1, GoesTo, PlaceFacts
  <2>7. \A u \in Thread : Progress(u)'
    BY <2>4, <2>6 DEF Progress
  <2> QED BY <2>4, <2>5, <2>7 DEF Clean, EachHasPtr, HookedWhere
<1>4. CASE GefApiCBTProc(t)
  <2>1. /\ Goes(t, <<"update", 0>>) /\ UNCHANGED <<vars, excluded, mapped>>
        /\ dllMain' = {} /\ dllMain = {}
    BY <1>4 DEF GefApiCBTProc
  <2>2. Step(t)' = "update"
    BY <2>1, GoesTo, PlaceFacts
  <2>3. Progress(t)'
    BY <2>1, <2>2 DEF Progress
  <2> QED BY <2>1, <2>3, CleanMove, PlaceFacts
<1>5. CASE Update(t)
  <2>1. /\ Goes(t, IF bHooked THEN <<"store", TRUE>> ELSE <<"HookApi", 0>>)
        /\ UNCHANGED <<vars, excluded, mapped, dllMain>> /\ Step(t) = "update"
    BY <1>5 DEF Update
  <2>2. PICK p \in Place : Goes(t, p) /\ p[1] \in {"store", "HookApi"}
    BY <2>1, PlaceFacts
  <2>3. Step(t)' \in {"store", "HookApi"}
    BY <2>2, GoesTo
  <2>4. live' = live
    BY <2>1 DEF vars, live
  <2>5. Progress(t)'
    BY <1>2, <2>1, <2>3, <2>4 DEF Progress
  <2> QED BY <2>1, <2>2, <2>5, CleanMove
<1>6. CASE HookApi(t)
  <2>1. /\ \/ Goes(t, <<"store", TRUE>>) \/ Goes(t, <<"set", 1>>) \/ Goes(t, <<"store", FALSE>>)
        /\ UNCHANGED <<vars, excluded, mapped, dllMain>> /\ Step(t) = "HookApi"
    BY <1>6 DEF HookApi
  <2>2. <<"set", 1>> \in Place
    <3>1. 1 \in 1 .. Len(Order) + 1
      BY PlaceFacts
    <3> QED BY <3>1, PlaceFacts
  <2>3. PICK p \in Place : Goes(t, p) /\ p[1] \in {"store", "set"}
    BY <2>1, <2>2, PlaceFacts
  <2>4. Step(t)' \in {"store", "set"}
    BY <2>3, GoesTo
  <2>5. Step(t)' = "set" => live = {}
    BY <1>2, <2>1 DEF Steps, Progress
  <2>6. Step(t)' = "set" => \A q : ~Hooked(q)'
    BY <2>1, <2>5 DEF Hooked, vars, live
  <2>7. Progress(t)'
    BY <2>4, <2>6 DEF Progress
  <2> QED BY <2>1, <2>3, <2>7, CleanMove
<1>7. CASE SetNext(t)
  <2>1. PICK k : k = at[t][2]
    OBVIOUS
  <2>2. /\ Step(t) = "set" /\ Goes(t, <<"set", k + 1>>) /\ k <= Len(Order)
        /\ SetHook(Order[k], Gef[Order[k]]) \/ UNCHANGED vars
        /\ UNCHANGED <<excluded, mapped, dllMain>>
    BY <1>7, <2>1 DEF SetNext
  <2>3. /\ k \in 1 .. Len(Order) + 1 /\ k \in DOMAIN Order /\ k + 1 \in 1 .. Len(Order) + 1
        /\ Order[k] \in Ptr /\ <<"set", k + 1>> \in Place
    <3>1. k \in 1 .. Len(Order) + 1 /\ k \in DOMAIN Order
      BY <1>2, <2>1, <2>2, CallFacts, PlaceFacts DEF Step
    <3>2. k + 1 \in 1 .. Len(Order) + 1
      BY <2>2, <3>1, PlaceFacts
    <3> QED BY <3>1, <3>2, PlaceFacts
  <2>4. at'[t] = <<"set", k + 1>> /\ Step(t)' = "set"
    BY <2>2, <2>3, GoesTo
  <2>5. \A j \in DOMAIN Order : j >= k => ~Hooked(Order[j])
    BY <1>2, <2>1, <2>2 DEF Progress
  <2>6. CASE UNCHANGED vars
    <3>1. \A q : Hooked(q)' <=> Hooked(q)
      BY <2>6, VarsStay DEF Clean
    <3>2. \A j \in DOMAIN Order : j >= k + 1 => j >= k
      BY <2>3, PlaceFacts
    <3>3. Progress(t)'
      BY <2>4, <2>5, <3>1, <3>2 DEF Progress
    <3> QED BY <2>2, <2>3, <2>6, <3>3, CleanMove
  <2>7. CASE SetHook(Order[k], Gef[Order[k]])
    <3>1. k >= k
      BY <2>3
    <3>2. ~Hooked(Order[k])
      BY <2>3, <2>5, <3>1
    <3>3. /\ Inv' /\ Stack' /\ AloneApart' /\ EachHasPtr'
          /\ \A q \in Ptr : Hooked(q)' => q = Order[k] \/ Hooked(q)
      BY <2>3, <2>7, <3>2, SetOne DEF Clean
    <3>4. mapped /\ ~excluded /\ dllMain = {t}
      BY <1>2, <2>2 DEF Steps
    <3>5. HookedWhere'
      BY <2>2, <2>3, <3>3, <3>4 DEF Clean, HookedWhere, InOrder
    <3>6. ASSUME NEW j \in DOMAIN Order, j >= k + 1 PROVE ~Hooked(Order[j])'
      <4>1. Order[j] # Order[k] /\ j >= k /\ Order[j] \in Ptr
        BY <2>3, <3>6, PlaceFacts, HookDllAssumption
      <4> QED BY <2>5, <3>3, <4>1
    <3>7. Progress(t)'
      BY <2>4, <3>6 DEF Progress
    <3>8. ASSUME NEW u \in Thread \ {t} PROVE Progress(u)'
      <4>1. Step(u)' = Step(u) /\ Steps(u)
        BY <2>2, <2>3, GoesTo DEF Ctl
      <4> QED BY <2>2, <3>4, <4>1 DEF Steps, Progress
    <3> QED BY <3>3, <3>5, <3>7, <3>8 DEF Clean
  <2> QED BY <2>2, <2>6, <2>7
<1>8. CASE HookApiReturns(t) \/ Store(t) \/ (\E p \in Ptr : StartDoc(t, p)) \/ HookReturns(t)
  <2>1. /\ UNCHANGED <<vars, excluded, mapped>> /\ dllMain' \in {dllMain, {}}
        /\ \/ at' = at /\ dllMain' = dllMain
           \/ Goes(t, <<"store", TRUE>>)
           \/ Goes(t, <<"hook", 0>>)
           \/ Goes(t, Idle)
    BY <1>8 DEF HookApiReturns, Store, StartDoc, HookReturns
  <2>2. CASE at' = at /\ dllMain' = dllMain
    <3>1. /\ Inv' /\ Stack' /\ AloneApart' /\ EachHasPtr' /\ live' = live
          /\ \A q : Hooked(q)' <=> Hooked(q)
      BY <2>1, VarsStay DEF Clean
    <3>2. \A u \in Thread : Progress(u)'
      BY <2>2, <3>1 DEF Clean, Progress, Step
    <3>3. HookedWhere'
      BY <2>1, <3>1 DEF Clean, HookedWhere, InOrder
    <3> QED BY <3>1, <3>2, <3>3 DEF Clean
  <2>3. CASE \E p \in Place : Goes(t, p) /\ p[1] \in {"store", "hook", "idle"}
    <3>1. PICK p \in Place : Goes(t, p) /\ p[1] \in {"store", "hook", "idle"}
      BY <2>3
    <3>2. Step(t)' \in {"store", "hook", "idle"}
      BY <3>1, GoesTo
    <3>3. Progress(t)'
      BY <3>2 DEF Progress
    <3> QED BY <2>1, <3>1, <3>3, CleanMove
  <2> QED BY <2>1, <2>2, <2>3, PlaceFacts DEF Idle
<1>9. CASE Detach(t)
  <2>1. Goes(t, <<"unset", 1>>) /\ dllMain' = {t} /\ UNCHANGED <<vars, excluded, mapped>>
    BY <1>9 DEF Detach
  <2>2. <<"unset", 1>> \in Place
    <3>1. 1 \in 1 .. Len(Order) + 1
      BY PlaceFacts
    <3> QED BY <3>1, PlaceFacts
  <2>3. at'[t] = <<"unset", 1>> /\ Step(t)' = "unset"
    BY <2>1, <2>2, GoesTo
  <2>4. \A j \in DOMAIN Order : ~(j < 1)
    BY PlaceFacts
  <2>5. Progress(t)'
    BY <2>3, <2>4 DEF Progress
  <2> QED BY <2>1, <2>2, <2>5, CleanMove
<1>10. CASE UnsetNext(t)
  <2>1. PICK k : k = at[t][2]
    OBVIOUS
  <2>2. /\ Step(t) = "unset" /\ Goes(t, <<"unset", k + 1>>) /\ k <= Len(Order)
        /\ \/ Unhook(Order[k])
           \/ UNCHANGED vars /\ ~Hooked(Order[k])
        /\ UNCHANGED <<excluded, mapped, dllMain>>
    BY <1>10, <2>1 DEF UnsetNext, UnHookCount
  <2>3. /\ k \in 1 .. Len(Order) + 1 /\ k \in DOMAIN Order /\ k + 1 \in 1 .. Len(Order) + 1
        /\ Order[k] \in Ptr /\ <<"unset", k + 1>> \in Place
    <3>1. k \in 1 .. Len(Order) + 1 /\ k \in DOMAIN Order
      BY <1>2, <2>1, <2>2, CallFacts, PlaceFacts DEF Step
    <3>2. k + 1 \in 1 .. Len(Order) + 1
      BY <2>2, <3>1, PlaceFacts
    <3> QED BY <3>1, <3>2, PlaceFacts
  <2>4. at'[t] = <<"unset", k + 1>> /\ Step(t)' = "unset"
    BY <2>2, <2>3, GoesTo
  <2>5. \A j \in DOMAIN Order : j < k => ~Hooked(Order[j])
    BY <1>2, <2>1, <2>2 DEF Progress
  <2>6. \A j \in DOMAIN Order : j < k + 1 => j < k \/ j = k
    BY <2>3, PlaceFacts
  <2>7. CASE UNCHANGED vars /\ ~Hooked(Order[k])
    <3>1. \A q : Hooked(q)' <=> Hooked(q)
      BY <2>7, VarsStay DEF Clean
    <3>2. Progress(t)'
      BY <2>4, <2>5, <2>6, <2>7, <3>1 DEF Progress
    <3> QED BY <2>2, <2>3, <2>7, <3>2, CleanMove
  <2>8. CASE Unhook(Order[k])
    <3>1. /\ Inv' /\ Stack' /\ AloneApart' /\ EachHasPtr'
          /\ ~Hooked(Order[k])' /\ \A q \in Ptr : Hooked(q)' => Hooked(q)
      BY <2>3, <2>8, UnsetOne DEF Clean
    <3>2. dllMain = {t}
      BY <1>2, <2>2 DEF Steps
    <3>3. HookedWhere'
      BY <2>2, <3>1 DEF Clean, HookedWhere, InOrder
    <3>4. ASSUME NEW j \in DOMAIN Order, j < k + 1 PROVE ~Hooked(Order[j])'
      <4>1. CASE j = k
        BY <3>1, <4>1
      <4>2. CASE j # k
        BY <2>5, <2>6, <3>1, <3>4, <4>2, PlaceFacts
      <4> QED BY <4>1, <4>2
    <3>5. Progress(t)'
      BY <2>4, <3>4 DEF Progress
    <3>6. ASSUME NEW u \in Thread \ {t} PROVE Progress(u)'
      <4>1. Step(u)' = Step(u) /\ Steps(u)
        BY <2>2, <2>3, GoesTo DEF Ctl
      <4> QED BY <2>2, <3>2, <4>1 DEF Steps, Progress
    <3> QED BY <3>1, <3>3, <3>5, <3>6 DEF Clean
  <2> QED BY <2>2, <2>7, <2>8
<1>11. CASE Unmap(t)
  <2>1. /\ at[t] = <<"unset", Len(Order) + 1>> /\ Goes(t, Idle) /\ dllMain' = {}
        /\ UNCHANGED <<vars, excluded>>
    BY <1>11 DEF Unmap, UnHookCount
  <2>2. \A j \in DOMAIN Order : ~Hooked(Order[j])
    <3>1. \A j \in DOMAIN Order : j < Len(Order) + 1
      BY PlaceFacts
    <3> QED BY <1>2, <2>1, <3>1 DEF Progress, Step
  <2>3. \A p \in Ptr : ~Hooked(p)
    BY <2>2 DEF Clean, HookedWhere, InOrder
  <2>4. /\ Inv' /\ Stack' /\ AloneApart' /\ EachHasPtr'
        /\ \A q : Hooked(q)' <=> Hooked(q)
    BY <2>1, VarsStay DEF Clean
  <2>5. ASSUME NEW u \in Thread PROVE Progress(u)'
    <3>1. u # t => Step(u)' = Step(u) /\ Steps(u)
      BY <2>1, GoesTo, PlaceFacts DEF Ctl
    <3>2. Step(t)' = "idle" /\ dllMain = {t}
      BY <1>2, <2>1, GoesTo, PlaceFacts DEF Steps, Step, Idle
    <3> QED BY <2>1, <3>1, <3>2 DEF Steps, Progress
  <2> QED BY <2>3, <2>4, <2>5 DEF Clean, HookedWhere
<1> QED
  BY <1>3, <1>4, <1>5, <1>6, <1>7, <1>8, <1>9, <1>10, <1>11
--------------------------------------------------------------------------
(* Where a call of a function comes to as long as no Unhook has failed.    *)
LEMMA CallsArrive ==
  ASSUME Loads, OwnHooks, AllAlone, Clean, NEW p \in Ptr
  PROVE  /\ Runs(code, Fn(PtrInit[p])) = Body(IF Hooked(p) THEN Gef[p] ELSE Target(p)[2])
         /\ Lands(code, Reached(p)) /\ (InDll(code[Reached(p)][2]) => Hooked(p))
<1>1. Alone(p) /\ HooksOf[p] = {Gef[p]}
  BY HookDllAssumption DEF AllAlone
<1>2. Runs(code, Fn(PtrInit[p])) \in
        (IF Hooked(p) THEN {Body(h) : h \in HooksOf[p]} ELSE {Body(Target(p)[2])})
  BY <1>1, CallsLead DEF Clean, HookedExactly
<1>3. Runs(code, Fn(PtrInit[p])) = Body(IF Hooked(p) THEN Gef[p] ELSE Target(p)[2])
  BY <1>1, <1>2
<1>4. code[Reached(p)] = Body(IF Hooked(p) THEN Gef[p] ELSE Target(p)[2])
  BY <1>3 DEF Reached, Runs
<1>5. Lands(code, Reached(p))
  <2>1. Fn(PtrInit[p]) \in Loc
    BY HookApiAssumption, LocFacts
  <2>2. Reached(p) \in Loc
    BY <2>1, SkipJumpsType DEF Clean, Inv, TypeOK, Reached
  <2> QED BY <1>4, <2>2 DEF Lands, Body, IsJmp
<1>6. ASSUME InDll(code[Reached(p)][2]), ~Hooked(p) PROVE FALSE
  <2>1. PICK q \in Ptr : Target(p)[2] = Gef[q]
    BY <1>4, <1>6 DEF InDll, Body
  <2>2. PICK r \in Routine : Target(p) = Fn(r)
    BY <1>1, AloneFacts
  <2>3. Target(p) = Fn(Gef[q])
    BY <2>1, <2>2 DEF Fn
  <2>4. Fn(Gef[q]) \in HookFns(q)
    BY HookDllAssumption DEF HookFns
  <2>5. Target(p) \notin HookFns(q)
    BY DEF OwnHooks, AllAlone
  <2> QED BY <2>3, <2>4, <2>5
<1> QED BY <1>3, <1>5, <1>6

LEMMA OutsideStep ==
  ASSUME Loads, OwnHooks, AllAlone, DllInv, [DllNext]_dllVars
  PROVE  Outside'
<1>1. CASE UNCHANGED dllVars
  BY <1>1 DEF dllVars, DllInv, Outside, CrashCause, Step
<1> SUFFICES ASSUME NEW t \in Thread,
                    \/ Load(t) \/ GefApiCBTProc(t) \/ Update(t) \/ HookApi(t) \/ SetNext(t)
                    \/ HookApiReturns(t) \/ Store(t) \/ Detach(t) \/ UnsetNext(t) \/ Unmap(t)
                    \/ \E p \in Ptr : StartDoc(t, p)
                    \/ HookReturns(t),
                    ~kept', ~inside'
             PROVE  ~crashed' /\ (~mapped' => \A u \in Thread : Step(u)' # "hook")
  BY <1>1 DEF DllNext, Outside, CrashCause
<1>2. at \in [Thread -> Place]
  BY DEF DllInv, Ctl
<1>3. CASE \/ Load(t) \/ GefApiCBTProc(t) \/ Update(t) \/ HookApi(t) \/ SetNext(t)
           \/ HookApiReturns(t) \/ Store(t) \/ Detach(t) \/ UnsetNext(t)
  <2>1. /\ ~kept /\ inside' = inside /\ crashed' = crashed /\ (~mapped' => ~mapped)
        /\ \E p : Goes(t, p) /\ p[1] # "hook"
    <3>1. CASE Load(t)
      BY <3>1 DEF Load, Attach
    <3>2. CASE GefApiCBTProc(t) \/ Update(t) \/ HookApi(t)
      BY <3>2 DEF GefApiCBTProc, Update, HookApi
    <3>3. CASE SetNext(t) \/ HookApiReturns(t) \/ Store(t) \/ Detach(t)
      BY <3>3 DEF SetNext, HookApiReturns, Store, Detach, Idle
    <3>4. CASE UnsetNext(t)
      <4>1. ~kept
        BY <3>4, Zenon DEF UnsetNext
      <4>2. /\ inside' = inside /\ crashed' = crashed /\ mapped' = mapped
            /\ Goes(t, <<"unset", at[t][2] + 1>>)
        BY <3>4 DEF UnsetNext
      <4> QED BY <4>1, <4>2
    <3> QED BY <1>3, <3>1, <3>2, <3>3, <3>4
  <2>2. \A u \in Thread : Step(u)' = "hook" => Step(u) = "hook"
    BY <1>2, <2>1 DEF Goes, Step
  <2> QED BY <2>1, <2>2 DEF DllInv, Outside, CrashCause
<1>4. CASE Unmap(t)
  <2>1. /\ ~kept /\ ~inside /\ crashed' = crashed /\ Goes(t, Idle)
        /\ \A u \in Thread : Step(u) # "hook"
    BY <1>4 DEF Unmap
  <2>2. \A u \in Thread : Step(u)' # "hook"
    BY <1>2, <2>1 DEF Goes, Step, Idle
  <2> QED BY <2>1, <2>2 DEF DllInv, Outside, CrashCause
<1>5. ASSUME NEW p \in Ptr, StartDoc(t, p)
      PROVE  ~crashed' /\ (~mapped' => \A u \in Thread : Step(u)' # "hook")
  <2>1. /\ ~kept /\ ~inside /\ mapped' = mapped
        /\ ~Lands(code, Reached(p)) \/ InDll(code[Reached(p)][2])
    BY <1>5 DEF StartDoc
  <2>2. Lands(code, Reached(p)) /\ Hooked(p)
    BY <2>1, CallsArrive DEF DllInv
  <2>3. mapped
    BY <2>1, <2>2 DEF DllInv, Clean, HookedWhere
  <2>4. crashed' = crashed
    BY <1>5, <2>2, <2>3 DEF StartDoc
  <2> QED BY <2>1, <2>3, <2>4 DEF DllInv, Outside, CrashCause
<1>6. CASE HookReturns(t)
  <2>1. /\ ~kept /\ ~inside /\ mapped' = mapped /\ Step(t) = "hook" /\ Goes(t, Idle)
        /\ crashed' = (crashed \/ ~mapped)
    BY <1>6 DEF HookReturns
  <2>2. mapped /\ ~crashed
    BY <2>1 DEF DllInv, Outside, CrashCause
  <2> QED BY <2>1, <2>2
<1> QED BY <1>3, <1>4, <1>5, <1>6

(* The state of the DLL at every step, whatever the functions are.         *)
THEOREM DllControl == DllSpec => []Ctl
BY CtlInit, CtlStep, PTL DEF DllSpec

(* With functions and hooks that nobody else uses, the whole strengthening *)
(* holds always.                                                           *)
THEOREM DllInvariance ==
  ASSUME Loads, OwnHooks, AllAlone
  PROVE  DllSpec => []DllInv
<1>1. DllInit => DllInv
  <2>1. DllInit => Outside
    BY DEF DllInit, Outside, CrashCause, Step, Idle
  <2> QED BY <2>1, CtlInit, CleanInit DEF DllInv
<1>2. DllInv /\ [DllNext]_dllVars => DllInv'
  <2> SUFFICES ASSUME DllInv, [DllNext]_dllVars PROVE DllInv'
    OBVIOUS
  <2>1. Ctl'
    BY CtlStep DEF DllInv
  <2>2. ~kept' => ~kept
    BY DEF DllNext, dllVars, Load, GefApiCBTProc, Update, HookApi, SetNext, HookApiReturns,
           Store, Detach, UnsetNext, Unmap, StartDoc, HookReturns
  <2>3. ~kept' => Clean'
    BY <2>1, <2>2, CleanStep DEF DllInv
  <2> QED BY <2>1, <2>3, OutsideStep DEF DllInv
<1> QED BY <1>1, <1>2, PTL DEF DllSpec
--------------------------------------------------------------------------
(* Only DllMain ever hooks: the callbacks find bHooked TRUE, or the        *)
(* program excluded, so two threads are never hooking at once.             *)
THEOREM CallbacksFindItHooked == DllSpec => []CallbacksNeverHook
<1>1. Ctl => CallbacksNeverHook
  BY DEF Ctl, Steps, CallbacksNeverHook
<1> QED BY <1>1, DllControl, PTL

(* As long as no Unhook has failed, a call of StartDocA or StartDocW runs  *)
(* the DLL's function while it is hooked and the system's else, however    *)
(* often the DLL came and went.                                            *)
THEOREM PrintingIsBlocked ==
  ASSUME Loads, OwnHooks, AllAlone
  PROVE  DllSpec => []BlockedWhileHooked
<1>1. DllInv => BlockedWhileHooked
  <2> SUFFICES ASSUME Clean, NEW p \in Ptr
               PROVE  LET hooked == mapped /\ Hooked(p)
                      IN  /\ Runs(code, Fn(PtrInit[p])) =
                               Body(IF hooked THEN Gef[p] ELSE Target(p)[2])
                          /\ hooked => ~excluded
    BY DEF DllInv, BlockedWhileHooked
  <2>1. Hooked(p) => mapped /\ ~excluded
    BY DEF Clean, HookedWhere
  <2> QED BY <2>1, CallsArrive
<1> QED BY <1>1, DllInvariance, PTL

(* A thread runs into code that is gone only after a failed Unhook or if   *)
(* it was in a hook function when the DLL went.                            *)
THEOREM CrashesHaveACause ==
  ASSUME Loads, OwnHooks, AllAlone
  PROVE  DllSpec => []CrashCause
<1>1. DllInv => CrashCause
  BY DEF DllInv, Outside
<1> QED BY <1>1, DllInvariance, PTL
==========================================================================
