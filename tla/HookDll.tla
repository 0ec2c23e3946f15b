----------------------------- MODULE HookDll -----------------------------
(***************************************************************************)
(* mhook_demo_dll in one process: the DLL that blocks printing by hooking  *)
(* StartDocA and StartDocW (dllmain.cpp, mhook_demo_dll.cpp), on top of    *)
(* what mhook promises (HookApi).  The system maps the DLL when the        *)
(* process gets a window event the installer's global CBT hook asks for    *)
(* (mhook_demo.cpp), calls GefApiCBTProc for these events on any thread,   *)
(* and unmaps the DLL when the installer is gone; the process may get it   *)
(* again from another installer.                                           *)
(*                                                                         *)
(* External: the loader lock (nothing of the DLL is called before its      *)
(* DllMain has returned, and a callback under way keeps it mapped), and    *)
(* that the DLL is mapped at the same address each time.  A call of mhook  *)
(* that fails changes nothing, whatever the reason.  GefStartDocA and      *)
(* GefStartDocW never call the original, as IsPermitPrint is always FALSE. *)
(***************************************************************************)
EXTENDS HookApi, Sequences

CONSTANTS
  Thread,
  Gef,        (* pointer -> GefStartDocA, GefStartDocW                     *)
  Order,      (* the pointers in the order HookApi hooks them              *)
  MaxLoads    (* bound: how often the DLL is mapped                        *)

(* Ptr are g_pfnStartDocA and g_pfnStartDocW, and PtrInit StartDocA and    *)
(* StartDocW.                                                              *)
ASSUME HookDllAssumption ==
  /\ Gef \in [Ptr -> Routine]
  /\ HooksOf = [p \in Ptr |-> {Gef[p]}]
  /\ Order \in Seq(Ptr)
  /\ \A j, k \in DOMAIN Order : Order[j] = Order[k] => j = k
  /\ MaxLoads \in Nat

VARIABLES
  bHooked,
  excluded,   (* the program is in hashSetUnhookProc                       *)
  mapped,     (* the DLL is in the process                                 *)
  loads,      (* how often it has been mapped                              *)
  dllMain,    (* the threads in DllMain: one at most, it has the loader lock *)
  at,         (* thread -> where it is, see Place                          *)
  crashed,    (* a thread ran into unmapped code or around in a circle     *)
  kept,       (* an Unhook failed and left a function hooked (history)     *)
  inside      (* the DLL was unmapped under a thread in a hook (history)   *)

dllVars == <<vars, bHooked, excluded, mapped, loads, dllMain, at, crashed, kept, inside>>

(* <<step, number>>: outside, about to update bHooked, at the beginning of *)
(* HookApi, at its k-th call or UnHookApi's, storing HookApi's answer, in  *)
(* a hook function.                                                        *)
Place == ({"idle", "update", "HookApi", "hook"} \X {0})
           \cup ({"set", "unset"} \X (1 .. Len(Order) + 1))
           \cup ({"store"} \X BOOLEAN)
Idle  == <<"idle", 0>>
Step(t) == at[t][1]
Goes(t, place) == at' = [at EXCEPT ![t] = place]
InDll(r) == \E p \in Ptr : r = Gef[p]

DllInit ==
  /\ Init
  /\ bHooked = FALSE /\ excluded \in BOOLEAN
  /\ mapped = FALSE /\ loads = 0 /\ dllMain = {}
  /\ at = [t \in Thread |-> Idle]
  /\ crashed = FALSE /\ kept = FALSE /\ inside = FALSE

----------------------------------------------------------------------------
(* Slip: DllMain leaves the hooking to the first callback.                 *)
AttachOnly(t) == dllMain' = {} /\ UNCHANGED at
(* DLL_PROCESS_ATTACH updates bHooked the way the callbacks do.            *)
Attach(t) == dllMain' = {t} /\ Goes(t, <<"update", 0>>)

Unoccupied == dllMain = {} /\ \A t \in Thread : Step(t) \in {"idle", "hook"}

(* The DLL is mapped with fresh data, its copy of mhook's table included.  *)
Load(t) ==
  /\ ~mapped /\ Unoccupied /\ at[t] = Idle
  /\ loads < MaxLoads
  /\ loads' = loads + 1 /\ mapped' = TRUE /\ bHooked' = FALSE
  /\ tramp' = [b \in {} |-> Blank]
  /\ leaked' = leaked \cup live
  /\ ptr' = [p \in Ptr |-> Fn(PtrInit[p])]
  /\ code' = [l \in Loc |-> IF l[1] = "fn" /\ InDll(l[2]) THEN Image(l[2]) ELSE code[l]]
  /\ Attach(t)
  /\ UNCHANGED <<excluded, crashed, kept, inside>>

(* HCBT_CREATEWND or HCBT_ACTIVATE; other codes change nothing.            *)
GefApiCBTProc(t) ==
  /\ mapped /\ dllMain = {} /\ at[t] = Idle
  /\ Goes(t, <<"update", 0>>)
  /\ UNCHANGED <<vars, bHooked, excluded, mapped, loads, dllMain, crashed, kept, inside>>

(* bHooked = bHooked ? bHooked : HookApi()                                 *)
Update(t) ==
  /\ Step(t) = "update"
  /\ Goes(t, IF bHooked THEN <<"store", TRUE>> ELSE <<"HookApi", 0>>)
  /\ UNCHANGED <<vars, bHooked, excluded, mapped, loads, dllMain, crashed, kept, inside>>

(* Slip: the list of excluded programs is not looked at.                   *)
IsNeedToHookAlways == TRUE
IsNeedToHook == ~excluded

HookApi(t) ==
  /\ Step(t) = "HookApi"
  /\ Goes(t, IF bHooked THEN <<"store", TRUE>>
             ELSE IF IsNeedToHook THEN <<"set", 1>> ELSE <<"store", FALSE>>)
  /\ UNCHANGED <<vars, bHooked, excluded, mapped, loads, dllMain, crashed, kept, inside>>

(* The calls of Mhook_SetHook, their results unused.                       *)
SetNext(t) ==
  LET k == at[t][2]
  IN /\ Step(t) = "set" /\ k <= Len(Order)
     /\ SetHook(Order[k], Gef[Order[k]]) \/ UNCHANGED vars
     /\ Goes(t, <<"set", k + 1>>)
     /\ UNCHANGED <<bHooked, excluded, mapped, loads, dllMain, crashed, kept, inside>>

HookApiReturns(t) ==
  /\ at[t] = <<"set", Len(Order) + 1>>
  /\ Goes(t, <<"store", TRUE>>)
  /\ UNCHANGED <<vars, bHooked, excluded, mapped, loads, dllMain, crashed, kept, inside>>

Store(t) ==
  /\ Step(t) = "store"
  /\ bHooked' = at[t][2]
  /\ dllMain' = {}
  /\ Goes(t, Idle)
  /\ UNCHANGED <<vars, excluded, mapped, loads, crashed, kept, inside>>

(* Slip: UnHookApi forgets the last function.                              *)
UnHookCountShort == Len(Order) - 1
UnHookCount == Len(Order)

(* DLL_PROCESS_DETACH: UnHookApi, then the DLL is gone.                    *)
Detach(t) ==
  /\ mapped /\ Unoccupied /\ at[t] = Idle
  /\ dllMain' = {t}
  /\ Goes(t, <<"unset", 1>>)
  /\ UNCHANGED <<vars, bHooked, excluded, mapped, loads, crashed, kept, inside>>

UnsetNext(t) ==
  LET k == at[t][2]
  IN /\ Step(t) = "unset" /\ k <= UnHookCount
     /\ \/ Unhook(Order[k]) /\ UNCHANGED kept
        \/ UNCHANGED vars /\ kept' = (kept \/ Hooked(Order[k]))
     /\ Goes(t, <<"unset", k + 1>>)
     /\ UNCHANGED <<bHooked, excluded, mapped, loads, dllMain, crashed, inside>>

Unmap(t) ==
  /\ at[t] = <<"unset", UnHookCount + 1>>
  /\ mapped' = FALSE /\ dllMain' = {}
  /\ inside' = (inside \/ \E u \in Thread : Step(u) = "hook")
  /\ Goes(t, Idle)
  /\ UNCHANGED <<vars, bHooked, excluded, loads, crashed, kept>>

----------------------------------------------------------------------------
(* A thread calls StartDocA or StartDocW: a print job begins and nothing   *)
(* here changes, or a hook function runs, or what once was one.            *)
Reached(p) == SkipJumps(code, Fn(PtrInit[p]))
StartDoc(t, p) ==
  /\ at[t] = Idle
  /\ ~Lands(code, Reached(p)) \/ InDll(code[Reached(p)][2])
  /\ IF mapped /\ Lands(code, Reached(p))
     THEN Goes(t, <<"hook", 0>>) /\ UNCHANGED crashed
     ELSE crashed' = TRUE /\ UNCHANGED at
  /\ UNCHANGED <<vars, bHooked, excluded, mapped, loads, dllMain, kept, inside>>

HookReturns(t) ==
  /\ Step(t) = "hook"
  /\ crashed' = (crashed \/ ~mapped)
  /\ Goes(t, Idle)
  /\ UNCHANGED <<vars, bHooked, excluded, mapped, loads, dllMain, kept, inside>>

DllNext ==
  \E t \in Thread :
    \/ Load(t) \/ GefApiCBTProc(t) \/ Update(t) \/ HookApi(t) \/ SetNext(t)
    \/ HookApiReturns(t) \/ Store(t) \/ Detach(t) \/ UnsetNext(t) \/ Unmap(t)
    \/ \E p \in Ptr : StartDoc(t, p)
    \/ HookReturns(t)

DllSpec == DllInit /\ [][DllNext]_dllVars

----------------------------------------------------------------------------
(***************************************************************************)
(* CallbacksNeverHook: bHooked is not protected, and two threads could be  *)
(* in HookApi at once and hook the same function twice.  They never are:   *)
(* DllMain has updated bHooked before the first callback, and what it left *)
(* FALSE stays so, because HookApi answers TRUE even when Mhook_SetHook    *)
(* failed and FALSE only in a program that is not to be hooked.            *)
(***************************************************************************)
CallbacksNeverHook == \A t \in Thread : Step(t) = "set" => dllMain = {t}

(***************************************************************************)
(* BlockedWhileHooked: as long as no Unhook has failed, printing goes to   *)
(* the DLL's function for it while the pointer is hooked and to the        *)
(* function of the system else, also when the DLL is there for the second  *)
(* time; in an excluded program it is never hooked.                        *)
(***************************************************************************)
BlockedWhileHooked ==
  ~kept =>
    \A p \in Ptr :
      LET hooked == mapped /\ Hooked(p)
      IN /\ Runs(code, Fn(PtrInit[p])) = Body(IF hooked THEN Gef[p] ELSE Target(p)[2])
         /\ hooked => ~excluded

(***************************************************************************)
(* CrashCause: unmapping the DLL costs a thread its code only if an Unhook *)
(* failed (UnHookApi ignores the result) or a thread was in a hook         *)
(* function at that time (nobody waits for it).                            *)
(***************************************************************************)
CrashCause == crashed => kept \/ inside
==========================================================================
