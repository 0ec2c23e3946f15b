------------------------------ MODULE Mhook ------------------------------
(***************************************************************************)
(* mhook.cpp: Mhook_SetHook and Mhook_Unhook as the threads of one process *)
(* run them, from the call to the return, with the lazily created lock,    *)
(* the table of trampolines and every call to the system that can fail.    *)
(* The suspension of the other threads around the overwriting is module    *)
(* Suspend; the addresses behind "near" and "far" are module JumpReach.    *)
(***************************************************************************)
EXTENDS CodeSpace

CONSTANTS
  Caller,          (* threads that call Mhook_SetHook and Mhook_Unhook     *)
  PtrsOf,          (* caller -> the function pointers it passes            *)
  Ptr,             (* the application's function-pointer variables         *)
  PtrInit,         (* pointer -> the routine it is initialised with        *)
  HooksOf,         (* pointer -> the hook routines installed through it    *)
  MaxHooks,        (* MHOOKS_MAX_SUPPORTED_HOOKS                           *)
  SerialFirstUse,  (* the first call ever returns before another is made   *)
  NULL

ASSUME MhookAssumption ==
  /\ PtrsOf \in [Caller -> SUBSET Ptr]
  /\ PtrInit \in [Ptr -> Routine]
  /\ HooksOf \in [Ptr -> SUBSET Routine]
  /\ MaxHooks \in Nat \ {0}
  /\ SerialFirstUse \in BOOLEAN
  /\ NULL \notin Block \cup Routine \cup Caller \cup Loc \cup Content

VARIABLES
  inited,   (* g_bVarsInitialized                                          *)
  owner,    (* the thread inside g_cs, or NULL                             *)
  hooks,    (* g_pHooks                                                    *)
  inUse,    (* g_nHooksInUse                                               *)
  mapped,   (* blocks VirtualAlloc gave out and VirtualFree did not take   *)
  tramp,    (* block -> the data members of the MHOOKS_TRAMPOLINE in it    *)
  code,     (* location -> the bytes that stand there                      *)
  ptr,      (* the function pointers                                       *)
  pc,       (* caller -> where it is                                       *)
  frame     (* caller -> the arguments and local variables of its call     *)

table  == <<hooks, inUse>>
memory == <<mapped, tramp, code>>
vars   == <<inited, owner, table, memory, ptr, pc, frame>>

Slot  == 1 .. MaxHooks
Zero  == [sys |-> NULL, hook |-> NULL, untouched |-> Blank]
Idle  == [op |-> NULL, p |-> NULL, h |-> NULL, sys |-> NULL, hook |-> NULL,
          blk |-> NULL, ret |-> FALSE]

Init ==
  /\ inited = FALSE
  /\ owner = NULL
  /\ hooks = [i \in Slot |-> NULL]
  /\ inUse = 0
  /\ mapped = {}
  /\ tramp = [b \in Block |-> Zero]
  /\ code = LoadedCode
  /\ ptr = [p \in Ptr |-> Fn(PtrInit[p])]
  /\ pc = [c \in Caller |-> "idle"]
  /\ frame = [c \in Caller |-> Idle]

Goto(c, from, to) == pc[c] = from /\ pc' = [pc EXCEPT ![c] = to]
Set(c, field, v)  == [frame EXCEPT ![c][field] = v]
--------------------------------------------------------------------------
(* The call.  Mhook_SetHook reads *ppSystemFunction here, ahead of the     *)
(* lock; Mhook_Unhook only passes the pointer's address on.                *)
MayCall == SerialFirstUse => inited \/ \A d \in Caller : pc[d] = "idle"

CallSetHook(c, p, h) ==
  /\ MayCall
  /\ Goto(c, "idle", "check")
  /\ frame' = [frame EXCEPT ![c] = [Idle EXCEPT !.op = "sethook", !.p = p,
                                                !.h = h, !.sys = ptr[p]]]
  /\ UNCHANGED <<inited, owner, table, memory, ptr>>

CallUnhook(c, p) ==
  /\ MayCall
  /\ Goto(c, "idle", "check")
  /\ frame' = [frame EXCEPT ![c] = [Idle EXCEPT !.op = "unhook", !.p = p]]
  /\ UNCHANGED <<inited, owner, table, memory, ptr>>

CheckInitAlways(c) ==                 (* slip: the flag is not looked at    *)
  /\ Goto(c, "check", "initcs")
  /\ UNCHANGED <<inited, owner, table, memory, ptr, frame>>

(* EnterCritSec, one step per access to shared state.                      *)
CheckInit(c) ==
  /\ Goto(c, "check", IF inited THEN "lock" ELSE "initcs")
  /\ UNCHANGED <<inited, owner, table, memory, ptr, frame>>

(* InitializeCriticalSection makes the lock free, whoever holds it.        *)
InitCs(c) ==
  /\ Goto(c, "initcs", "zero")
  /\ owner' = NULL
  /\ UNCHANGED <<inited, table, memory, ptr, frame>>

ZeroHooks(c) ==
  /\ Goto(c, "zero", "flag")
  /\ hooks' = [i \in Slot |-> NULL]
  /\ UNCHANGED <<inited, owner, inUse, memory, ptr, frame>>

SetFlag(c) ==
  /\ Goto(c, "flag", "lock")
  /\ inited' = TRUE
  /\ UNCHANGED <<owner, table, memory, ptr, frame>>

Lock(c) ==
  /\ owner = NULL
  /\ Goto(c, "lock", IF frame[c].op = "sethook" THEN "resolve" ELSE "lookup")
  /\ owner' = c
  /\ UNCHANGED <<inited, table, memory, ptr, frame>>

(* LeaveCritSec and the return to the caller.                              *)
Leave(c) ==
  /\ Goto(c, "leave", "idle")
  /\ owner' = NULL
  /\ frame' = [frame EXCEPT ![c] = Idle]
  /\ UNCHANGED <<inited, table, memory, ptr>>
--------------------------------------------------------------------------
SlotsOf(b) == {i \in Slot : hooks[i] = b}
First(S)   == CHOOSE i \in S : \A j \in S : i <= j

TrampolineFreeUncounted(b, neverUsed) ==      (* slip: g_nHooksInUse stays *)
  IF SlotsOf(b) = {} THEN UNCHANGED <<table, memory>>
  ELSE /\ hooks' = [hooks EXCEPT ![First(SlotsOf(b))] = NULL]
       /\ mapped' = IF neverUsed THEN mapped \ {b} ELSE mapped
       /\ UNCHANGED <<inUse, tramp, code>>

(* TrampolineFree: takes a block from the table and, if it was never used, *)
(* from memory.                                                            *)
TrampolineFree(b, neverUsed) ==
  IF SlotsOf(b) = {} THEN UNCHANGED <<table, memory>>
  ELSE /\ hooks' = [hooks EXCEPT ![First(SlotsOf(b))] = NULL]
       /\ inUse' = inUse - 1
       /\ mapped' = IF neverUsed THEN mapped \ {b} ELSE mapped
       /\ UNCHANGED <<tramp, code>>

ResolveReturns(c) ==         (* slip: an unsuitable function returns at once *)
  LET sys  == SkipJumps(code, frame[c].sys)
      hook == SkipJumps(code, Fn(frame[c].h))
  IN  /\ pc[c] = "resolve"
      /\ Lands(code, sys) /\ Lands(code, hook)
      /\ Goto(c, "resolve", IF Displaceable(code[sys]) THEN "alloc" ELSE "idle")
      /\ frame' = [frame EXCEPT ![c].sys = sys, ![c].hook = hook]
      /\ UNCHANGED <<inited, owner, table, memory, ptr>>

(* Follows the jumps and measures the instructions at the function's       *)
(* entry.  It hangs where the jumps form a cycle.                          *)
Resolve(c) ==
  LET sys  == SkipJumps(code, frame[c].sys)
      hook == SkipJumps(code, Fn(frame[c].h))
  IN  /\ pc[c] = "resolve"
      /\ Lands(code, sys) /\ Lands(code, hook)
      /\ Goto(c, "resolve", IF Displaceable(code[sys]) THEN "alloc" ELSE "leave")
      /\ frame' = [frame EXCEPT ![c].sys = sys, ![c].hook = hook]
      /\ UNCHANGED <<inited, owner, table, memory, ptr>>

(* TrampolineAlloc: VirtualAlloc delivers zeroed memory at b.              *)
Alloc(c, b) ==
  /\ inUse < MaxHooks
  /\ Goto(c, "alloc", "protect")
  /\ mapped' = mapped \cup {b}
  /\ tramp' = [tramp EXCEPT ![b] = Zero]
  /\ code' = [code EXCEPT ![Entry(b)] = Blank, ![Stub(b)] = Blank]
  /\ frame' = Set(c, "blk", b)
  /\ IF SlotsOf(NULL) = {} THEN UNCHANGED table
     ELSE /\ hooks' = [hooks EXCEPT ![First(SlotsOf(NULL))] = b]
          /\ inUse' = inUse + 1
  /\ UNCHANGED <<inited, owner, ptr>>

(* The table is full, or no free memory lies close enough.                 *)
AllocFails(c) ==
  /\ Goto(c, "alloc", "leave")
  /\ UNCHANGED <<inited, owner, table, memory, ptr, frame>>

ProtectSkipsBuild(c) ==      (* slip: the jump is written before its target  *)
  /\ \/ Goto(c, "protect", "patch")
     \/ Goto(c, "protect", "publish")
  /\ UNCHANGED <<inited, owner, table, memory, ptr, frame>>

(* The two VirtualProtect calls; if one fails the build is skipped.        *)
Protect(c) ==
  /\ \/ Goto(c, "protect", "build")
     \/ Goto(c, "protect", "publish")
  /\ UNCHANGED <<inited, owner, table, memory, ptr, frame>>

(* Saves the function's first instructions and builds the stub.            *)
Build(c) ==
  LET f == frame[c]
      b == f.blk
  IN  /\ Goto(c, "build", "patch")
      /\ code' = [code EXCEPT
           ![Entry(b)] = code[f.sys],
           ![Stub(b)]  = IF IsFar(code, f.sys, f.hook) THEN Jmp(f.hook) ELSE Blank]
      /\ tramp' = [tramp EXCEPT ![b].untouched = code[f.sys]]
      /\ UNCHANGED <<inited, owner, table, mapped, ptr, frame>>

(* Writes the jump over the function's entry; updates the data members.    *)
Patch(c) ==
  LET f == frame[c]
      b == f.blk
  IN  /\ Goto(c, "patch", "publish")
      /\ code' = [code EXCEPT
           ![f.sys] = Jmp(IF IsFar(code, f.sys, f.hook) THEN Stub(b) ELSE f.hook)]
      /\ tramp' = [tramp EXCEPT ![b].sys = f.sys, ![b].hook = f.hook]
      /\ UNCHANGED <<inited, owner, table, mapped, ptr, frame>>

PublishKeepsBlock(c) ==      (* slip: a failed hook is not discarded         *)
  LET f == frame[c]
  IN  /\ Goto(c, "publish", "leave")
      /\ IF tramp[f.blk].sys # NULL
         THEN /\ ptr' = [ptr EXCEPT ![f.p] = Entry(f.blk)]
              /\ frame' = Set(c, "ret", TRUE)
         ELSE UNCHANGED <<ptr, frame>>
      /\ UNCHANGED <<inited, owner, table, memory>>

PublishStale(c) ==           (* slip: pTrampoline is not reset to NULL       *)
  LET f == frame[c]
  IN  /\ Goto(c, "publish", "leave")
      /\ frame' = Set(c, "ret", TRUE)
      /\ IF tramp[f.blk].sys # NULL
         THEN /\ ptr' = [ptr EXCEPT ![f.p] = Entry(f.blk)]
              /\ UNCHANGED <<table, memory>>
         ELSE TrampolineFree(f.blk, TRUE) /\ UNCHANGED ptr
      /\ UNCHANGED <<inited, owner>>

(* Gives the application the original function, or discards the block.     *)
Publish(c) ==
  LET f == frame[c]
  IN  /\ Goto(c, "publish", "leave")
      /\ IF tramp[f.blk].sys # NULL
         THEN /\ ptr' = [ptr EXCEPT ![f.p] = Entry(f.blk)]
              /\ frame' = Set(c, "ret", TRUE)
              /\ UNCHANGED <<table, memory>>
         ELSE /\ TrampolineFree(f.blk, TRUE)
              /\ frame' = Set(c, "blk", NULL)
              /\ UNCHANGED ptr
      /\ UNCHANGED <<inited, owner>>
--------------------------------------------------------------------------
(* TrampolineGet on the pointer's value.                                   *)
Lookup(c) ==
  LET found == {i \in Slot : hooks[i] # NULL /\ Entry(hooks[i]) = ptr[frame[c].p]}
  IN  /\ Goto(c, "lookup", IF found = {} THEN "leave" ELSE "restore")
      /\ frame' = IF found = {} THEN frame ELSE Set(c, "blk", hooks[First(found)])
      /\ UNCHANGED <<inited, owner, table, memory, ptr>>

(* Puts the original bytes back.                                           *)
Restore(c) ==
  LET t == tramp[frame[c].blk]
  IN  /\ Goto(c, "restore", "giveback")
      /\ code' = [code EXCEPT ![t.sys] = t.untouched]
      /\ UNCHANGED <<inited, owner, table, mapped, tramp, ptr, frame>>

(* VirtualProtect failed.                                                  *)
RestoreFails(c) ==
  /\ Goto(c, "restore", "leave")
  /\ UNCHANGED <<inited, owner, table, memory, ptr, frame>>

GiveBack(c) ==
  LET f == frame[c]
  IN  /\ Goto(c, "giveback", "free")
      /\ ptr' = [ptr EXCEPT ![f.p] = tramp[f.blk].sys]
      /\ frame' = Set(c, "ret", TRUE)
      /\ UNCHANGED <<inited, owner, table, memory>>

FreeReally(c) ==             (* slip: Unhook gives the memory back           *)
  /\ Goto(c, "free", "leave")
  /\ TrampolineFree(frame[c].blk, TRUE)
  /\ UNCHANGED <<inited, owner, ptr, frame>>

Free(c) ==
  /\ Goto(c, "free", "leave")
  /\ TrampolineFree(frame[c].blk, FALSE)
  /\ UNCHANGED <<inited, owner, ptr, frame>>
--------------------------------------------------------------------------
Work(c) ==
  \/ CheckInit(c) \/ InitCs(c) \/ ZeroHooks(c) \/ SetFlag(c) \/ Lock(c) \/ Leave(c)
  \/ Resolve(c) \/ AllocFails(c) \/ Protect(c) \/ Build(c) \/ Patch(c) \/ Publish(c)
  \/ \E b \in Block \ mapped : Alloc(c, b)
  \/ Lookup(c) \/ Restore(c) \/ RestoreFails(c) \/ GiveBack(c) \/ Free(c)

Next ==
  \E c \in Caller :
    \/ \E p \in PtrsOf[c] : \E h \in HooksOf[p] : CallSetHook(c, p, h)
    \/ \E p \in PtrsOf[c] : CallUnhook(c, p)
    \/ Work(c)

Spec == Init /\ [][Next]_vars /\ \A c \in Caller : WF_vars(Work(c))
--------------------------------------------------------------------------
Inside(c) == pc[c] \in {"resolve", "alloc", "protect", "build", "patch", "publish",
                        "lookup", "restore", "giveback", "free", "leave"}

registered == {hooks[i] : i \in Slot} \ {NULL}
used       == {b \in mapped : tramp[b].sys # NULL}
removing   == {frame[c].blk : c \in {d \in Caller : pc[d] \in {"giveback", "free"}}}

(* At most one thread is between EnterCritSec and LeaveCritSec, and it is  *)
(* the one that holds the lock ("ensure thread-safety", mhook.cpp 668).    *)
MutualExclusion == \A c \in Caller : Inside(c) => owner = c

(* The count is the number of occupied slots and no block has two slots:   *)
(* otherwise hooks are refused although there is room, or a block is freed *)
(* that is still in the table (mhook.cpp 320-324, 354-366).                *)
SlotAccounting ==
  /\ inUse = Cardinality({i \in Slot : hooks[i] # NULL})
  /\ \A i, j \in Slot : hooks[i] = hooks[j] /\ hooks[i] # NULL => i = j
  /\ registered \subseteq mapped

(* While nobody is at work every block in memory was really used, and      *)
(* every registered one has its function patched: a failed SetHook leaves  *)
(* neither a block nor a slot behind, whichever call failed                *)
(* (mhook.cpp 756-765).                                                    *)
NothingHalfDone ==
  (\A c \in Caller : ~Inside(c)) =>
    /\ mapped = used
    /\ \A b \in registered : IsJmp(code[tramp[b].sys])

(* At every moment, the other threads run too, what the application calls  *)
(* through its pointers, and what patched code jumps to, is mapped memory  *)
(* that has been written: no dangling or half-built trampoline shows.      *)
NothingFreedIsReachable ==
  LET target(l) == l[1] # "fn" => l[2] \in mapped /\ code[l] # Blank
  IN  /\ \A p \in Ptr : target(ptr[p])
      /\ \A l \in Loc : l[1] = "fn" /\ IsJmp(code[l]) => target(code[l][2])

(* The answer is the truth: TRUE from SetHook means that the pointer leads *)
(* to a registered trampoline whose function is patched, TRUE from Unhook  *)
(* that the trampoline is out of the table and the pointer off it; FALSE   *)
(* means the opposite (mhook.cpp 773 and 812).                             *)
AnswerIsTrue ==
  \A c \in Caller : pc[c] = "leave" =>
    LET f == frame[c]
        inForce == f.blk \in registered /\ ptr[f.p] = Entry(f.blk)
                     /\ IsJmp(code[tramp[f.blk].sys])
    IN  IF f.op = "sethook" THEN f.ret <=> inForce
        ELSE f.ret <=> f.blk # NULL /\ ~inForce /\ f.blk \notin registered

(* Whoever enters the lock leaves it: no path through the two functions,   *)
(* failing or not, forgets LeaveCritSec or hangs in SkipJumps.             *)
LockIsReleased == \A c \in Caller : owner = c ~> owner # c

(* The implementation refines HookApi.  SetHook takes effect when the jump *)
(* is written, Unhook when the bytes are put back; the pointer follows     *)
(* under the lock.  Blocks not in use yet, or discarded, are blank.        *)
installed == (registered \cap used) \ removing

abstractPtr(p) ==
  LET at(c, label) == pc[c] = label /\ frame[c].p = p /\ frame[c].blk \in used
      pending  == {c \in Caller : at(c, "publish")}
      undoing  == {c \in Caller : at(c, "giveback")}
      blk(S)   == frame[CHOOSE c \in S : TRUE].blk
  IN  IF pending # {} THEN Entry(blk(pending))
      ELSE IF undoing # {} THEN tramp[blk(undoing)].sys
      ELSE ptr[p]

abstractCode   == [l \in Loc |-> IF l[1] = "fn" \/ l[2] \in used THEN code[l] ELSE Blank]
abstractTramp  == [b \in installed |-> tramp[b]]
abstractLeaked == used \ installed

Api == INSTANCE HookApi WITH
  code   <- abstractCode,
  tramp  <- abstractTramp,
  leaked <- abstractLeaked,
  ptr    <- [p \in Ptr |-> abstractPtr(p)]

(* The pointer that Mhook_SetHook reads ahead of the lock is the one it    *)
(* hooks behind it if no other thread changes the same variable.           *)
OwnPtrs == \A c, d \in Caller : c # d => PtrsOf[c] \cap PtrsOf[d] = {}

(* Every run of the implementation is one of the abstract hook service.    *)
ImplementsHookApi == Api!Spec
==========================================================================
