----------------------------- MODULE HookApi -----------------------------
(***************************************************************************)
(* What mhook promises its callers: Mhook_SetHook and Mhook_Unhook as      *)
(* single steps on the code of the process and on the application's        *)
(* function pointers.  A call that returns FALSE changes nothing here, so  *)
(* it is a stuttering step.  Module Mhook is the implementation, with its  *)
(* lock, its table and its failures.                                       *)
(***************************************************************************)
EXTENDS CodeSpace

CONSTANTS
  Ptr,        (* the application's function-pointer variables              *)
  PtrInit,    (* pointer -> the routine it is initialised with             *)
  HooksOf,    (* pointer -> the hook routines installed through it         *)
  MaxHooks    (* MHOOKS_MAX_SUPPORTED_HOOKS                                *)

ASSUME HookApiAssumption ==
  /\ PtrInit \in [Ptr -> Routine]
  /\ HooksOf \in [Ptr -> SUBSET Routine]
  /\ MaxHooks \in Nat

VARIABLES
  code,     (* location -> the bytes that stand there                      *)
  tramp,    (* installed trampoline block -> its data members              *)
  leaked,   (* blocks of removed hooks: still mapped, never used again     *)
  ptr       (* the function pointers                                       *)

vars == <<code, tramp, leaked, ptr>>

Trampoline == [sys : Loc, hook : Loc, untouched : Content]
live == DOMAIN tramp

Init ==
  /\ code = LoadedCode
  /\ tramp = [b \in {} |-> Blank]
  /\ leaked = {}
  /\ ptr = [p \in Ptr |-> Fn(PtrInit[p])]

(* The jump written over the first bytes of sys.                           *)
EntryJump(c, sys, hook, b) == Jmp(IF IsFar(c, sys, hook) THEN Stub(b) ELSE hook)

PatchedLate(c, sys, hook, b) ==        (* slip: saves the code too late     *)
  [c EXCEPT ![Entry(b)] = EntryJump(c, sys, hook, b),
            ![Stub(b)]  = IF IsFar(c, sys, hook) THEN Jmp(hook) ELSE Blank,
            ![sys]      = EntryJump(c, sys, hook, b)]

PatchedNoStub(c, sys, hook, b) ==      (* slip: the stub is not filled      *)
  [c EXCEPT ![Entry(b)] = c[sys],
            ![sys]      = EntryJump(c, sys, hook, b)]

PatchedNoEntry(c, sys, hook, b) ==     (* slip: the function is not patched *)
  [c EXCEPT ![Entry(b)] = c[sys],
            ![Stub(b)]  = IF IsFar(c, sys, hook) THEN Jmp(hook) ELSE Blank]

PatchedStubBack(c, sys, hook, b) ==    (* slip: the stub jumps back         *)
  [c EXCEPT ![Entry(b)] = c[sys],
            ![Stub(b)]  = IF IsFar(c, sys, hook) THEN Jmp(sys) ELSE Blank,
            ![sys]      = EntryJump(c, sys, hook, b)]

(* The code once function sys is hooked to hook by the trampoline in b.    *)
Patched(c, sys, hook, b) ==
  [c EXCEPT ![Entry(b)] = c[sys],
            ![Stub(b)]  = IF IsFar(c, sys, hook) THEN Jmp(hook) ELSE Blank,
            ![sys]      = EntryJump(c, sys, hook, b)]

(* One more trampoline can be registered.                                  *)
RoomLeft == Cardinality(live) < MaxHooks

(* Where VirtualAlloc can put a new trampoline.                            *)
FreeBlock == Block \ (live \cup leaked)

SetHook(p, h) ==
  LET sys  == SkipJumps(code, ptr[p])
      hook == SkipJumps(code, Fn(h))
  IN  /\ Lands(code, sys)
      /\ Lands(code, hook)
      /\ Displaceable(code[sys])
      /\ RoomLeft
      /\ \E b \in FreeBlock :
           /\ code' = Patched(code, sys, hook, b)
           /\ tramp' = [x \in live \cup {b} |->
                          IF x = b THEN [sys |-> sys, hook |-> hook,
                                         untouched |-> code[sys]]
                          ELSE tramp[x]]
           /\ ptr' = [ptr EXCEPT ![p] = Entry(b)]
           /\ UNCHANGED leaked

UnhookAny(p) ==                       (* slip: takes another trampoline     *)
  \E b \in live :
    /\ ptr[p] \in {Entry(x) : x \in live}
    /\ code' = [code EXCEPT ![tramp[b].sys] = tramp[b].untouched]
    /\ ptr' = [ptr EXCEPT ![p] = tramp[b].sys]
    /\ tramp' = [x \in live \ {b} |-> tramp[x]]
    /\ leaked' = leaked \cup {b}

UnhookRestoreLast(p) ==               (* slip: puts the wrong bytes back  *)
  \E b \in live :
    /\ ptr[p] = Entry(b)
    /\ code' = [code EXCEPT ![tramp[b].sys] = code[Stub(b)]]
    /\ ptr' = [ptr EXCEPT ![p] = tramp[b].sys]
    /\ tramp' = [x \in live \ {b} |-> tramp[x]]
    /\ leaked' = leaked \cup {b}

(* TrampolineGet finds the trampoline a hooked pointer leads to.           *)
Unhook(p) ==
  \E b \in live :
    /\ ptr[p] = Entry(b)
    /\ code' = [code EXCEPT ![tramp[b].sys] = tramp[b].untouched]
    /\ ptr' = [ptr EXCEPT ![p] = tramp[b].sys]
    /\ tramp' = [x \in live \ {b} |-> tramp[x]]
    /\ leaked' = leaked \cup {b}

Next ==
  \/ \E p \in Ptr : \E h \in HooksOf[p] : SetHook(p, h)
  \/ \E p \in Ptr : Unhook(p)

Spec == Init /\ [][Next]_vars
--------------------------------------------------------------------------
(* Every variable holds a value of its kind, the table is within its       *)
(* limit and no block is both installed and given up (g_pHooks,            *)
(* g_nHooksInUse, the blocks TrampolineFree leaves mapped).                *)
TypeOK ==
  /\ code \in [Loc -> Content]
  /\ live \subseteq Block
  /\ tramp \in [live -> Trampoline]
  /\ leaked \subseteq Block \ live
  /\ ptr \in [Ptr -> Loc]
  /\ Cardinality(live) <= MaxHooks

(* An installed trampoline's function jumps to its hook, directly or       *)
(* through the trampoline's stub, whatever was hooked and unhooked since   *)
(* (mhook.cpp 713-742).                                                    *)
HookInPlace ==
  \A b \in live :
    \/ code[tramp[b].sys] = Jmp(tramp[b].hook)
    \/ /\ code[tramp[b].sys] = Jmp(Stub(b))
       /\ code[Stub(b)] = Jmp(tramp[b].hook)

(* Two installed trampolines never claim the same function: the second     *)
(* SetHook would save the first one's jump as the original bytes, and      *)
(* unhooking in the wrong order would bring a removed hook back.           *)
OneTrampolinePerFunction ==
  \A b1, b2 \in live : tramp[b1].sys = tramp[b2].sys => b1 = b2

(* A routine that no installed trampoline names has exactly the bytes the  *)
(* loader gave it: unhooking, in any order, undoes hooking.                *)
Conservation ==
  \A r \in Routine :
    (\A b \in live : tramp[b].sys # Fn(r)) => code[Fn(r)] = Image(r)

(* The function a pointer stands for, and whether no other pointer stands  *)
(* for the same one.                                                       *)
Target(p) == SkipJumps(LoadedCode, Fn(PtrInit[p]))
Alone(p)  == \A q \in Ptr \ {p} : Target(q) # Target(p)
Hooked(p) == \E b \in live : ptr[p] = Entry(b)

(* What the application calls through its pointer is always the original,  *)
(* unhooked function, however often it was hooked and unhooked through     *)
(* that pointer (mhook.cpp 757-759 and 798-799).                           *)
OriginalReachable ==
  \A p \in Ptr : Alone(p) => Runs(code, ptr[p]) = Body(Target(p)[2])

(* Everybody else's calls of the function run a hook exactly while the     *)
(* pointer is hooked, and then one of the hooks installed through it.      *)
HookedExactly ==
  \A p \in Ptr : Alone(p) =>
    Runs(code, Fn(PtrInit[p])) \in
      (IF Hooked(p) THEN {Body(h) : h \in HooksOf[p]} ELSE {Body(Target(p)[2])})

(* What the application has to keep to for these promises: the import      *)
(* thunks lead somewhere, and the hooks installed through a pointer that   *)
(* stands alone are no thunks, are hooked by nobody and are used through   *)
(* that pointer only.  mhook checks none of this.                          *)
Loads == \A l \in Loc : Lands(LoadedCode, SkipJumps(LoadedCode, l))
HookFns(p) == {Fn(h) : h \in HooksOf[p]}
OwnHooks ==
  \A p \in Ptr : Alone(p) =>
    /\ HooksOf[p] \cap DOMAIN Thunk = {}
    /\ \A q \in Ptr : Target(q) \notin HookFns(p)
    /\ \A q \in Ptr \ {p} : \A k \in HooksOf[q] :
         SkipJumps(LoadedCode, Fn(k)) \notin HookFns(p) \cup {Target(p)}

(* Jumps never form a cycle: SkipJumps, and the processor, come to an end  *)
(* from every location (mhook.cpp 187-228 recurses without a limit).       *)
NoJumpCycle == \A l \in Loc : Lands(code, SkipJumps(code, l))
==========================================================================
