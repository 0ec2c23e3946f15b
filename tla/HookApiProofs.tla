-------------------------- MODULE HookApiProofs --------------------------
(***************************************************************************)
(* The safety of hooking for any number of routines, pointers, blocks and  *)
(* hooks.  First what holds whatever the application hooks: hooks stay in  *)
(* place, each on a function of its own, and come off without a trace.     *)
(* Then what a pointer can rely on that keeps its function and its hooks   *)
(* to itself: its calls reach the original, everybody else's reach a hook. *)
(***************************************************************************)
EXTENDS HookApi, CodeSpaceProofs

(* The bytes saved by a trampoline are instructions, and those of a        *)
(* routine are the bytes the loader gave it.                               *)
Saved(t) ==
  /\ IsBody(t.untouched)
  /\ \A r \in Routine : t.sys = Fn(r) => t.untouched = Image(r)
SavedOK == \A b \in live : Saved(tramp[b])

(* No stub holds instructions, so no stub is ever hooked.                  *)
StubsJump == \A b \in Block : ~IsBody(code[Stub(b)])

(* A block that was never used holds no instructions.                      *)
FreshBlank == \A b \in FreeBlock : code[Entry(b)] = Blank

(* What is hooked is a routine, or a trampoline that was handed out.       *)
HookableLoc == {Fn(r) : r \in Routine} \cup {Entry(x) : x \in live \cup leaked}
SysKnown == \A b \in live : tramp[b].sys \in HookableLoc

Inv ==
  /\ TypeOK
  /\ HookInPlace
  /\ OneTrampolinePerFunction
  /\ Conservation
  /\ SavedOK
  /\ StubsJump
  /\ FreshBlank
  /\ SysKnown
--------------------------------------------------------------------------
(* The loader gives every routine code.                                    *)
LEMMA ImageType == \A r \in Routine : Image(r) \in Content
  BY CodeSpaceAssumption, LocFacts, ContentFacts DEF Image, Body, Content

LEMMA InitInv == Init => Inv
<1> SUFFICES ASSUME Init PROVE Inv
  OBVIOUS
<1> USE DEF Init
<1>0. live = {}
  BY DEF live
<1>1. TypeOK
  <2>1. code \in [Loc -> Content]
    BY LocFacts, ContentFacts, ImageType DEF LoadedCode, Loc
  <2>2. ptr \in [Ptr -> Loc]
    BY LocFacts, HookApiAssumption
  <2>3. Cardinality(live) <= MaxHooks
    BY <1>0, FS_EmptySet, HookApiAssumption
  <2> QED BY <1>0, <2>1, <2>2, <2>3 DEF TypeOK, live
<1>2. Conservation
  BY LocFacts DEF Conservation, LoadedCode, Fn
<1>3. StubsJump /\ FreshBlank
  BY LocFacts, ContentFacts DEF StubsJump, FreshBlank, FreeBlock, LoadedCode, Stub, Entry
<1> QED
  BY <1>0, <1>1, <1>2, <1>3
  DEF Inv, HookInPlace, OneTrampolinePerFunction, SavedOK, SysKnown
--------------------------------------------------------------------------
(* What SetHook overwrites is a location that no installed trampoline      *)
(* names and that is no stub: bytes that begin a routine's body are not a  *)
(* jump, and whatever is hooked begins with one.                           *)
LEMMA FreshTarget ==
  ASSUME Inv, NEW sys \in Loc, IsBody(code[sys])
  PROVE  /\ sys \in HookableLoc
         /\ \A b \in live : tramp[b].sys # sys
         /\ \A b \in Block : Stub(b) # sys
<1>1. \A b \in Block : Stub(b) # sys
  BY DEF Inv, StubsJump
<1>2. \A b \in live : tramp[b].sys # sys
  BY ContentFacts DEF Inv, HookInPlace
<1>3. \A b \in FreeBlock : Entry(b) # sys
  BY ContentFacts DEF Inv, FreshBlank
<1>4. sys \in HookableLoc
  BY <1>1, <1>3, LocFacts DEF HookableLoc, FreeBlock
<1> QED BY <1>1, <1>2, <1>4

(* What SetHook does with the block it puts its trampoline in.             *)
Installs(p, h, b, sys, hook) ==
  /\ sys = SkipJumps(code, ptr[p]) /\ hook = SkipJumps(code, Fn(h))
  /\ sys \in HookableLoc /\ IsBody(code[sys]) /\ ~IsJmp(code[hook])
  /\ sys # Entry(b)
  /\ \A x \in live : tramp[x].sys # sys
  /\ \A x \in Block : Stub(x) # sys
  /\ RoomLeft
  /\ b \in Block /\ b \notin live /\ b \notin leaked
  /\ live' = live \cup {b} /\ leaked' = leaked
  /\ tramp' \in [live' -> Trampoline]
  /\ tramp'[b] = [sys |-> sys, hook |-> hook, untouched |-> code[sys]]
  /\ \A x \in live : tramp'[x] = tramp[x]
  /\ ptr' = [ptr EXCEPT ![p] = Entry(b)]
  /\ code' \in [Loc -> Content]
  /\ code'[sys] = EntryJump(code, sys, hook, b)
  /\ code'[Entry(b)] = code[sys]
  /\ code'[Stub(b)] = IF IsFar(code, sys, hook) THEN Jmp(hook) ELSE Blank
  /\ \A l \in Loc \ {sys, Entry(b), Stub(b)} : code'[l] = code[l]

LEMMA SetHookStep ==
  ASSUME Inv, NEW p \in Ptr, NEW h \in HooksOf[p], SetHook(p, h)
  PROVE  \E b \in FreeBlock, sys, hook \in Loc : Installs(p, h, b, sys, hook)
<1> DEFINE sys  == SkipJumps(code, ptr[p])
           hook == SkipJumps(code, Fn(h))
<1>1. /\ sys \in Loc /\ hook \in Loc
      /\ IsBody(code[sys]) /\ RoomLeft
      /\ ~IsJmp(code[hook])
  BY DEF SetHook, Lands, Displaceable
<1>2. PICK b \in FreeBlock :
        /\ code' = Patched(code, sys, hook, b)
        /\ tramp' = [x \in live \cup {b} |->
                       IF x = b THEN [sys |-> sys, hook |-> hook,
                                      untouched |-> code[sys]]
                       ELSE tramp[x]]
        /\ ptr' = [ptr EXCEPT ![p] = Entry(b)]
        /\ leaked' = leaked
  BY DEF SetHook
<1>0. sys = SkipJumps(code, ptr[p]) /\ hook = SkipJumps(code, Fn(h))
  OBVIOUS
<1> HIDE DEF sys, hook
<1>3. /\ sys \in HookableLoc
      /\ \A x \in live : tramp[x].sys # sys
      /\ \A x \in Block : Stub(x) # sys
  BY <1>1, FreshTarget
<1>4. b \in Block /\ b \notin live /\ b \notin leaked
  BY DEF FreeBlock
<1>5. live' = live \cup {b}
  BY <1>2 DEF live
<1>6. /\ tramp'[b] = [sys |-> sys, hook |-> hook, untouched |-> code[sys]]
      /\ \A x \in live : tramp'[x] = tramp[x]
  BY <1>2, <1>4
<1>7. Entry(b) # sys
  BY <1>1, ContentFacts DEF Inv, FreshBlank
<1>8. code \in [Loc -> Content] /\ Entry(b) \in Loc /\ Stub(b) \in Loc
  BY <1>4, LocFacts DEF Inv, TypeOK
<1>9. /\ code'[sys] = EntryJump(code, sys, hook, b)
      /\ code'[Entry(b)] = code[sys]
      /\ code'[Stub(b)] = IF IsFar(code, sys, hook) THEN Jmp(hook) ELSE Blank
      /\ \A l \in Loc \ {sys, Entry(b), Stub(b)} : code'[l] = code[l]
      /\ code' \in [Loc -> Content]
  <2>1. code[sys] \in Content /\ EntryJump(code, sys, hook, b) \in Content
        /\ Jmp(hook) \in Content /\ Blank \in Content
    BY <1>1, <1>8, ContentFacts DEF EntryJump
  <2>2. Entry(b) # Stub(b) /\ Stub(b) # sys
    BY <1>3, <1>4, LocFacts
  <2> QED BY <1>1, <1>2, <1>7, <1>8, <2>1, <2>2 DEF Patched
<1>10. tramp' \in [live' -> Trampoline]
  BY <1>1, <1>2, <1>5, <1>8 DEF Inv, TypeOK, Trampoline
<1>11. Installs(p, h, b, sys, hook)
  BY <1>0, <1>1, <1>2, <1>3, <1>4, <1>5, <1>6, <1>7, <1>9, <1>10 DEF Installs
<1> QED BY <1>1, <1>11

(* Installing a hook keeps the invariant.                                  *)
LEMMA SetHookInv ==
  ASSUME Inv, NEW p \in Ptr, NEW h \in HooksOf[p], SetHook(p, h)
  PROVE  Inv'
<1>1. PICK b \in FreeBlock, sys \in Loc, hook \in Loc : Installs(p, h, b, sys, hook)
  BY SetHookStep
<1>2. /\ sys \in HookableLoc /\ IsBody(code[sys]) /\ RoomLeft
      /\ \A x \in live : tramp[x].sys # sys
      /\ \A x \in Block : Stub(x) # sys
      /\ sys # Entry(b)
      /\ b \in Block /\ b \notin live /\ b \notin leaked
      /\ live' = live \cup {b} /\ leaked' = leaked
      /\ tramp' \in [live' -> Trampoline]
      /\ tramp'[b] = [sys |-> sys, hook |-> hook, untouched |-> code[sys]]
      /\ \A x \in live : tramp'[x] = tramp[x]
      /\ ptr' = [ptr EXCEPT ![p] = Entry(b)]
      /\ Entry(b) \in Loc
  BY <1>1, LocFacts DEF Installs
<1>9. /\ code'[sys] = EntryJump(code, sys, hook, b)
      /\ code'[Entry(b)] = code[sys]
      /\ code'[Stub(b)] = IF IsFar(code, sys, hook) THEN Jmp(hook) ELSE Blank
      /\ \A l \in Loc \ {sys, Entry(b), Stub(b)} : code'[l] = code[l]
      /\ code' \in [Loc -> Content]
  BY <1>1 DEF Installs
<1>10. TypeOK'
  <2>2. Cardinality(live') <= MaxHooks
    <3>1. IsFiniteSet(live)
      BY CodeSpaceAssumption, FS_Subset DEF Inv, TypeOK
    <3>2. Cardinality(live') = Cardinality(live) + 1 /\ Cardinality(live) \in Nat
      BY <1>2, <3>1, FS_AddElement, FS_CardinalityType
    <3> QED BY <1>2, <3>2, HookApiAssumption DEF RoomLeft
  <2>3. ptr' \in [Ptr -> Loc]
    BY <1>2 DEF Inv, TypeOK
  <2>4. live' \subseteq Block /\ leaked' \subseteq Block \ live'
    BY <1>2 DEF Inv, TypeOK
  <2> QED BY <1>2, <1>9, <2>2, <2>3, <2>4 DEF TypeOK
<1>11. HookInPlace'
  <2> SUFFICES ASSUME NEW x \in live'
               PROVE  \/ code'[tramp'[x].sys] = Jmp(tramp'[x].hook)
                      \/ /\ code'[tramp'[x].sys] = Jmp(Stub(x))
                         /\ code'[Stub(x)] = Jmp(tramp'[x].hook)
    BY DEF HookInPlace
  <2>1. CASE x = b
    BY <1>2, <1>9, <2>1 DEF EntryJump
  <2>2. CASE x # b
    <3>1. x \in live /\ x \in Block /\ tramp[x] \in Trampoline
      BY <1>2, <2>2 DEF Inv, TypeOK
    <3>2. tramp[x].sys # sys /\ tramp[x].sys # Entry(b) /\ tramp[x].sys # Stub(b)
      <4>1. tramp[x].sys \in HookableLoc
        BY <3>1 DEF Inv, SysKnown
      <4> QED BY <1>2, <3>1, <4>1, LocFacts DEF HookableLoc
    <3>3. code'[tramp[x].sys] = code[tramp[x].sys]
      BY <1>9, <3>1, <3>2 DEF Trampoline
    <3>4. code'[Stub(x)] = code[Stub(x)]
      BY <1>2, <1>9, <2>2, <3>1, LocFacts
    <3> QED BY <1>2, <3>1, <3>3, <3>4 DEF Inv, HookInPlace
  <2> QED BY <2>1, <2>2
<1>12. OneTrampolinePerFunction'
  BY <1>2 DEF Inv, OneTrampolinePerFunction
<1>13. Conservation'
  <2> SUFFICES ASSUME NEW r \in Routine, \A x \in live' : tramp'[x].sys # Fn(r)
               PROVE  code'[Fn(r)] = Image(r)
    BY DEF Conservation
  <2>1. Fn(r) # sys /\ \A x \in live : tramp[x].sys # Fn(r)
    BY <1>2
  <2>2. code'[Fn(r)] = code[Fn(r)]
    BY <1>9, <2>1, LocFacts
  <2> QED BY <2>1, <2>2 DEF Inv, Conservation
<1>14. SavedOK'
  <2>1. Saved(tramp'[b])
    BY <1>2 DEF Saved, Inv, Conservation
  <2> QED BY <1>2, <2>1 DEF Inv, SavedOK
<1>15. StubsJump'
  <2> SUFFICES ASSUME NEW x \in Block PROVE ~IsBody(code'[Stub(x)])
    BY DEF StubsJump
  <2>1. CASE x = b
    BY <1>9, <2>1, ContentFacts
  <2>2. CASE x # b
    <3>1. code'[Stub(x)] = code[Stub(x)]
      BY <1>2, <1>9, <2>2, LocFacts
    <3> QED BY <3>1 DEF Inv, StubsJump
  <2> QED BY <2>1, <2>2
<1>16. FreshBlank'
  <2> SUFFICES ASSUME NEW x \in FreeBlock' PROVE code'[Entry(x)] = Blank
    BY DEF FreshBlank
  <2>1. x \in FreeBlock /\ x # b
    BY <1>2 DEF FreeBlock
  <2>2. Entry(x) # sys
    BY <1>2, <2>1, ContentFacts DEF Inv, FreshBlank
  <2>3. code'[Entry(x)] = code[Entry(x)]
    BY <1>9, <2>1, <2>2, LocFacts DEF FreeBlock
  <2> QED BY <2>1, <2>3 DEF Inv, FreshBlank
<1>17. SysKnown'
  BY <1>2 DEF Inv, SysKnown, HookableLoc
<1> QED
  BY <1>10, <1>11, <1>12, <1>13, <1>14, <1>15, <1>16, <1>17 DEF Inv

(* What Unhook does with the trampoline it removes.                        *)
Removes(p, b) ==
  /\ ptr[p] = Entry(b)
  /\ b \in Block /\ tramp[b] \in Trampoline
  /\ tramp[b].sys \in HookableLoc /\ Saved(tramp[b])
  /\ \A x \in Block : Stub(x) # tramp[b].sys
  /\ live' = live \ {b} /\ leaked' = leaked \cup {b}
  /\ tramp' \in [live' -> Trampoline]
  /\ \A x \in live' : tramp'[x] = tramp[x]
  /\ ptr' = [ptr EXCEPT ![p] = tramp[b].sys]
  /\ code' \in [Loc -> Content]
  /\ code'[tramp[b].sys] = tramp[b].untouched
  /\ \A l \in Loc \ {tramp[b].sys} : code'[l] = code[l]

LEMMA UnhookStep ==
  ASSUME Inv, NEW p \in Ptr, Unhook(p)
  PROVE  \E b \in live : Removes(p, b)
<1>1. PICK b \in live :
        /\ ptr[p] = Entry(b)
        /\ code' = [code EXCEPT ![tramp[b].sys] = tramp[b].untouched]
        /\ ptr' = [ptr EXCEPT ![p] = tramp[b].sys]
        /\ tramp' = [x \in live \ {b} |-> tramp[x]]
        /\ leaked' = leaked \cup {b}
  BY DEF Unhook
<1>2. /\ live' = live \ {b}
      /\ \A x \in live' : tramp'[x] = tramp[x]
  BY <1>1 DEF live
<1>3. /\ b \in Block
      /\ tramp[b] \in Trampoline
      /\ tramp[b].sys \in HookableLoc
      /\ Saved(tramp[b])
  BY DEF Inv, TypeOK, SysKnown, SavedOK
<1>4. \A x \in Block : Stub(x) # tramp[b].sys
  BY <1>3, LocFacts DEF HookableLoc
<1>5. /\ code'[tramp[b].sys] = tramp[b].untouched
      /\ \A l \in Loc \ {tramp[b].sys} : code'[l] = code[l]
      /\ code' \in [Loc -> Content]
  BY <1>1, <1>3 DEF Inv, TypeOK, Trampoline
<1>6. tramp' \in [live' -> Trampoline]
  BY <1>1, <1>2 DEF Inv, TypeOK
<1>7. Removes(p, b)
  BY <1>1, <1>2, <1>3, <1>4, <1>5, <1>6 DEF Removes
<1> QED BY <1>7

(* Removing a hook keeps the invariant, in whatever order hooks go.        *)
LEMMA UnhookInv ==
  ASSUME Inv, NEW p \in Ptr, Unhook(p)
  PROVE  Inv'
<1>0. PICK b \in live : Removes(p, b)
  BY UnhookStep
<1>1. /\ ptr' = [ptr EXCEPT ![p] = tramp[b].sys]
      /\ tramp' \in [live' -> Trampoline]
      /\ leaked' = leaked \cup {b}
  BY <1>0 DEF Removes
<1>2. /\ live' = live \ {b}
      /\ \A x \in live' : tramp'[x] = tramp[x]
  BY <1>0 DEF Removes
<1>3. /\ b \in Block
      /\ tramp[b] \in Trampoline
      /\ tramp[b].sys \in HookableLoc
      /\ Saved(tramp[b])
  BY <1>0 DEF Removes
<1>4. \A x \in Block : Stub(x) # tramp[b].sys
  BY <1>0 DEF Removes
<1>5. /\ code'[tramp[b].sys] = tramp[b].untouched
      /\ \A l \in Loc \ {tramp[b].sys} : code'[l] = code[l]
      /\ code' \in [Loc -> Content]
  BY <1>0 DEF Removes
<1>6. TypeOK'
  <2>1. Cardinality(live') <= MaxHooks
    <3>1. IsFiniteSet(live)
      BY CodeSpaceAssumption, FS_Subset DEF Inv, TypeOK
    <3>2. Cardinality(live') <= Cardinality(live)
          /\ Cardinality(live') \in Nat /\ Cardinality(live) \in Nat
      BY <1>2, <3>1, FS_Subset, FS_CardinalityType
    <3> QED BY <3>2, HookApiAssumption DEF Inv, TypeOK
  <2>2. tramp' \in [live' -> Trampoline] /\ ptr' \in [Ptr -> Loc]
    BY <1>1, <1>2, <1>3 DEF Inv, TypeOK, Trampoline
  <2>3. live' \subseteq Block /\ leaked' \subseteq Block \ live'
    BY <1>1, <1>2, <1>3 DEF Inv, TypeOK
  <2> QED BY <1>5, <2>1, <2>2, <2>3 DEF TypeOK
<1>7. HookInPlace'
  <2> SUFFICES ASSUME NEW x \in live'
               PROVE  \/ code'[tramp'[x].sys] = Jmp(tramp'[x].hook)
                      \/ /\ code'[tramp'[x].sys] = Jmp(Stub(x))
                         /\ code'[Stub(x)] = Jmp(tramp'[x].hook)
    BY DEF HookInPlace
  <2>1. x \in live /\ x # b /\ x \in Block /\ tramp[x].sys \in Loc
    BY <1>2 DEF Inv, TypeOK, Trampoline
  <2>2. tramp[x].sys # tramp[b].sys
    BY <2>1 DEF Inv, OneTrampolinePerFunction
  <2>3. code'[tramp[x].sys] = code[tramp[x].sys] /\ code'[Stub(x)] = code[Stub(x)]
    BY <1>4, <1>5, <2>1, <2>2, LocFacts
  <2> QED BY <1>2, <2>1, <2>3 DEF Inv, HookInPlace
<1>8. OneTrampolinePerFunction'
  BY <1>2 DEF Inv, OneTrampolinePerFunction
<1>9. Conservation'
  <2> SUFFICES ASSUME NEW r \in Routine, \A x \in live' : tramp'[x].sys # Fn(r)
               PROVE  code'[Fn(r)] = Image(r)
    BY DEF Conservation
  <2>1. CASE tramp[b].sys = Fn(r)
    BY <1>3, <1>5, <2>1 DEF Saved
  <2>2. CASE tramp[b].sys # Fn(r)
    <3>1. code'[Fn(r)] = code[Fn(r)] /\ \A x \in live : tramp[x].sys # Fn(r)
      BY <1>2, <1>5, <2>2, LocFacts
    <3> QED BY <3>1 DEF Inv, Conservation
  <2> QED BY <2>1, <2>2
<1>10. SavedOK' /\ StubsJump' /\ SysKnown'
  <2>1. SavedOK'
    BY <1>2 DEF Inv, SavedOK
  <2>2. StubsJump'
    BY <1>4, <1>5, LocFacts DEF Inv, StubsJump
  <2>3. SysKnown'
    BY <1>1, <1>2 DEF Inv, SysKnown, HookableLoc
  <2> QED BY <2>1, <2>2, <2>3
<1>11. FreshBlank'
  <2> SUFFICES ASSUME NEW x \in FreeBlock' PROVE code'[Entry(x)] = Blank
    BY DEF FreshBlank
  <2>1. x \in FreeBlock /\ x \in Block
    BY <1>1, <1>2 DEF FreeBlock
  <2>2. Entry(x) # tramp[b].sys
    BY <1>3, <2>1, LocFacts DEF HookableLoc, FreeBlock
  <2> QED BY <1>5, <2>1, <2>2, LocFacts DEF Inv, FreshBlank
<1> QED
  BY <1>6, <1>7, <1>8, <1>9, <1>10, <1>11 DEF Inv

(* A step that changes nothing keeps the invariant.                        *)
LEMMA StutterInv == Inv /\ UNCHANGED vars => Inv'
  BY DEF Inv, vars, TypeOK, HookInPlace, OneTrampolinePerFunction, Conservation,
         SavedOK, StubsJump, FreshBlank, FreeBlock, SysKnown, HookableLoc, live,
         RoomLeft
--------------------------------------------------------------------------
(* The invariant holds in every reachable state.                           *)
THEOREM Invariance == Spec => []Inv
<1>1. Inv /\ [Next]_vars => Inv'
  BY SetHookInv, UnhookInv, StutterInv DEF Next
<1> QED BY InitInv, <1>1, PTL DEF Spec

(* Every state is well typed, and the table stays within its limit.        *)
THEOREM TypeCorrect == Spec => []TypeOK
<1>1. Inv => TypeOK
  BY DEF Inv
<1> QED BY Invariance, <1>1, PTL

(* Whatever was hooked and unhooked before, a hooked function jumps to its *)
(* hook and to no other.                                                   *)
THEOREM HooksStayInPlace == Spec => [](HookInPlace /\ OneTrampolinePerFunction)
<1>1. Inv => HookInPlace /\ OneTrampolinePerFunction
  BY DEF Inv
<1> QED BY Invariance, <1>1, PTL

(* Whatever was hooked and unhooked before, a routine that is not hooked   *)
(* now has the bytes the loader gave it.                                   *)
THEOREM RoutinesAreRestored == Spec => []Conservation
<1>1. Inv => Conservation
  BY DEF Inv
<1> QED BY Invariance, <1>1, PTL
--------------------------------------------------------------------------
(***************************************************************************)
(* Hooks put on through one pointer are a stack.  A pointer is a routine   *)
(* or the trampoline it put on last; no other pointer has that trampoline, *)
(* no other trampoline is on it, and it holds the bytes its own function   *)
(* had.                                                                    *)
(***************************************************************************)
OnTop(b)   == \A x \in live : tramp[x].sys # Entry(b)
SysLive    == \A b \in live, x \in Block : tramp[b].sys = Entry(x) => x \in live
PtrKnown   == \A p \in Ptr : \/ \E r \in Routine : ptr[p] = Fn(r)
                             \/ \E b \in live : ptr[p] = Entry(b)
PtrOnTop   == \A p \in Ptr, b \in live : ptr[p] = Entry(b) => OnTop(b)
PtrOwn     == \A p, q \in Ptr, b \in live :
                ptr[p] = Entry(b) /\ ptr[q] = Entry(b) => p = q
TopClean   == \A b \in live : OnTop(b) => code[Entry(b)] = tramp[b].untouched
SameBytes  == \A b, x \in live :
                tramp[x].sys = Entry(b) => tramp[x].untouched = tramp[b].untouched
NoRing     == \A S \in SUBSET live :
                S # {} => \E b \in S : \A x \in S : tramp[b].sys # Entry(x)
GivenUp    == \A b \in leaked : IsBody(code[Entry(b)])

(* No jump leads to a trampoline's copy of a function, and one that leads  *)
(* to a stub is led on from there: what a hook resolves to is a routine.   *)
NoJumpBack == \A l \in Loc, b \in Block : code[l] # Jmp(Entry(b))
StubLeadsOn == \A l \in Loc, b \in Block :
                 code[l] = Jmp(Stub(b)) => IsJmp(code[Stub(b)])
StubOfHook == \A b \in live : code[Stub(b)] \in {Blank, Jmp(tramp[b].hook)}
FreshStub  == \A b \in FreeBlock : code[Stub(b)] = Blank
HookIsFn   == \A b \in live : \E r \in Routine : tramp[b].hook = Fn(r)

Stack ==
  /\ SysLive /\ PtrKnown /\ PtrOnTop /\ PtrOwn
  /\ TopClean /\ SameBytes /\ NoRing /\ GivenUp
  /\ NoJumpBack /\ StubLeadsOn /\ StubOfHook /\ FreshStub /\ HookIsFn

(***************************************************************************)
(* The trampolines of a pointer that stands alone are those whose hook was *)
(* installed through it.  They are on its function or on one another, and  *)
(* every other jump and pointer leads away from them.                      *)
(***************************************************************************)
Owned(p)  == {b \in live : tramp[b].hook \in HookFns(p)}
Leads(l)  == SkipJumps(LoadedCode, l)
AwayFn(p) == {l \in {Fn(r) : r \in Routine} : Leads(l) \notin HookFns(p) \cup {Target(p)}}

OwnedIsOn(p)  == \A b \in live :
                   b \in Owned(p) <=>
                     tramp[b].sys \in {Target(p)} \cup {Entry(x) : x \in Owned(p)}
HooksClean(p) == \A b \in live : tramp[b].sys \notin HookFns(p)
OwnBytes(p)   == \A b \in Owned(p) : tramp[b].untouched = Body(Target(p)[2])
OwnPtr(p)     == \/ /\ Owned(p) = {}
                    /\ ptr[p] \in {Fn(PtrInit[p]), Target(p)}
                 \/ \E b \in Owned(p) : ptr[p] = Entry(b)
OthersAway(p) == /\ \A b \in live \ Owned(p) : tramp[b].hook \in AwayFn(p)
                 /\ \A q \in Ptr \ {p} :
                      \/ ptr[q] \in AwayFn(p)
                      \/ \E b \in live \ Owned(p) : ptr[q] = Entry(b)

Apart(p) == /\ OwnedIsOn(p) /\ HooksClean(p) /\ OwnBytes(p)
            /\ OwnPtr(p) /\ OthersAway(p)
AloneApart == \A p \in Ptr : Alone(p) => Apart(p)

LEMMA InitStack == Init => Stack
<1> SUFFICES ASSUME Init PROVE Stack
  OBVIOUS
<1>1. live = {} /\ leaked = {}
  BY DEF Init, live
<1>2. PtrKnown
  BY HookApiAssumption DEF Init, PtrKnown
<1>3. \A l \in Loc : code[l] = Blank \/ \E r \in Routine : code[l] = Image(r)
  <2> SUFFICES ASSUME NEW l \in Loc
               PROVE  code[l] = Blank \/ \E r \in Routine : code[l] = Image(r)
    OBVIOUS
  <2>1. code[l] = IF l[1] = "fn" THEN Image(l[2]) ELSE Blank
    BY DEF Init, LoadedCode
  <2>2. l[1] = "fn" => l[2] \in Routine
    BY DEF Loc
  <2> QED BY <2>1, <2>2
<1>4. \A r \in Routine : /\ \A b : Image(r) # Jmp(Entry(b)) /\ Image(r) # Jmp(Stub(b))
  <2> SUFFICES ASSUME NEW r \in Routine, NEW b
               PROVE  Image(r) # Jmp(Entry(b)) /\ Image(r) # Jmp(Stub(b))
    OBVIOUS
  <2>1. CASE r \in DOMAIN Thunk
    BY <2>1, LocFacts, ContentFacts DEF Image
  <2>2. CASE r \notin DOMAIN Thunk
    BY <2>2 DEF Image, Body, Jmp
  <2> QED BY <2>1, <2>2
<1>5. NoJumpBack /\ StubLeadsOn
  BY <1>3, <1>4, ContentFacts DEF NoJumpBack, StubLeadsOn
<1>6. FreshStub
  BY LocFacts DEF Init, FreshStub, FreeBlock, LoadedCode, Stub
<1> QED
  BY <1>1, <1>2, <1>5, <1>6
  DEF Stack, SysLive, PtrOnTop, PtrOwn, TopClean, SameBytes, NoRing, GivenUp,
      StubOfHook, HookIsFn

(* A hook routine resolves to a routine, and a pointer to the copy of a    *)
(* function only if it holds that copy's address.                          *)
LEMMA HookResolvesToFn ==
  ASSUME Inv, Stack, NEW r \in Routine, Lands(code, SkipJumps(code, Fn(r)))
  PROVE  \E x \in Routine : SkipJumps(code, Fn(r)) = Fn(x)
<1> DEFINE S == {Fn(x) : x \in Routine} \cup {l \in {Stub(b) : b \in Block} : IsJmp(code[l])}
<1>1. \A l \in S : IsJmp(code[l]) => code[l][2] \in S
  <2> SUFFICES ASSUME NEW l \in S, IsJmp(code[l]) PROVE code[l][2] \in S
    OBVIOUS
  <2>1. l \in Loc /\ code[l] \in Content
    BY LocFacts DEF Inv, TypeOK
  <2>2. code[l][2] \in Loc /\ code[l] = Jmp(code[l][2])
    BY <2>1, JumpTarget
  <2>3. \A b \in Block : code[l][2] # Entry(b)
    BY <2>1, <2>2 DEF Stack, NoJumpBack
  <2>4. \A b \in Block : code[l][2] = Stub(b) => IsJmp(code[Stub(b)])
    BY <2>1, <2>2 DEF Stack, StubLeadsOn
  <2> QED BY <2>2, <2>3, <2>4, LocFacts
<1>2. S \in SUBSET Loc /\ Fn(r) \in S
  BY LocFacts
<1>3. SkipJumps(code, Fn(r)) \in S
  <2> HIDE DEF S
  <2> QED BY <1>1, <1>2, SkipJumpsStays DEF Inv, TypeOK
<1> QED BY <1>3 DEF Lands

LEMMA CopyIsItsPointers ==
  ASSUME Inv, Stack, NEW p \in Ptr, NEW b \in Block, SkipJumps(code, ptr[p]) = Entry(b)
  PROVE  ptr[p] = Entry(b)
<1> SUFFICES ASSUME ptr[p] # Entry(b) PROVE FALSE
  OBVIOUS
<1> DEFINE S == Loc \ {Entry(b)}
<1>1. \A l \in S : IsJmp(code[l]) => code[l][2] \in S
  BY JumpTarget DEF Inv, TypeOK, Stack, NoJumpBack
<1>2. S \in SUBSET Loc /\ ptr[p] \in S
  BY DEF Inv, TypeOK
<1>3. SkipJumps(code, ptr[p]) \in S
  <2> HIDE DEF S
  <2> QED BY <1>1, <1>2, SkipJumpsStays DEF Inv, TypeOK
<1> QED BY <1>3

LEMMA SetHookStack ==
  ASSUME Inv, Stack, NEW p \in Ptr, NEW h \in HooksOf[p], SetHook(p, h)
  PROVE  Stack'
<1>1. PICK b \in FreeBlock, sys \in Loc, hook \in Loc : Installs(p, h, b, sys, hook)
  BY SetHookStep
<1>2. /\ sys \in HookableLoc /\ IsBody(code[sys]) /\ sys # Entry(b)
      /\ \A x \in Block : Stub(x) # sys
      /\ b \in Block /\ b \notin live /\ b \notin leaked
      /\ live' = live \cup {b} /\ leaked' = leaked
      /\ tramp'[b] = [sys |-> sys, hook |-> hook, untouched |-> code[sys]]
      /\ \A x \in live : tramp'[x] = tramp[x]
      /\ ptr' = [ptr EXCEPT ![p] = Entry(b)]
      /\ Entry(b) \in Loc /\ Stub(b) \in Loc
  BY <1>1, LocFacts DEF Installs
<1>3. /\ code'[sys] = EntryJump(code, sys, hook, b)
      /\ code'[Entry(b)] = code[sys]
      /\ code'[Stub(b)] = IF IsFar(code, sys, hook) THEN Jmp(hook) ELSE Blank
      /\ \A l \in Loc \ {sys, Entry(b), Stub(b)} : code'[l] = code[l]
  BY <1>1 DEF Installs
<1>4. PICK y \in Routine : hook = Fn(y)
  <2>1. Fn(h) \in Loc /\ h \in Routine
    BY HookApiAssumption, LocFacts
  <2>2. hook = SkipJumps(code, Fn(h)) /\ Lands(code, hook)
    BY <1>1 DEF Installs, Lands
  <2> QED BY <2>1, <2>2, HookResolvesToFn
<1>5. \A q \in Ptr : q # p => ptr'[q] = ptr[q]
  BY <1>2 DEF Inv, TypeOK
<1>6. ptr'[p] = Entry(b)
  BY <1>2 DEF Inv, TypeOK
<1>7. \A x \in live : x \in Block /\ x # b /\ tramp[x].sys \in Loc /\ Entry(x) \in Loc
  BY <1>2, LocFacts DEF Inv, TypeOK, Trampoline
<1>8. \A q \in Ptr, x \in Block : ptr[q] = Entry(x) => x \in live
  BY LocFacts DEF Stack, PtrKnown
<1>9. \A x \in Block : sys = Entry(x) =>
        /\ ptr[p] = Entry(x) /\ x \in live /\ OnTop(x)
        /\ \A q \in Ptr : ptr[q] = Entry(x) => q = p
  <2> SUFFICES ASSUME NEW x \in Block, sys = Entry(x)
               PROVE  /\ ptr[p] = Entry(x) /\ x \in live /\ OnTop(x)
                      /\ \A q \in Ptr : ptr[q] = Entry(x) => q = p
    OBVIOUS
  <2>1. ptr[p] = Entry(x)
    BY <1>1, CopyIsItsPointers DEF Installs
  <2> QED BY <1>8, <2>1 DEF Stack, PtrOnTop, PtrOwn
<1>10. \A x \in live : tramp[x].sys # Entry(b)
  BY <1>2, LocFacts DEF Inv, SysKnown, HookableLoc
<1>11. SysLive'
  BY <1>2, <1>9 DEF Stack, SysLive
<1>12. PtrKnown'
  BY <1>2, <1>5, <1>6 DEF Stack, PtrKnown
<1>13. PtrOnTop'
  <2> SUFFICES ASSUME NEW q \in Ptr, NEW x \in live', ptr'[q] = Entry(x), NEW z \in live'
               PROVE  tramp'[z].sys # Entry(x)
    BY DEF PtrOnTop, OnTop
  <2>1. CASE q = p
    BY <1>2, <1>6, <1>10, <2>1, LocFacts
  <2>2. CASE q # p
    <3>1. ptr[q] = Entry(x) /\ x \in live
      BY <1>2, <1>5, <1>7, <1>8, <2>2
    <3>2. CASE z = b
      BY <1>2, <1>7, <1>9, <2>2, <3>1, <3>2
    <3>3. CASE z \in live
      BY <1>2, <3>1, <3>3 DEF Stack, PtrOnTop, OnTop
    <3> QED BY <1>2, <3>2, <3>3
  <2> QED BY <2>1, <2>2
<1>14. PtrOwn'
  <2> SUFFICES ASSUME NEW q1 \in Ptr, NEW q2 \in Ptr, NEW x \in live',
                      ptr'[q1] = Entry(x), ptr'[q2] = Entry(x)
               PROVE  q1 = q2
    BY DEF PtrOwn
  <2>1. CASE x = b
    BY <1>2, <1>5, <1>8, <2>1
  <2>2. CASE x \in live
    BY <1>5, <1>6, <1>7, <2>2, LocFacts DEF Stack, PtrOwn
  <2> QED BY <1>2, <2>1, <2>2
<1>15. TopClean'
  <2> SUFFICES ASSUME NEW x \in live', \A z \in live' : tramp'[z].sys # Entry(x)
               PROVE  code'[Entry(x)] = tramp'[x].untouched
    BY DEF TopClean, OnTop
  <2>1. CASE x = b
    BY <1>2, <1>3, <2>1
  <2>2. CASE x \in live
    <3>1. code[Entry(x)] = tramp[x].untouched
      BY <1>2, <2>2 DEF Stack, TopClean, OnTop
    <3>2. Entry(x) # sys /\ Entry(x) # Entry(b) /\ Entry(x) # Stub(b)
      BY <1>2, <1>7, <2>2, LocFacts
    <3> QED BY <1>2, <1>3, <1>7, <2>2, <3>1, <3>2
  <2> QED BY <1>2, <2>1, <2>2
<1>16. SameBytes'
  <2> SUFFICES ASSUME NEW x \in live', NEW z \in live', tramp'[z].sys = Entry(x)
               PROVE  tramp'[z].untouched = tramp'[x].untouched
    BY DEF SameBytes
  <2>1. x \in live
    BY <1>2, <1>10
  <2>2. CASE z = b
    <3>1. sys = Entry(x) /\ tramp'[z].untouched = code[sys] /\ tramp'[x] = tramp[x]
      BY <1>2, <2>1, <2>2
    <3>2. code[Entry(x)] = tramp[x].untouched
      BY <1>7, <1>9, <2>1, <3>1 DEF Stack, TopClean
    <3> QED BY <3>1, <3>2
  <2>3. CASE z \in live
    BY <1>2, <2>1, <2>3 DEF Stack, SameBytes
  <2> QED BY <1>2, <2>2, <2>3
<1>17. NoRing'
  <2> SUFFICES ASSUME NEW S \in SUBSET live', S # {}
               PROVE  \E x \in S : \A z \in S : tramp'[x].sys # Entry(z)
    BY DEF NoRing
  <2>1. CASE S = {b}
    BY <1>2, <2>1
  <2>2. CASE S # {b}
    <3>1. S \ {b} \in SUBSET live /\ S \ {b} # {}
      BY <1>2, <2>2
    <3>2. PICK x \in S \ {b} : \A z \in S \ {b} : tramp[x].sys # Entry(z)
      BY <3>1 DEF Stack, NoRing
    <3> QED BY <1>2, <1>10, <3>1, <3>2
  <2> QED BY <2>1, <2>2
<1>18. GivenUp'
  <2> SUFFICES ASSUME NEW x \in leaked PROVE IsBody(code'[Entry(x)])
    BY <1>2 DEF GivenUp
  <2>1. x \in Block /\ x \notin live /\ x # b /\ Entry(x) \in Loc
    BY <1>2, LocFacts DEF Inv, TypeOK
  <2>2. Entry(x) # sys /\ Entry(x) # Entry(b) /\ Entry(x) # Stub(b)
    BY <1>9, <2>1, LocFacts
  <2> QED BY <1>3, <2>1, <2>2 DEF Stack, GivenUp
<1>19. NoJumpBack'
  <2> SUFFICES ASSUME NEW l \in Loc, NEW x \in Block PROVE code'[l] # Jmp(Entry(x))
    BY DEF NoJumpBack
  <2>1. CASE l = sys
    BY <1>3, <1>4, <2>1, LocFacts, ContentFacts DEF EntryJump
  <2>2. CASE l = Entry(b)
    BY <1>2, <1>3, <2>2, ContentFacts
  <2>3. CASE l = Stub(b)
    BY <1>3, <1>4, <2>3, LocFacts, ContentFacts
  <2>4. CASE l \notin {sys, Entry(b), Stub(b)}
    BY <1>3, <2>4 DEF Stack, NoJumpBack
  <2> QED BY <2>1, <2>2, <2>3, <2>4
<1>20. StubLeadsOn'
  <2> SUFFICES ASSUME NEW l \in Loc, NEW x \in Block, code'[l] = Jmp(Stub(x))
               PROVE  IsJmp(code'[Stub(x)])
    BY DEF StubLeadsOn
  <2>1. CASE l = sys
    BY <1>3, <1>4, <2>1, LocFacts, ContentFacts DEF EntryJump
  <2>2. CASE l = Entry(b)
    BY <1>2, <1>3, <2>2, ContentFacts
  <2>3. CASE l = Stub(b)
    BY <1>3, <1>4, <2>3, LocFacts, ContentFacts
  <2>4. CASE l \notin {sys, Entry(b), Stub(b)}
    <3>1. IsJmp(code[Stub(x)])
      BY <1>3, <2>4 DEF Stack, StubLeadsOn
    <3>2. x # b
      BY <3>1, ContentFacts DEF Stack, FreshStub
    <3>3. Stub(x) \in Loc \ {sys, Entry(b), Stub(b)}
      BY <1>2, <3>2, LocFacts
    <3> QED BY <1>3, <3>1, <3>3
  <2> QED BY <2>1, <2>2, <2>3, <2>4
<1>21. \A x \in Block : x # b => code'[Stub(x)] = code[Stub(x)]
  <2> SUFFICES ASSUME NEW x \in Block, x # b PROVE code'[Stub(x)] = code[Stub(x)]
    OBVIOUS
  <2>1. Stub(x) \in Loc \ {sys, Entry(b), Stub(b)}
    BY <1>2, LocFacts
  <2> QED BY <1>3, <2>1
<1>22. StubOfHook'
  BY <1>2, <1>3, <1>7, <1>21 DEF Stack, StubOfHook
<1>23. FreshStub'
  BY <1>2, <1>21 DEF Stack, FreshStub, FreeBlock
<1>24. HookIsFn'
  BY <1>2, <1>4 DEF Stack, HookIsFn
<1> QED
  BY <1>11, <1>12, <1>13, <1>14, <1>15, <1>16, <1>17, <1>18, <1>19, <1>20, <1>22, <1>23, <1>24
  DEF Stack

LEMMA UnhookStack ==
  ASSUME Inv, Stack, NEW p \in Ptr, Unhook(p)
  PROVE  Stack'
<1>1. PICK b \in live : Removes(p, b)
  BY UnhookStep
<1> DEFINE sys == tramp[b].sys
<1>2. /\ ptr[p] = Entry(b) /\ b \in Block
      /\ sys \in HookableLoc /\ sys \in Loc /\ IsBody(tramp[b].untouched)
      /\ \A x \in Block : Stub(x) # sys
      /\ live' = live \ {b} /\ leaked' = leaked \cup {b}
      /\ \A x \in live' : tramp'[x] = tramp[x]
      /\ ptr' = [ptr EXCEPT ![p] = sys]
  BY <1>1 DEF Removes, Saved, Trampoline
<1>3. /\ code'[sys] = tramp[b].untouched
      /\ \A l \in Loc \ {sys} : code'[l] = code[l]
  BY <1>1 DEF Removes
<1>4. OnTop(b)
  BY <1>2 DEF Stack, PtrOnTop
<1>5. \A q \in Ptr : q # p => ptr'[q] = ptr[q] /\ ptr[q] # Entry(b)
  BY <1>2 DEF Inv, TypeOK, Stack, PtrOwn
<1>6. ptr'[p] = sys
  BY <1>2 DEF Inv, TypeOK
<1>7. \A x \in live : x \in Block /\ Entry(x) \in Loc
  BY LocFacts DEF Inv, TypeOK
<1>8. \A x \in Block : sys = Entry(x) => x \in live /\ x # b
  BY <1>4 DEF Stack, SysLive, OnTop
<1>9. \A x \in live' : tramp[x].sys # sys
  BY <1>2 DEF Inv, OneTrampolinePerFunction
<1> HIDE DEF sys
<1>11. SysLive'
  BY <1>2, <1>4 DEF Stack, SysLive, OnTop
<1>12. PtrKnown'
  <2> SUFFICES ASSUME NEW q \in Ptr
               PROVE  \/ \E r \in Routine : ptr'[q] = Fn(r)
                      \/ \E x \in live' : ptr'[q] = Entry(x)
    BY DEF PtrKnown
  <2>1. CASE q = p
    <3>1. \/ \E r \in Routine : sys = Fn(r)
          \/ \E x \in live \cup leaked : sys = Entry(x)
      BY <1>2 DEF HookableLoc
    <3>2. leaked \subseteq Block
      BY DEF Inv, TypeOK
    <3> QED BY <1>2, <1>6, <1>7, <1>8, <2>1, <3>1, <3>2
  <2>2. CASE q # p
    BY <1>2, <1>5, <2>2 DEF Stack, PtrKnown
  <2> QED BY <2>1, <2>2
<1>13. PtrOnTop'
  <2> SUFFICES ASSUME NEW q \in Ptr, NEW x \in live', ptr'[q] = Entry(x), NEW z \in live'
               PROVE  tramp'[z].sys # Entry(x)
    BY DEF PtrOnTop, OnTop
  <2>1. CASE q = p
    BY <1>2, <1>6, <1>9, <2>1
  <2>2. CASE q # p
    BY <1>2, <1>5, <2>2 DEF Stack, PtrOnTop, OnTop
  <2> QED BY <2>1, <2>2
<1>14. PtrOwn'
  <2>1. \A q \in Ptr, x \in live : q # p /\ ptr[q] = Entry(x) => sys # Entry(x)
    BY DEF Stack, PtrOnTop, OnTop, sys
  <2> SUFFICES ASSUME NEW q1 \in Ptr, NEW q2 \in Ptr, NEW x \in live',
                      ptr'[q1] = Entry(x), ptr'[q2] = Entry(x)
               PROVE  q1 = q2
    BY DEF PtrOwn
  <2> QED BY <1>2, <1>5, <1>6, <2>1 DEF Stack, PtrOwn
<1>15. SameBytes'
  BY <1>2 DEF Stack, SameBytes
<1>16. TopClean'
  <2> SUFFICES ASSUME NEW x \in live', \A z \in live' : tramp'[z].sys # Entry(x)
               PROVE  code'[Entry(x)] = tramp'[x].untouched
    BY DEF TopClean, OnTop
  <2>1. CASE sys = Entry(x)
    <3>1. tramp[b].untouched = tramp[x].untouched
      BY <1>2, <2>1 DEF Stack, SameBytes, sys
    <3> QED BY <1>2, <1>3, <2>1, <3>1
  <2>2. CASE sys # Entry(x)
    <3>1. OnTop(x) /\ x \in live
      BY <1>2, <2>2 DEF OnTop, sys
    <3> QED BY <1>2, <1>3, <1>7, <2>2, <3>1 DEF Stack, TopClean
  <2> QED BY <2>1, <2>2
<1>17. NoRing'
  <2> SUFFICES ASSUME NEW S \in SUBSET live', S # {}
               PROVE  \E x \in S : \A z \in S : tramp'[x].sys # Entry(z)
    BY DEF NoRing
  <2>1. PICK x \in S : \A z \in S : tramp[x].sys # Entry(z)
    BY <1>2 DEF Stack, NoRing
  <2> QED BY <1>2, <2>1
<1>18. GivenUp'
  <2> SUFFICES ASSUME NEW x \in leaked' PROVE IsBody(code'[Entry(x)])
    BY DEF GivenUp
  <2>1. x \in Block /\ Entry(x) \in Loc /\ sys # Entry(x)
    BY <1>2, <1>8, LocFacts DEF Inv, TypeOK
  <2>2. IsBody(code[Entry(x)])
    <3>1. CASE x = b
      BY <1>2, <1>4, <3>1 DEF Stack, TopClean
    <3>2. CASE x # b
      BY <1>2, <3>2 DEF Stack, GivenUp
    <3> QED BY <3>1, <3>2
  <2> QED BY <1>3, <2>1, <2>2
<1>19. NoJumpBack'
  <2>1. \A x \in Block : tramp[b].untouched # Jmp(Entry(x))
    BY <1>2, ContentFacts
  <2> QED BY <1>3, <2>1 DEF Stack, NoJumpBack
<1>20. \A x \in Block : code'[Stub(x)] = code[Stub(x)]
  BY <1>2, <1>3, LocFacts
<1>21. StubLeadsOn'
  <2>1. \A x \in Block : tramp[b].untouched # Jmp(Stub(x))
    BY <1>2, ContentFacts
  <2> QED BY <1>3, <1>20, <2>1 DEF Stack, StubLeadsOn
<1>22. StubOfHook' /\ HookIsFn'
  <2>1. StubOfHook'
    BY <1>2, <1>7, <1>20 DEF Stack, StubOfHook
  <2>2. HookIsFn'
    BY <1>2 DEF Stack, HookIsFn
  <2> QED BY <2>1, <2>2
<1>23. FreshStub'
  BY <1>2, <1>20 DEF Stack, FreshStub, FreeBlock
<1> QED
  BY <1>11, <1>12, <1>13, <1>14, <1>15, <1>16, <1>17, <1>18, <1>19, <1>21, <1>22, <1>23
  DEF Stack

LEMMA StutterStack == Stack /\ UNCHANGED vars => Stack'
  BY DEF Stack, vars, SysLive, PtrKnown, PtrOnTop, PtrOwn, TopClean, SameBytes,
         NoRing, GivenUp, NoJumpBack, StubLeadsOn, StubOfHook, FreshStub, FreeBlock,
         HookIsFn, OnTop, live
--------------------------------------------------------------------------
(* Where things lead in the code as it was loaded.                         *)
LEMMA LoadedFacts ==
  ASSUME Loads
  PROVE  /\ LoadedCode \in [Loc -> Content]
         /\ Acyclic(LoadedCode)
         /\ \A r \in Routine : LoadedCode[Fn(r)] = Image(r)
         /\ \A r \in Routine \ DOMAIN Thunk :
              Leads(Fn(r)) = Fn(r) /\ Image(r) = Body(r)
         /\ \A r \in DOMAIN Thunk : /\ Thunk[r] \in Routine
                                    /\ Image(r) = Jmp(Fn(Thunk[r]))
                                    /\ Leads(Fn(r)) = Leads(Fn(Thunk[r]))
         /\ \A r \in Routine : \E x \in Routine \ DOMAIN Thunk : Leads(Fn(r)) = Fn(x)
<1>1. LoadedCode \in [Loc -> Content]
  BY LocFacts, ContentFacts, ImageType DEF LoadedCode, Loc
<1>2. Acyclic(LoadedCode)
  BY <1>1, LandsAcyclic DEF Loads
<1>3. \A r \in Routine : LoadedCode[Fn(r)] = Image(r)
  BY LocFacts DEF LoadedCode, Fn
<1>4. \A r \in Routine \ DOMAIN Thunk : Image(r) = Body(r) /\ ~IsJmp(Image(r))
  BY DEF Image, Body, IsJmp
<1>5. \A r \in Routine \ DOMAIN Thunk : Leads(Fn(r)) = Fn(r)
  BY <1>1, <1>3, <1>4, LocFacts, SkipJumpsHere DEF Leads
<1>6. \A r \in DOMAIN Thunk : Thunk[r] \in Routine /\ Image(r) = Jmp(Fn(Thunk[r]))
  BY CodeSpaceAssumption DEF Image
<1>7. ASSUME NEW r \in DOMAIN Thunk PROVE Leads(Fn(r)) = Leads(Fn(Thunk[r]))
  <2>1. r \in Routine /\ Fn(r) \in Loc
    BY CodeSpaceAssumption, LocFacts
  <2>2. LoadedCode[Fn(r)] = Jmp(Fn(Thunk[r]))
    BY <1>3, <1>6, <2>1
  <2>3. IsJmp(LoadedCode[Fn(r)]) /\ LoadedCode[Fn(r)][2] = Fn(Thunk[r])
    BY <2>2 DEF IsJmp, Jmp
  <2> QED BY <1>1, <1>2, <2>1, <2>3, SkipJumpsFollows DEF Leads
<1>8. ASSUME NEW r \in Routine
      PROVE  \E x \in Routine \ DOMAIN Thunk : Leads(Fn(r)) = Fn(x)
  <2> DEFINE S == {Fn(x) : x \in Routine}
  <2>1. \A l \in S : IsJmp(LoadedCode[l]) => LoadedCode[l][2] \in S
    <3> SUFFICES ASSUME NEW x \in Routine, IsJmp(LoadedCode[Fn(x)])
                 PROVE  LoadedCode[Fn(x)][2] \in S
      OBVIOUS
    <3>1. x \in DOMAIN Thunk
      BY <1>3, <1>4
    <3> QED BY <1>3, <1>6, <3>1 DEF Jmp
  <2>2. S \in SUBSET Loc /\ Fn(r) \in S
    BY LocFacts
  <2>3. Leads(Fn(r)) \in S
    <3> HIDE DEF S
    <3> QED BY <1>1, <2>1, <2>2, SkipJumpsStays DEF Leads
  <2>4. PICK x \in Routine : Leads(Fn(r)) = Fn(x)
    BY <2>3
  <2>5. ~IsJmp(Image(x))
    BY <1>3, <2>2, <2>4 DEF Loads, Lands, Leads
  <2>6. x \notin DOMAIN Thunk
    BY <1>6, <2>5, ContentFacts
  <2> QED BY <2>4, <2>6
<1> QED BY <1>1, <1>2, <1>3, <1>4, <1>5, <1>6, <1>7, <1>8

(* A pointer that stands alone: its function and its hooks are routines of *)
(* their own, and whatever another pointer starts from leads elsewhere.    *)
LEMMA AloneFacts ==
  ASSUME Loads, OwnHooks, NEW p \in Ptr, Alone(p)
  PROVE  /\ \E r \in Routine \ DOMAIN Thunk :
              Target(p) = Fn(r) /\ Image(r) = Body(Target(p)[2])
         /\ Target(p) \notin HookFns(p) /\ Target(p) \notin AwayFn(p)
         /\ \A h \in HooksOf[p] : /\ h \in Routine /\ Image(h) = Body(h)
                                  /\ Fn(h) \notin AwayFn(p)
         /\ \A q \in Ptr \ {p} : /\ Fn(PtrInit[q]) \in AwayFn(p)
                                 /\ \A k \in HooksOf[q] : Fn(k) \in AwayFn(p)
         /\ \A r \in DOMAIN Thunk : Fn(r) \in AwayFn(p) => Fn(Thunk[r]) \in AwayFn(p)
<1>1. PICK r \in Routine \ DOMAIN Thunk : Target(p) = Fn(r)
  BY LoadedFacts, HookApiAssumption DEF Target, Leads
<1>2. Image(r) = Body(Target(p)[2]) /\ Leads(Target(p)) = Target(p)
  BY <1>1, LoadedFacts DEF Fn
<1>3. Target(p) \notin HookFns(p)
  BY DEF OwnHooks
<1>4. \A h \in HooksOf[p] : h \in Routine \ DOMAIN Thunk
  BY HookApiAssumption DEF OwnHooks
<1>5. \A h \in HooksOf[p] : Leads(Fn(h)) = Fn(h) /\ Image(h) = Body(h)
  BY <1>4, LoadedFacts
<1>6. \A h \in HooksOf[p] : Fn(h) \notin AwayFn(p)
  BY <1>5 DEF AwayFn, HookFns
<1>7. \A q \in Ptr \ {p} : Fn(PtrInit[q]) \in AwayFn(p)
  BY HookApiAssumption DEF AwayFn, OwnHooks, Alone, Target, Leads
<1>8. \A q \in Ptr \ {p} : \A k \in HooksOf[q] : Fn(k) \in AwayFn(p)
  BY HookApiAssumption DEF AwayFn, OwnHooks, Leads
<1>9. \A x \in DOMAIN Thunk : Fn(x) \in AwayFn(p) => Fn(Thunk[x]) \in AwayFn(p)
  BY LoadedFacts DEF AwayFn
<1>10. Target(p) \notin AwayFn(p)
  BY <1>2 DEF AwayFn
<1> QED BY <1>1, <1>2, <1>3, <1>4, <1>5, <1>6, <1>7, <1>8, <1>9, <1>10

(* What is not the pointer's leads away from what is.                      *)
Away(p) == AwayFn(p) \cup {Entry(b) : b \in live \ Owned(p)}
                     \cup {Stub(b) : b \in live \ Owned(p)}

LEMMA AwayStays ==
  ASSUME Loads, OwnHooks, Inv, Stack, NEW p \in Ptr, Alone(p), Apart(p), NEW l \in Away(p)
  PROVE  SkipJumps(code, l) \in Away(p)
<1> SUFFICES \A x \in Away(p) : IsJmp(code[x]) => code[x][2] \in Away(p)
  <2>1. Away(p) \in SUBSET Loc
    BY LocFacts DEF Away, AwayFn, Inv, TypeOK
  <2> QED BY <2>1, SkipJumpsStays DEF Inv, TypeOK
<1>1. \A b \in live \ Owned(p) :
        /\ tramp[b].hook \in Away(p) /\ Stub(b) \in Away(p)
        /\ code[tramp[b].sys] \in {Jmp(tramp[b].hook), Jmp(Stub(b))}
        /\ code[Stub(b)] \in {Blank, Jmp(tramp[b].hook)}
  BY DEF Apart, OthersAway, Away, Inv, HookInPlace, Stack, StubOfHook
<1>2. \A b \in live \ Owned(p) :
        /\ IsJmp(code[tramp[b].sys]) => code[tramp[b].sys][2] \in Away(p)
        /\ IsJmp(code[Stub(b)]) => code[Stub(b)][2] \in Away(p)
  BY <1>1, ContentFacts DEF Jmp
<1>3. ASSUME NEW r \in Routine, Fn(r) \in AwayFn(p), IsJmp(code[Fn(r)])
      PROVE  code[Fn(r)][2] \in Away(p)
  <2>1. CASE \E b \in live : tramp[b].sys = Fn(r)
    <3>1. PICK b \in live : tramp[b].sys = Fn(r)
      BY <2>1
    <3>2. b \notin Owned(p)
      BY <1>3, <3>1, LocFacts, AloneFacts DEF Apart, OwnedIsOn
    <3> QED BY <1>2, <1>3, <3>1, <3>2
  <2>2. CASE \A b \in live : tramp[b].sys # Fn(r)
    <3>1. code[Fn(r)] = Image(r)
      BY <2>2 DEF Inv, Conservation
    <3>2. r \in DOMAIN Thunk
      BY <1>3, <3>1 DEF Image, Body, IsJmp
    <3>3. code[Fn(r)][2] = Fn(Thunk[r])
      BY <3>1, <3>2, LoadedFacts DEF Jmp
    <3> QED BY <1>3, <3>2, <3>3, AloneFacts DEF Away
  <2> QED BY <2>1, <2>2
<1>4. ASSUME NEW x \in live \ Owned(p), IsJmp(code[Entry(x)])
      PROVE  code[Entry(x)][2] \in Away(p)
  <2>1. CASE OnTop(x)
    <3>1. IsBody(code[Entry(x)])
      BY <2>1 DEF Stack, TopClean, Inv, SavedOK, Saved
    <3> QED BY <1>4, <3>1, ContentFacts DEF IsBody, IsJmp
  <2>2. CASE ~OnTop(x)
    <3>1. PICK b \in live : tramp[b].sys = Entry(x)
      BY <2>2 DEF OnTop
    <3>2. b \notin Owned(p)
      <4>1. Target(p) # Entry(x)
        BY AloneFacts, LocFacts
      <4>2. \A y \in Owned(p) : Entry(y) # Entry(x)
        BY LocFacts
      <4> QED BY <3>1, <4>1, <4>2 DEF Apart, OwnedIsOn
    <3> QED BY <1>2, <1>4, <3>1, <3>2
  <2> QED BY <2>1, <2>2
<1> QED BY <1>2, <1>3, <1>4 DEF Away, AwayFn

(* While the pointer is not hooked, its function has the loaded code, and  *)
(* so have the import thunks that lead there.                              *)
LEMMA UnhookedLeads ==
  ASSUME Loads, OwnHooks, Inv, NEW p \in Ptr, Alone(p), OwnedIsOn(p), Owned(p) = {},
         NEW r \in Routine, Leads(Fn(r)) = Target(p)
  PROVE  SkipJumps(code, Fn(r)) = Target(p) /\ code[Target(p)] = Body(Target(p)[2])
<1> DEFINE S == {l \in {Fn(x) : x \in Routine} : Leads(l) = Target(p)}
<1>1. \A x \in Routine : Leads(Fn(x)) = Target(p) => code[Fn(x)] = Image(x)
  <2> SUFFICES ASSUME NEW x \in Routine, Leads(Fn(x)) = Target(p),
                      NEW b \in live, tramp[b].sys = Fn(x)
               PROVE  FALSE
    BY DEF Inv, Conservation
  <2>1. IsBody(Image(x))
    BY DEF Inv, SavedOK, Saved
  <2>2. x \notin DOMAIN Thunk
    BY <2>1, ContentFacts DEF Image
  <2>3. Leads(Fn(x)) = Fn(x)
    BY <2>2, LoadedFacts
  <2> QED BY <2>3 DEF OwnedIsOn
<1>2. \A l \in S : IsJmp(LoadedCode[l]) => LoadedCode[l][2] \in S
  <2> SUFFICES ASSUME NEW x \in Routine, Leads(Fn(x)) = Target(p), IsJmp(LoadedCode[Fn(x)])
               PROVE  LoadedCode[Fn(x)][2] \in S
    OBVIOUS
  <2>1. x \in DOMAIN Thunk
    BY LoadedFacts DEF Body, IsJmp
  <2>2. LoadedCode[Fn(x)][2] = Fn(Thunk[x])
    BY <2>1, LoadedFacts DEF Jmp
  <2> QED BY <2>1, <2>2, LoadedFacts
<1>3. S \in SUBSET Loc /\ Fn(r) \in S
  BY LocFacts
<1>4. \A l \in S : code[l] = LoadedCode[l]
  BY <1>1, LoadedFacts
<1>5. SkipJumps(code, Fn(r)) = SkipJumps(LoadedCode, Fn(r))
  <2> HIDE DEF S
  <2> QED BY <1>2, <1>3, <1>4, LoadedFacts, SkipJumpsAgree DEF Inv, TypeOK
<1>6. PICK x \in Routine \ DOMAIN Thunk : Target(p) = Fn(x) /\ Image(x) = Body(Target(p)[2])
  BY AloneFacts
<1>7. Leads(Target(p)) = Target(p)
  BY <1>6, LoadedFacts
<1> QED BY <1>1, <1>5, <1>6, <1>7 DEF Leads

LEMMA InitApart ==
  ASSUME Loads, OwnHooks, Init, NEW p \in Ptr, Alone(p)
  PROVE  Apart(p)
<1>1. live = {} /\ Owned(p) = {}
  BY DEF Init, live, Owned
<1>2. OwnPtr(p) /\ OthersAway(p)
  BY <1>1, AloneFacts DEF Init, OwnPtr, OthersAway
<1> QED BY <1>1, <1>2 DEF Apart, OwnedIsOn, HooksClean, OwnBytes

(* The hooks are not hooked themselves.                                    *)
LEMMA HookStays ==
  ASSUME Loads, OwnHooks, Inv, NEW p \in Ptr, Alone(p), HooksClean(p), NEW h \in HooksOf[p]
  PROVE  Fn(h) \in Loc /\ code[Fn(h)] = Body(h) /\ SkipJumps(code, Fn(h)) = Fn(h)
<1>1. code[Fn(h)] = Image(h)
  BY AloneFacts DEF Inv, Conservation, HooksClean, HookFns
<1>2. ~IsJmp(code[Fn(h)]) /\ Fn(h) \in Loc
  BY <1>1, AloneFacts, LocFacts DEF Body, IsJmp
<1> QED BY <1>1, <1>2, AloneFacts, SkipJumpsHere DEF Inv, TypeOK

(* What the pointer calls has the bytes of its function.                   *)
LEMMA PtrLeads ==
  ASSUME Loads, OwnHooks, Inv, Stack, NEW p \in Ptr, Alone(p), Apart(p)
  PROVE  /\ SkipJumps(code, ptr[p]) \in {Target(p)} \cup {Entry(x) : x \in Owned(p)}
         /\ code[SkipJumps(code, ptr[p])] = Body(Target(p)[2])
<1>1. CASE Owned(p) = {} /\ ptr[p] \in {Fn(PtrInit[p]), Target(p)}
  <2>1. PICK r \in Routine : ptr[p] = Fn(r) /\ Leads(Fn(r)) = Target(p)
    <3>1. CASE ptr[p] = Fn(PtrInit[p])
      BY <3>1, HookApiAssumption DEF Leads, Target
    <3>2. CASE ptr[p] = Target(p)
      BY <3>2, AloneFacts, LoadedFacts
    <3> QED BY <1>1, <3>1, <3>2
  <2> QED BY <1>1, <2>1, UnhookedLeads DEF Apart
<1>2. CASE \E x \in Owned(p) : ptr[p] = Entry(x)
  <2>1. PICK x \in Owned(p) : ptr[p] = Entry(x)
    BY <1>2
  <2>2. x \in live /\ Entry(x) \in Loc
    BY LocFacts DEF Owned, Inv, TypeOK
  <2>3. code[Entry(x)] = tramp[x].untouched /\ IsBody(code[Entry(x)])
    BY <2>1, <2>2 DEF Stack, PtrOnTop, TopClean, Inv, SavedOK, Saved
  <2>4. SkipJumps(code, ptr[p]) = Entry(x)
    BY <2>1, <2>2, <2>3, SkipJumpsHere, ContentFacts DEF Inv, TypeOK, IsBody, IsJmp
  <2> QED BY <2>1, <2>3, <2>4 DEF Apart, OwnBytes
<1> QED BY <1>1, <1>2 DEF Apart, OwnPtr

(* The pointer puts on a hook: on its function or on its last trampoline.  *)
LEMMA SetHookOwn ==
  ASSUME Loads, OwnHooks, Inv, Stack, NEW p \in Ptr, Alone(p), Apart(p),
         NEW h \in HooksOf[p], SetHook(p, h)
  PROVE  Apart(p)'
<1>1. PICK b \in FreeBlock, sys \in Loc, hook \in Loc : Installs(p, h, b, sys, hook)
  BY SetHookStep
<1>2. /\ sys = SkipJumps(code, ptr[p]) /\ hook = SkipJumps(code, Fn(h))
      /\ b \in Block /\ b \notin live /\ b \notin leaked
      /\ live' = live \cup {b}
      /\ tramp'[b] = [sys |-> sys, hook |-> hook, untouched |-> code[sys]]
      /\ \A x \in live : tramp'[x] = tramp[x]
      /\ ptr' = [ptr EXCEPT ![p] = Entry(b)]
  BY <1>1 DEF Installs
<1>3. hook = Fn(h)
  BY <1>2, HookStays DEF Apart
<1>4. /\ sys \in {Target(p)} \cup {Entry(x) : x \in Owned(p)}
      /\ code[sys] = Body(Target(p)[2])
  BY <1>2, PtrLeads
<1>5. Owned(p)' = Owned(p) \cup {b}
  BY <1>2, <1>3 DEF Owned, HookFns
<1>6. \A x \in live : tramp[x].sys # Entry(b)
  BY <1>2, LocFacts DEF Inv, TypeOK, SysKnown, HookableLoc
<1>7. OwnedIsOn(p)'
  <2> SUFFICES ASSUME NEW x \in live'
               PROVE  x \in Owned(p)' <=>
                        tramp'[x].sys \in {Target(p)} \cup {Entry(y) : y \in Owned(p)'}
    BY DEF OwnedIsOn, Target
  <2>1. CASE x = b
    BY <1>2, <1>4, <1>5, <2>1
  <2>2. CASE x \in live
    <3>1. x \in Owned(p)' <=> x \in Owned(p)
      BY <1>2, <1>5, <2>2
    <3>2. tramp'[x].sys = tramp[x].sys
      BY <1>2, <2>2
    <3> QED BY <1>5, <1>6, <2>2, <3>1, <3>2 DEF Apart, OwnedIsOn
  <2> QED BY <1>2, <2>1, <2>2
<1>8. HooksClean(p)'
  <2>1. sys \notin HookFns(p)
    BY <1>4, AloneFacts, LocFacts DEF HookFns
  <2> QED BY <1>2, <2>1 DEF Apart, HooksClean, HookFns
<1>9. OwnBytes(p)'
  <2>1. \A x \in Owned(p)' : tramp'[x].untouched = Body(Target(p)[2])
    BY <1>2, <1>4, <1>5 DEF Apart, OwnBytes, Owned
  <2> QED BY <2>1 DEF OwnBytes, Target
<1>10. OwnPtr(p)'
  BY <1>2, <1>5 DEF OwnPtr, Inv, TypeOK
<1>11. OthersAway(p)'
  <2>1. live' \ Owned(p)' = live \ Owned(p)
    BY <1>2, <1>5
  <2>2. \A q \in Ptr \ {p} : ptr'[q] = ptr[q]
    BY <1>2 DEF Inv, TypeOK
  <2>3. AwayFn(p)' = AwayFn(p)
    BY DEF AwayFn, HookFns, Leads, Target
  <2> QED BY <1>2, <2>1, <2>2, <2>3 DEF Apart, OthersAway
<1> QED BY <1>7, <1>8, <1>9, <1>10, <1>11 DEF Apart

(* Another pointer puts on a hook: that happens elsewhere.                 *)
LEMMA SetHookOther ==
  ASSUME Loads, OwnHooks, Inv, Stack, NEW p \in Ptr, Alone(p), Apart(p),
         NEW q \in Ptr \ {p}, NEW h \in HooksOf[q], SetHook(q, h)
  PROVE  Apart(p)'
<1>1. PICK b \in FreeBlock, sys \in Loc, hook \in Loc : Installs(q, h, b, sys, hook)
  BY SetHookStep
<1>2. /\ sys = SkipJumps(code, ptr[q]) /\ hook = SkipJumps(code, Fn(h))
      /\ ~IsJmp(code[hook]) /\ sys \in HookableLoc
      /\ b \in Block /\ b \notin live /\ b \notin leaked
      /\ live' = live \cup {b}
      /\ tramp'[b] = [sys |-> sys, hook |-> hook, untouched |-> code[sys]]
      /\ \A x \in live : tramp'[x] = tramp[x]
      /\ ptr' = [ptr EXCEPT ![q] = Entry(b)]
  BY <1>1 DEF Installs
<1>3. sys \in Away(p) /\ hook \in Away(p)
  <2>1. ptr[q] \in Away(p)
    BY DEF Apart, OthersAway, Away
  <2>2. Fn(h) \in Away(p)
    BY AloneFacts DEF Away
  <2> QED BY <1>2, <2>1, <2>2, AwayStays
<1>4. hook \in AwayFn(p) /\ hook \notin HookFns(p)
  <2>1. \E y \in Routine : hook = Fn(y)
    BY <1>2, HookApiAssumption, HookResolvesToFn DEF Lands
  <2>2. hook \in AwayFn(p)
    BY <1>3, <2>1, LocFacts DEF Away
  <2> QED BY <2>2, AloneFacts DEF HookFns
<1>5. /\ sys # Target(p) /\ sys \notin HookFns(p)
      /\ \A x \in Owned(p) : sys # Entry(x)
  <2>1. CASE sys \in AwayFn(p)
    BY <2>1, AloneFacts, LocFacts DEF AwayFn, HookFns
  <2>2. CASE \E x \in live \ Owned(p) : sys = Entry(x)
    BY <2>2, AloneFacts, LocFacts DEF HookFns
  <2>3. CASE \E x \in live \ Owned(p) : sys = Stub(x)
    BY <1>2, <2>3, LocFacts DEF HookableLoc
  <2> QED BY <1>3, <2>1, <2>2, <2>3 DEF Away
<1>6. Owned(p)' = Owned(p) /\ b \notin Owned(p)
  BY <1>2, <1>4 DEF Owned, HookFns
<1>7. OwnedIsOn(p)'
  BY <1>2, <1>5, <1>6 DEF Apart, OwnedIsOn, Target
<1>8. HooksClean(p)'
  BY <1>2, <1>5 DEF Apart, HooksClean, HookFns
<1>9. OwnBytes(p)'
  BY <1>2, <1>6 DEF Apart, OwnBytes, Target, Owned
<1>10. OwnPtr(p)'
  <2>1. ptr'[p] = ptr[p]
    BY <1>2 DEF Inv, TypeOK
  <2> QED BY <1>6, <2>1 DEF Apart, OwnPtr, Target
<1>11. OthersAway(p)'
  <2>1. AwayFn(p)' = AwayFn(p)
    BY DEF AwayFn, HookFns, Leads, Target
  <2>2. \A x \in live' \ Owned(p)' : tramp'[x].hook \in AwayFn(p)'
    BY <1>2, <1>4, <1>6, <2>1 DEF Apart, OthersAway
  <2>3. \A y \in Ptr \ {p} : \/ ptr'[y] \in AwayFn(p)'
                             \/ \E x \in live' \ Owned(p)' : ptr'[y] = Entry(x)
    <3> SUFFICES ASSUME NEW y \in Ptr \ {p}
                 PROVE  \/ ptr'[y] \in AwayFn(p)
                        \/ \E x \in live' \ Owned(p)' : ptr'[y] = Entry(x)
      BY <2>1
    <3>1. CASE y = q
      BY <1>2, <1>6, <3>1 DEF Inv, TypeOK
    <3>2. CASE y # q
      <4>1. ptr'[y] = ptr[y]
        BY <1>2, <3>2 DEF Inv, TypeOK
      <4> QED BY <1>2, <1>6, <4>1 DEF Apart, OthersAway
    <3> QED BY <3>1, <3>2
  <2> QED BY <2>2, <2>3 DEF OthersAway
<1> QED BY <1>7, <1>8, <1>9, <1>10, <1>11 DEF Apart

(* The pointer takes its last hook off.                                    *)
LEMMA UnhookOwn ==
  ASSUME Loads, OwnHooks, Inv, Stack, NEW p \in Ptr, Alone(p), Apart(p), Unhook(p)
  PROVE  Apart(p)'
<1>1. PICK b \in live : Removes(p, b)
  BY UnhookStep
<1>2. /\ ptr[p] = Entry(b) /\ b \in Block
      /\ live' = live \ {b}
      /\ \A x \in live' : tramp'[x] = tramp[x]
      /\ ptr' = [ptr EXCEPT ![p] = tramp[b].sys]
  BY <1>1 DEF Removes
<1>3. b \in Owned(p)
  <2>1. ptr[p] # Fn(PtrInit[p]) /\ ptr[p] # Target(p)
    BY <1>2, AloneFacts, LocFacts
  <2> QED BY <1>2, <2>1, LocFacts DEF Apart, OwnPtr
<1>4. OnTop(b)
  BY <1>2 DEF Stack, PtrOnTop
<1>5. Owned(p)' = Owned(p) \ {b}
  BY <1>2 DEF Owned, HookFns
<1>6. OwnedIsOn(p)'
  <2> SUFFICES ASSUME NEW x \in live'
               PROVE  x \in Owned(p)' <=>
                        tramp'[x].sys \in {Target(p)} \cup {Entry(y) : y \in Owned(p)'}
    BY DEF OwnedIsOn, Target
  <2>1. x \in live /\ tramp'[x].sys = tramp[x].sys /\ tramp[x].sys # Entry(b)
    BY <1>2, <1>4 DEF OnTop
  <2>2. x \in Owned(p)' <=> x \in Owned(p)
    BY <1>2, <1>5
  <2> QED BY <1>5, <2>1, <2>2 DEF Apart, OwnedIsOn
<1>7. HooksClean(p)' /\ OwnBytes(p)'
  <2>1. HooksClean(p)'
    BY <1>2 DEF Apart, HooksClean, HookFns
  <2>2. OwnBytes(p)'
    BY <1>2, <1>5 DEF Apart, OwnBytes, Target, Owned
  <2> QED BY <2>1, <2>2
<1>8. OwnPtr(p)'
  <2>1. ptr'[p] = tramp[b].sys
    BY <1>2 DEF Inv, TypeOK
  <2>2. CASE tramp[b].sys = Target(p)
    <3>1. Owned(p) \ {b} = {}
      <4> SUFFICES ASSUME Owned(p) \ {b} # {} PROVE FALSE
        OBVIOUS
      <4>1. Owned(p) \ {b} \in SUBSET live
        BY DEF Owned
      <4>2. PICK x \in Owned(p) \ {b} : \A y \in Owned(p) \ {b} : tramp[x].sys # Entry(y)
        BY <4>1 DEF Stack, NoRing
      <4>3. x \in live /\ tramp[x].sys # Entry(b)
        BY <1>4 DEF OnTop, Owned
      <4>4. tramp[x].sys = Target(p)
        BY <4>2, <4>3 DEF Apart, OwnedIsOn
      <4> QED BY <2>2, <4>3, <4>4 DEF Inv, OneTrampolinePerFunction
    <3> QED BY <1>5, <2>1, <2>2, <3>1 DEF OwnPtr, Target
  <2>3. CASE tramp[b].sys # Target(p)
    <3>1. PICK x \in Owned(p) : tramp[b].sys = Entry(x)
      BY <1>3, <2>3 DEF Apart, OwnedIsOn
    <3>2. x # b
      BY <1>4, <3>1 DEF OnTop
    <3> QED BY <1>5, <2>1, <3>1, <3>2 DEF OwnPtr
  <2> QED BY <2>2, <2>3
<1>9. OthersAway(p)'
  <2>1. live' \ Owned(p)' = live \ Owned(p)
    BY <1>2, <1>3, <1>5
  <2>2. \A q \in Ptr \ {p} : ptr'[q] = ptr[q]
    BY <1>2 DEF Inv, TypeOK
  <2>3. AwayFn(p)' = AwayFn(p)
    BY DEF AwayFn, HookFns, Leads, Target
  <2> QED BY <1>2, <1>3, <2>1, <2>2, <2>3 DEF Apart, OthersAway
<1> QED BY <1>6, <1>7, <1>8, <1>9 DEF Apart

(* Another pointer takes its last hook off.                                *)
LEMMA UnhookOther ==
  ASSUME Loads, OwnHooks, Inv, Stack, NEW p \in Ptr, Alone(p), Apart(p),
         NEW q \in Ptr \ {p}, Unhook(q)
  PROVE  Apart(p)'
<1>1. PICK b \in live : Removes(q, b)
  BY UnhookStep
<1> DEFINE sys == tramp[b].sys
<1>2. /\ ptr[q] = Entry(b) /\ b \in Block
      /\ sys \in HookableLoc /\ Saved(tramp[b])
      /\ live' = live \ {b}
      /\ \A x \in live' : tramp'[x] = tramp[x]
      /\ ptr' = [ptr EXCEPT ![q] = sys]
  BY <1>1 DEF Removes
<1>3. b \notin Owned(p)
  BY <1>2, LocFacts DEF Apart, OthersAway, AwayFn
<1>4. sys # Target(p) /\ sys \notin HookFns(p) /\ \A x \in Owned(p) : sys # Entry(x)
  BY <1>3 DEF Apart, OwnedIsOn, HooksClean
<1>5. \/ sys \in AwayFn(p)
      \/ \E x \in (live \ Owned(p)) \ {b} : sys = Entry(x)
  <2>1. CASE \E r \in Routine : sys = Fn(r)
    <3>1. PICK r \in Routine : sys = Fn(r)
      BY <2>1
    <3>2. IsBody(Image(r))
      BY <1>2, <3>1 DEF Saved
    <3>3. r \notin DOMAIN Thunk
      BY <3>2, ContentFacts DEF Image
    <3>4. Leads(Fn(r)) = Fn(r)
      BY <3>3, LoadedFacts
    <3> QED BY <1>4, <3>1, <3>4 DEF AwayFn
  <2>2. CASE \E x \in live \cup leaked : sys = Entry(x)
    <3>1. PICK x \in live \cup leaked : sys = Entry(x)
      BY <2>2
    <3>2. x \in live
      BY <3>1 DEF Inv, TypeOK, Stack, SysLive
    <3>3. x # b
      BY <1>2, <3>1 DEF Stack, PtrOnTop, OnTop
    <3> QED BY <1>4, <3>1, <3>2, <3>3
  <2> QED BY <1>2, <2>1, <2>2 DEF HookableLoc
<1>6. Owned(p)' = Owned(p)
  BY <1>2, <1>3 DEF Owned, HookFns
<1> HIDE DEF sys
<1>7. OwnedIsOn(p)'
  BY <1>2, <1>6 DEF Apart, OwnedIsOn, Target
<1>8. HooksClean(p)' /\ OwnBytes(p)'
  <2>1. HooksClean(p)'
    BY <1>2 DEF Apart, HooksClean, HookFns
  <2>2. OwnBytes(p)'
    BY <1>2, <1>3, <1>6 DEF Apart, OwnBytes, Target, Owned
  <2> QED BY <2>1, <2>2
<1>9. OwnPtr(p)'
  <2>1. ptr'[p] = ptr[p]
    BY <1>2 DEF Inv, TypeOK
  <2> QED BY <1>6, <2>1 DEF Apart, OwnPtr, Target
<1>10. OthersAway(p)'
  <2>1. AwayFn(p)' = AwayFn(p)
    BY DEF AwayFn, HookFns, Leads, Target
  <2>2. \A x \in live' \ Owned(p)' : tramp'[x].hook \in AwayFn(p)'
    BY <1>2, <1>6, <2>1 DEF Apart, OthersAway
  <2>3. \A y \in Ptr \ {p} : \/ ptr'[y] \in AwayFn(p)'
                             \/ \E x \in live' \ Owned(p)' : ptr'[y] = Entry(x)
    <3> SUFFICES ASSUME NEW y \in Ptr \ {p}
                 PROVE  \/ ptr'[y] \in AwayFn(p)
                        \/ \E x \in (live \ Owned(p)) \ {b} : ptr'[y] = Entry(x)
      BY <1>2, <1>6, <2>1
    <3>1. CASE y = q
      BY <1>2, <1>5, <3>1 DEF Inv, TypeOK
    <3>2. CASE y # q
      <4>1. ptr'[y] = ptr[y] /\ ptr[y] # Entry(b)
        BY <1>2, <3>2 DEF Inv, TypeOK, Stack, PtrOwn
      <4> QED BY <4>1 DEF Apart, OthersAway
    <3> QED BY <3>1, <3>2
  <2> QED BY <2>2, <2>3 DEF OthersAway
<1> QED BY <1>7, <1>8, <1>9, <1>10 DEF Apart

LEMMA StutterApart == \A p \in Ptr : Apart(p) /\ UNCHANGED vars => Apart(p)'
  BY DEF vars, Apart, OwnedIsOn, HooksClean, OwnBytes, OwnPtr, OthersAway, Owned,
         HookFns, AwayFn, Leads, Target, live
--------------------------------------------------------------------------
(* Everybody else's call of a hooked function comes to the hook that stands *)
(* on the function itself: the first of the pointer's trampolines.         *)
LEMMA HookedLeads ==
  ASSUME Loads, OwnHooks, Inv, Stack, NEW p \in Ptr, Alone(p), Apart(p), Owned(p) # {}
  PROVE  Runs(code, Fn(PtrInit[p])) \in {Body(h) : h \in HooksOf[p]}
<1>1. PICK b \in Owned(p) : tramp[b].sys = Target(p)
  <2>1. Owned(p) \in SUBSET live
    BY DEF Owned
  <2>2. PICK b \in Owned(p) : \A x \in Owned(p) : tramp[b].sys # Entry(x)
    BY <2>1 DEF Stack, NoRing
  <2> QED BY <2>1, <2>2 DEF Apart, OwnedIsOn
<1>2. PICK h \in HooksOf[p] : tramp[b].hook = Fn(h)
  BY DEF Owned, HookFns
<1>3. /\ b \in live /\ b \in Block /\ Stub(b) \in Loc
      /\ code \in [Loc -> Content]
  BY LocFacts DEF Owned, Inv, TypeOK
<1>4. /\ Fn(h) \in Loc /\ code[Fn(h)] = Body(h) /\ ~IsJmp(code[Fn(h)])
      /\ Fn(h) # Target(p)
  BY AloneFacts, HookStays DEF Apart, Body, IsJmp, HookFns
<1>5. \/ code[Target(p)] = Jmp(Fn(h))
      \/ code[Target(p)] = Jmp(Stub(b)) /\ code[Stub(b)] = Jmp(Fn(h))
  BY <1>1, <1>2, <1>3 DEF Inv, HookInPlace
<1>6. IsJmp(code[Stub(b)]) => code[Stub(b)] = Jmp(Fn(h))
  BY <1>2, <1>3, ContentFacts DEF Stack, StubOfHook
<1>7. ASSUME NEW x \in Routine, Leads(Fn(x)) = Target(p), Fn(x) # Target(p)
      PROVE  /\ code[Fn(x)] = LoadedCode[Fn(x)] /\ code[Fn(x)] = Jmp(Fn(Thunk[x]))
             /\ Thunk[x] \in Routine /\ Leads(Fn(Thunk[x])) = Target(p)
  <2>1. x \in DOMAIN Thunk
    BY <1>7, LoadedFacts
  <2>2. \A y \in live : tramp[y].sys # Fn(x)
    BY <2>1, LoadedFacts, ContentFacts DEF Inv, SavedOK, Saved
  <2>3. code[Fn(x)] = Image(x)
    BY <2>2 DEF Inv, Conservation
  <2> QED BY <1>7, <2>1, <2>3, LoadedFacts
<1> DEFINE T == {l \in {Fn(x) : x \in Routine} : Leads(l) = Target(p)}
           S == T \cup {Fn(h)} \cup {l \in {Stub(b)} : IsJmp(code[l])}
           d == [l \in Loc |-> IF l \in S THEN code[l] ELSE Blank]
<1>8. \A l \in T \ {Target(p)} :
        code[l] = LoadedCode[l] /\ IsJmp(code[l]) /\ code[l][2] \in T
  BY <1>7, ContentFacts, SMTT(30) DEF Jmp
<1>9. Target(p) \in T /\ T \in SUBSET Loc /\ Fn(PtrInit[p]) \in T
  BY AloneFacts, LoadedFacts, LocFacts, HookApiAssumption DEF Target, Leads
<1> HIDE DEF T
<1>10. IsJmp(code[Target(p)]) /\ code[Target(p)][2] \in S
  <2>1. CASE code[Target(p)] = Jmp(Fn(h))
    BY <2>1, ContentFacts DEF Jmp
  <2>2. CASE code[Target(p)] = Jmp(Stub(b)) /\ code[Stub(b)] = Jmp(Fn(h))
    BY <2>2, ContentFacts DEF Jmp
  <2> QED BY <1>5, <2>1, <2>2
<1>11. \A l \in S : IsJmp(code[l]) => code[l][2] \in S
  BY <1>4, <1>6, <1>8, <1>10, SMTT(30) DEF Jmp
<1>12. S \in SUBSET Loc
  BY <1>3, <1>4, <1>9
<1>13. d \in [Loc -> Content] /\ \A l \in S : d[l] = code[l]
  BY <1>3, <1>12, ContentFacts
<1>14. Acyclic(d)
  <2> SUFFICES ASSUME NEW V \in SUBSET Loc, V # {},
                      \A l \in V : IsJmp(d[l]) /\ d[l][2] \in V
               PROVE  FALSE
    BY DEF Acyclic
  <2>1. \A l \in V : l \in S /\ IsJmp(code[l]) /\ code[l][2] \in V
    BY ContentFacts
  <2> HIDE DEF S, d
  <2>2. Fn(h) \notin V
    BY <1>4, <2>1
  <2>3. Stub(b) \notin V
    BY <1>6, <2>1, <2>2 DEF Jmp
  <2>4. Target(p) \notin V
    BY <1>5, <2>1, <2>2, <2>3 DEF Jmp
  <2>5. V \subseteq T \ {Target(p)}
    BY <2>1, <2>2, <2>3, <2>4 DEF S
  <2>6. PICK l \in V : IsJmp(LoadedCode[l]) => LoadedCode[l][2] \notin V
    BY LoadedFacts DEF Acyclic
  <2> QED BY <1>8, <2>1, <2>5, <2>6
<1>15. PICK l \in S : l = SkipJumps(code, Fn(PtrInit[p])) /\ ~IsJmp(code[l])
  <2>1. Fn(PtrInit[p]) \in S
    BY <1>9
  <2> HIDE DEF S
  <2>2. SkipJumps(code, Fn(PtrInit[p])) \in S
    BY <1>3, <1>11, <1>12, <2>1, SkipJumpsStays
  <2>3. SkipJumps(d, Fn(PtrInit[p])) = SkipJumps(code, Fn(PtrInit[p]))
    <3> HIDE DEF d
    <3> QED BY <1>3, <1>11, <1>12, <1>13, <2>1, SkipJumpsAgree
  <2>4. Lands(d, SkipJumps(d, Fn(PtrInit[p])))
    <3> HIDE DEF d
    <3> QED BY <1>12, <1>13, <1>14, <2>1, AcyclicLands
  <2> QED BY <1>13, <2>2, <2>3, <2>4 DEF Lands
<1>16. l = Fn(h)
  BY <1>8, <1>10, <1>15
<1> QED BY <1>4, <1>15, <1>16 DEF Runs
--------------------------------------------------------------------------
(***************************************************************************)
(* When every pointer stands alone, every jump that hooking wrote leads,   *)
(* directly or through one stub, to a hook that is itself untouched: also  *)
(* the jumps in the stubs of trampolines given up long ago.                *)
(***************************************************************************)
AllAlone  == \A p \in Ptr : Alone(p)
AnyHook   == UNION {HookFns(p) : p \in Ptr}
EveryHook == \A b \in live : tramp[b].hook \in AnyHook
EveryStub == \A b \in Block : code[Stub(b)] \in {Blank} \cup {Jmp(l) : l \in AnyHook}

LEMMA InitEvery == Init => EveryHook /\ EveryStub
  BY LocFacts DEF Init, EveryHook, EveryStub, live, LoadedCode, Stub

LEMMA SetHookEvery ==
  ASSUME Loads, OwnHooks, AllAlone, Inv, AloneApart, EveryHook, EveryStub,
         NEW p \in Ptr, NEW h \in HooksOf[p], SetHook(p, h)
  PROVE  EveryHook' /\ EveryStub'
<1>1. PICK b \in FreeBlock, sys \in Loc, hook \in Loc : Installs(p, h, b, sys, hook)
  BY SetHookStep
<1>2. hook \in AnyHook /\ AnyHook' = AnyHook
  <2>1. hook = Fn(h)
    BY <1>1, HookStays DEF Installs, AllAlone, AloneApart, Apart
  <2> QED BY <2>1 DEF AnyHook, HookFns
<1>3. EveryHook'
  BY <1>1, <1>2 DEF Installs, EveryHook
<1>4. ASSUME NEW x \in Block
      PROVE  code'[Stub(x)] \in {Blank} \cup {Jmp(l) : l \in AnyHook}
  <2>1. CASE x = b
    BY <1>1, <1>2, <2>1 DEF Installs
  <2>2. CASE x # b
    <3>1. Stub(x) \in Loc \ {sys, Entry(b), Stub(b)}
      BY <1>1, <2>2, LocFacts DEF Installs
    <3> QED BY <1>1, <3>1 DEF Installs, EveryStub
  <2> QED BY <2>1, <2>2
<1> QED BY <1>2, <1>3, <1>4 DEF EveryStub

LEMMA UnhookEvery ==
  ASSUME Inv, EveryHook, EveryStub, NEW p \in Ptr, Unhook(p)
  PROVE  EveryHook' /\ EveryStub'
<1>1. PICK b \in live : Removes(p, b)
  BY UnhookStep
<1>2. AnyHook' = AnyHook
  BY DEF AnyHook, HookFns
<1>3. \A x \in Block : code'[Stub(x)] = code[Stub(x)]
  BY <1>1, LocFacts DEF Removes
<1>4. EveryHook'
  BY <1>1, <1>2 DEF Removes, EveryHook
<1>5. EveryStub'
  BY <1>2, <1>3 DEF EveryStub
<1> QED BY <1>4, <1>5

LEMMA StutterEvery == EveryHook /\ EveryStub /\ UNCHANGED vars => EveryHook' /\ EveryStub'
  BY DEF EveryHook, EveryStub, vars, live, AnyHook, HookFns

LEMMA NoCycle ==
  ASSUME Loads, OwnHooks, AllAlone, Inv, Stack, AloneApart, EveryHook, EveryStub
  PROVE  NoJumpCycle
<1>1. Acyclic(code)
  <2> SUFFICES ASSUME NEW V \in SUBSET Loc, V # {},
                      \A l \in V : IsJmp(code[l]) /\ code[l][2] \in V
               PROVE  FALSE
    BY DEF Acyclic
  <2>1. \A l \in AnyHook : l \notin V
    <3> SUFFICES ASSUME NEW p \in Ptr, NEW h \in HooksOf[p] PROVE Fn(h) \notin V
      BY DEF AnyHook, HookFns
    <3>1. code[Fn(h)] = Body(h)
      BY HookStays DEF AllAlone, AloneApart, Apart
    <3> QED BY <3>1 DEF Body, IsJmp
  <2>2. \A b \in Block : Stub(b) \notin V
    BY <2>1, ContentFacts DEF EveryStub, Jmp
  <2>3. \A b \in live : tramp[b].sys \notin V
    <3> SUFFICES ASSUME NEW b \in live, tramp[b].sys \in V PROVE FALSE
      OBVIOUS
    <3>1. b \in Block /\ tramp[b].hook \notin V /\ Stub(b) \notin V
      BY <2>1, <2>2 DEF Inv, TypeOK, EveryHook
    <3>2. code[tramp[b].sys] \in {Jmp(tramp[b].hook), Jmp(Stub(b))}
      BY DEF Inv, HookInPlace
    <3>3. code[tramp[b].sys][2] \in V
      OBVIOUS
    <3> QED BY <3>1, <3>2, <3>3 DEF Jmp
  <2>4. \A b \in Block : Entry(b) \notin V
    <3> SUFFICES ASSUME NEW b \in Block, Entry(b) \in V PROVE FALSE
      OBVIOUS
    <3>1. CASE b \in live
      <4>1. OnTop(b)
        BY <2>3 DEF OnTop
      <4>2. IsBody(code[Entry(b)])
        BY <3>1, <4>1 DEF Stack, TopClean, Inv, SavedOK, Saved
      <4> QED BY <4>2 DEF IsBody, IsJmp
    <3>2. CASE b \in leaked
      BY <3>2 DEF Stack, GivenUp, IsBody, IsJmp
    <3>3. CASE b \in FreeBlock
      BY <3>3, ContentFacts DEF Inv, FreshBlank
    <3> QED BY <3>1, <3>2, <3>3 DEF FreeBlock
  <2>5. \A l \in V : \E r \in Routine : l = Fn(r) /\ code[l] = LoadedCode[l]
    <3> SUFFICES ASSUME NEW l \in V
                 PROVE  \E r \in Routine : l = Fn(r) /\ code[l] = LoadedCode[l]
      OBVIOUS
    <3>1. PICK r \in Routine : l = Fn(r)
      BY <2>2, <2>4, LocFacts
    <3>2. code[l] = Image(r)
      BY <2>3, <3>1 DEF Inv, Conservation
    <3> QED BY <3>1, <3>2, LoadedFacts
  <2>6. PICK l \in V : IsJmp(LoadedCode[l]) => LoadedCode[l][2] \notin V
    BY LoadedFacts DEF Acyclic
  <2> QED BY <2>5, <2>6
<1> QED BY <1>1, AcyclicLands DEF NoJumpCycle, Inv, TypeOK
LEMMA StackStep == Inv /\ Stack /\ [Next]_vars => Stack'
  BY SetHookStack, UnhookStack, StutterStack DEF Next

LEMMA ApartStep ==
  ASSUME Loads, OwnHooks, Inv, Stack, AloneApart, [Next]_vars
  PROVE  AloneApart'
<1> SUFFICES ASSUME NEW p \in Ptr, Alone(p) PROVE Apart(p)'
  BY DEF AloneApart, Alone, Target
<1>1. Apart(p)
  BY DEF AloneApart
<1>2. CASE UNCHANGED vars
  BY <1>1, <1>2, StutterApart
<1>3. ASSUME NEW q \in Ptr, NEW h \in HooksOf[q], SetHook(q, h) PROVE Apart(p)'
  BY <1>1, <1>3, SetHookOwn, SetHookOther
<1>4. ASSUME NEW q \in Ptr, Unhook(q) PROVE Apart(p)'
  BY <1>1, <1>4, UnhookOwn, UnhookOther
<1> QED BY <1>2, <1>3, <1>4 DEF Next

LEMMA CallsLead ==
  ASSUME Loads, OwnHooks, Inv, Stack, AloneApart
  PROVE  HookedExactly
<1> SUFFICES ASSUME NEW p \in Ptr, Alone(p)
             PROVE  Runs(code, Fn(PtrInit[p])) \in
                      (IF Hooked(p) THEN {Body(h) : h \in HooksOf[p]}
                                    ELSE {Body(Target(p)[2])})
  BY DEF HookedExactly
<1>1. Apart(p)
  BY DEF AloneApart
<1>2. CASE Hooked(p)
  <2>1. Owned(p) # {}
    BY <1>1, <1>2, AloneFacts, LocFacts DEF Apart, OwnPtr, Hooked
  <2> QED BY <1>1, <1>2, <2>1, HookedLeads
<1>3. CASE ~Hooked(p)
  <2>1. Owned(p) = {}
    BY <1>1, <1>3 DEF Apart, OwnPtr, Hooked, Owned
  <2>2. PtrInit[p] \in Routine /\ Leads(Fn(PtrInit[p])) = Target(p)
    BY HookApiAssumption DEF Leads, Target
  <2> QED BY <1>1, <1>3, <2>1, <2>2, UnhookedLeads DEF Apart, Runs
<1> QED BY <1>2, <1>3
--------------------------------------------------------------------------
(* Hooks put on through one pointer come off in reverse order: the         *)
(* trampoline a pointer has is never one that another is built on.         *)
THEOREM StackInvariance == Spec => []Stack
BY InitStack, Invariance, StackStep, PTL DEF Spec

(* A pointer that stands alone keeps its trampolines, its function and its *)
(* hooks to itself through every set and unhook (mhook.cpp 759, 798).      *)
THEOREM ApartInvariance ==
  ASSUME Loads, OwnHooks
  PROVE  Spec => []AloneApart
<1>1. Init => AloneApart
  BY InitApart DEF AloneApart
<1>2. Inv /\ Stack /\ AloneApart /\ [Next]_vars => AloneApart'
  BY ApartStep
<1> QED BY Invariance, StackInvariance, <1>1, <1>2, PTL DEF Spec

(* If the import thunks lead somewhere and nobody else touches its hooks,  *)
(* what a pointer that stands alone calls is always the original function, *)
(* however often it was hooked and unhooked and whatever is hooked besides.*)
THEOREM OriginalIsReachable ==
  ASSUME Loads, OwnHooks
  PROVE  Spec => []OriginalReachable
<1>1. Inv /\ Stack /\ AloneApart => OriginalReachable
  BY PtrLeads DEF OriginalReachable, AloneApart, Runs
<1> QED BY Invariance, StackInvariance, ApartInvariance, <1>1, PTL

(* And everybody else's calls of its function run one of its hooks exactly *)
(* while it is hooked.                                                     *)
THEOREM CallsAreHooked ==
  ASSUME Loads, OwnHooks
  PROVE  Spec => []HookedExactly
<1>1. Inv /\ Stack /\ AloneApart => HookedExactly
  BY CallsLead
<1> QED BY Invariance, StackInvariance, ApartInvariance, <1>1, PTL

(* If no two pointers stand for the same function, jumps never form a      *)
(* cycle: SkipJumps comes to an end from every location.                   *)
THEOREM JumpsComeToAnEnd ==
  ASSUME Loads, OwnHooks, AllAlone
  PROVE  Spec => []NoJumpCycle
<1>1. Inv /\ AloneApart /\ EveryHook /\ EveryStub /\ [Next]_vars
        => EveryHook' /\ EveryStub'
  BY SetHookEvery, UnhookEvery, StutterEvery DEF Next
<1>2. Inv /\ Stack /\ AloneApart /\ EveryHook /\ EveryStub => NoJumpCycle
  BY NoCycle
<1> QED
  BY Invariance, StackInvariance, ApartInvariance, InitEvery, <1>1, <1>2, PTL DEF Spec
==========================================================================
