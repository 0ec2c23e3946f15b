---------------------------- MODULE CodeSpace ----------------------------
(***************************************************************************)
(* The code of one process as mhook sees it.  A location is the entry      *)
(* point of a routine or one of the two code buffers of a trampoline       *)
(* block (struct MHOOKS_TRAMPOLINE).  What matters about the bytes at a    *)
(* location is whether they begin with a jump, and to where, or are the    *)
(* first instructions of some routine's own body.                          *)
(***************************************************************************)
EXTENDS Naturals, FiniteSets

CONSTANTS
  Routine,   (* system functions, hook functions and import thunks         *)
  Block,     (* addresses at which VirtualAlloc can place a trampoline     *)
  Thunk,     (* an import jump table: thunk routine -> its target          *)
  Short,     (* routines that return or branch within their first 5 bytes  *)
  Region     (* routine -> the 2 GB neighbourhood it is loaded in          *)

ASSUME CodeSpaceAssumption ==
  /\ IsFiniteSet(Routine)
  /\ IsFiniteSet(Block)
  /\ DOMAIN Thunk \subseteq Routine
  /\ \A r \in DOMAIN Thunk : Thunk[r] \in Routine
  /\ Short \subseteq Routine
  /\ DOMAIN Region = Routine

Fn(r)    == <<"fn", r>>
Entry(b) == <<"codeTrampoline", b>>
Stub(b)  == <<"codeJumpToHookFunction", b>>
Loc == ({"fn"} \X Routine)
         \cup ({"codeTrampoline", "codeJumpToHookFunction"} \X Block)

Jmp(l)  == <<"jmp", l>>
Body(r) == <<"body", r>>
Blank   == <<"blank", "zero">>      (* a block not written since VirtualAlloc *)
Content == ({"jmp"} \X Loc) \cup ({"body"} \X Routine) \cup {Blank}

IsJmp(c)  == c[1] = "jmp"
IsBody(c) == c[1] = "body"

(* The bytes of a routine as the loader leaves them.                       *)
Image(r) == IF r \in DOMAIN Thunk THEN Jmp(Fn(Thunk[r])) ELSE Body(r)

LoadedCode ==
  [l \in Loc |-> IF l[1] = "fn" THEN Image(l[2]) ELSE Blank]

(***************************************************************************)
(* SkipJumps follows the jump at a location to its target, and so on.  The *)
(* chain it can follow is no longer than there are locations; when the     *)
(* jumps form a cycle the recursion has no result, and Lands is false.     *)
(***************************************************************************)
SkipJumps(c, l) ==
  LET hop[n \in Nat] ==
        [x \in Loc |-> IF n = 0 \/ ~IsJmp(c[x]) THEN x ELSE hop[n - 1][c[x][2]]]
  IN  hop[Cardinality(Loc)][l]

Lands(c, l) == l \in Loc /\ ~IsJmp(c[l])

(* DisassembleAndSkip finds MHOOK_JMPSIZE bytes of whole instructions: it  *)
(* stops at a branch, a call or a return.                                  *)
Displaceable(c) == IsBody(c) /\ c[2] \notin Short

(* The hook is too far from the function for a 5-byte jump, so the jump    *)
(* goes through the trampoline's codeJumpToHookFunction buffer.            *)
IsFar(c, sys, hook) == Region[c[sys][2]] # Region[c[hook][2]]

(* Executing the code at a location runs this routine's own instructions.  *)
Runs(c, l) == c[SkipJumps(c, l)]

==========================================================================
