---------------------------- MODULE JumpReach ----------------------------
(***************************************************************************)
(* Where a trampoline goes and whether the jumps and the displacements     *)
(* written for it reach: DisassembleAndSkip, TrampolineAlloc, EmitJump and *)
(* FixupIPRelativeAddressing in the order Mhook_SetHook calls them.        *)
(* Addresses are numbers of bytes.  The 32-bit distances of the code are   *)
(* multiples of the allocation granularity here:                           *)
(*    0x80000000 = Half          0x7fff0000 = Half - Gran                  *)
(*    0x7ff80000 = Half - 8*Gran 0xffffffff80000000 = Top - Half           *)
(***************************************************************************)
EXTENDS Integers, FiniteSets

CONSTANTS
  Gran,       (* dwAllocationGranularity, 64K                              *)
  Page,       (* bytes of a page of memory                                 *)
  Half,       (* half the range of a 32-bit displacement                   *)
  Top,        (* size of the address space, 2^64 or 2^32                   *)
  OffStub,    (* offset of codeJumpToHookFunction in MHOOKS_TRAMPOLINE     *)
  OffTramp,   (* offset of codeTrampoline                                  *)
  CodeBytes,  (* MHOOKS_MAX_CODE_BYTES                                     *)
  LongJump,   (* bytes of a jump with a full address: 14, or 10 on x86     *)
  Function,   (* addresses of functions to hook                            *)
  Hook,       (* addresses of hook functions                               *)
  Target,     (* addresses that rip-relative operands name                 *)
  Lengths,    (* lengths of instructions                                   *)
  RipForms,   (* of those with a rip-relative operand: <<length, offset of *)
              (* the displacement>>                                        *)
  Region      (* the memory map: <<base, end, free>>, addresses and a flag *)

Near  == Half - Gran
Short == 5                    (* MHOOK_JMPSIZE, and the bytes of 0xe9 jump *)

(* Where the code takes the displacement to be, in every instruction: it   *)
(* reckons with a REX prefix, one byte of opcode and ModRM.                *)
OperandAt == 3

ASSUME JumpReachAssumption ==
  /\ Gran \in Nat /\ Gran >= 64
  /\ Page \in 1 .. Gran
  /\ Half \in Nat /\ Half >= 16 * Gran
  /\ Top \in Nat /\ Top >= 2 * Half
  /\ OffStub \in Nat /\ OffStub >= Short
  /\ OffTramp \in Nat /\ OffTramp >= OffStub /\ OffTramp + 32 <= Gran
  /\ CodeBytes \in Nat /\ CodeBytes >= 24
  /\ LongJump \in Nat /\ LongJump > Short
  /\ Function \subseteq Gran .. Top
  /\ Hook \subseteq Nat
  /\ Target \subseteq Gran .. Top
  /\ Lengths \subseteq 1 .. 15
  /\ RipForms \subseteq (7 .. 15) \X (3 .. 11)
  /\ \A f \in RipForms : f[2] + 4 <= f[1]
  /\ Region \subseteq Nat \X Nat \X BOOLEAN

VARIABLES
  phase,    (* "disasm", "search", "emit", "done" or "refused"             *)
  sys,      (* pSystemFunction                                             *)
  hook,     (* pHookFunction                                               *)
  len,      (* dwRet, then dwInstructionLength                             *)
  rips,     (* rips[]: dwOffset and nDisplacement                          *)
  operands, (* the rip-relative operands there are: where the displacement *)
            (* is, its value, where its instruction begins and ends        *)
            (* (history)                                                   *)
  up,       (* nLimitUp                                                    *)
  down,     (* nLimitDown                                                  *)
  pbAlloc,  (* address under examination                                   *)
  block,    (* the trampoline                                              *)
  entry,    (* bytes of the jump written over the function                 *)
  back,     (* bytes of the jump from the trampoline back                  *)
  fixed     (* new displacements and the offsets they are written at       *)

found     == <<sys, hook, len, rips, operands, up, down>>
made      == <<entry, back, fixed>>
reachVars == <<phase, found, pbAlloc, block, made>>

ReachInit ==
  /\ phase = "disasm"
  /\ sys \in Function /\ hook \in Hook
  /\ len = 0 /\ rips = {} /\ operands = {} /\ up = 0 /\ down = 0
  /\ pbAlloc = 0 /\ block = 0
  /\ entry = 0 /\ back = 0 /\ fixed = {}
--------------------------------------------------------------------------
(* DisassembleAndSkip: takes whole instructions until the jump has room.   *)
Plain(n) ==
  /\ phase = "disasm" /\ len < Short
  /\ len' = len + n
  /\ UNCHANGED <<phase, sys, hook, rips, operands, up, down, pbAlloc, block, made>>

(* The displacement that leads from an instruction's end to t.             *)
Displacement(t, n) == t - (sys + len + n)
Encodable(x) == x >= - Half /\ x < Half

Operand(d, f) == [at |-> len + f[2], disp |-> d, from |-> len, to |-> len + f[1]]

RipNoLimits(t, f) ==     (* slip: the window is not narrowed               *)
  LET d == Displacement(t, f[1])
  IN  /\ phase = "disasm" /\ len < Short
      /\ Encodable(d)
      /\ rips' = rips \cup {[at |-> len + OperandAt, disp |-> d]}
      /\ operands' = operands \cup {Operand(d, f)}
      /\ len'  = len + f[1]
      /\ UNCHANGED <<phase, sys, hook, up, down, pbAlloc, block, made>>

(* A mov or lea with a rip-relative operand; d is its displacement.        *)
Rip(t, f) ==
  LET d == Displacement(t, f[1])
  IN  /\ phase = "disasm" /\ len < Short
      /\ Encodable(d)
      /\ rips' = rips \cup {[at |-> len + OperandAt, disp |-> d]}
      /\ operands' = operands \cup {Operand(d, f)}
      /\ up'   = IF d + len > up THEN d + len ELSE up
      /\ down' = IF d + len < down THEN d + len ELSE down
      /\ len'  = len + f[1]
      /\ UNCHANGED <<phase, sys, hook, pbAlloc, block, made>>

(* A return, a branch, a call or an operand it cannot move ends it early.  *)
Stop ==
  /\ phase = "disasm" /\ len < Short
  /\ phase' = "refused"
  /\ UNCHANGED <<found, pbAlloc, block, made>>
--------------------------------------------------------------------------
(* TrampolineAlloc: the window, and the walk through the memory map.       *)
LowerWide == IF sys + up < Half THEN 1 ELSE sys + up - Half  (* slip: 2 GB  *)
UpperWide == sys + down + Half                               (* slip: 2 GB  *)

Lower == IF sys + up < Half THEN 1 ELSE sys + up - Near
Upper == IF sys + down < Top - Half THEN sys + down + Half - 8 * Gran
         ELSE Top - 8 * Gran

AlignUp(a) == ((a + (Gran - 1)) \div Gran) * Gran

StartSearch ==
  /\ phase = "disasm" /\ len >= Short
  /\ phase' = "search"
  /\ pbAlloc' = Lower
  /\ UNCHANGED <<found, block, made>>

(* VirtualQuery tells the region an address lies in.                       *)
RegionAt(a) == {r \in Region : r[1] <= a /\ a < r[2]}

(* mbi.RegionSize, which counts from the page that the address lies in.    *)
SizeFrom(r, a) == r[2] - (a \div Page) * Page

(* A free region that is large enough: VirtualAlloc may deliver at the     *)
(* next aligned address.                                                   *)
Take(r) ==
  /\ phase = "search" /\ pbAlloc < Upper
  /\ r[3] /\ SizeFrom(r, pbAlloc) >= Gran
  /\ AlignUp(pbAlloc) < r[2]
  /\ block' = AlignUp(pbAlloc)
  /\ phase' = "emit"
  /\ UNCHANGED <<found, pbAlloc, made>>

(* It need not, and no other region will do: on to the next.               *)
Skip(r) ==
  /\ phase = "search" /\ pbAlloc < Upper
  /\ pbAlloc' = r[2]
  /\ UNCHANGED <<phase, found, block, made>>

NoBlock ==
  /\ phase = "search"
  /\ pbAlloc >= Upper \/ RegionAt(pbAlloc) = {}
  /\ phase' = "refused"
  /\ UNCHANGED <<found, pbAlloc, block, made>>
--------------------------------------------------------------------------
Distance(a, b) == IF a > b THEN a - b ELSE b - a

(* EmitJump: the number of bytes written at from to jump to to.            *)
JumpSize(from, to) == IF Distance(from + Short, to) <= Near THEN Short ELSE LongJump

UsesStubLate == Distance(sys, hook) > Half   (* slip: 2 GB are taken as near *)

(* A jump through the stub where the hook is too far from the function.    *)
UsesStub == Distance(sys, hook) > Near

EntrySize == IF UsesStub THEN JumpSize(sys, block + OffStub) ELSE JumpSize(sys, hook)

(* FixupIPRelativeAddressing keeps the low 32 bits.                        *)
Wrap(x) == ((x + Half) % (2 * Half)) - Half
Moved   == block + OffTramp - sys

Emit ==
  /\ phase = "emit"
  /\ phase' = "done"
  /\ back'  = JumpSize(block + OffTramp + len, sys + len)
  /\ entry' = EntrySize
  /\ fixed' = {[at |-> r.at, disp |-> Wrap(r.disp - Moved)] : r \in rips}
  /\ UNCHANGED <<found, pbAlloc, block>>

ReachNext ==
  \/ \E n \in Lengths : Plain(n)
  \/ \E t \in Target, f \in RipForms : Rip(t, f)
  \/ Stop
  \/ StartSearch
  \/ \E r \in RegionAt(pbAlloc) : Take(r) \/ Skip(r)
  \/ NoBlock
  \/ Emit

ReachSpec == ReachInit /\ [][ReachNext]_reachVars
--------------------------------------------------------------------------
(* Every variable holds a value of its kind.                               *)
ReachTypeOK ==
  /\ phase \in {"disasm", "search", "emit", "done", "refused"}
  /\ sys \in Function /\ hook \in Hook
  /\ len \in 0 .. 19
  /\ \A r \in rips : r.at \in 3 .. 7 /\ r.disp \in Int /\ Encodable(r.disp)
  /\ up \in Nat /\ down \in Int /\ down <= 0
  /\ pbAlloc \in Nat /\ block \in Nat
  /\ entry \in {0, Short, LongJump} /\ back \in {0, Short, LongJump}

(* The jump from the trampoline back to the function is always the short   *)
(* one, so saved instructions and jump fit in codeTrampoline, whose 32     *)
(* bytes have no room for 19 bytes and a long jump (mhook.cpp 98, 705).    *)
JumpBackFits == phase = "done" => back = Short /\ len + back <= CodeBytes

(* The jump from the function to the stub is short wherever the search     *)
(* found memory ("the trampoline will always be within +/- 2GB of the      *)
(* API", mhook.cpp 719-720).                                               *)
StubInReach == phase = "done" /\ UsesStub => entry = Short

(* A rip-relative operand moved into the trampoline names the address it   *)
(* named in the function: the new displacement is not cut (mhook.cpp       *)
(* 536-545), because the search window was narrowed for it (284-289).      *)
(* That holds of exactly the instructions whose displacement follows three *)
(* bytes.  Behind one more byte (movzx, or a prefix before REX) the new    *)
(* displacement misses the operand (line 644) and overwrites other bytes   *)
(* of the instruction.  It never overwrites a byte of another instruction. *)
KeepsTarget(o) ==
  \E n \in fixed :
    n.at = o.at /\ block + OffTramp + n.at + n.disp = sys + o.at + o.disp
SameTargets ==
  phase = "done" =>
    /\ \A o \in operands : KeepsTarget(o) <=> o.at = o.from + OperandAt
    /\ \A n \in fixed : \E o \in operands : o.from <= n.at /\ n.at + 4 <= o.to

(* A direct jump overwrites no more than the five bytes that are sure to   *)
(* be saved, unless the hook lies below the function in the last five      *)
(* bytes of the distance the code calls near (mhook.cpp 711-713, 733).     *)
Gap == hook < sys /\ Distance(sys, hook) \in (Near - Short + 1) .. Near
DirectJumpFits == phase = "done" /\ ~UsesStub /\ ~Gap => entry <= len /\ entry = Short

(* What the comment at the direct jump says, without that exception.       *)
EntryJumpIsShort == phase = "done" => entry <= Short
==========================================================================
