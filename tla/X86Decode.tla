----------------------------- MODULE X86Decode -----------------------------
(***************************************************************************)
(* X86_GetInstruction of disasm-lib (disasm_x86.c): the decoder by which   *)
(* the hooking service finds out how many bytes of a function it replaces  *)
(* and which displacements it has to correct.  One behaviour decodes one   *)
(* instruction, in 32-bit or 64-bit code, with DISASM_DECODE set.          *)
(*                                                                         *)
(* The code is a stream of bytes nobody has seen before: each action that  *)
(* looks at a byte takes any of the bytes of a set.  Bytes that only fill  *)
(* a displacement or an immediate are counted; of a displacement it is     *)
(* also chosen whether it could be an address (IS_VALID_ADDRESS).          *)
(* Registers, segments, the text of the instruction and what is noted      *)
(* about it after it has been measured (code and data references, stack    *)
(* change) are left out, except where an assertion of that part can fail.  *)
(* A failing assertion is recorded and decoding goes on, as it does in a   *)
(* build without assertions.                                               *)
(***************************************************************************)
EXTENDS X86Tables, X86Reference, FiniteSetsExt

CONSTANTS
  Archs,        (* "x86" (ARCH_X86), "x64" (ARCH_X64)                      *)
  PrefixBytes,  (* prefixes, REX among them                                *)
  OpcodeBytes,  (* first bytes of an opcode                                *)
  SecondBytes,  (* bytes behind 0F                                         *)
  ModRMBytes,
  SIBBytes,
  SuffixBytes,  (* bytes behind the operands of 0F 0F                      *)
  MaxPrefixes   (* prefixes of the longest instruction                     *)

X86_MAX_INSTRUCTION_LEN == 15
X86_MAX_PREFIX_LENGTH   == 4
AMD64_MAX_PREFIX_LENGTH == 5
X86_TWO_BYTE_OPCODE     == \h0F
PREFIX_OPERAND_SIZE     == \h66
PREFIX_ADDRESS_SIZE     == \h67
PREFIX_LOCK             == \hF0
PREFIX_REPNE            == \hF2
PREFIX_REP              == \hF3
PREFIX_SEGMENT_FS_GS    == {\h64, \h65}

Byte == 0 .. 255

ASSUME X86DecodeAssumption ==
  /\ Archs \subseteq {"x86", "x64"}
  /\ PrefixBytes \subseteq LegacyPrefixes \cup RexPrefixes
  /\ OpcodeBytes \subseteq Byte /\ SecondBytes \subseteq Byte
  /\ ModRMBytes \subseteq Byte /\ SIBBytes \subseteq Byte /\ SuffixBytes \subseteq Byte
  /\ MaxPrefixes \in Nat

VARIABLES
  arch,   (* INS_ARCH_TYPE                                                 *)
  code,   (* the bytes looked at, see X86Reference                         *)
  ins,    (* INSTRUCTION and X86_INSTRUCTION                               *)
  stage   (* where X86_GetInstruction is, "accepted" or "refused"          *)

vars == <<arch, code, ins, stage>>

(* What is known of the operand in memory, see SetModRM32.                *)
NoMemory == [bytes |-> 0, base |-> FALSE, index |-> FALSE, scale |-> 0,
             global |-> FALSE, target |-> FALSE, ip |-> FALSE]

(***************************************************************************)
(* Fields of ins.  HasRepeatWhileEqualPrefix and ...NotEqual... are one    *)
(* field Repeat, the prefix byte or 0.  rex is the REX byte or 0.          *)
(* Relative is the offset in the instruction from which its relative       *)
(* displacement counts, 0 when it has none.  failed is the assertion that  *)
(* failed.                                                                 *)
(***************************************************************************)
X86_InitInstruction(a) ==
  [Length |-> 0, Prefixes |-> << >>, SSE_Prefix |-> 0, Repeat |-> 0, rex |-> 0,
   OperandSize |-> 4, AddressSize |-> IF a = "x64" THEN 8 ELSE 4,
   HasOperandSizePrefix |-> FALSE, HasAddressSizePrefix |-> FALSE,
   HasSegmentOverridePrefix |-> FALSE, HasLockPrefix |-> FALSE,
   AnomalyOccurred |-> FALSE, row |-> Invalid, OpcodeLength |-> 0,
   OpcodeExtension |-> 0, HasDstAddressing |-> FALSE, memory |-> NoMemory,
   Relative |-> 0, failed |-> "none"]

Init ==
  /\ arch \in Archs
  /\ code = [prefixes |-> << >>, opcode |-> << >>, modrm |-> None, sib |-> None,
             suffix |-> None]
  /\ ins = X86_InitInstruction(arch)
  /\ stage = "prefixes"

IS_AMD64 == arch = "x64"
LastOpcode == code.opcode[Len(code.opcode)]
OneOf(s, b) == \E k \in DOMAIN s : s[k] = b

----------------------------------------------------------------------------
(* The prefix loop.  Each operator is the case of the switch for one kind  *)
(* of prefix, applied to the instruction as it is then.                    *)

RepeatPrefix(i, b) ==
  [i EXCEPT !.SSE_Prefix = b, !.Repeat = b,
            !.AnomalyOccurred = @ \/ i.Repeat \notin {0, b}]

OperandSizePrefix(i) ==
  [i EXCEPT !.SSE_Prefix = PREFIX_OPERAND_SIZE,
            !.AnomalyOccurred = @ \/ i.HasOperandSizePrefix,
            !.HasOperandSizePrefix = TRUE,
            !.OperandSize = IF i.HasOperandSizePrefix THEN @ ELSE 6 - @]

AddressSizePrefix(i) ==
  [i EXCEPT !.AnomalyOccurred = @ \/ i.HasAddressSizePrefix,
            !.HasAddressSizePrefix = TRUE,
            !.AddressSize = IF i.HasAddressSizePrefix THEN @
                            ELSE IF @ = 8 THEN 4 ELSE 6 - @]

SegmentPrefix(i, b) ==
  IF IS_AMD64 /\ b \notin PREFIX_SEGMENT_FS_GS
  THEN [i EXCEPT !.AnomalyOccurred = TRUE]
  ELSE [i EXCEPT !.AnomalyOccurred = @ \/ i.HasSegmentOverridePrefix,
                 !.HasSegmentOverridePrefix = TRUE]

LockPrefix(i) ==
  [i EXCEPT !.AnomalyOccurred = @ \/ i.HasLockPrefix, !.HasLockPrefix = TRUE]

Counted(i, b, limit) ==
  [i EXCEPT !.AnomalyOccurred = @ \/ Len(i.Prefixes) = limit,
            !.Prefixes = Append(@, b)]

Prefixed(i, b) ==
  LET seen == [i EXCEPT !.Length = @ + 1,
                        !.AnomalyOccurred = @ \/ OneOf(i.Prefixes, b)]
  IN Counted(CASE b \in {PREFIX_REPNE, PREFIX_REP} -> RepeatPrefix(seen, b)
               [] b = PREFIX_OPERAND_SIZE          -> OperandSizePrefix(seen)
               [] b = PREFIX_ADDRESS_SIZE          -> AddressSizePrefix(seen)
               [] b = PREFIX_LOCK                  -> LockPrefix(seen)
               [] OTHER                            -> SegmentPrefix(seen, b),
             b, X86_MAX_PREFIX_LENGTH)

TooMany == Len(ins.Prefixes) >= X86_MAX_INSTRUCTION_LEN
Reads(bytes) ==
  /\ Len(code.prefixes) + Len(bytes) <= MaxPrefixes
  /\ code' = [code EXCEPT !.prefixes = @ \o bytes]

Prefix(b) ==
  /\ stage = "prefixes"
  /\ b \in LegacyPrefixes
  /\ Reads(<<b>>)
  /\ IF TooMany THEN stage' = "refused" /\ UNCHANGED ins
                ELSE ins' = Prefixed(ins, b) /\ UNCHANGED stage
  /\ UNCHANGED arch

(* A REX prefix with a legacy prefix behind it is stepped over.            *)
MisplacedRex(r, b) ==
  /\ stage = "prefixes" /\ IS_AMD64
  /\ r \in RexPrefixes /\ b \in LegacyPrefixes
  /\ Reads(<<r, b>>)
  /\ ~TooMany
  /\ ins' = Prefixed([ins EXCEPT !.Length = @ + 1, !.AnomalyOccurred = TRUE], b)
  /\ UNCHANGED <<arch, stage>>

Rex(r) ==
  /\ stage = "prefixes" /\ IS_AMD64
  /\ r \in RexPrefixes
  /\ Reads(<<r>>)
  /\ IF TooMany
     THEN stage' = "refused" /\ UNCHANGED ins
     ELSE /\ stage' = "rex"
          /\ LET i == Counted([ins EXCEPT !.Length = @ + 1, !.rex = r], r,
                              AMD64_MAX_PREFIX_LENGTH)
             IN ins' = IF RexW(r)
                       THEN [i EXCEPT !.OperandSize = 8, !.HasOperandSizePrefix = FALSE]
                       ELSE [i EXCEPT !.AnomalyOccurred =
                               @ \/ (~i.HasOperandSizePrefix /\ r = \h40)]
  /\ UNCHANGED arch

----------------------------------------------------------------------------
(* The opcode and the row of the tables it stands for.                     *)

(* Behind a REX prefix any byte is the opcode, a second REX prefix too.    *)
ReadOpcode(b) ==
  /\ \/ stage = "prefixes" /\ ~(IS_AMD64 /\ b \in RexPrefixes)
     \/ stage = "rex"
  /\ At(X86_Opcodes_1, b).kind # "prefix"
  /\ code' = [code EXCEPT !.opcode = <<b>>]
  /\ ins' = [ins EXCEPT !.Length = @ + 1, !.OpcodeLength = 1]
  /\ stage' = IF b = X86_TWO_BYTE_OPCODE THEN "second"
              ELSE IF ins.AddressSize = 8 /\ b \in X86_Invalid_Addr64_1 THEN "refused"
              ELSE IF b \in X86_ModRM_1 THEN "modrm" ELSE "row"
  /\ UNCHANGED arch

ReadSecond(b) ==
  /\ stage = "second"
  /\ code' = [code EXCEPT !.opcode = Append(@, b)]
  /\ ins' = [ins EXCEPT !.Length = @ + 1, !.OpcodeLength = 2]
  /\ stage' = IF \/ At(X86_Opcodes_2, b) = Invalid
                 \/ ins.AddressSize = 8 /\ b \in X86_Invalid_Addr64_2
                 \/ ins.OperandSize = 2 /\ b \in X86_Invalid_Op16_2
              THEN "refused"
              ELSE IF b \in X86_ModRM_2 THEN "modrm" ELSE "row"
  /\ UNCHANGED arch

(* The ModRM byte is looked at here and counted where operands are set.    *)
PeekModRM(m) ==
  /\ stage = "modrm"
  /\ code' = [code EXCEPT !.modrm = m]
  /\ stage' = "row"
  /\ UNCHANGED <<arch, ins>>

Entry == IF ins.OpcodeLength = 1 THEN At(X86_Opcodes_1, LastOpcode)
                                 ELSE At(X86_Opcodes_2, LastOpcode)
GET_MODRM_EXT == IF code.modrm = None THEN 0 ELSE Reg3(code.modrm)
Member(e) == IF e.kind = "group" THEN At(e.table, GET_MODRM_EXT) ELSE e

(* The row is found: i is the instruction with it, or it is refused.       *)
Chosen(row, i) ==
  /\ IF row = Invalid \/ (~IS_AMD64 /\ row.amd64)
     THEN stage' = "refused" /\ UNCHANGED ins
     ELSE stage' = "checks" /\ ins' = [i EXCEPT !.row = row]
  /\ UNCHANGED arch

Extended(e) == [ins EXCEPT !.OpcodeExtension = IF e.kind = "group" THEN GET_MODRM_EXT ELSE 0]
(* An opcode without operands has its ModRM byte counted at once.          *)
Counting(i, row) == [i EXCEPT !.Length = @ + IF row # Invalid /\ row.ops = << >> THEN 1 ELSE 0]

IsSSE == /\ ins.OpcodeLength = 2 /\ Entry.kind \in {"row", "group"}
         /\ ins.SSE_Prefix # 0
         /\ LastOpcode \in DOMAIN X86_SSE[PREFIX_OPERAND_SIZE]

SelectRow ==
  /\ stage = "row" /\ Entry.kind \in {"row", "group"} /\ ~IsSSE
  /\ Chosen(Member(Entry), Extended(Entry))
  /\ UNCHANGED code

(* 66, F2 or F3 is part of the opcode.  It is removed from the prefixes,   *)
(* or rather the first prefix is.                                          *)
SelectSSE ==
  /\ stage = "row" /\ IsSSE
  /\ LET e == At(X86_SSE[ins.SSE_Prefix], LastOpcode)
     IN Chosen(Member(e),
               [Extended(e) EXCEPT
                  !.OpcodeLength = 3, !.Prefixes = Tail(@), !.Repeat = 0,
                  !.HasOperandSizePrefix = FALSE,
                  !.OperandSize = IF ins.SSE_Prefix # PREFIX_OPERAND_SIZE THEN @
                                  ELSE IF IS_AMD64 /\ RexW(ins.rex) THEN 8 ELSE 4])
  /\ UNCHANGED code

SelectModRM ==
  /\ stage = "row" /\ Entry.kind = "modrm"
  /\ LET e == At(Entry.table, code.modrm)
     IN Chosen(Member(e), IF e.kind = "group" THEN Extended(e) ELSE Counting(ins, e))
  /\ UNCHANGED code

SelectFPU ==
  /\ stage = "row" /\ Entry.kind = "fpu"
  /\ LET memory == code.modrm < \hC0
         row    == IF memory THEN At(Entry.table.mem, GET_MODRM_EXT)
                             ELSE At(Entry.table.reg, code.modrm)
     IN Chosen(row, Counting([ins EXCEPT !.OpcodeExtension =
                                IF memory THEN GET_MODRM_EXT ELSE code.modrm % 64], row))
  /\ UNCHANGED code

SelectExt64 ==
  /\ stage = "row" /\ Entry.kind = "ext64"
  /\ Chosen(IF IS_AMD64 THEN Entry.table.x64 ELSE Entry.table.x86, ins)
  /\ UNCHANGED code

----------------------------------------------------------------------------
(* Memory operands: the bytes behind the ModRM byte, whether there is a    *)
(* base and an index register, the scale, and what is known of the address *)
(* (OP_GLOBAL, TargetAddress).  valid: the displacement is a valid address.*)

DisplacementBytes(mod) == CASE mod = 1 -> 1 [] mod = 2 -> 4 [] OTHER -> 0

SetModRM16(m) ==
  IF Mod(m) = 0 /\ Rm(m) = 6
  THEN [NoMemory EXCEPT !.bytes = 2]
  ELSE [NoMemory EXCEPT !.bytes = Mod(m), !.base = TRUE, !.index = Rm(m) \in 0 .. 3]

(* Slip: without a base register there is a displacement, else none.       *)
SetSIBBaseOnly(m, s, rex, valid) ==
  LET indexed == Index(s) + 8 * RexX(rex) # 4
  IN [NoMemory EXCEPT !.bytes = IF Base(s) = 5 /\ Mod(m) = 0 THEN 5 ELSE 1,
                      !.base = TRUE, !.index = indexed]
SetSIB(m, s, rex, valid) ==
  LET indexed  == Index(s) + 8 * RexX(rex) # 4
      absolute == Base(s) = 5 /\ Mod(m) = 0
  IN [NoMemory EXCEPT
        !.bytes  = 1 + (IF Base(s) # 5 THEN 0 ELSE IF Mod(m) = 1 THEN 1 ELSE 4),
        !.base   = ~absolute,
        !.index  = indexed,
        !.scale  = IF indexed THEN <<1, 2, 4, 8>>[Scale(s) + 1] ELSE 0,
        !.global = valid /\ Base(s) = 5 /\ Mod(m) # 1,
        !.target = valid /\ absolute /\ ~indexed]

SetModRM32(m, s, rex, valid) ==
  IF Mod(m) = 0 /\ Rm(m) = 5
  THEN [NoMemory EXCEPT !.bytes = 4, !.base = IS_AMD64, !.ip = IS_AMD64,
                        !.target = IS_AMD64 \/ valid, !.global = ~IS_AMD64 /\ valid]
  ELSE IF Rm(m) # 4
  THEN [NoMemory EXCEPT !.bytes = DisplacementBytes(Mod(m)),
                        !.base = TRUE, !.global = valid /\ Mod(m) = 2]
  ELSE IF Base(s) = 5 THEN SetSIB(m, s, rex, valid)
  ELSE [SetSIB(m, s, rex, valid) EXCEPT !.bytes = @ + DisplacementBytes(Mod(m)),
                                        !.global = valid /\ Mod(m) = 2]

MemoryModes == {"E", "M", "Q", "W"}
UsesMemory(row) ==
  /\ code.modrm # None /\ Mod(code.modrm) # 3
  /\ \E k \in DOMAIN row.ops : row.ops[k][1] \in MemoryModes

(* The SIB bytes that can follow, and the memory operand they make.        *)
SIBs(i, row) ==
  IF UsesMemory(row) /\ i.AddressSize # 2 /\ Rm(code.modrm) = 4
  THEN IF code.sib = None THEN SIBBytes ELSE {code.sib}
  ELSE {None}
Memory(i, row, s, valid) ==
  IF ~UsesMemory(row) THEN NoMemory
  ELSE IF i.AddressSize = 2 THEN SetModRM16(code.modrm)
  ELSE SetModRM32(code.modrm, s, i.rex, valid)
(* Only a displacement of 32 bits can be a valid address.                  *)
Validities(i, row, s) ==
  IF Memory(i, row, s, TRUE) = Memory(i, row, s, FALSE) THEN {FALSE} ELSE BOOLEAN

----------------------------------------------------------------------------
(* Operands.                                                               *)

OperandLength(i, type) ==
  LET short == i.OperandSize = 2
  IN CASE type = "b"    -> 1
       [] type = "w"    -> 2
       [] type = "z"    -> IF short THEN 2 ELSE 4
       [] type = "p"    -> IF short THEN 4 ELSE 6
       [] type = "fev"  -> IF short THEN 14 ELSE 28
       [] type = "fst1" -> IF short THEN 94 ELSE 108
       [] type = "fst2" -> 512
       [] OTHER         -> i.OperandSize

(* An operand that cannot be what its ModRM and REX bytes say.             *)
Impossible(i, op) ==
  LET m     == code.modrm
      short == i.OperandSize = 2
  IN CASE op[1] = "PR" -> Mod(m) # 3 \/ RexB(i.rex) = 1 \/ short
       [] op[1] = "VR" -> Mod(m) # 3 \/ short
       [] op[1] = "P"  -> RexR(i.rex) = 1 \/ short
       [] op[1] = "V"  -> short
       [] op[1] = "R"  -> Mod(m) # 3
       [] op[1] = "M"  -> Mod(m) = 3
       [] op[1] = "E"  -> op[2] = "p" /\ Mod(m) = 3
       [] op[1] = "Q"  -> Mod(m) = 3 /\ RexB(i.rex) = 1
       [] OTHER        -> FALSE
CannotBe(i, row) == \E k \in DOMAIN row.ops : Impossible(i, row.ops[k])

(* Bytes of the operand behind the ModRM byte.                             *)
BytesOf(i, op, memory) ==
  CASE op[1] \in {"I", "J", "A"} -> OperandLength(i, op[2])
    [] op[1] = "O"               -> i.AddressSize
    [] op[1] \in MemoryModes     -> memory.bytes
    [] OTHER                     -> 0
(* An instruction has up to three operands (MAX_OPERAND_COUNT).            *)
Sum3(f) == f[1] + f[2] + f[3]
AllBytes(i, row, memory) ==
  (IF code.modrm = None THEN 0 ELSE 1)
    + Sum3([k \in 1 .. 3 |->
              IF k \in DOMAIN row.ops THEN BytesOf(i, row.ops[k], memory) ELSE 0])

(* Slip: the byte immediate behind a relative operand is overlooked.       *)
ImmediateSizeNoByte(i, row, k) ==
  Sum3([n \in 1 .. 3 |->
          IF n \in k + 1 .. Len(row.ops) /\ row.ops[n][1] = "I" /\ row.ops[n][2] # "b"
          THEN OperandLength(i, row.ops[n][2]) ELSE 0])
(* The immediates that follow operand k, looked up ahead of their turn.    *)
ImmediateSize(i, row, k) ==
  Sum3([n \in 1 .. 3 |->
          IF n \in k + 1 .. Len(row.ops) /\ row.ops[n][1] = "I"
          THEN OperandLength(i, row.ops[n][2]) ELSE 0])

(* Where the displacement of a relative operand counts from.               *)
RelativeTo(i, row, memory) ==
  LET address == Len(code.prefixes) + Len(code.opcode)
      rel     == {k \in DOMAIN row.ops : memory.ip /\ row.ops[k][1] \in MemoryModes}
  IN IF \E k \in DOMAIN row.ops : row.ops[k][1] = "J"
     THEN address + AllBytes(i, row, memory)
     ELSE IF rel = {} THEN 0
     ELSE LET k == CHOOSE n \in rel : TRUE
          IN address + 1 + memory.bytes + ImmediateSize(i, row, k)

(* 3DNow: the operands are set once to find the byte behind them, which    *)
(* selects the row; SetOperands sets them again.                           *)
SelectSuffix ==
  /\ stage = "row" /\ Entry.kind = "suffix"
  /\ \E s \in SIBs(ins, Entry), suffix \in SuffixBytes :
       LET i == [ins EXCEPT !.AnomalyOccurred = @ \/ ins.HasOperandSizePrefix,
                            !.HasOperandSizePrefix = FALSE,
                            !.OperandSize = IF ins.HasOperandSizePrefix THEN 4 ELSE @]
           memory == Memory(i, Entry, s, FALSE)
       IN /\ code' = [code EXCEPT !.sib = s, !.suffix = suffix]
          /\ IF CannotBe(i, Entry)
             THEN Chosen(Invalid, i)
             ELSE Chosen(At(Entry.table, suffix),
                         [i EXCEPT !.Length = @ + AllBytes(i, Entry, memory) + 1,
                                   !.OpcodeLength = 3,
                                   !.failed = IF UsesMemory(Entry)
                                              THEN "!HasSrcAddressing" ELSE @])

----------------------------------------------------------------------------
(* Prefixes, now that the opcode is known.                                 *)

FpuTypes     == {"FPU", "FENV"}
NoPrefixes   == FpuTypes \cup {"MMX", "SSE"}
OwnSegment   == {"PUSHF", "POPF", "ENTER", "LEAVE", "RET", "TRAP"}
Default64    == {"PUSH", "POP", "PUSHF", "POPF", "ENTER", "LEAVE", "CALL", "BRANCH",
                 "LOOPCC", "RET"}
HasDefault64Operand ==
  \/ ins.row.type \in Default64
  \/ /\ ins.row.type = "SYSTEM" /\ ins.OpcodeLength = 2
     /\ LastOpcode \in {\h00, \h01} /\ ins.OpcodeExtension \in {2, 3}

(* Slip: F2 and F3 before an MMX or SSE opcode are let through.            *)
UnpredictableSizeOnly ==
  /\ ins.row.type \in NoPrefixes \ {"FENV"}
  /\ OneOf(ins.Prefixes, PREFIX_OPERAND_SIZE) /\ ~ins.AnomalyOccurred
(* Prefixes that make the effect of an FPU, MMX or SSE opcode uncertain.   *)
Unpredictable ==
  /\ ins.row.type \in NoPrefixes
  /\ \/ /\ ins.row.type \notin FpuTypes
        /\ OneOf(ins.Prefixes, PREFIX_REPNE) \/ OneOf(ins.Prefixes, PREFIX_REP)
     \/ /\ OneOf(ins.Prefixes, PREFIX_OPERAND_SIZE)
        /\ ins.row.type # "FENV" /\ ~ins.AnomalyOccurred

(* Effect of 66 and of REX.w on the size of the operands.                  *)
Sized(i) ==
  LET dropped == \/ i.row.type \in NoPrefixes \ {"FENV"}
                 \/ IS_AMD64 /\ RexW(i.rex)
      size66  == /\ i.HasOperandSizePrefix
                 /\ ~(dropped /\ OneOf(i.Prefixes, PREFIX_OPERAND_SIZE))
      default == IS_AMD64 /\ HasDefault64Operand
  IN [i EXCEPT !.HasOperandSizePrefix = size66,
               !.OperandSize = IF default /\ ~size66 THEN 8 ELSE @,
               !.rex = IF default /\ RexW(@) THEN @ - 8 ELSE @,
               !.AnomalyOccurred =
                  @ \/ /\ RexW(i.rex)
                       /\ default \/ OneOf(i.Prefixes, PREFIX_OPERAND_SIZE)]

(* F2 and F3 belong to the string instructions.                            *)
Repeated(i) ==
  LET rep == i.row.type = "STRING"
      any == i.row.type = "STRCMP"
  IN [i EXCEPT !.Repeat = IF @ = 0 \/ any THEN @ ELSE IF rep THEN PREFIX_REP ELSE 0,
               !.AnomalyOccurred =
                  @ \/ /\ i.Repeat # 0 /\ ~any
                       /\ ~rep \/ i.Repeat = PREFIX_REPNE]

CheckPrefixes ==
  /\ stage = "checks"
  /\ IF Unpredictable
     THEN stage' = "refused" /\ UNCHANGED ins
     ELSE LET own == ins.row.type \in OwnSegment
              i   == [ins EXCEPT
                        !.AnomalyOccurred = @ \/ (own /\ ins.HasSegmentOverridePrefix),
                        !.HasSegmentOverridePrefix = @ /\ ~own]
          IN /\ ins' = Repeated(Sized(i))
             /\ stage' = IF ins.row.ops = << >> THEN "finish" ELSE "operands"
  /\ UNCHANGED <<arch, code>>

----------------------------------------------------------------------------
(* The operands and what is checked when they are known.                   *)

(* The prefixes a branch and an offset in the instruction do not expect.   *)
Unexpected(i) ==
  LET has(modes) == \E k \in DOMAIN i.row.ops : i.row.ops[k][1] \in modes
  IN \/ has({"J", "A"}) /\ (i.HasAddressSizePrefix \/ i.HasSegmentOverridePrefix)
     \/ has({"O"}) /\ i.HasOperandSizePrefix

SetOperands ==
  /\ stage = "operands"
  /\ IF CannotBe(ins, ins.row)
     THEN stage' = "refused" /\ UNCHANGED <<code, ins>>
     ELSE \E s \in SIBs(ins, ins.row) :
            \E valid \in Validities(ins, ins.row, s) :
              LET memory == Memory(ins, ins.row, s, valid)
              IN /\ code' = [code EXCEPT !.sib = s]
                 /\ ins' = [ins EXCEPT
                             !.Length = @ + AllBytes(ins, ins.row, memory),
                             !.Relative = RelativeTo(ins, ins.row, memory),
                             !.memory = memory,
                             !.AnomalyOccurred = @ \/ Unexpected(ins),
                             !.HasDstAddressing =
                                /\ ins.row.dst /\ UsesMemory(ins.row)
                                /\ ins.row.ops[1][1] \in MemoryModes]
                 /\ stage' = "finish"
  /\ UNCHANGED arch

LockableOpcode(i) ==
  LET one    == i.OpcodeLength = 1
      groups == IF one THEN X86_Groups_1 ELSE X86_Groups_2
  IN \/ LastOpcode \in (IF one THEN X86_LockPrefix_1 ELSE X86_LockPrefix_2)
     \/ /\ LastOpcode \in (IF one THEN LockPrefix_GR_1 ELSE LockPrefix_GR_2)
        /\ i.OpcodeExtension \in X86_LockPrefix_Groups[groups[LastOpcode]]
(* Slip: the operand that is locked need not be one in memory.             *)
IsValidLockPrefixAnywhere(i) == LockableOpcode(i)
IsValidLockPrefix(i) ==
  /\ LockableOpcode(i)
  /\ code.modrm # None /\ Mod(code.modrm) # 3 /\ i.HasDstAddressing

(***************************************************************************)
(* Where an operand in memory has a displacement that could be an address  *)
(* and one register, its addresses are guessed: displacement + k * scale,  *)
(* the scale being no less than the length of the operand.                 *)
(***************************************************************************)
ExecTypes == {"CALL", "BRANCH", "BRANCHCC", "LOOPCC", "RET"}
(* Slip: also with a base and an index register.                           *)
GuessedAnyway(i) == i.memory.global /\ ~i.memory.target
Guessed(i) == i.memory.global /\ ~i.memory.target /\ i.memory.base # i.memory.index
MemoryLength(i) ==
  Max({OperandLength(i, i.row.ops[k][2]) :
         k \in {n \in DOMAIN i.row.ops : i.row.ops[n][1] \in MemoryModes}})
Asserted(i) ==
  IF ~Guessed(i) THEN i.failed
  ELSE IF i.row.type = "CALL" /\ i.memory.scale = 1 THEN "Scale > 1"
  ELSE IF i.row.type \notin ExecTypes /\ MemoryLength(i) > 16 THEN "tmpScale <= 16"
  ELSE i.failed

Finish ==
  /\ stage = "finish"
  /\ IF \/ ins.HasLockPrefix /\ ~IsValidLockPrefix(ins)
        \/ ins.Length \notin 1 .. X86_MAX_INSTRUCTION_LEN
     THEN stage' = "refused" /\ UNCHANGED ins
     ELSE stage' = "accepted" /\ ins' = [ins EXCEPT !.failed = Asserted(ins)]
  /\ UNCHANGED <<arch, code>>

Next ==
  \/ \E b \in PrefixBytes : Prefix(b) \/ Rex(b)
  \/ \E r, b \in PrefixBytes : MisplacedRex(r, b)
  \/ \E b \in OpcodeBytes : ReadOpcode(b)
  \/ \E b \in SecondBytes : ReadSecond(b)
  \/ \E m \in ModRMBytes : PeekModRM(m)
  \/ SelectRow \/ SelectSSE \/ SelectModRM \/ SelectFPU \/ SelectSuffix \/ SelectExt64
  \/ CheckPrefixes \/ SetOperands \/ Finish

Spec == Init /\ [][Next]_vars

----------------------------------------------------------------------------
(* Properties.                                                             *)

Accepted == stage = "accepted"
Is3DNow  == code.opcode = <<\h0F, \h0F>>

(* lfence, mfence, sfence: the rows have no operands and the ModRM byte is *)
(* not counted (SelectRow, unlike SelectModRM and SelectFPU).              *)
IsFence == code.opcode = <<\h0F, \hAE>> /\ Reg3(code.modrm) \in 5 .. 7

(***************************************************************************)
(* LengthIsReference: an instruction that is accepted is as long as its    *)
(* bytes make it, by a reckoning that does without the tables.  From the   *)
(* length the hooking service knows how many bytes it may overwrite and    *)
(* where the original function goes on.  Bytes that are no opcode in       *)
(* 64-bit mode and are decoded all the same (a second REX prefix, and the  *)
(* opcodes of X86_Invalid_Addr64_1 behind a prefix 67, because that table  *)
(* is asked when AddressSize is 8 only) are measured as in 32-bit mode.    *)
(***************************************************************************)
LengthIsReference ==
  Accepted /\ ~Is3DNow /\ ~IsFence =>
    /\ HasModRM(code) <=> code.modrm # None
    /\ ins.Length = ReferenceLength(arch, code)

(***************************************************************************)
(* RelativeToEnd: an accepted instruction is known to be relative exactly  *)
(* when it is, and its displacement counts from its end, also when an      *)
(* immediate follows that is not decoded yet (ImmediateSize).  The hooking *)
(* service moves such instructions by correcting the displacement.         *)
(***************************************************************************)
RelativeToEnd ==
  Accepted /\ ~Is3DNow /\ ~IsFence =>
    ins.Relative = IF IsRelative(arch, code) THEN ins.Length ELSE 0

(***************************************************************************)
(* LockOnlyWhereLegal: a lock prefix is accepted only before an            *)
(* instruction that reads, changes and writes memory (the list in the      *)
(* comment at X86_LockPrefix_1); bt (0F BA /4) is accepted too.            *)
(***************************************************************************)
LockOnlyWhereLegal ==
  Accepted /\ Has(code, PREFIX_LOCK) =>
    \/ MayLock(code)
    \/ code.opcode = <<\h0F, \hBA>> /\ Reg3(code.modrm) = 4 /\ Mod(code.modrm) # 3

(***************************************************************************)
(* SseTakesItsPrefix: of 66, F2 and F3 the decoder takes the one it met    *)
(* last as part of an SSE opcode, the processor F2 or F3 before 66.  An    *)
(* SSE opcode that is accepted without an anomaly has only one of the      *)
(* three, so the two agree on what it is.                                  *)
(***************************************************************************)
SsePrefixes == {b \in {PREFIX_OPERAND_SIZE, PREFIX_REPNE, PREFIX_REP} : Has(code, b)}
SseTakesItsPrefix ==
  Accepted /\ ins.OpcodeLength = 3 /\ ~Is3DNow /\ ~ins.AnomalyOccurred =>
    SsePrefixes = {ins.SSE_Prefix}

(***************************************************************************)
(* AssertionsHold: the assertions on what the decoder notes about operands *)
(* in memory hold but for three kinds of instruction: 3DNow with a memory  *)
(* operand, a call through a table without a base register and scale 1,    *)
(* and a load or store of more than 16 bytes relative to one register.     *)
(***************************************************************************)
SavesState ==
  \/ code.opcode \in {<<\hD9>>, <<\hDD>>} /\ Reg3(code.modrm) \in {4, 6}
  \/ code.opcode = <<\h0F, \hAE>> /\ Reg3(code.modrm) \in {0, 1}
NoBase     == Rm(code.modrm) = 4 /\ Base(code.sib) = 5 /\ Mod(code.modrm) = 0
NoIndex    == Rm(code.modrm) # 4 \/ Index(code.sib) = 4
AssertionsHold ==
  Accepted /\ ins.failed # "none" =>
    /\ code.modrm # None /\ Mod(code.modrm) # 3
    /\ \/ Is3DNow
       \/ /\ code.opcode = <<\hFF>> /\ Reg3(code.modrm) \in {2, 3}
          /\ NoBase /\ Scale(code.sib) = 0
       \/ SavesState /\ (NoBase \/ (Mod(code.modrm) = 2 /\ NoIndex))
=============================================================================
