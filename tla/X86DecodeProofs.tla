-------------------------- MODULE X86DecodeProofs --------------------------
(***************************************************************************)
(* The decoder measures an instruction as the processor does, whatever     *)
(* bytes it is shown and however many prefixes: the length it reports, the *)
(* place a relative displacement counts from, the lock prefixes it lets    *)
(* through, the prefix it takes as part of an SSE opcode, and where its    *)
(* assertions can fail.                                                    *)
(*                                                                         *)
(* The argument has three parts.  Every row of the tables suits its opcode *)
(* (Fits, TablesFit): the operands it lists take the bytes that the       *)
(* reference wants for that opcode, and it has one in memory or in a       *)
(* register wherever the opcode has a ModRM byte.  The invariant Inv says  *)
(* of each stage what has been read and counted so far.  One lemma for     *)
(* each action shows that it keeps Inv.                                    *)
(***************************************************************************)
EXTENDS X86Decode, SequenceTheorems, TLAPS

----------------------------------------------------------------------------
(* What a row has to be like at its opcode.                                *)

(* The reference asks for a ModRM byte; a branch by its opcode; a fence.    *)
TakesModRM(n, b) == IF n = 1 THEN b \notin NoModRM_1 ELSE b \notin NoModRM_2
Branches(n, b) ==
  IF n = 2 THEN b \in Full_2
  ELSE b \in (\h70 .. \h7F) \cup (\hE0 .. \hE3) \cup {\hE8, \hE9, \hEB}
Fence(n, b, x) == n = 2 /\ b = \hAE /\ x \in 5 .. 7
Saves(n, b, x) ==
  \/ n = 1 /\ b \in {\hD9, \hDD} /\ x \in {4, 6}
  \/ n = 2 /\ b = \hAE /\ x \in {0, 1}

RegisterModes == {"R", "PR", "VR"}
Mode(ops, k)  == ops[k][1]
InMemory(ops) == \E k \in DOMAIN ops : Mode(ops, k) \in MemoryModes
Located(ops)  == \E k \in DOMAIN ops : Mode(ops, k) \in MemoryModes \cup RegisterModes
Branching(ops) == \E k \in DOMAIN ops : Mode(ops, k) = "J"
BigTypes      == {"fev", "fst1", "fst2"}

(* Bytes of the operands besides those of an operand in memory, when       *)
(* operands have o bytes and addresses a.                                  *)
Sizes(o, a) == [OperandSize |-> o, AddressSize |-> a]
OwnBytes(ops, o, a) ==
  Sum3([k \in 1 .. 3 |->
          IF k \in DOMAIN ops THEN BytesOf(Sizes(o, a), ops[k], NoMemory) ELSE 0])

(* Up to three operands; with one in memory there is no other and none but *)
(* an immediate behind it has bytes of its own.                            *)
Shape(ops) ==
  /\ Len(ops) \in 0 .. 3 /\ DOMAIN ops = 1 .. Len(ops)
  /\ \A k \in DOMAIN ops : Mode(ops, k) \in MemoryModes =>
       \A j \in DOMAIN ops \ {k} :
         /\ Mode(ops, j) \notin MemoryModes \cup {"J", "A", "O"}
         /\ j < k => Mode(ops, j) # "I"

(* n, b: number of opcode bytes and the last of them; x: ModRM.reg; reg:   *)
(* ModRM is known to name a register.                                      *)
Placed(n, b, x, reg, ops) ==
  /\ TakesModRM(n, b) /\ ~reg /\ ~Fence(n, b, x) => Located(ops)
  /\ Branching(ops) <=> Branches(n, b)
  /\ \A o, a \in {2, 4, 8} : OwnBytes(ops, o, a) = ImmediateBytes(n = 2, b, x, o, a)

Typed(n, b, x, row) ==
  /\ n = 1 /\ b \in \hB8 .. \hBF => row.type \notin Default64 /\ row.type # "SYSTEM"
  /\ n = 1 /\ b < \h40 /\ b % 8 \in {2, 3} => Mode(row.ops, 1) \notin MemoryModes
  /\ row.type = "CALL" /\ InMemory(row.ops) => n = 1 /\ b = \hFF /\ x \in {2, 3}
  /\ \A k \in DOMAIN row.ops : row.ops[k][2] \in BigTypes => Saves(n, b, x)

Suits(n, b, x, reg, row) ==
  /\ row.kind = "row"
  /\ Shape(row.ops) /\ Placed(n, b, x, reg, row.ops) /\ Typed(n, b, x, row)

(* The same of the entries of a table.                                     *)
RowFits(n, b, row) == \A x \in 0 .. 7 : Suits(n, b, x, FALSE, row)
GroupFits(n, b, table) ==
  \A y \in DOMAIN table : \A x \in 0 .. 7 :
    x = y \/ ~TakesModRM(n, b) => Suits(n, b, x, FALSE, table[y])
RegisterFits(n, b, table) ==
  \A m \in DOMAIN table :
    m \in \hC0 .. \hFF /\ Suits(n, b, Reg3(m), TRUE, table[m])
ModRMEntryFits(n, b, m, e) ==
  \/ e.kind = "row" /\ m \in \hC0 .. \hFF /\ Suits(n, b, Reg3(m), TRUE, e)
  \/ e.kind = "group" /\ GroupFits(n, b, e.table)
ModRMFits(n, b, table) == \A m \in DOMAIN table : ModRMEntryFits(n, b, m, table[m])

ModRMOf(n) == IF n = 1 THEN X86_ModRM_1 ELSE X86_ModRM_2
Groups(n)  == IF n = 1 THEN LockPrefix_GR_1 ELSE LockPrefix_GR_2
Fits(n, b, e) ==
  /\ e.kind # "prefix" => (b \in ModRMOf(n) <=> TakesModRM(n, b))
  /\ b \in Groups(n) => e.kind = "group" /\ TakesModRM(n, b)
  /\ e.kind = "row" => RowFits(n, b, e)
  /\ e.kind = "group" => GroupFits(n, b, e.table)
  /\ e.kind \in {"fpu", "modrm"} => TakesModRM(n, b) /\ ~(n = 2 /\ b = \hAE)
  /\ e.kind = "fpu" => GroupFits(n, b, e.table.mem) /\ RegisterFits(n, b, e.table.reg)
  /\ e.kind = "modrm" => ModRMFits(n, b, e.table)
  /\ e.kind = "ext64" => RowFits(n, b, e.table.x86) /\ RowFits(n, b, e.table.x64)
  /\ e.kind = "suffix" =>
       n = 2 /\ b = \h0F /\ \A s \in DOMAIN e.table : RowFits(n, b, e.table[s])
SseFits(b, e) ==
  /\ b \notin Full_2 \cup {\h0F, \hAE} \cup Groups(2)
  /\ \/ e.kind = "row" /\ e.type = "SSE" /\ RowFits(2, b, e)
     \/ /\ e.kind = "group" /\ GroupFits(2, b, e.table)
        /\ \A y \in DOMAIN e.table : e.table[y].type = "SSE"

TableFits(n, t) == \A b \in DOMAIN t : Fits(n, b, t[b])
SseTableFits(t) == \A b \in DOMAIN t : SseFits(b, t[b])
Tables ==
  /\ TableFits(1, X86_Opcodes_1) /\ TableFits(2, X86_Opcodes_2)
  /\ \A p \in {PREFIX_OPERAND_SIZE, PREFIX_REPNE, PREFIX_REP} : SseTableFits(X86_SSE[p])

----------------------------------------------------------------------------
(* The invariant.                                                          *)

Reading == {"prefixes", "rex", "second", "modrm", "row"}
Known   == {"checks", "operands", "finish", "accepted"}

OpcodeCount == Len(code.opcode)
Extension   == Reg3(code.modrm)
InRegister  == code.modrm # None /\ code.modrm >= \hC0
Bytes       == Len(code.prefixes) + Len(code.opcode)
TwoBytes    == ins.OperandSize = 2 <=> OperandBytes(arch, code) = 2

CodeType ==
  [prefixes : Seq(Byte), opcode : Seq(Byte), modrm : Byte \cup {None},
   sib : Byte \cup {None}, suffix : Byte \cup {None}]
Failures == {"none", "!HasSrcAddressing", "Scale > 1", "tmpScale <= 16"}
(* An instruction with the given row and operand in memory.                *)
Instructions(row, memory) ==
  [Length : Nat, Prefixes : Seq(Byte),
   SSE_Prefix : {0, PREFIX_OPERAND_SIZE, PREFIX_REPNE, PREFIX_REP},
   Repeat : {0, PREFIX_REPNE, PREFIX_REP}, rex : Byte,
   OperandSize : {2, 4, 8}, AddressSize : {2, 4, 8},
   HasOperandSizePrefix : BOOLEAN, HasAddressSizePrefix : BOOLEAN,
   HasSegmentOverridePrefix : BOOLEAN, HasLockPrefix : BOOLEAN,
   AnomalyOccurred : BOOLEAN, row : {row}, OpcodeLength : 0 .. 3,
   OpcodeExtension : 0 .. 63, HasDstAddressing : BOOLEAN, memory : {memory},
   Relative : Nat, failed : Failures]
InsType == Instructions(ins.row, ins.memory)
TypeOK ==
  /\ arch \in {"x86", "x64"} /\ code \in CodeType /\ ins \in InsType
  /\ stage \in Reading \cup Known \cup {"refused"}

OpcodeInv ==
  /\ stage \in {"prefixes", "rex"} => code.opcode = << >>
  /\ stage = "second" => code.opcode = <<X86_TWO_BYTE_OPCODE>>
  /\ stage \in {"modrm", "row"} \cup Known =>
       \/ \E b \in Byte \ {X86_TWO_BYTE_OPCODE} : code.opcode = <<b>>
             /\ ins.OpcodeLength = 1
       \/ \E b \in Byte : code.opcode = <<X86_TWO_BYTE_OPCODE, b>>
             /\ ins.OpcodeLength \in {2, 3}
  /\ stage \in {"modrm", "row"} => ins.OpcodeLength = OpcodeCount
  /\ stage \in Reading \ {"row"} => code.modrm = None
  /\ stage = "modrm"
        => LastOpcode \in (IF OpcodeCount = 1 THEN X86_ModRM_1 ELSE X86_ModRM_2)
  /\ stage = "row" =>
       (code.modrm # None <=>
          LastOpcode \in (IF OpcodeCount = 1 THEN X86_ModRM_1 ELSE X86_ModRM_2))
  /\ stage \in Reading => code.sib = None

HeadInv ==
  stage # "refused" =>
    /\ ins.HasLockPrefix <=> Has(code, PREFIX_LOCK)
    /\ ins.AddressSize = AddressBytes(arch, code)
    /\ stage = "prefixes" => LastRex(arch, code) = 0
    /\ ins.rex = LastRex(arch, code) \/ stage \in {"operands", "finish", "accepted"}

Wide == RexW(LastRex(arch, code))
ReadInv ==
  stage \in Reading =>
    /\ ins.Length = Bytes
    /\ ins.OperandSize = OperandBytes(arch, code)
    /\ ins.HasOperandSizePrefix <=> Has(code, PREFIX_OPERAND_SIZE) /\ ~Wide
    /\ ins.HasAddressSizePrefix <=> Has(code, PREFIX_ADDRESS_SIZE)
    /\ ins.Relative = 0 /\ ins.memory = NoMemory /\ ins.failed = "none"
    /\ ~ins.HasDstAddressing

PrefixInv ==
  stage \in Reading =>
    /\ ~ins.AnomalyOccurred => ins.Prefixes = code.prefixes
    /\ ins.SSE_Prefix # 0 => ins.SSE_Prefix \in SsePrefixes /\ ins.Prefixes # << >>
    /\ ins.SSE_Prefix = 0 => SsePrefixes = {}

RowInv ==
  stage \in Known =>
    /\ Suits(OpcodeCount, LastOpcode, Extension, InRegister, ins.row)
    /\ code.modrm # None <=> TakesModRM(OpcodeCount, LastOpcode)
    /\ LastOpcode \in Groups(OpcodeCount) =>
         ins.OpcodeLength # 3 /\ ins.OpcodeExtension = Extension
    /\ ins.OpcodeLength = 3 => OpcodeCount = 2 /\ LastOpcode \notin Full_2
    /\ ins.OpcodeLength = 3 /\ ~Is3DNow =>
         ins.row.type = "SSE" /\ ins.SSE_Prefix \in SsePrefixes
    /\ TwoBytes \/ (OpcodeCount = 2 /\ LastOpcode \notin Full_2)
    /\ OpcodeCount = 1 /\ LastOpcode \in \hB8 .. \hBF =>
         ins.OperandSize = OperandBytes(arch, code)

CheckInv ==
  /\ stage = "checks" =>
       /\ ins.OpcodeLength = 3 \/
            (ins.HasOperandSizePrefix <=> Has(code, PREFIX_OPERAND_SIZE) /\ ~Wide)
       /\ ins.OpcodeLength = 3 /\ ~Is3DNow /\ ~ins.AnomalyOccurred =>
            ins.Prefixes = Tail(code.prefixes)
  /\ stage = "operands" => ins.row.ops # << >>
  /\ stage \in {"checks", "operands"} =>
       /\ ins.Relative = 0 /\ ins.memory = NoMemory
       /\ ~ins.HasDstAddressing
       /\ ~Is3DNow =>
            ins.Length = Bytes + (IF ins.row.ops = << >> /\ code.modrm # None
                 /\ ~IsFence
                                  THEN 1 ELSE 0)
  /\ stage \in {"checks", "operands", "finish"} /\ ins.failed # "none" =>
       Is3DNow /\ code.modrm # None /\ Mod(code.modrm) # 3
  /\ stage \in {"checks", "operands"} /\ ~Is3DNow => code.sib = None

SseInv ==
  stage \in {"operands", "finish", "accepted"} =>
    (ins.OpcodeLength = 3 /\ ~Is3DNow /\ ~ins.AnomalyOccurred
         => SsePrefixes = {ins.SSE_Prefix})
LengthInv ==
  stage \in {"finish", "accepted"} /\ ~Is3DNow /\ ~IsFence =>
    /\ ins.Length = ReferenceLength(arch, code)
    /\ ins.Relative = IF IsRelative(arch, code) THEN ins.Length ELSE 0
MemoryInv ==
  stage \in {"finish", "accepted"} =>
    /\ \/ ins.row.ops = << >> /\ ins.memory = NoMemory
       \/ \E valid \in BOOLEAN : ins.memory = Memory(ins, ins.row, code.sib, valid)
    /\ ins.HasDstAddressing =>
         UsesMemory(ins.row) /\ Mode(ins.row.ops, 1) \in MemoryModes
    /\ UsesMemory(ins.row) /\ ins.AddressSize # 2 /\ Rm(code.modrm) = 4
          => code.sib \in Byte

Inv ==
  /\ TypeOK /\ OpcodeInv /\ HeadInv /\ ReadInv /\ PrefixInv /\ RowInv /\ CheckInv
  /\ SseInv /\ LengthInv /\ MemoryInv /\ LockOnlyWhereLegal /\ AssertionsHold

----------------------------------------------------------------------------
(* The tables are as described above.  Each row is looked at once: what    *)
(* its operands are like (Operands) and what its opcodes want (Wanted) is  *)
(* said with the same two words, k for the bytes the operands have of      *)
(* their own and at for where the instruction tells of the others: in its  *)
(* opcode, in ModRM, or in ModRM with an operand of a big type.            *)

KindBytes(k, o, a) ==
  CASE k \in {"b", "jb"} -> 1
    [] k = "w"           -> 2
    [] k = "wb"          -> 3
    [] k = "v"           -> o
    [] k = "a"           -> a
    [] k \in {"z", "jz"} -> (IF o = 2 THEN 2 ELSE 4)
    [] k = "p"           -> 2 + (IF o = 2 THEN 2 ELSE 4)
    [] OTHER             -> 0
Operands(ops, k, at) ==
  /\ Shape(ops)
  /\ (\E j \in DOMAIN ops : ops[j][2] \in BigTypes) => at = "big"
  /\ Located(ops) <=> at # "opcode"
  /\ Branching(ops) <=> k \in {"jb", "jz"}
  /\ \A o, a \in {2, 4, 8} : OwnBytes(ops, o, a) = KindBytes(k, o, a)
Wanted(n, b, x, k, at) ==
  /\ \A o, a \in {2, 4, 8} : ImmediateBytes(n = 2, b, x, o, a) = KindBytes(k, o, a)
  /\ Branches(n, b) <=> k \in {"jb", "jz"}
  /\ TakesModRM(n, b) /\ ~Fence(n, b, x) => at # "opcode"
  /\ at = "big" => Saves(n, b, x)
Class(n, S, k, at) ==
  \A b \in S :
    /\ b \in ModRMOf(n) <=> TakesModRM(n, b)
    /\ b \notin Groups(n)
    /\ \A x \in 0 .. 7 : Wanted(n, b, x, k, at)
TypeWanted(n, b, x, row, at) ==
  /\ row.type = "CALL" /\ at # "opcode" => n = 1 /\ b = \hFF /\ x \in {2, 3}
  /\ n = 1 /\ b \in \hB8 .. \hBF => row.type \notin Default64 /\ row.type # "SYSTEM"
  /\ n = 1 /\ b < \h40 /\ b % 8 \in {2, 3} => Mode(row.ops, 1) \notin MemoryModes
GroupClass(n, b, Y, k, at) ==
  /\ n = 1 => b \notin \hB8 .. \hBF /\ ~(b < \h40)
  /\ \A x \in 0 .. 7 : x \in Y \/ ~TakesModRM(n, b) => Wanted(n, b, x, k, at)

(* A row suits an opcode when they are described by the same words.        *)
LEMMA RowSuits ==
  ASSUME NEW n, NEW b, NEW x, NEW row, NEW ops, NEW k, NEW at,
         Wanted(n, b, x, k, at), Operands(ops, k, at), TypeWanted(n, b, x, row, at),
         row.kind = "row", row.ops = ops
  PROVE  Suits(n, b, x, FALSE, row)
<1>1. Placed(n, b, x, FALSE, ops)
  BY DEF Operands, Wanted, Placed
<1>2. Typed(n, b, x, row)
  BY DEF Operands, Wanted, Typed, TypeWanted, InMemory, Located
<1> QED BY <1>1, <1>2 DEF Suits, Operands

(* So does a row of the opcode's own entry, for every ModRM.reg.         *)
LEMMA RowFit ==
  ASSUME NEW n, NEW b, NEW row, NEW ops, NEW k, NEW at,
         \A x \in 0 .. 7 : Wanted(n, b, x, k, at),
         Operands(ops, k, at), row.kind = "row", row.ops = ops,
         row.type = "CALL" => at = "opcode",
         n = 1 /\ b \in \hB8 .. \hBF => row.type \notin Default64
              /\ row.type # "SYSTEM",
         n = 1 /\ b < \h40 /\ b % 8 \in {2, 3} => Mode(ops, 1) \notin MemoryModes
  PROVE  RowFits(n, b, row)
BY RowSuits DEF RowFits, TypeWanted

(* One row for many opcodes of one byte.                                 *)
LEMMA RowsFit ==
  ASSUME NEW n, NEW S, NEW row, NEW ops, NEW k, NEW at,
         Class(n, S, k, at), Operands(ops, k, at),
         row.kind = "row", row.ops = ops, row.type = "CALL" => at = "opcode",
         \A b \in S : n = 1 =>
           /\ b \in \hB8 .. \hBF => row.type \notin Default64 /\ row.type # "SYSTEM"
           /\ b < \h40 /\ b % 8 \in {2, 3} => Mode(ops, 1) \notin MemoryModes
  PROVE  TableFits(n, On(S, row))
<1>1. ASSUME NEW b \in S PROVE Fits(n, b, row)
  <2>1. \A x \in 0 .. 7 : Wanted(n, b, x, k, at)
    BY DEF Class
  <2>2. /\ n = 1 /\ b \in \hB8 .. \hBF => row.type \notin Default64
              /\ row.type # "SYSTEM"
        /\ n = 1 /\ b < \h40 /\ b % 8 \in {2, 3} => Mode(ops, 1) \notin MemoryModes
    OBVIOUS
  <2>3. RowFits(n, b, row)
    BY <2>1, <2>2, RowFit
  <2> QED BY <2>3 DEF Fits, Class
<1> QED BY <1>1 DEF TableFits, On

(* One row for many opcodes behind 0F.                                   *)
LEMMA TwoByteRowsFit ==
  ASSUME NEW S, NEW row, NEW ops, NEW k, NEW at,
         Class(2, S, k, at), Operands(ops, k, at),
         row.kind = "row", row.ops = ops, row.type = "CALL" => at = "opcode"
  PROVE  TableFits(2, On(S, row))
BY RowsFit

(* The same for the rows of a group that stand at Y.                       *)
LEMMA GroupRowsFit ==
  ASSUME NEW n, NEW b, NEW Y, NEW row, NEW ops, NEW k, NEW at,
         GroupClass(n, b, Y, k, at), Operands(ops, k, at),
         row.kind = "row", row.ops = ops,
         row.type = "CALL" => n = 1 /\ b = \hFF /\ Y \subseteq {2, 3}
              /\ TakesModRM(n, b)
  PROVE  GroupFits(n, b, On(Y, row))
<1>1. ASSUME NEW y \in Y, NEW x \in 0 .. 7, x = y \/ ~TakesModRM(n, b)
      PROVE  Suits(n, b, x, FALSE, row)
  <2>1. Wanted(n, b, x, k, at)
    BY <1>1 DEF GroupClass
  <2>2. TypeWanted(n, b, x, row, at)
    BY <1>1 DEF GroupClass, TypeWanted
  <2>3. Operands(ops, k, at) /\ row.kind = "row" /\ row.ops = ops
    OBVIOUS
  <2> QED BY ONLY <2>1, <2>2, <2>3, RowSuits
<1> QED BY <1>1 DEF GroupFits, On

(* Tables of tables.                                                       *)
LEMMA GroupsFit ==
  ASSUME NEW n, NEW S, NEW t,
         \A b \in S : GroupFits(n, b, t),
         \A b \in S : b \in ModRMOf(n) <=> TakesModRM(n, b),
         \A b \in S : b \in Groups(n) => TakesModRM(n, b)
  PROVE  TableFits(n, On(S, Group(t)))
BY DEF TableFits, On, Group, Fits

(* Tables put together of tables that fit.                               *)
LEMMA BothFit ==
  ASSUME NEW n, NEW f, NEW g, TableFits(n, f), TableFits(n, g)
  PROVE  TableFits(n, f ++ g)
<1>1. f ++ g = Merged(<<f, g>>)
  BY DEF ++
<1> QED BY <1>1 DEF Merged, TableFits

(* The same of the members of a group,                                   *)
LEMMA BothGroupsFit ==
  ASSUME NEW n, NEW b, NEW f, NEW g, GroupFits(n, b, f), GroupFits(n, b, g)
  PROVE  GroupFits(n, b, f ++ g)
<1>1. f ++ g = Merged(<<f, g>>)
  BY DEF ++
<1> QED BY <1>1 DEF Merged, GroupFits

(* of rows found by a ModRM byte that names a register,                  *)
LEMMA BothRegistersFit ==
  ASSUME NEW n, NEW b, NEW f, NEW g, RegisterFits(n, b, f), RegisterFits(n, b, g)
  PROVE  RegisterFits(n, b, f ++ g)
<1>1. f ++ g = Merged(<<f, g>>)
  BY DEF ++
<1> QED BY <1>1 DEF Merged, RegisterFits

(* of rows and groups found by the whole ModRM byte,                     *)
LEMMA BothModRMsFit ==
  ASSUME NEW n, NEW b, NEW f, NEW g, ModRMFits(n, b, f), ModRMFits(n, b, g)
  PROVE  ModRMFits(n, b, f ++ g)
<1>1. f ++ g = Merged(<<f, g>>)
  BY DEF ++
<1> QED BY <1>1 DEF Merged, ModRMFits

(* and of opcodes that 66, F2 or F3 is part of.                          *)
LEMMA BothSseFit ==
  ASSUME NEW f, NEW g, SseTableFits(f), SseTableFits(g)
  PROVE  SseTableFits(f ++ g)
<1>1. f ++ g = Merged(<<f, g>>)
  BY DEF ++
<1> QED BY <1>1 DEF Merged, SseTableFits

(* Rows at ModRM bytes that name a register.                               *)
LEMMA RegisterSuits ==
  ASSUME NEW n, NEW b, NEW m \in \hC0 .. \hFF, NEW row, NEW ops,
         GroupClass(n, b, 0 .. 7, "none", "modrm"), Operands(ops, "none", "opcode"),
         row.kind = "row", row.ops = ops, row.type # "CALL"
  PROVE  Suits(n, b, Reg3(m), TRUE, row)
<1>1. Reg3(m) \in 0 .. 7
  BY DEF Reg3
<1>2. Wanted(n, b, Reg3(m), "none", "modrm")
  BY <1>1 DEF GroupClass
<1>3. Placed(n, b, Reg3(m), TRUE, ops)
  BY <1>2 DEF Operands, Wanted, Placed
<1>4. Typed(n, b, Reg3(m), row)
  BY DEF Operands, Typed, GroupClass
<1> QED BY <1>3, <1>4 DEF Suits, Operands

(* One row for many ModRM bytes.                                         *)
LEMMA RegisterRowsFit ==
  ASSUME NEW n, NEW b, NEW M, NEW row, NEW ops, M \subseteq \hC0 .. \hFF,
         GroupClass(n, b, 0 .. 7, "none", "modrm"), Operands(ops, "none", "opcode"),
         row.kind = "row", row.ops = ops, row.type # "CALL"
  PROVE  RegisterFits(n, b, On(M, row))
BY RegisterSuits DEF RegisterFits, On

(* The same in a table with groups.                                      *)
LEMMA RegisterModRMFits ==
  ASSUME NEW n, NEW b, NEW M, NEW row, RegisterFits(n, b, On(M, row)), row.kind = "row"
  PROVE  ModRMFits(n, b, On(M, row))
BY DEF RegisterFits, ModRMFits, ModRMEntryFits, On

(* Rows behind 66, F2 and F3.                                              *)
SseClass(S, k, at) ==
  \A b \in S :
    /\ b \notin Full_2 \cup {\h0F, \hAE} \cup Groups(2)
    /\ \A x \in 0 .. 7 : Wanted(2, b, x, k, at)

(* One row, or one group, for many SSE opcodes.                          *)
LEMMA SseRowsFit ==
  ASSUME NEW S, NEW row, NEW ops, NEW k, NEW at,
         SseClass(S, k, at), Operands(ops, k, at),
         row.kind = "row", row.ops = ops, row.type = "SSE"
  PROVE  SseTableFits(On(S, row))
<1>1. ASSUME NEW b \in S PROVE RowFits(2, b, row)
  <2>1. \A x \in 0 .. 7 : Wanted(2, b, x, k, at)
    BY DEF SseClass
  <2> QED BY <2>1, RowFit
<1> QED BY <1>1 DEF SseTableFits, SseFits, SseClass, On

(* The same of groups.                                                   *)
LEMMA SseGroupsFit ==
  ASSUME NEW S, NEW t,
         \A b \in S : b \notin Full_2 \cup {\h0F, \hAE} \cup Groups(2),
         \A b \in S : GroupFits(2, b, t), \A y \in DOMAIN t : t[y].type = "SSE"
  PROVE  SseTableFits(On(S, Group(t)))
BY DEF SseTableFits, SseFits, On, Group

----------------------------------------------------------------------------
(* The tables, row by row.                                                 *)

(* Operands of kind "a".                                                 *)
LEMMA Operands_a ==
  /\ Operands(<<Reg, Ov>>, "a", "opcode")
  /\ Operands(<<Ov, Reg>>, "a", "opcode")
<1> USE DEF Operands, Shape, Located, Branching, BigTypes, Mode, MemoryModes,
           RegisterModes, OwnBytes, Sum3, BytesOf, OperandLength, KindBytes, Sizes,
           NoMemory
<1>1. Operands(<<Reg, Ov>>, "a", "opcode")
  BY DEF Ov, Reg
<1>2. Operands(<<Ov, Reg>>, "a", "opcode")
  BY DEF Ov, Reg
<1> QED BY ONLY <1>1, <1>2

(* Operands of kind "b".                                                 *)
LEMMA Operands_b ==
  /\ Operands(<<Reg, Ib>>, "b", "opcode")
  /\ Operands(<<Ib>>, "b", "opcode")
  /\ Operands(<<Gv, Ev, Ib>>, "b", "modrm")
  /\ Operands(<<Ev, Ib>>, "b", "modrm")
  /\ Operands(<<Ib, Reg>>, "b", "opcode")
  /\ Operands(<<Pq, Qq, Ib>>, "b", "modrm")
  /\ Operands(<<PRq, Ib>>, "b", "modrm")
  /\ Operands(<<Ev, Gv, Ib>>, "b", "modrm")
  /\ Operands(<<Vo, Wo, Ib>>, "b", "modrm")
  /\ Operands(<<Pq, Ev, Ib>>, "b", "modrm")
  /\ Operands(<<Gv, PRq, Ib>>, "b", "modrm")
  /\ Operands(<<VRo, Ib>>, "b", "modrm")
  /\ Operands(<<Vo, Ev, Ib>>, "b", "modrm")
  /\ Operands(<<Gv, VRo, Ib>>, "b", "modrm")
<1> USE DEF Operands, Shape, Located, Branching, BigTypes, Mode, MemoryModes,
           RegisterModes, OwnBytes, Sum3, BytesOf, OperandLength, KindBytes, Sizes,
           NoMemory
<1>1. Operands(<<Reg, Ib>>, "b", "opcode")
  BY DEF Ib, Reg
<1>2. Operands(<<Ib>>, "b", "opcode")
  BY DEF Ib
<1>3. Operands(<<Gv, Ev, Ib>>, "b", "modrm")
  BY DEF Ev, Gv, Ib
<1>4. Operands(<<Ev, Ib>>, "b", "modrm")
  BY DEF Ev, Ib
<1>5. Operands(<<Ib, Reg>>, "b", "opcode")
  BY DEF Ib, Reg
<1>6. Operands(<<Pq, Qq, Ib>>, "b", "modrm")
  BY DEF Ib, Pq, Qq
<1>7. Operands(<<PRq, Ib>>, "b", "modrm")
  BY DEF Ib, PRq
<1>8. Operands(<<Ev, Gv, Ib>>, "b", "modrm")
  BY DEF Ev, Gv, Ib
<1>9. Operands(<<Vo, Wo, Ib>>, "b", "modrm")
  BY DEF Ib, Vo, Wo
<1>10. Operands(<<Pq, Ev, Ib>>, "b", "modrm")
  BY DEF Ev, Ib, Pq
<1>11. Operands(<<Gv, PRq, Ib>>, "b", "modrm")
  BY DEF Gv, Ib, PRq
<1>12. Operands(<<VRo, Ib>>, "b", "modrm")
  BY DEF Ib, VRo
<1>13. Operands(<<Vo, Ev, Ib>>, "b", "modrm")
  BY DEF Ev, Ib, Vo
<1>14. Operands(<<Gv, VRo, Ib>>, "b", "modrm")
  BY DEF Gv, Ib, VRo
<1> QED BY ONLY <1>1, <1>2, <1>3, <1>4, <1>5, <1>6, <1>7, <1>8, <1>9, <1>10,
    <1>11, <1>12, <1>13, <1>14

(* Operands of kind "big".                                               *)
LEMMA Operands_big ==
  /\ Operands(<<Mfev>>, "none", "big")
  /\ Operands(<<Mfst1>>, "none", "big")
  /\ Operands(<<Mfst2>>, "none", "big")
<1> USE DEF Operands, Shape, Located, Branching, BigTypes, Mode, MemoryModes,
           RegisterModes, OwnBytes, Sum3, BytesOf, OperandLength, KindBytes, Sizes,
           NoMemory
<1>1. Operands(<<Mfev>>, "none", "big")
  BY DEF Mfev
<1>2. Operands(<<Mfst1>>, "none", "big")
  BY DEF Mfst1
<1>3. Operands(<<Mfst2>>, "none", "big")
  BY DEF Mfst2
<1> QED BY ONLY <1>1, <1>2, <1>3

(* Operands of kind "jb".                                                *)
LEMMA Operands_jb ==
  /\ Operands(<<Jb>>, "jb", "opcode")
<1> USE DEF Operands, Shape, Located, Branching, BigTypes, Mode, MemoryModes,
           RegisterModes, OwnBytes, Sum3, BytesOf, OperandLength, KindBytes, Sizes,
           NoMemory
<1>1. Operands(<<Jb>>, "jb", "opcode")
  BY DEF Jb
<1> QED BY ONLY <1>1

(* Operands of kind "jz".                                                *)
LEMMA Operands_jz ==
  /\ Operands(<<Jz>>, "jz", "opcode")
<1> USE DEF Operands, Shape, Located, Branching, BigTypes, Mode, MemoryModes,
           RegisterModes, OwnBytes, Sum3, BytesOf, OperandLength, KindBytes, Sizes,
           NoMemory
<1>1. Operands(<<Jz>>, "jz", "opcode")
  BY DEF Jz
<1> QED BY ONLY <1>1

(* Operands of kind "mmx".                                               *)
LEMMA Operands_mmx ==
  /\ Operands(<<Pq, Qq>>, "none", "modrm")
  /\ Operands(<<Pq, Ev>>, "none", "modrm")
  /\ Operands(<<Ev, Pq>>, "none", "modrm")
  /\ Operands(<<Qq, Pq>>, "none", "modrm")
  /\ Operands(<<Gv, PRq>>, "none", "modrm")
  /\ Operands(<<Mv, Pq>>, "none", "modrm")
  /\ Operands(<<Pq, PRq>>, "none", "modrm")
<1> USE DEF Operands, Shape, Located, Branching, BigTypes, Mode, MemoryModes,
           RegisterModes, OwnBytes, Sum3, BytesOf, OperandLength, KindBytes, Sizes,
           NoMemory
<1>1. Operands(<<Pq, Qq>>, "none", "modrm")
  BY DEF Pq, Qq
<1>2. Operands(<<Pq, Ev>>, "none", "modrm")
  BY DEF Ev, Pq
<1>3. Operands(<<Ev, Pq>>, "none", "modrm")
  BY DEF Ev, Pq
<1>4. Operands(<<Qq, Pq>>, "none", "modrm")
  BY DEF Pq, Qq
<1>5. Operands(<<Gv, PRq>>, "none", "modrm")
  BY DEF Gv, PRq
<1>6. Operands(<<Mv, Pq>>, "none", "modrm")
  BY DEF Mv, Pq
<1>7. Operands(<<Pq, PRq>>, "none", "modrm")
  BY DEF PRq, Pq
<1> QED BY ONLY <1>1, <1>2, <1>3, <1>4, <1>5, <1>6, <1>7

(* Operands of kind "modrm".                                             *)
LEMMA Operands_modrm ==
  /\ Operands(<<Mv>>, "none", "modrm")
  /\ Operands(<<Ev, Reg>>, "none", "modrm")
  /\ Operands(<<Reg, Ev>>, "none", "modrm")
  /\ Operands(<<Ev, Gv>>, "none", "modrm")
  /\ Operands(<<Gv, Ev>>, "none", "modrm")
  /\ Operands(<<Gv, Mv>>, "none", "modrm")
  /\ Operands(<<Ev>>, "none", "modrm")
  /\ Operands(<<Reg, Mv>>, "none", "modrm")
  /\ Operands(<<Mv, Reg>>, "none", "modrm")
  /\ Operands(<<Reg, Ev, Reg>>, "none", "modrm")
  /\ Operands(<<Ep>>, "none", "modrm")
  /\ Operands(<<Rd, Cd>>, "none", "modrm")
  /\ Operands(<<Cd, Rd>>, "none", "modrm")
  /\ Operands(<<Ev, Reg, Reg>>, "none", "modrm")
  /\ Operands(<<Ev, Gv, Reg>>, "none", "modrm")
  /\ Operands(<<Ev, Reg, Gv>>, "none", "modrm")
  /\ Operands(<<Mv, Gv>>, "none", "modrm")
  /\ Operands(<<Mv, Reg, Reg>>, "none", "modrm")
<1> USE DEF Operands, Shape, Located, Branching, BigTypes, Mode, MemoryModes,
           RegisterModes, OwnBytes, Sum3, BytesOf, OperandLength, KindBytes, Sizes,
           NoMemory
<1>1. Operands(<<Mv>>, "none", "modrm")
  BY DEF Mv
<1>2. Operands(<<Ev, Reg>>, "none", "modrm")
  BY DEF Ev, Reg
<1>3. Operands(<<Reg, Ev>>, "none", "modrm")
  BY DEF Ev, Reg
<1>4. Operands(<<Ev, Gv>>, "none", "modrm")
  BY DEF Ev, Gv
<1>5. Operands(<<Gv, Ev>>, "none", "modrm")
  BY DEF Ev, Gv
<1>6. Operands(<<Gv, Mv>>, "none", "modrm")
  BY DEF Gv, Mv
<1>7. Operands(<<Ev>>, "none", "modrm")
  BY DEF Ev
<1>8. Operands(<<Reg, Mv>>, "none", "modrm")
  BY DEF Mv, Reg
<1>9. Operands(<<Mv, Reg>>, "none", "modrm")
  BY DEF Mv, Reg
<1>10. Operands(<<Reg, Ev, Reg>>, "none", "modrm")
  BY DEF Ev, Reg
<1>11. Operands(<<Ep>>, "none", "modrm")
  BY DEF Ep
<1>12. Operands(<<Rd, Cd>>, "none", "modrm")
  BY DEF Cd, Rd
<1>13. Operands(<<Cd, Rd>>, "none", "modrm")
  BY DEF Cd, Rd
<1>14. Operands(<<Ev, Reg, Reg>>, "none", "modrm")
  BY DEF Ev, Reg
<1>15. Operands(<<Ev, Gv, Reg>>, "none", "modrm")
  BY DEF Ev, Gv, Reg
<1>16. Operands(<<Ev, Reg, Gv>>, "none", "modrm")
  BY DEF Ev, Gv, Reg
<1>17. Operands(<<Mv, Gv>>, "none", "modrm")
  BY DEF Gv, Mv
<1>18. Operands(<<Mv, Reg, Reg>>, "none", "modrm")
  BY DEF Mv, Reg
<1> QED BY ONLY <1>1, <1>2, <1>3, <1>4, <1>5, <1>6, <1>7, <1>8, <1>9, <1>10,
    <1>11, <1>12, <1>13, <1>14, <1>15, <1>16, <1>17, <1>18

(* Operands of kind "opcode".                                            *)
LEMMA Operands_opcode ==
  /\ Operands(<< >>, "none", "opcode")
  /\ Operands(<<Reg>>, "none", "opcode")
  /\ Operands(<<Yv, Reg>>, "none", "opcode")
  /\ Operands(<<Reg, Xv>>, "none", "opcode")
  /\ Operands(<<Reg, Reg>>, "none", "opcode")
  /\ Operands(<<Yv, Xv>>, "none", "opcode")
  /\ Operands(<<Xv, Yv>>, "none", "opcode")
  /\ Operands(<<Reg, Yv>>, "none", "opcode")
  /\ Operands(<<Reg, Reg, Reg>>, "none", "opcode")
<1> USE DEF Operands, Shape, Located, Branching, BigTypes, Mode, MemoryModes,
           RegisterModes, OwnBytes, Sum3, BytesOf, OperandLength, KindBytes, Sizes,
           NoMemory
<1>1. Operands(<< >>, "none", "opcode")
  OBVIOUS
<1>2. Operands(<<Reg>>, "none", "opcode")
  BY DEF Reg
<1>3. Operands(<<Yv, Reg>>, "none", "opcode")
  BY DEF Reg, Yv
<1>4. Operands(<<Reg, Xv>>, "none", "opcode")
  BY DEF Reg, Xv
<1>5. Operands(<<Reg, Reg>>, "none", "opcode")
  BY DEF Reg
<1>6. Operands(<<Yv, Xv>>, "none", "opcode")
  BY DEF Xv, Yv
<1>7. Operands(<<Xv, Yv>>, "none", "opcode")
  BY DEF Xv, Yv
<1>8. Operands(<<Reg, Yv>>, "none", "opcode")
  BY DEF Reg, Yv
<1>9. Operands(<<Reg, Reg, Reg>>, "none", "opcode")
  BY DEF Reg
<1> QED BY ONLY <1>1, <1>2, <1>3, <1>4, <1>5, <1>6, <1>7, <1>8, <1>9

(* Operands of kind "p".                                                 *)
LEMMA Operands_p ==
  /\ Operands(<<Ap>>, "p", "opcode")
<1> USE DEF Operands, Shape, Located, Branching, BigTypes, Mode, MemoryModes,
           RegisterModes, OwnBytes, Sum3, BytesOf, OperandLength, KindBytes, Sizes,
           NoMemory
<1>1. Operands(<<Ap>>, "p", "opcode")
  BY DEF Ap
<1> QED BY ONLY <1>1

(* Operands of kind "v".                                                 *)
LEMMA Operands_v ==
  /\ Operands(<<Reg, Iv>>, "v", "opcode")
<1> USE DEF Operands, Shape, Located, Branching, BigTypes, Mode, MemoryModes,
           RegisterModes, OwnBytes, Sum3, BytesOf, OperandLength, KindBytes, Sizes,
           NoMemory
<1>1. Operands(<<Reg, Iv>>, "v", "opcode")
  BY DEF Iv, Reg
<1> QED BY ONLY <1>1

(* Operands of kind "w".                                                 *)
LEMMA Operands_w ==
  /\ Operands(<<Iw>>, "w", "opcode")
<1> USE DEF Operands, Shape, Located, Branching, BigTypes, Mode, MemoryModes,
           RegisterModes, OwnBytes, Sum3, BytesOf, OperandLength, KindBytes, Sizes,
           NoMemory
<1>1. Operands(<<Iw>>, "w", "opcode")
  BY DEF Iw
<1> QED BY ONLY <1>1

(* Operands of kind "wb".                                                *)
LEMMA Operands_wb ==
  /\ Operands(<<Reg, Iw, Ib>>, "wb", "opcode")
<1> USE DEF Operands, Shape, Located, Branching, BigTypes, Mode, MemoryModes,
           RegisterModes, OwnBytes, Sum3, BytesOf, OperandLength, KindBytes, Sizes,
           NoMemory
<1>1. Operands(<<Reg, Iw, Ib>>, "wb", "opcode")
  BY DEF Ib, Iw, Reg
<1> QED BY ONLY <1>1

(* Operands of kind "xmm".                                               *)
LEMMA Operands_xmm ==
  /\ Operands(<<Vo, Wo>>, "none", "modrm")
  /\ Operands(<<Wo, Vo>>, "none", "modrm")
  /\ Operands(<<Mv, Vo>>, "none", "modrm")
  /\ Operands(<<Vo, Qq>>, "none", "modrm")
  /\ Operands(<<Pq, Wo>>, "none", "modrm")
  /\ Operands(<<Gv, VRo>>, "none", "modrm")
  /\ Operands(<<Vo, Mv>>, "none", "modrm")
  /\ Operands(<<Vo, Ev>>, "none", "modrm")
  /\ Operands(<<Ev, Vo>>, "none", "modrm")
  /\ Operands(<<Vo, VRo>>, "none", "modrm")
  /\ Operands(<<Gv, Wo>>, "none", "modrm")
  /\ Operands(<<Pq, VRo>>, "none", "modrm")
  /\ Operands(<<Vo, PRq>>, "none", "modrm")
<1> USE DEF Operands, Shape, Located, Branching, BigTypes, Mode, MemoryModes,
           RegisterModes, OwnBytes, Sum3, BytesOf, OperandLength, KindBytes, Sizes,
           NoMemory
<1>1. Operands(<<Vo, Wo>>, "none", "modrm")
  BY DEF Vo, Wo
<1>2. Operands(<<Wo, Vo>>, "none", "modrm")
  BY DEF Vo, Wo
<1>3. Operands(<<Mv, Vo>>, "none", "modrm")
  BY DEF Mv, Vo
<1>4. Operands(<<Vo, Qq>>, "none", "modrm")
  BY DEF Qq, Vo
<1>5. Operands(<<Pq, Wo>>, "none", "modrm")
  BY DEF Pq, Wo
<1>6. Operands(<<Gv, VRo>>, "none", "modrm")
  BY DEF Gv, VRo
<1>7. Operands(<<Vo, Mv>>, "none", "modrm")
  BY DEF Mv, Vo
<1>8. Operands(<<Vo, Ev>>, "none", "modrm")
  BY DEF Ev, Vo
<1>9. Operands(<<Ev, Vo>>, "none", "modrm")
  BY DEF Ev, Vo
<1>10. Operands(<<Vo, VRo>>, "none", "modrm")
  BY DEF VRo, Vo
<1>11. Operands(<<Gv, Wo>>, "none", "modrm")
  BY DEF Gv, Wo
<1>12. Operands(<<Pq, VRo>>, "none", "modrm")
  BY DEF Pq, VRo
<1>13. Operands(<<Vo, PRq>>, "none", "modrm")
  BY DEF PRq, Vo
<1> QED BY ONLY <1>1, <1>2, <1>3, <1>4, <1>5, <1>6, <1>7, <1>8, <1>9, <1>10,
    <1>11, <1>12, <1>13

(* Operands of kind "z".                                                 *)
LEMMA Operands_z ==
  /\ Operands(<<Reg, Iz>>, "z", "opcode")
  /\ Operands(<<Iz>>, "z", "opcode")
  /\ Operands(<<Gv, Ev, Iz>>, "z", "modrm")
  /\ Operands(<<Ev, Iz>>, "z", "modrm")
<1> USE DEF Operands, Shape, Located, Branching, BigTypes, Mode, MemoryModes,
           RegisterModes, OwnBytes, Sum3, BytesOf, OperandLength, KindBytes, Sizes,
           NoMemory
<1>1. Operands(<<Reg, Iz>>, "z", "opcode")
  BY DEF Iz, Reg
<1>2. Operands(<<Iz>>, "z", "opcode")
  BY DEF Iz
<1>3. Operands(<<Gv, Ev, Iz>>, "z", "modrm")
  BY DEF Ev, Gv, Iz
<1>4. Operands(<<Ev, Iz>>, "z", "modrm")
  BY DEF Ev, Iz
<1> QED BY ONLY <1>1, <1>2, <1>3, <1>4

(* The rows of ModRM_0F01 suit their opcodes.                            *)
LEMMA ModRM_0F01_Fit == ModRMFits(2, \h01, X86_0F01_Register ++ X86_0F01_Memory)
<1>1. GroupFits(2, \h01, X86_Group_7)
  <2>1. GroupFits(2, \h01, On({0, 1}, Wr("SYSTEM", <<Mv>>)))
    <3>1. GroupClass(2, \h01, {0, 1}, "none", "modrm")
      BY DEF GroupClass, Wanted, ImmediateBytes, KindBytes, Branches,
         TakesModRM, Fence, Saves, NoModRM_2, Byte_2, Full_2
    <3>2. Operands(<<Mv>>, "none", "modrm")
      BY Operands_modrm
    <3> QED BY <3>1, <3>2, GroupRowsFit DEF Wr, Row
  <2>2. GroupFits(2, \h01, On({2, 3, 7}, Row("SYSTEM", <<Mv>>)))
    <3>1. GroupClass(2, \h01, {2, 3, 7}, "none", "modrm")
      BY DEF GroupClass, Wanted, ImmediateBytes, KindBytes, Branches,
         TakesModRM, Fence, Saves, NoModRM_2, Byte_2, Full_2
    <3>2. Operands(<<Mv>>, "none", "modrm")
      BY Operands_modrm
    <3> QED BY <3>1, <3>2, GroupRowsFit DEF Row
  <2>3. GroupFits(2, \h01, On({4}, Wr("SYSTEM", <<Ev, Reg>>)))
    <3>1. GroupClass(2, \h01, {4}, "none", "modrm")
      BY DEF GroupClass, Wanted, ImmediateBytes, KindBytes, Branches,
         TakesModRM, Fence, Saves, NoModRM_2, Byte_2, Full_2
    <3>2. Operands(<<Ev, Reg>>, "none", "modrm")
      BY Operands_modrm
    <3> QED BY <3>1, <3>2, GroupRowsFit DEF Wr, Row
  <2>4. GroupFits(2, \h01, On({6}, Row("SYSTEM", <<Reg, Ev>>)))
    <3>1. GroupClass(2, \h01, {6}, "none", "modrm")
      BY DEF GroupClass, Wanted, ImmediateBytes, KindBytes, Branches,
         TakesModRM, Fence, Saves, NoModRM_2, Byte_2, Full_2
    <3>2. Operands(<<Reg, Ev>>, "none", "modrm")
      BY Operands_modrm
    <3> QED BY <3>1, <3>2, GroupRowsFit DEF Row
  <2> QED BY <2>1, <2>2, <2>3, <2>4, BothGroupsFit DEF X86_Group_7
<1>2. GroupClass(2, \h01, 0 .. 7, "none", "modrm")
  BY DEF GroupClass, Wanted, ImmediateBytes, KindBytes, Branches, TakesModRM,
     Fence, Saves, NoModRM_2, Byte_2, Full_2
<1>3. ModRMFits(2, \h01, On({\hC8, \hC9}, Row("SYSTEM", << >>)))
  <2>1. Operands(<< >>, "none", "opcode")
    BY Operands_opcode
  <2>2. {\hC8, \hC9} \subseteq \hC0 .. \hFF
    OBVIOUS
  <2>3. RegisterFits(2, \h01, On({\hC8, \hC9}, Row("SYSTEM", << >>)))
    BY <1>2, <2>1, <2>2, RegisterRowsFit DEF Row
  <2>4. Row("SYSTEM", << >>).kind = "row"
    BY DEF Row
  <2> QED BY <2>3, <2>4, RegisterModRMFits
<1>4. ModRMFits(2, \h01, On({\hF8}, Amd64(Row("SYSTEM", <<Reg>>))))
  <2>1. Operands(<<Reg>>, "none", "opcode")
    BY Operands_opcode
  <2>2. {\hF8} \subseteq \hC0 .. \hFF
    OBVIOUS
  <2>3. RegisterFits(2, \h01, On({\hF8}, Amd64(Row("SYSTEM", <<Reg>>))))
    BY <1>2, <2>1, <2>2, RegisterRowsFit DEF Amd64, Row
  <2>4. Amd64(Row("SYSTEM", <<Reg>>)).kind = "row"
    BY DEF Amd64, Row
  <2> QED BY <2>3, <2>4, RegisterModRMFits
<1>5. ModRMFits(2, \h01, On(\hC0 .. \hFF, Group(X86_Group_7)))
  BY <1>1 DEF ModRMFits, ModRMEntryFits, On, Group
<1>6. ModRMFits(2, \h01, X86_0F01_Memory)
  BY <1>1 DEF ModRMFits, ModRMEntryFits, On, Group, X86_0F01_Memory
<1>7. ModRMFits(2, \h01, X86_0F01_Register)
  BY <1>3, <1>4, <1>5, BothModRMsFit DEF X86_0F01_Register
<1> QED BY <1>6, <1>7, BothModRMsFit

(* The rows of Arithmetic suit their opcodes.                            *)
LEMMA Arithmetic_Fit == TableFits(1, Arithmetic)
<1>1. TableFits(1, On({8 * n + k : n \in 0 .. 6, k \in {0, 1}}, Store(<<Ev, Gv>>)))
  <2>1. Class(1, {8 * n + k : n \in 0 .. 6, k \in {0, 1}}, "none", "modrm")
    BY DEF Class, ModRMOf, Groups, Wanted, ImmediateBytes, KindBytes, Branches,
       TakesModRM, Fence, Saves, NoModRM_1, Byte_1, Full_1, X86_ModRM_1,
       LockPrefix_GR_1
  <2>2. Operands(<<Ev, Gv>>, "none", "modrm")
    BY Operands_modrm
  <2>3. \A b \in {8 * n + k : n \in 0 .. 6, k \in {0, 1}} :
         b \notin \hB8 .. \hBF
              /\ (b % 8 \in {2, 3} => Mode(<<Ev, Gv>>, 1) \notin MemoryModes)
    BY DEF Mode, MemoryModes, Gv
  <2> QED BY <2>1, <2>2, <2>3, RowsFit DEF Store, Wr, Row
<1>2. TableFits(1, On({8 * n + k : n \in 0 .. 6, k \in {2, 3}}, Store(<<Gv, Ev>>)))
  <2>1. Class(1, {8 * n + k : n \in 0 .. 6, k \in {2, 3}}, "none", "modrm")
    BY DEF Class, ModRMOf, Groups, Wanted, ImmediateBytes, KindBytes, Branches,
       TakesModRM, Fence, Saves, NoModRM_1, Byte_1, Full_1, X86_ModRM_1,
       LockPrefix_GR_1
  <2>2. Operands(<<Gv, Ev>>, "none", "modrm")
    BY Operands_modrm
  <2>3. \A b \in {8 * n + k : n \in 0 .. 6, k \in {2, 3}} :
         b \notin \hB8 .. \hBF
              /\ (b % 8 \in {2, 3} => Mode(<<Gv, Ev>>, 1) \notin MemoryModes)
    BY DEF Mode, MemoryModes, Gv
  <2> QED BY <2>1, <2>2, <2>3, RowsFit DEF Store, Wr, Row
<1>3. TableFits(1, On({8 * n + 4 : n \in 0 .. 6}, Store(<<Reg, Ib>>)))
  <2>1. Class(1, {8 * n + 4 : n \in 0 .. 6}, "b", "opcode")
    BY DEF Class, ModRMOf, Groups, Wanted, ImmediateBytes, KindBytes, Branches,
       TakesModRM, Fence, Saves, NoModRM_1, Byte_1, Full_1, X86_ModRM_1,
       LockPrefix_GR_1
  <2>2. Operands(<<Reg, Ib>>, "b", "opcode")
    BY Operands_b
  <2>3. \A b \in {8 * n + 4 : n \in 0 .. 6} :
         b \notin \hB8 .. \hBF
              /\ (b % 8 \in {2, 3} => Mode(<<Reg, Ib>>, 1) \notin MemoryModes)
    BY DEF Mode, MemoryModes, Gv
  <2> QED BY <2>1, <2>2, <2>3, RowsFit DEF Store, Wr, Row
<1>4. TableFits(1, On({8 * n + 5 : n \in 0 .. 6}, Store(<<Reg, Iz>>)))
  <2>1. Class(1, {8 * n + 5 : n \in 0 .. 6}, "z", "opcode")
    BY DEF Class, ModRMOf, Groups, Wanted, ImmediateBytes, KindBytes, Branches,
       TakesModRM, Fence, Saves, NoModRM_1, Byte_1, Full_1, X86_ModRM_1,
       LockPrefix_GR_1
  <2>2. Operands(<<Reg, Iz>>, "z", "opcode")
    BY Operands_z
  <2>3. \A b \in {8 * n + 5 : n \in 0 .. 6} :
         b \notin \hB8 .. \hBF
              /\ (b % 8 \in {2, 3} => Mode(<<Reg, Iz>>, 1) \notin MemoryModes)
    BY DEF Mode, MemoryModes, Gv
  <2> QED BY <2>1, <2>2, <2>3, RowsFit DEF Store, Wr, Row
<1>5. TableFits(1, On({\h38, \h39}, Data(<<Ev, Gv>>)))
  <2>1. Class(1, {\h38, \h39}, "none", "modrm")
    BY DEF Class, ModRMOf, Groups, Wanted, ImmediateBytes, KindBytes, Branches,
       TakesModRM, Fence, Saves, NoModRM_1, Byte_1, Full_1, X86_ModRM_1,
       LockPrefix_GR_1
  <2>2. Operands(<<Ev, Gv>>, "none", "modrm")
    BY Operands_modrm
  <2> QED BY <2>1, <2>2, RowsFit DEF Data, Row
<1>6. TableFits(1, On({\h3A, \h3B}, Data(<<Gv, Ev>>)))
  <2>1. Class(1, {\h3A, \h3B}, "none", "modrm")
    BY DEF Class, ModRMOf, Groups, Wanted, ImmediateBytes, KindBytes, Branches,
       TakesModRM, Fence, Saves, NoModRM_1, Byte_1, Full_1, X86_ModRM_1,
       LockPrefix_GR_1
  <2>2. Operands(<<Gv, Ev>>, "none", "modrm")
    BY Operands_modrm
  <2> QED BY <2>1, <2>2, RowsFit DEF Data, Row, Mode, MemoryModes, Gv
<1>7. TableFits(1, On({\h3C}, Data(<<Reg, Ib>>)))
  <2>1. Class(1, {\h3C}, "b", "opcode")
    BY DEF Class, ModRMOf, Groups, Wanted, ImmediateBytes, KindBytes, Branches,
       TakesModRM, Fence, Saves, NoModRM_1, Byte_1, Full_1, X86_ModRM_1,
       LockPrefix_GR_1
  <2>2. Operands(<<Reg, Ib>>, "b", "opcode")
    BY Operands_b
  <2> QED BY <2>1, <2>2, RowsFit DEF Data, Row
<1>8. TableFits(1, On({\h3D}, Data(<<Reg, Iz>>)))
  <2>1. Class(1, {\h3D}, "z", "opcode")
    BY DEF Class, ModRMOf, Groups, Wanted, ImmediateBytes, KindBytes, Branches,
       TakesModRM, Fence, Saves, NoModRM_1, Byte_1, Full_1, X86_ModRM_1,
       LockPrefix_GR_1
  <2>2. Operands(<<Reg, Iz>>, "z", "opcode")
    BY Operands_z
  <2> QED BY <2>1, <2>2, RowsFit DEF Data, Row
<1>9. TableFits(1, On({\h06, \h0E, \h16, \h1E}, Row("PUSH", <<Reg>>)))
  <2>1. Class(1, {\h06, \h0E, \h16, \h1E}, "none", "opcode")
    BY DEF Class, ModRMOf, Groups, Wanted, ImmediateBytes, KindBytes, Branches,
       TakesModRM, Fence, Saves, NoModRM_1, Byte_1, Full_1, X86_ModRM_1,
       LockPrefix_GR_1
  <2>2. Operands(<<Reg>>, "none", "opcode")
    BY Operands_opcode
  <2> QED BY <2>1, <2>2, RowsFit DEF Row
<1>10. TableFits(1, On({\h07, \h17, \h1F}, Row("POP", <<Reg>>)))
  <2>1. Class(1, {\h07, \h17, \h1F}, "none", "opcode")
    BY DEF Class, ModRMOf, Groups, Wanted, ImmediateBytes, KindBytes, Branches,
       TakesModRM, Fence, Saves, NoModRM_1, Byte_1, Full_1, X86_ModRM_1,
       LockPrefix_GR_1
  <2>2. Operands(<<Reg>>, "none", "opcode")
    BY Operands_opcode
  <2> QED BY <2>1, <2>2, RowsFit DEF Row
<1>11. TableFits(1, On({\h26, \h2E, \h36, \h3E}, PrefixRow))
  BY DEF TableFits, On, Fits, PrefixRow, Groups, LockPrefix_GR_1
<1>12. TableFits(1, On({\h27, \h2F, \h37, \h3F}, Data(<<Reg>>)))
  <2>1. Class(1, {\h27, \h2F, \h37, \h3F}, "none", "opcode")
    BY DEF Class, ModRMOf, Groups, Wanted, ImmediateBytes, KindBytes, Branches,
       TakesModRM, Fence, Saves, NoModRM_1, Byte_1, Full_1, X86_ModRM_1,
       LockPrefix_GR_1
  <2>2. Operands(<<Reg>>, "none", "opcode")
    BY Operands_opcode
  <2> QED BY <2>1, <2>2, RowsFit DEF Data, Row
<1> QED BY BothFit, <1>1, <1>2, <1>3, <1>4, <1>5, <1>6, <1>7, <1>8, <1>9,
    <1>10, <1>11, <1>12 DEF Arithmetic

(* The rows of Opcodes_1_40_5F suit their opcodes.                       *)
LEMMA Opcodes_1_40_5F_Fit == TableFits(1, Opcodes_1_40_5F)
<1>1. TableFits(1, On(\h40 .. \h4F, Data(<<Reg>>)))
  <2>1. Class(1, \h40 .. \h4F, "none", "opcode")
    BY DEF Class, ModRMOf, Groups, Wanted, ImmediateBytes, KindBytes, Branches,
       TakesModRM, Fence, Saves, NoModRM_1, Byte_1, Full_1, X86_ModRM_1,
       LockPrefix_GR_1
  <2>2. Operands(<<Reg>>, "none", "opcode")
    BY Operands_opcode
  <2> QED BY <2>1, <2>2, RowsFit DEF Data, Row
<1>2. TableFits(1, On(\h50 .. \h57, Row("PUSH", <<Reg>>)))
  <2>1. Class(1, \h50 .. \h57, "none", "opcode")
    BY DEF Class, ModRMOf, Groups, Wanted, ImmediateBytes, KindBytes, Branches,
       TakesModRM, Fence, Saves, NoModRM_1, Byte_1, Full_1, X86_ModRM_1,
       LockPrefix_GR_1
  <2>2. Operands(<<Reg>>, "none", "opcode")
    BY Operands_opcode
  <2> QED BY <2>1, <2>2, RowsFit DEF Row
<1>3. TableFits(1, On(\h58 .. \h5F, Row("POP", <<Reg>>)))
  <2>1. Class(1, \h58 .. \h5F, "none", "opcode")
    BY DEF Class, ModRMOf, Groups, Wanted, ImmediateBytes, KindBytes, Branches,
       TakesModRM, Fence, Saves, NoModRM_1, Byte_1, Full_1, X86_ModRM_1,
       LockPrefix_GR_1
  <2>2. Operands(<<Reg>>, "none", "opcode")
    BY Operands_opcode
  <2> QED BY <2>1, <2>2, RowsFit DEF Row
<1> QED BY BothFit, <1>1, <1>2, <1>3 DEF Opcodes_1_40_5F

(* The rows of Opcodes_1_60_7F suit their opcodes.                       *)
LEMMA Opcodes_1_60_7F_Fit == TableFits(1, Opcodes_1_60_7F)
<1>1. TableFits(1, On({\h60, \h61}, Data(<< >>)))
  <2>1. Class(1, {\h60, \h61}, "none", "opcode")
    BY DEF Class, ModRMOf, Groups, Wanted, ImmediateBytes, KindBytes, Branches,
       TakesModRM, Fence, Saves, NoModRM_1, Byte_1, Full_1, X86_ModRM_1,
       LockPrefix_GR_1
  <2>2. Operands(<< >>, "none", "opcode")
    BY Operands_opcode
  <2> QED BY <2>1, <2>2, RowsFit DEF Data, Row
<1>2. TableFits(1, On({\h62}, Data(<<Gv, Mv>>)))
  <2>1. Class(1, {\h62}, "none", "modrm")
    BY DEF Class, ModRMOf, Groups, Wanted, ImmediateBytes, KindBytes, Branches,
       TakesModRM, Fence, Saves, NoModRM_1, Byte_1, Full_1, X86_ModRM_1,
       LockPrefix_GR_1
  <2>2. Operands(<<Gv, Mv>>, "none", "modrm")
    BY Operands_modrm
  <2> QED BY <2>1, <2>2, RowsFit DEF Data, Row
<1>3. TableFits(1, On({\h63}, [kind |-> "ext64", table |-> X86_Opcode_63]))
  <2>1. RowFits(1, \h63, Row("SYSTEM", <<Ev, Gv>>))
    <3>1. \A x \in 0 .. 7 : Wanted(1, \h63, x, "none", "modrm")
      BY DEF Wanted, ImmediateBytes, KindBytes, Branches, TakesModRM, Fence,
         Saves, NoModRM_1, Byte_1, Full_1
    <3>2. Operands(<<Ev, Gv>>, "none", "modrm")
      BY Operands_modrm
    <3> QED BY <3>1, <3>2, RowFit DEF Row
  <2>2. RowFits(1, \h63, Amd64(Store(<<Gv, Ev>>)))
    <3>1. \A x \in 0 .. 7 : Wanted(1, \h63, x, "none", "modrm")
      BY DEF Wanted, ImmediateBytes, KindBytes, Branches, TakesModRM, Fence,
         Saves, NoModRM_1, Byte_1, Full_1
    <3>2. Operands(<<Gv, Ev>>, "none", "modrm")
      BY Operands_modrm
    <3>3. LET r == Amd64(Store(<<Gv, Ev>>))
          IN  r.kind = "row" /\ r.ops = <<Gv, Ev>> /\ r.type = "DATA"
      BY DEF Amd64, Store, Wr, Row
    <3> QED BY <3>1, <3>2, <3>3, RowFit
  <2>3. /\ \h63 \in ModRMOf(1) <=> TakesModRM(1, \h63)
        /\ \h63 \notin Groups(1)
    BY DEF ModRMOf, TakesModRM, Groups, X86_ModRM_1, NoModRM_1, LockPrefix_GR_1
  <2> QED BY <2>1, <2>2, <2>3 DEF TableFits, On, Fits, X86_Opcode_63
<1>4. TableFits(1, On(\h64 .. \h67, PrefixRow))
  BY DEF TableFits, On, Fits, PrefixRow, Groups, LockPrefix_GR_1
<1>5. TableFits(1, On({\h68}, Row("PUSH", <<Iz>>)))
  <2>1. Class(1, {\h68}, "z", "opcode")
    BY DEF Class, ModRMOf, Groups, Wanted, ImmediateBytes, KindBytes, Branches,
       TakesModRM, Fence, Saves, NoModRM_1, Byte_1, Full_1, X86_ModRM_1,
       LockPrefix_GR_1
  <2>2. Operands(<<Iz>>, "z", "opcode")
    BY Operands_z
  <2> QED BY <2>1, <2>2, RowsFit DEF Row
<1>6. TableFits(1, On({\h6A}, Row("PUSH", <<Ib>>)))
  <2>1. Class(1, {\h6A}, "b", "opcode")
    BY DEF Class, ModRMOf, Groups, Wanted, ImmediateBytes, KindBytes, Branches,
       TakesModRM, Fence, Saves, NoModRM_1, Byte_1, Full_1, X86_ModRM_1,
       LockPrefix_GR_1
  <2>2. Operands(<<Ib>>, "b", "opcode")
    BY Operands_b
  <2> QED BY <2>1, <2>2, RowsFit DEF Row
<1>7. TableFits(1, On({\h69}, Store(<<Gv, Ev, Iz>>)))
  <2>1. Class(1, {\h69}, "z", "modrm")
    BY DEF Class, ModRMOf, Groups, Wanted, ImmediateBytes, KindBytes, Branches,
       TakesModRM, Fence, Saves, NoModRM_1, Byte_1, Full_1, X86_ModRM_1,
       LockPrefix_GR_1
  <2>2. Operands(<<Gv, Ev, Iz>>, "z", "modrm")
    BY Operands_z
  <2> QED BY <2>1, <2>2, RowsFit DEF Store, Wr, Row
<1>8. TableFits(1, On({\h6B}, Store(<<Gv, Ev, Ib>>)))
  <2>1. Class(1, {\h6B}, "b", "modrm")
    BY DEF Class, ModRMOf, Groups, Wanted, ImmediateBytes, KindBytes, Branches,
       TakesModRM, Fence, Saves, NoModRM_1, Byte_1, Full_1, X86_ModRM_1,
       LockPrefix_GR_1
  <2>2. Operands(<<Gv, Ev, Ib>>, "b", "modrm")
    BY Operands_b
  <2> QED BY <2>1, <2>2, RowsFit DEF Store, Wr, Row
<1>9. TableFits(1, On({\h6C, \h6D}, Wr("STRING", <<Yv, Reg>>)))
  <2>1. Class(1, {\h6C, \h6D}, "none", "opcode")
    BY DEF Class, ModRMOf, Groups, Wanted, ImmediateBytes, KindBytes, Branches,
       TakesModRM, Fence, Saves, NoModRM_1, Byte_1, Full_1, X86_ModRM_1,
       LockPrefix_GR_1
  <2>2. Operands(<<Yv, Reg>>, "none", "opcode")
    BY Operands_opcode
  <2> QED BY <2>1, <2>2, RowsFit DEF Wr, Row
<1>10. TableFits(1, On({\h6E, \h6F}, Wr("STRING", <<Reg, Xv>>)))
  <2>1. Class(1, {\h6E, \h6F}, "none", "opcode")
    BY DEF Class, ModRMOf, Groups, Wanted, ImmediateBytes, KindBytes, Branches,
       TakesModRM, Fence, Saves, NoModRM_1, Byte_1, Full_1, X86_ModRM_1,
       LockPrefix_GR_1
  <2>2. Operands(<<Reg, Xv>>, "none", "opcode")
    BY Operands_opcode
  <2> QED BY <2>1, <2>2, RowsFit DEF Wr, Row
<1>11. TableFits(1, On(\h70 .. \h7F, Row("BRANCHCC", <<Jb>>)))
  <2>1. Class(1, \h70 .. \h7F, "jb", "opcode")
    BY DEF Class, ModRMOf, Groups, Wanted, ImmediateBytes, KindBytes, Branches,
       TakesModRM, Fence, Saves, NoModRM_1, Byte_1, Full_1, X86_ModRM_1,
       LockPrefix_GR_1
  <2>2. Operands(<<Jb>>, "jb", "opcode")
    BY Operands_jb
  <2> QED BY <2>1, <2>2, RowsFit DEF Row
<1> QED BY BothFit, <1>1, <1>2, <1>3, <1>4, <1>5, <1>6, <1>7, <1>8, <1>9,
    <1>10, <1>11 DEF Opcodes_1_60_7F

(* The rows of Opcodes_1_80_9F suit their opcodes.                       *)
LEMMA Opcodes_1_80_9F_Fit == TableFits(1, Opcodes_1_80_9F)
<1>1. TableFits(1, On({\h80, \h82, \h83}, Group(Group_1(Ib))))
  <2>1. ASSUME NEW b \in {\h80, \h82, \h83} PROVE GroupFits(1, b, Group_1(Ib))
    <3>1. GroupFits(1, b, On(0 .. 6, Store(<<Ev, Ib>>)))
      <4>1. GroupClass(1, b, 0 .. 6, "b", "modrm")
        BY DEF GroupClass, Wanted, ImmediateBytes, KindBytes, Branches,
           TakesModRM, Fence, Saves, NoModRM_1, Byte_1, Full_1
      <4>2. Operands(<<Ev, Ib>>, "b", "modrm")
        BY Operands_b
      <4> QED BY <4>1, <4>2, GroupRowsFit DEF Store, Wr, Row
    <3>2. GroupFits(1, b, On({7}, Data(<<Ev, Ib>>)))
      <4>1. GroupClass(1, b, {7}, "b", "modrm")
        BY DEF GroupClass, Wanted, ImmediateBytes, KindBytes, Branches,
           TakesModRM, Fence, Saves, NoModRM_1, Byte_1, Full_1
      <4>2. Operands(<<Ev, Ib>>, "b", "modrm")
        BY Operands_b
      <4> QED BY <4>1, <4>2, GroupRowsFit DEF Data, Row
    <3> QED BY <3>1, <3>2, BothGroupsFit DEF Group_1
  <2>2. \A b \in {\h80, \h82, \h83} : b \in ModRMOf(1) <=> TakesModRM(1, b)
    BY DEF ModRMOf, TakesModRM, X86_ModRM_1, NoModRM_1
  <2>3. \A b \in {\h80, \h82, \h83} : b \in Groups(1) => TakesModRM(1, b)
    BY DEF Groups, TakesModRM, LockPrefix_GR_1, NoModRM_1
  <2> QED BY <2>1, <2>2, <2>3, GroupsFit
<1>2. TableFits(1, On({\h81}, Group(Group_1(Iz))))
  <2>1. ASSUME NEW b \in {\h81} PROVE GroupFits(1, b, Group_1(Iz))
    <3>1. GroupFits(1, b, On(0 .. 6, Store(<<Ev, Iz>>)))
      <4>1. GroupClass(1, b, 0 .. 6, "z", "modrm")
        BY DEF GroupClass, Wanted, ImmediateBytes, KindBytes, Branches,
           TakesModRM, Fence, Saves, NoModRM_1, Byte_1, Full_1
      <4>2. Operands(<<Ev, Iz>>, "z", "modrm")
        BY Operands_z
      <4> QED BY <4>1, <4>2, GroupRowsFit DEF Store, Wr, Row
    <3>2. GroupFits(1, b, On({7}, Data(<<Ev, Iz>>)))
      <4>1. GroupClass(1, b, {7}, "z", "modrm")
        BY DEF GroupClass, Wanted, ImmediateBytes, KindBytes, Branches,
           TakesModRM, Fence, Saves, NoModRM_1, Byte_1, Full_1
      <4>2. Operands(<<Ev, Iz>>, "z", "modrm")
        BY Operands_z
      <4> QED BY <4>1, <4>2, GroupRowsFit DEF Data, Row
    <3> QED BY <3>1, <3>2, BothGroupsFit DEF Group_1
  <2>2. \A b \in {\h81} : b \in ModRMOf(1) <=> TakesModRM(1, b)
    BY DEF ModRMOf, TakesModRM, X86_ModRM_1, NoModRM_1
  <2>3. \A b \in {\h81} : b \in Groups(1) => TakesModRM(1, b)
    BY DEF Groups, TakesModRM, LockPrefix_GR_1, NoModRM_1
  <2> QED BY <2>1, <2>2, <2>3, GroupsFit
<1>3. TableFits(1, On({\h84, \h85}, Data(<<Ev, Gv>>)))
  <2>1. Class(1, {\h84, \h85}, "none", "modrm")
    BY DEF Class, ModRMOf, Groups, Wanted, ImmediateBytes, KindBytes, Branches,
       TakesModRM, Fence, Saves, NoModRM_1, Byte_1, Full_1, X86_ModRM_1,
       LockPrefix_GR_1
  <2>2. Operands(<<Ev, Gv>>, "none", "modrm")
    BY Operands_modrm
  <2> QED BY <2>1, <2>2, RowsFit DEF Data, Row
<1>4. TableFits(1, On(\h86 .. \h89, Store(<<Ev, Gv>>)))
  <2>1. Class(1, \h86 .. \h89, "none", "modrm")
    BY DEF Class, ModRMOf, Groups, Wanted, ImmediateBytes, KindBytes, Branches,
       TakesModRM, Fence, Saves, NoModRM_1, Byte_1, Full_1, X86_ModRM_1,
       LockPrefix_GR_1
  <2>2. Operands(<<Ev, Gv>>, "none", "modrm")
    BY Operands_modrm
  <2> QED BY <2>1, <2>2, RowsFit DEF Store, Wr, Row
<1>5. TableFits(1, On({\h8A, \h8B}, Store(<<Gv, Ev>>)))
  <2>1. Class(1, {\h8A, \h8B}, "none", "modrm")
    BY DEF Class, ModRMOf, Groups, Wanted, ImmediateBytes, KindBytes, Branches,
       TakesModRM, Fence, Saves, NoModRM_1, Byte_1, Full_1, X86_ModRM_1,
       LockPrefix_GR_1
  <2>2. Operands(<<Gv, Ev>>, "none", "modrm")
    BY Operands_modrm
  <2> QED BY <2>1, <2>2, RowsFit DEF Store, Wr, Row
<1>6. TableFits(1, On({\h8C}, Store(<<Ev, Gv>>)))
  <2>1. Class(1, {\h8C}, "none", "modrm")
    BY DEF Class, ModRMOf, Groups, Wanted, ImmediateBytes, KindBytes, Branches,
       TakesModRM, Fence, Saves, NoModRM_1, Byte_1, Full_1, X86_ModRM_1,
       LockPrefix_GR_1
  <2>2. Operands(<<Ev, Gv>>, "none", "modrm")
    BY Operands_modrm
  <2> QED BY <2>1, <2>2, RowsFit DEF Store, Wr, Row
<1>7. TableFits(1, On({\h8D}, Store(<<Gv, Mv>>)))
  <2>1. Class(1, {\h8D}, "none", "modrm")
    BY DEF Class, ModRMOf, Groups, Wanted, ImmediateBytes, KindBytes, Branches,
       TakesModRM, Fence, Saves, NoModRM_1, Byte_1, Full_1, X86_ModRM_1,
       LockPrefix_GR_1
  <2>2. Operands(<<Gv, Mv>>, "none", "modrm")
    BY Operands_modrm
  <2> QED BY <2>1, <2>2, RowsFit DEF Store, Wr, Row
<1>8. TableFits(1, On({\h8E}, Store(<<Gv, Ev>>)))
  <2>1. Class(1, {\h8E}, "none", "modrm")
    BY DEF Class, ModRMOf, Groups, Wanted, ImmediateBytes, KindBytes, Branches,
       TakesModRM, Fence, Saves, NoModRM_1, Byte_1, Full_1, X86_ModRM_1,
       LockPrefix_GR_1
  <2>2. Operands(<<Gv, Ev>>, "none", "modrm")
    BY Operands_modrm
  <2> QED BY <2>1, <2>2, RowsFit DEF Store, Wr, Row
<1>9. TableFits(1, On({\h8F}, Group(Group_10)))
  <2>1. ASSUME NEW b \in {\h8F} PROVE GroupFits(1, b, Group_10)
    <3>1. GroupClass(1, b, {0}, "none", "modrm")
      BY DEF GroupClass, Wanted, ImmediateBytes, KindBytes, Branches,
         TakesModRM, Fence, Saves, NoModRM_1, Byte_1, Full_1
    <3>2. Operands(<<Ev>>, "none", "modrm")
      BY Operands_modrm
    <3> QED BY <3>1, <3>2, GroupRowsFit DEF Wr, Row, Group_10
  <2>2. \A b \in {\h8F} : b \in ModRMOf(1) <=> TakesModRM(1, b)
    BY DEF ModRMOf, TakesModRM, X86_ModRM_1, NoModRM_1
  <2>3. \A b \in {\h8F} : b \in Groups(1) => TakesModRM(1, b)
    BY DEF Groups, TakesModRM, LockPrefix_GR_1, NoModRM_1
  <2> QED BY <2>1, <2>2, <2>3, GroupsFit
<1>10. TableFits(1, On({\h90}, Data(<< >>)))
  <2>1. Class(1, {\h90}, "none", "opcode")
    BY DEF Class, ModRMOf, Groups, Wanted, ImmediateBytes, KindBytes, Branches,
       TakesModRM, Fence, Saves, NoModRM_1, Byte_1, Full_1, X86_ModRM_1,
       LockPrefix_GR_1
  <2>2. Operands(<< >>, "none", "opcode")
    BY Operands_opcode
  <2> QED BY <2>1, <2>2, RowsFit DEF Data, Row
<1>11. TableFits(1, On(\h91 .. \h99, Store(<<Reg, Reg>>)))
  <2>1. Class(1, \h91 .. \h99, "none", "opcode")
    BY DEF Class, ModRMOf, Groups, Wanted, ImmediateBytes, KindBytes, Branches,
       TakesModRM, Fence, Saves, NoModRM_1, Byte_1, Full_1, X86_ModRM_1,
       LockPrefix_GR_1
  <2>2. Operands(<<Reg, Reg>>, "none", "opcode")
    BY Operands_opcode
  <2> QED BY <2>1, <2>2, RowsFit DEF Store, Wr, Row
<1>12. TableFits(1, On({\h9A}, Row("CALL", <<Ap>>)))
  <2>1. Class(1, {\h9A}, "p", "opcode")
    BY DEF Class, ModRMOf, Groups, Wanted, ImmediateBytes, KindBytes, Branches,
       TakesModRM, Fence, Saves, NoModRM_1, Byte_1, Full_1, X86_ModRM_1,
       LockPrefix_GR_1
  <2>2. Operands(<<Ap>>, "p", "opcode")
    BY Operands_p
  <2> QED BY <2>1, <2>2, RowsFit DEF Row
<1>13. TableFits(1, On({\h9B}, Row("SYSTEM", << >>)))
  <2>1. Class(1, {\h9B}, "none", "opcode")
    BY DEF Class, ModRMOf, Groups, Wanted, ImmediateBytes, KindBytes, Branches,
       TakesModRM, Fence, Saves, NoModRM_1, Byte_1, Full_1, X86_ModRM_1,
       LockPrefix_GR_1
  <2>2. Operands(<< >>, "none", "opcode")
    BY Operands_opcode
  <2> QED BY <2>1, <2>2, RowsFit DEF Row
<1>14. TableFits(1, On({\h9C}, Row("PUSHF", <<Reg>>)))
  <2>1. Class(1, {\h9C}, "none", "opcode")
    BY DEF Class, ModRMOf, Groups, Wanted, ImmediateBytes, KindBytes, Branches,
       TakesModRM, Fence, Saves, NoModRM_1, Byte_1, Full_1, X86_ModRM_1,
       LockPrefix_GR_1
  <2>2. Operands(<<Reg>>, "none", "opcode")
    BY Operands_opcode
  <2> QED BY <2>1, <2>2, RowsFit DEF Row
<1>15. TableFits(1, On({\h9D}, Row("POPF", <<Reg>>)))
  <2>1. Class(1, {\h9D}, "none", "opcode")
    BY DEF Class, ModRMOf, Groups, Wanted, ImmediateBytes, KindBytes, Branches,
       TakesModRM, Fence, Saves, NoModRM_1, Byte_1, Full_1, X86_ModRM_1,
       LockPrefix_GR_1
  <2>2. Operands(<<Reg>>, "none", "opcode")
    BY Operands_opcode
  <2> QED BY <2>1, <2>2, RowsFit DEF Row
<1>16. TableFits(1, On({\h9E, \h9F}, Store(<<Reg, Reg>>)))
  <2>1. Class(1, {\h9E, \h9F}, "none", "opcode")
    BY DEF Class, ModRMOf, Groups, Wanted, ImmediateBytes, KindBytes, Branches,
       TakesModRM, Fence, Saves, NoModRM_1, Byte_1, Full_1, X86_ModRM_1,
       LockPrefix_GR_1
  <2>2. Operands(<<Reg, Reg>>, "none", "opcode")
    BY Operands_opcode
  <2> QED BY <2>1, <2>2, RowsFit DEF Store, Wr, Row
<1> QED BY BothFit, <1>1, <1>2, <1>3, <1>4, <1>5, <1>6, <1>7, <1>8, <1>9,
    <1>10, <1>11, <1>12, <1>13, <1>14, <1>15, <1>16 DEF Opcodes_1_80_9F

(* The rows of Opcodes_1_A0_BF suit their opcodes.                       *)
LEMMA Opcodes_1_A0_BF_Fit == TableFits(1, Opcodes_1_A0_BF)
<1>1. TableFits(1, On({\hA0, \hA1}, Store(<<Reg, Ov>>)))
  <2>1. Class(1, {\hA0, \hA1}, "a", "opcode")
    BY DEF Class, ModRMOf, Groups, Wanted, ImmediateBytes, KindBytes, Branches,
       TakesModRM, Fence, Saves, NoModRM_1, Byte_1, Full_1, X86_ModRM_1,
       LockPrefix_GR_1
  <2>2. Operands(<<Reg, Ov>>, "a", "opcode")
    BY Operands_a
  <2> QED BY <2>1, <2>2, RowsFit DEF Store, Wr, Row
<1>2. TableFits(1, On({\hA2, \hA3}, Store(<<Ov, Reg>>)))
  <2>1. Class(1, {\hA2, \hA3}, "a", "opcode")
    BY DEF Class, ModRMOf, Groups, Wanted, ImmediateBytes, KindBytes, Branches,
       TakesModRM, Fence, Saves, NoModRM_1, Byte_1, Full_1, X86_ModRM_1,
       LockPrefix_GR_1
  <2>2. Operands(<<Ov, Reg>>, "a", "opcode")
    BY Operands_a
  <2> QED BY <2>1, <2>2, RowsFit DEF Store, Wr, Row
<1>3. TableFits(1, On({\hA4, \hA5}, Wr("STRING", <<Yv, Xv>>)))
  <2>1. Class(1, {\hA4, \hA5}, "none", "opcode")
    BY DEF Class, ModRMOf, Groups, Wanted, ImmediateBytes, KindBytes, Branches,
       TakesModRM, Fence, Saves, NoModRM_1, Byte_1, Full_1, X86_ModRM_1,
       LockPrefix_GR_1
  <2>2. Operands(<<Yv, Xv>>, "none", "opcode")
    BY Operands_opcode
  <2> QED BY <2>1, <2>2, RowsFit DEF Wr, Row
<1>4. TableFits(1, On({\hA6, \hA7}, Row("STRCMP", <<Xv, Yv>>)))
  <2>1. Class(1, {\hA6, \hA7}, "none", "opcode")
    BY DEF Class, ModRMOf, Groups, Wanted, ImmediateBytes, KindBytes, Branches,
       TakesModRM, Fence, Saves, NoModRM_1, Byte_1, Full_1, X86_ModRM_1,
       LockPrefix_GR_1
  <2>2. Operands(<<Xv, Yv>>, "none", "opcode")
    BY Operands_opcode
  <2> QED BY <2>1, <2>2, RowsFit DEF Row
<1>5. TableFits(1, On({\hA8}, Data(<<Reg, Ib>>)))
  <2>1. Class(1, {\hA8}, "b", "opcode")
    BY DEF Class, ModRMOf, Groups, Wanted, ImmediateBytes, KindBytes, Branches,
       TakesModRM, Fence, Saves, NoModRM_1, Byte_1, Full_1, X86_ModRM_1,
       LockPrefix_GR_1
  <2>2. Operands(<<Reg, Ib>>, "b", "opcode")
    BY Operands_b
  <2> QED BY <2>1, <2>2, RowsFit DEF Data, Row
<1>6. TableFits(1, On({\hA9}, Data(<<Reg, Iz>>)))
  <2>1. Class(1, {\hA9}, "z", "opcode")
    BY DEF Class, ModRMOf, Groups, Wanted, ImmediateBytes, KindBytes, Branches,
       TakesModRM, Fence, Saves, NoModRM_1, Byte_1, Full_1, X86_ModRM_1,
       LockPrefix_GR_1
  <2>2. Operands(<<Reg, Iz>>, "z", "opcode")
    BY Operands_z
  <2> QED BY <2>1, <2>2, RowsFit DEF Data, Row
<1>7. TableFits(1, On({\hAA, \hAB}, Wr("STRING", <<Yv, Reg>>)))
  <2>1. Class(1, {\hAA, \hAB}, "none", "opcode")
    BY DEF Class, ModRMOf, Groups, Wanted, ImmediateBytes, KindBytes, Branches,
       TakesModRM, Fence, Saves, NoModRM_1, Byte_1, Full_1, X86_ModRM_1,
       LockPrefix_GR_1
  <2>2. Operands(<<Yv, Reg>>, "none", "opcode")
    BY Operands_opcode
  <2> QED BY <2>1, <2>2, RowsFit DEF Wr, Row
<1>8. TableFits(1, On({\hAC, \hAD}, Wr("STRING", <<Reg, Xv>>)))
  <2>1. Class(1, {\hAC, \hAD}, "none", "opcode")
    BY DEF Class, ModRMOf, Groups, Wanted, ImmediateBytes, KindBytes, Branches,
       TakesModRM, Fence, Saves, NoModRM_1, Byte_1, Full_1, X86_ModRM_1,
       LockPrefix_GR_1
  <2>2. Operands(<<Reg, Xv>>, "none", "opcode")
    BY Operands_opcode
  <2> QED BY <2>1, <2>2, RowsFit DEF Wr, Row
<1>9. TableFits(1, On({\hAE, \hAF}, Row("STRCMP", <<Reg, Yv>>)))
  <2>1. Class(1, {\hAE, \hAF}, "none", "opcode")
    BY DEF Class, ModRMOf, Groups, Wanted, ImmediateBytes, KindBytes, Branches,
       TakesModRM, Fence, Saves, NoModRM_1, Byte_1, Full_1, X86_ModRM_1,
       LockPrefix_GR_1
  <2>2. Operands(<<Reg, Yv>>, "none", "opcode")
    BY Operands_opcode
  <2> QED BY <2>1, <2>2, RowsFit DEF Row
<1>10. TableFits(1, On(\hB0 .. \hB7, Store(<<Reg, Ib>>)))
  <2>1. Class(1, \hB0 .. \hB7, "b", "opcode")
    BY DEF Class, ModRMOf, Groups, Wanted, ImmediateBytes, KindBytes, Branches,
       TakesModRM, Fence, Saves, NoModRM_1, Byte_1, Full_1, X86_ModRM_1,
       LockPrefix_GR_1
  <2>2. Operands(<<Reg, Ib>>, "b", "opcode")
    BY Operands_b
  <2> QED BY <2>1, <2>2, RowsFit DEF Store, Wr, Row
<1>11. TableFits(1, On(\hB8 .. \hBF, Store(<<Reg, Iv>>)))
  <2>1. Class(1, \hB8 .. \hBF, "v", "opcode")
    BY DEF Class, ModRMOf, Groups, Wanted, ImmediateBytes, KindBytes, Branches,
       TakesModRM, Fence, Saves, NoModRM_1, Byte_1, Full_1, X86_ModRM_1,
       LockPrefix_GR_1
  <2>2. Operands(<<Reg, Iv>>, "v", "opcode")
    BY Operands_v
  <2> QED BY <2>1, <2>2, RowsFit DEF Store, Wr, Row, Default64
<1> QED BY BothFit, <1>1, <1>2, <1>3, <1>4, <1>5, <1>6, <1>7, <1>8, <1>9,
    <1>10, <1>11 DEF Opcodes_1_A0_BF

(* The rows of Opcodes_1_C0_D7 suit their opcodes.                       *)
LEMMA Opcodes_1_C0_D7_Fit == TableFits(1, Opcodes_1_C0_D7)
<1>1. TableFits(1, On({\hC0, \hC1}, Group(Group_2(Ib))))
  <2>1. ASSUME NEW b \in {\hC0, \hC1} PROVE GroupFits(1, b, Group_2(Ib))
    <3>1. GroupClass(1, b, 0 .. 7, "b", "modrm")
      BY DEF GroupClass, Wanted, ImmediateBytes, KindBytes, Branches,
         TakesModRM, Fence, Saves, NoModRM_1, Byte_1, Full_1
    <3>2. Operands(<<Ev, Ib>>, "b", "modrm")
      BY Operands_b
    <3> QED BY <3>1, <3>2, GroupRowsFit DEF Store, Wr, Row, Group_2
  <2>2. \A b \in {\hC0, \hC1} : b \in ModRMOf(1) <=> TakesModRM(1, b)
    BY DEF ModRMOf, TakesModRM, X86_ModRM_1, NoModRM_1
  <2>3. \A b \in {\hC0, \hC1} : b \in Groups(1) => TakesModRM(1, b)
    BY DEF Groups, TakesModRM, LockPrefix_GR_1, NoModRM_1
  <2> QED BY <2>1, <2>2, <2>3, GroupsFit
<1>2. TableFits(1, On(\hD0 .. \hD3, Group(Group_2(Reg))))
  <2>1. ASSUME NEW b \in \hD0 .. \hD3 PROVE GroupFits(1, b, Group_2(Reg))
    <3>1. GroupClass(1, b, 0 .. 7, "none", "modrm")
      BY DEF GroupClass, Wanted, ImmediateBytes, KindBytes, Branches,
         TakesModRM, Fence, Saves, NoModRM_1, Byte_1, Full_1
    <3>2. Operands(<<Ev, Reg>>, "none", "modrm")
      BY Operands_modrm
    <3> QED BY <3>1, <3>2, GroupRowsFit DEF Store, Wr, Row, Group_2
  <2>2. \A b \in \hD0 .. \hD3 : b \in ModRMOf(1) <=> TakesModRM(1, b)
    BY DEF ModRMOf, TakesModRM, X86_ModRM_1, NoModRM_1
  <2>3. \A b \in \hD0 .. \hD3 : b \in Groups(1) => TakesModRM(1, b)
    BY DEF Groups, TakesModRM, LockPrefix_GR_1, NoModRM_1
  <2> QED BY <2>1, <2>2, <2>3, GroupsFit
<1>3. TableFits(1, On({\hC2, \hCA}, Row("RET", <<Iw>>)))
  <2>1. Class(1, {\hC2, \hCA}, "w", "opcode")
    BY DEF Class, ModRMOf, Groups, Wanted, ImmediateBytes, KindBytes, Branches,
       TakesModRM, Fence, Saves, NoModRM_1, Byte_1, Full_1, X86_ModRM_1,
       LockPrefix_GR_1
  <2>2. Operands(<<Iw>>, "w", "opcode")
    BY Operands_w
  <2> QED BY <2>1, <2>2, RowsFit DEF Row
<1>4. TableFits(1, On({\hC3, \hCB}, Row("RET", << >>)))
  <2>1. Class(1, {\hC3, \hCB}, "none", "opcode")
    BY DEF Class, ModRMOf, Groups, Wanted, ImmediateBytes, KindBytes, Branches,
       TakesModRM, Fence, Saves, NoModRM_1, Byte_1, Full_1, X86_ModRM_1,
       LockPrefix_GR_1
  <2>2. Operands(<< >>, "none", "opcode")
    BY Operands_opcode
  <2> QED BY <2>1, <2>2, RowsFit DEF Row
<1>5. TableFits(1, On({\hC4, \hC5}, Store(<<Gv, Mv>>)))
  <2>1. Class(1, {\hC4, \hC5}, "none", "modrm")
    BY DEF Class, ModRMOf, Groups, Wanted, ImmediateBytes, KindBytes, Branches,
       TakesModRM, Fence, Saves, NoModRM_1, Byte_1, Full_1, X86_ModRM_1,
       LockPrefix_GR_1
  <2>2. Operands(<<Gv, Mv>>, "none", "modrm")
    BY Operands_modrm
  <2> QED BY <2>1, <2>2, RowsFit DEF Store, Wr, Row
<1>6. TableFits(1, On({\hC6}, Group(Group_12(Ib))))
  <2>1. ASSUME NEW b \in {\hC6} PROVE GroupFits(1, b, Group_12(Ib))
    <3>1. GroupClass(1, b, {0}, "b", "modrm")
      BY DEF GroupClass, Wanted, ImmediateBytes, KindBytes, Branches,
         TakesModRM, Fence, Saves, NoModRM_1, Byte_1, Full_1
    <3>2. Operands(<<Ev, Ib>>, "b", "modrm")
      BY Operands_b
    <3> QED BY <3>1, <3>2, GroupRowsFit DEF Store, Wr, Row, Group_12
  <2>2. \A b \in {\hC6} : b \in ModRMOf(1) <=> TakesModRM(1, b)
    BY DEF ModRMOf, TakesModRM, X86_ModRM_1, NoModRM_1
  <2>3. \A b \in {\hC6} : b \in Groups(1) => TakesModRM(1, b)
    BY DEF Groups, TakesModRM, LockPrefix_GR_1, NoModRM_1
  <2> QED BY <2>1, <2>2, <2>3, GroupsFit
<1>7. TableFits(1, On({\hC7}, Group(Group_12(Iz))))
  <2>1. ASSUME NEW b \in {\hC7} PROVE GroupFits(1, b, Group_12(Iz))
    <3>1. GroupClass(1, b, {0}, "z", "modrm")
      BY DEF GroupClass, Wanted, ImmediateBytes, KindBytes, Branches,
         TakesModRM, Fence, Saves, NoModRM_1, Byte_1, Full_1
    <3>2. Operands(<<Ev, Iz>>, "z", "modrm")
      BY Operands_z
    <3> QED BY <3>1, <3>2, GroupRowsFit DEF Store, Wr, Row, Group_12
  <2>2. \A b \in {\hC7} : b \in ModRMOf(1) <=> TakesModRM(1, b)
    BY DEF ModRMOf, TakesModRM, X86_ModRM_1, NoModRM_1
  <2>3. \A b \in {\hC7} : b \in Groups(1) => TakesModRM(1, b)
    BY DEF Groups, TakesModRM, LockPrefix_GR_1, NoModRM_1
  <2> QED BY <2>1, <2>2, <2>3, GroupsFit
<1>8. TableFits(1, On({\hC8}, Row("ENTER", <<Reg, Iw, Ib>>)))
  <2>1. Class(1, {\hC8}, "wb", "opcode")
    BY DEF Class, ModRMOf, Groups, Wanted, ImmediateBytes, KindBytes, Branches,
       TakesModRM, Fence, Saves, NoModRM_1, Byte_1, Full_1, X86_ModRM_1,
       LockPrefix_GR_1
  <2>2. Operands(<<Reg, Iw, Ib>>, "wb", "opcode")
    BY Operands_wb
  <2> QED BY <2>1, <2>2, RowsFit DEF Row
<1>9. TableFits(1, On({\hC9}, Row("LEAVE", <<Reg>>)))
  <2>1. Class(1, {\hC9}, "none", "opcode")
    BY DEF Class, ModRMOf, Groups, Wanted, ImmediateBytes, KindBytes, Branches,
       TakesModRM, Fence, Saves, NoModRM_1, Byte_1, Full_1, X86_ModRM_1,
       LockPrefix_GR_1
  <2>2. Operands(<<Reg>>, "none", "opcode")
    BY Operands_opcode
  <2> QED BY <2>1, <2>2, RowsFit DEF Row
<1>10. TableFits(1, On({\hCC, \hCE, \hCF, \hF1}, Row("TRAP", << >>)))
  <2>1. Class(1, {\hCC, \hCE, \hCF, \hF1}, "none", "opcode")
    BY DEF Class, ModRMOf, Groups, Wanted, ImmediateBytes, KindBytes, Branches,
       TakesModRM, Fence, Saves, NoModRM_1, Byte_1, Full_1, X86_ModRM_1,
       LockPrefix_GR_1
  <2>2. Operands(<< >>, "none", "opcode")
    BY Operands_opcode
  <2> QED BY <2>1, <2>2, RowsFit DEF Row
<1>11. TableFits(1, On({\hCD}, Row("TRAP", <<Ib>>)))
  <2>1. Class(1, {\hCD}, "b", "opcode")
    BY DEF Class, ModRMOf, Groups, Wanted, ImmediateBytes, KindBytes, Branches,
       TakesModRM, Fence, Saves, NoModRM_1, Byte_1, Full_1, X86_ModRM_1,
       LockPrefix_GR_1
  <2>2. Operands(<<Ib>>, "b", "opcode")
    BY Operands_b
  <2> QED BY <2>1, <2>2, RowsFit DEF Row
<1>12. TableFits(1, On({\hD4, \hD5}, Store(<<Reg, Ib>>)))
  <2>1. Class(1, {\hD4, \hD5}, "b", "opcode")
    BY DEF Class, ModRMOf, Groups, Wanted, ImmediateBytes, KindBytes, Branches,
       TakesModRM, Fence, Saves, NoModRM_1, Byte_1, Full_1, X86_ModRM_1,
       LockPrefix_GR_1
  <2>2. Operands(<<Reg, Ib>>, "b", "opcode")
    BY Operands_b
  <2> QED BY <2>1, <2>2, RowsFit DEF Store, Wr, Row
<1>13. TableFits(1, On({\hD6}, Store(<<Reg, Reg, Reg>>)))
  <2>1. Class(1, {\hD6}, "none", "opcode")
    BY DEF Class, ModRMOf, Groups, Wanted, ImmediateBytes, KindBytes, Branches,
       TakesModRM, Fence, Saves, NoModRM_1, Byte_1, Full_1, X86_ModRM_1,
       LockPrefix_GR_1
  <2>2. Operands(<<Reg, Reg, Reg>>, "none", "opcode")
    BY Operands_opcode
  <2> QED BY <2>1, <2>2, RowsFit DEF Store, Wr, Row
<1>14. TableFits(1, On({\hD7}, Store(<<Reg, Xv>>)))
  <2>1. Class(1, {\hD7}, "none", "opcode")
    BY DEF Class, ModRMOf, Groups, Wanted, ImmediateBytes, KindBytes, Branches,
       TakesModRM, Fence, Saves, NoModRM_1, Byte_1, Full_1, X86_ModRM_1,
       LockPrefix_GR_1
  <2>2. Operands(<<Reg, Xv>>, "none", "opcode")
    BY Operands_opcode
  <2> QED BY <2>1, <2>2, RowsFit DEF Store, Wr, Row
<1> QED BY BothFit, <1>1, <1>2, <1>3, <1>4, <1>5, <1>6, <1>7, <1>8, <1>9,
    <1>10, <1>11, <1>12, <1>13, <1>14 DEF Opcodes_1_C0_D7

(* The rows of Opcodes_1_D8_DF suit their opcodes.                       *)
LEMMA Opcodes_1_D8_DF_Fit == TableFits(1, Opcodes_1_D8_DF)
<1>1. TableFits(1, On({\hD8}, Esc(X86_ESC_0)))
  <2>1. /\ \hD8 \in ModRMOf(1) <=> TakesModRM(1, \hD8)
        /\ TakesModRM(1, \hD8)
        /\ \hD8 \notin Groups(1)
    BY DEF ModRMOf, TakesModRM, Groups, X86_ModRM_1, NoModRM_1, LockPrefix_GR_1
  <2>2. GroupClass(1, \hD8, 0 .. 7, "none", "modrm")
    BY DEF GroupClass, Wanted, ImmediateBytes, KindBytes, Branches, TakesModRM,
       Fence, Saves, NoModRM_1, Byte_1, Full_1
  <2>3. GroupFits(1, \hD8, X86_ESC_0.mem)
    <3>1. GroupFits(1, \hD8, FpuMath(Mv))
      <4>1. GroupFits(1, \hD8, On({0, 1, 4, 5, 6, 7}, FpuStore(<<Reg, Mv>>)))
        <5>1. GroupClass(1, \hD8, {0, 1, 4, 5, 6, 7}, "none", "modrm")
          BY DEF GroupClass, Wanted, ImmediateBytes, KindBytes, Branches,
             TakesModRM, Fence, Saves, NoModRM_1, Byte_1, Full_1
        <5>2. Operands(<<Reg, Mv>>, "none", "modrm")
          BY Operands_modrm
        <5> QED BY <5>1, <5>2, GroupRowsFit DEF FpuStore, Wr, Row
      <4>2. GroupFits(1, \hD8, On({2, 3}, Fpu(<<Mv, Reg>>)))
        <5>1. GroupClass(1, \hD8, {2, 3}, "none", "modrm")
          BY DEF GroupClass, Wanted, ImmediateBytes, KindBytes, Branches,
             TakesModRM, Fence, Saves, NoModRM_1, Byte_1, Full_1
        <5>2. Operands(<<Mv, Reg>>, "none", "modrm")
          BY Operands_modrm
        <5> QED BY <5>1, <5>2, GroupRowsFit DEF Fpu, Row
      <4> QED BY <4>1, <4>2, BothGroupsFit DEF FpuMath
    <3> QED BY <3>1 DEF X86_ESC_0
  <2>4. RegisterFits(1, \hD8, X86_ESC_0.reg)
    <3>1. RegisterFits(1, \hD8, On(\hC0 .. \hFF, Fpu(<<Reg, Reg>>)))
      <4>1. Operands(<<Reg, Reg>>, "none", "opcode")
        BY Operands_opcode
      <4>2. \hC0 .. \hFF \subseteq \hC0 .. \hFF
        OBVIOUS
      <4> QED BY <2>2, <4>1, <4>2, RegisterRowsFit DEF Fpu, Row
    <3> QED BY <3>1, BothRegistersFit DEF X86_ESC_0
  <2> QED BY <2>1, <2>3, <2>4 DEF TableFits, On, Fits, Esc
<1>2. TableFits(1, On({\hD9}, Esc(X86_ESC_1)))
  <2>1. /\ \hD9 \in ModRMOf(1) <=> TakesModRM(1, \hD9)
        /\ TakesModRM(1, \hD9)
        /\ \hD9 \notin Groups(1)
    BY DEF ModRMOf, TakesModRM, Groups, X86_ModRM_1, NoModRM_1, LockPrefix_GR_1
  <2>2. GroupClass(1, \hD9, 0 .. 7, "none", "modrm")
    BY DEF GroupClass, Wanted, ImmediateBytes, KindBytes, Branches, TakesModRM,
       Fence, Saves, NoModRM_1, Byte_1, Full_1
  <2>3. GroupFits(1, \hD9, X86_ESC_1.mem)
    <3>1. GroupFits(1, \hD9, On({0}, Fpu(<<Mv>>)))
      <4>1. GroupClass(1, \hD9, {0}, "none", "modrm")
        BY DEF GroupClass, Wanted, ImmediateBytes, KindBytes, Branches,
           TakesModRM, Fence, Saves, NoModRM_1, Byte_1, Full_1
      <4>2. Operands(<<Mv>>, "none", "modrm")
        BY Operands_modrm
      <4> QED BY <4>1, <4>2, GroupRowsFit DEF Fpu, Row
    <3>2. GroupFits(1, \hD9, On({2, 3}, FpuStore(<<Mv, Reg>>)))
      <4>1. GroupClass(1, \hD9, {2, 3}, "none", "modrm")
        BY DEF GroupClass, Wanted, ImmediateBytes, KindBytes, Branches,
           TakesModRM, Fence, Saves, NoModRM_1, Byte_1, Full_1
      <4>2. Operands(<<Mv, Reg>>, "none", "modrm")
        BY Operands_modrm
      <4> QED BY <4>1, <4>2, GroupRowsFit DEF FpuStore, Wr, Row
    <3>3. GroupFits(1, \hD9, On({4}, Row("FENV", <<Mfev>>)))
      <4>1. GroupClass(1, \hD9, {4}, "none", "big")
        BY DEF GroupClass, Wanted, ImmediateBytes, KindBytes, Branches,
           TakesModRM, Fence, Saves, NoModRM_1, Byte_1, Full_1
      <4>2. Operands(<<Mfev>>, "none", "big")
        BY Operands_big
      <4> QED BY <4>1, <4>2, GroupRowsFit DEF Row
    <3>4. GroupFits(1, \hD9, On({5}, FpuStore(<<Reg, Mv>>)))
      <4>1. GroupClass(1, \hD9, {5}, "none", "modrm")
        BY DEF GroupClass, Wanted, ImmediateBytes, KindBytes, Branches,
           TakesModRM, Fence, Saves, NoModRM_1, Byte_1, Full_1
      <4>2. Operands(<<Reg, Mv>>, "none", "modrm")
        BY Operands_modrm
      <4> QED BY <4>1, <4>2, GroupRowsFit DEF FpuStore, Wr, Row
    <3>5. GroupFits(1, \hD9, On({6}, FpuStore(<<Mfev>>)))
      <4>1. GroupClass(1, \hD9, {6}, "none", "big")
        BY DEF GroupClass, Wanted, ImmediateBytes, KindBytes, Branches,
           TakesModRM, Fence, Saves, NoModRM_1, Byte_1, Full_1
      <4>2. Operands(<<Mfev>>, "none", "big")
        BY Operands_big
      <4> QED BY <4>1, <4>2, GroupRowsFit DEF FpuStore, Wr, Row
    <3>6. GroupFits(1, \hD9, On({7}, FpuStore(<<Mv, Reg>>)))
      <4>1. GroupClass(1, \hD9, {7}, "none", "modrm")
        BY DEF GroupClass, Wanted, ImmediateBytes, KindBytes, Branches,
           TakesModRM, Fence, Saves, NoModRM_1, Byte_1, Full_1
      <4>2. Operands(<<Mv, Reg>>, "none", "modrm")
        BY Operands_modrm
      <4> QED BY <4>1, <4>2, GroupRowsFit DEF FpuStore, Wr, Row
    <3> QED BY <3>1, <3>2, <3>3, <3>4, <3>5, <3>6, BothGroupsFit DEF X86_ESC_1
  <2>4. RegisterFits(1, \hD9, X86_ESC_1.reg)
    <3>1. RegisterFits(1, \hD9,
             On((\hC0 .. \hCF) \cup {\hE0, \hE1, \hE4, \hE5} \cup (\hE8 .. \hEE)
             \cup (\hF0 .. \hF5) \cup (\hF8 .. \hFF), Fpu(<<Reg>>)))
      <4>1. Operands(<<Reg>>, "none", "opcode")
        BY Operands_opcode
      <4>2. (\hC0 .. \hCF) \cup {\hE0, \hE1, \hE4, \hE5} \cup (\hE8 .. \hEE)
               \cup (\hF0 .. \hF5) \cup (\hF8 .. \hFF) \subseteq \hC0 .. \hFF
        OBVIOUS
      <4> QED BY <2>2, <4>1, <4>2, RegisterRowsFit DEF Fpu, Row
    <3>2. RegisterFits(1, \hD9, On({\hD0, \hF6, \hF7}, Fpu(<< >>)))
      <4>1. Operands(<< >>, "none", "opcode")
        BY Operands_opcode
      <4>2. {\hD0, \hF6, \hF7} \subseteq \hC0 .. \hFF
        OBVIOUS
      <4> QED BY <2>2, <4>1, <4>2, RegisterRowsFit DEF Fpu, Row
    <3> QED BY <3>1, <3>2, BothRegistersFit DEF X86_ESC_1
  <2> QED BY <2>1, <2>3, <2>4 DEF TableFits, On, Fits, Esc
<1>3. TableFits(1, On({\hDA}, Esc(X86_ESC_2)))
  <2>1. /\ \hDA \in ModRMOf(1) <=> TakesModRM(1, \hDA)
        /\ TakesModRM(1, \hDA)
        /\ \hDA \notin Groups(1)
    BY DEF ModRMOf, TakesModRM, Groups, X86_ModRM_1, NoModRM_1, LockPrefix_GR_1
  <2>2. GroupClass(1, \hDA, 0 .. 7, "none", "modrm")
    BY DEF GroupClass, Wanted, ImmediateBytes, KindBytes, Branches, TakesModRM,
       Fence, Saves, NoModRM_1, Byte_1, Full_1
  <2>3. GroupFits(1, \hDA, X86_ESC_2.mem)
    <3>1. GroupFits(1, \hDA, FpuMath(Mv))
      <4>1. GroupFits(1, \hDA, On({0, 1, 4, 5, 6, 7}, FpuStore(<<Reg, Mv>>)))
        <5>1. GroupClass(1, \hDA, {0, 1, 4, 5, 6, 7}, "none", "modrm")
          BY DEF GroupClass, Wanted, ImmediateBytes, KindBytes, Branches,
             TakesModRM, Fence, Saves, NoModRM_1, Byte_1, Full_1
        <5>2. Operands(<<Reg, Mv>>, "none", "modrm")
          BY Operands_modrm
        <5> QED BY <5>1, <5>2, GroupRowsFit DEF FpuStore, Wr, Row
      <4>2. GroupFits(1, \hDA, On({2, 3}, Fpu(<<Mv, Reg>>)))
        <5>1. GroupClass(1, \hDA, {2, 3}, "none", "modrm")
          BY DEF GroupClass, Wanted, ImmediateBytes, KindBytes, Branches,
             TakesModRM, Fence, Saves, NoModRM_1, Byte_1, Full_1
        <5>2. Operands(<<Mv, Reg>>, "none", "modrm")
          BY Operands_modrm
        <5> QED BY <5>1, <5>2, GroupRowsFit DEF Fpu, Row
      <4> QED BY <4>1, <4>2, BothGroupsFit DEF FpuMath
    <3> QED BY <3>1 DEF X86_ESC_2
  <2>4. RegisterFits(1, \hDA, X86_ESC_2.reg)
    <3>1. RegisterFits(1, \hDA, On((\hC0 .. \hDF) \cup {\hE9}, Fpu(<<Reg, Reg>>)))
      <4>1. Operands(<<Reg, Reg>>, "none", "opcode")
        BY Operands_opcode
      <4>2. (\hC0 .. \hDF) \cup {\hE9} \subseteq \hC0 .. \hFF
        OBVIOUS
      <4> QED BY <2>2, <4>1, <4>2, RegisterRowsFit DEF Fpu, Row
    <3> QED BY <3>1, BothRegistersFit DEF X86_ESC_2
  <2> QED BY <2>1, <2>3, <2>4 DEF TableFits, On, Fits, Esc
<1>4. TableFits(1, On({\hDB}, Esc(X86_ESC_3)))
  <2>1. /\ \hDB \in ModRMOf(1) <=> TakesModRM(1, \hDB)
        /\ TakesModRM(1, \hDB)
        /\ \hDB \notin Groups(1)
    BY DEF ModRMOf, TakesModRM, Groups, X86_ModRM_1, NoModRM_1, LockPrefix_GR_1
  <2>2. GroupClass(1, \hDB, 0 .. 7, "none", "modrm")
    BY DEF GroupClass, Wanted, ImmediateBytes, KindBytes, Branches, TakesModRM,
       Fence, Saves, NoModRM_1, Byte_1, Full_1
  <2>3. GroupFits(1, \hDB, X86_ESC_3.mem)
    <3>1. GroupFits(1, \hDB, On({0, 1, 5}, Fpu(<<Mv>>)))
      <4>1. GroupClass(1, \hDB, {0, 1, 5}, "none", "modrm")
        BY DEF GroupClass, Wanted, ImmediateBytes, KindBytes, Branches,
           TakesModRM, Fence, Saves, NoModRM_1, Byte_1, Full_1
      <4>2. Operands(<<Mv>>, "none", "modrm")
        BY Operands_modrm
      <4> QED BY <4>1, <4>2, GroupRowsFit DEF Fpu, Row
    <3>2. GroupFits(1, \hDB, On({2, 3, 7}, FpuStore(<<Mv, Reg>>)))
      <4>1. GroupClass(1, \hDB, {2, 3, 7}, "none", "modrm")
        BY DEF GroupClass, Wanted, ImmediateBytes, KindBytes, Branches,
           TakesModRM, Fence, Saves, NoModRM_1, Byte_1, Full_1
      <4>2. Operands(<<Mv, Reg>>, "none", "modrm")
        BY Operands_modrm
      <4> QED BY <4>1, <4>2, GroupRowsFit DEF FpuStore, Wr, Row
    <3> QED BY <3>1, <3>2, BothGroupsFit DEF X86_ESC_3
  <2>4. RegisterFits(1, \hDB, X86_ESC_3.reg)
    <3>1. RegisterFits(1, \hDB,
             On((\hC0 .. \hDF) \cup {\hE2, \hE3} \cup (\hE8 .. \hF7),
             Fpu(<<Reg, Reg>>)))
      <4>1. Operands(<<Reg, Reg>>, "none", "opcode")
        BY Operands_opcode
      <4>2. (\hC0 .. \hDF) \cup {\hE2, \hE3} \cup (\hE8 .. \hF7) \subseteq \hC0 .. \hFF
        OBVIOUS
      <4> QED BY <2>2, <4>1, <4>2, RegisterRowsFit DEF Fpu, Row
    <3> QED BY <3>1, BothRegistersFit DEF X86_ESC_3
  <2> QED BY <2>1, <2>3, <2>4 DEF TableFits, On, Fits, Esc
<1>5. TableFits(1, On({\hDC}, Esc(X86_ESC_4)))
  <2>1. /\ \hDC \in ModRMOf(1) <=> TakesModRM(1, \hDC)
        /\ TakesModRM(1, \hDC)
        /\ \hDC \notin Groups(1)
    BY DEF ModRMOf, TakesModRM, Groups, X86_ModRM_1, NoModRM_1, LockPrefix_GR_1
  <2>2. GroupClass(1, \hDC, 0 .. 7, "none", "modrm")
    BY DEF GroupClass, Wanted, ImmediateBytes, KindBytes, Branches, TakesModRM,
       Fence, Saves, NoModRM_1, Byte_1, Full_1
  <2>3. GroupFits(1, \hDC, X86_ESC_4.mem)
    <3>1. GroupFits(1, \hDC, FpuMath(Mv))
      <4>1. GroupFits(1, \hDC, On({0, 1, 4, 5, 6, 7}, FpuStore(<<Reg, Mv>>)))
        <5>1. GroupClass(1, \hDC, {0, 1, 4, 5, 6, 7}, "none", "modrm")
          BY DEF GroupClass, Wanted, ImmediateBytes, KindBytes, Branches,
             TakesModRM, Fence, Saves, NoModRM_1, Byte_1, Full_1
        <5>2. Operands(<<Reg, Mv>>, "none", "modrm")
          BY Operands_modrm
        <5> QED BY <5>1, <5>2, GroupRowsFit DEF FpuStore, Wr, Row
      <4>2. GroupFits(1, \hDC, On({2, 3}, Fpu(<<Mv, Reg>>)))
        <5>1. GroupClass(1, \hDC, {2, 3}, "none", "modrm")
          BY DEF GroupClass, Wanted, ImmediateBytes, KindBytes, Branches,
             TakesModRM, Fence, Saves, NoModRM_1, Byte_1, Full_1
        <5>2. Operands(<<Mv, Reg>>, "none", "modrm")
          BY Operands_modrm
        <5> QED BY <5>1, <5>2, GroupRowsFit DEF Fpu, Row
      <4> QED BY <4>1, <4>2, BothGroupsFit DEF FpuMath
    <3> QED BY <3>1 DEF X86_ESC_4
  <2>4. RegisterFits(1, \hDC, X86_ESC_4.reg)
    <3>1. RegisterFits(1, \hDC,
             On((\hC0 .. \hCF) \cup (\hE0 .. \hFF), Fpu(<<Reg, Reg>>)))
      <4>1. Operands(<<Reg, Reg>>, "none", "opcode")
        BY Operands_opcode
      <4>2. (\hC0 .. \hCF) \cup (\hE0 .. \hFF) \subseteq \hC0 .. \hFF
        OBVIOUS
      <4> QED BY <2>2, <4>1, <4>2, RegisterRowsFit DEF Fpu, Row
    <3> QED BY <3>1, BothRegistersFit DEF X86_ESC_4
  <2> QED BY <2>1, <2>3, <2>4 DEF TableFits, On, Fits, Esc
<1>6. TableFits(1, On({\hDD}, Esc(X86_ESC_5)))
  <2>1. /\ \hDD \in ModRMOf(1) <=> TakesModRM(1, \hDD)
        /\ TakesModRM(1, \hDD)
        /\ \hDD \notin Groups(1)
    BY DEF ModRMOf, TakesModRM, Groups, X86_ModRM_1, NoModRM_1, LockPrefix_GR_1
  <2>2. GroupClass(1, \hDD, 0 .. 7, "none", "modrm")
    BY DEF GroupClass, Wanted, ImmediateBytes, KindBytes, Branches, TakesModRM,
       Fence, Saves, NoModRM_1, Byte_1, Full_1
  <2>3. GroupFits(1, \hDD, X86_ESC_5.mem)
    <3>1. GroupFits(1, \hDD, On({0}, Fpu(<<Mv>>)))
      <4>1. GroupClass(1, \hDD, {0}, "none", "modrm")
        BY DEF GroupClass, Wanted, ImmediateBytes, KindBytes, Branches,
           TakesModRM, Fence, Saves, NoModRM_1, Byte_1, Full_1
      <4>2. Operands(<<Mv>>, "none", "modrm")
        BY Operands_modrm
      <4> QED BY <4>1, <4>2, GroupRowsFit DEF Fpu, Row
    <3>2. GroupFits(1, \hDD, On({1, 7}, FpuStore(<<Mv, Reg>>)))
      <4>1. GroupClass(1, \hDD, {1, 7}, "none", "modrm")
        BY DEF GroupClass, Wanted, ImmediateBytes, KindBytes, Branches,
           TakesModRM, Fence, Saves, NoModRM_1, Byte_1, Full_1
      <4>2. Operands(<<Mv, Reg>>, "none", "modrm")
        BY Operands_modrm
      <4> QED BY <4>1, <4>2, GroupRowsFit DEF FpuStore, Wr, Row
    <3>3. GroupFits(1, \hDD, On({2, 3}, Fpu(<<Mv, Reg>>)))
      <4>1. GroupClass(1, \hDD, {2, 3}, "none", "modrm")
        BY DEF GroupClass, Wanted, ImmediateBytes, KindBytes, Branches,
           TakesModRM, Fence, Saves, NoModRM_1, Byte_1, Full_1
      <4>2. Operands(<<Mv, Reg>>, "none", "modrm")
        BY Operands_modrm
      <4> QED BY <4>1, <4>2, GroupRowsFit DEF Fpu, Row
    <3>4. GroupFits(1, \hDD, On({4}, Row("FENV", <<Mfst1>>)))
      <4>1. GroupClass(1, \hDD, {4}, "none", "big")
        BY DEF GroupClass, Wanted, ImmediateBytes, KindBytes, Branches,
           TakesModRM, Fence, Saves, NoModRM_1, Byte_1, Full_1
      <4>2. Operands(<<Mfst1>>, "none", "big")
        BY Operands_big
      <4> QED BY <4>1, <4>2, GroupRowsFit DEF Row
    <3>5. GroupFits(1, \hDD, On({6}, Wr("FENV", <<Mfst1>>)))
      <4>1. GroupClass(1, \hDD, {6}, "none", "big")
        BY DEF GroupClass, Wanted, ImmediateBytes, KindBytes, Branches,
           TakesModRM, Fence, Saves, NoModRM_1, Byte_1, Full_1
      <4>2. Operands(<<Mfst1>>, "none", "big")
        BY Operands_big
      <4> QED BY <4>1, <4>2, GroupRowsFit DEF Wr, Row
    <3> QED BY <3>1, <3>2, <3>3, <3>4, <3>5, BothGroupsFit DEF X86_ESC_5
  <2>4. RegisterFits(1, \hDD, X86_ESC_5.reg)
    <3>1. RegisterFits(1, \hDD,
             On((\hC0 .. \hC7) \cup (\hD0 .. \hEF), Fpu(<<Reg, Reg>>)))
      <4>1. Operands(<<Reg, Reg>>, "none", "opcode")
        BY Operands_opcode
      <4>2. (\hC0 .. \hC7) \cup (\hD0 .. \hEF) \subseteq \hC0 .. \hFF
        OBVIOUS
      <4> QED BY <2>2, <4>1, <4>2, RegisterRowsFit DEF Fpu, Row
    <3> QED BY <3>1, BothRegistersFit DEF X86_ESC_5
  <2> QED BY <2>1, <2>3, <2>4 DEF TableFits, On, Fits, Esc
<1>7. TableFits(1, On({\hDE}, Esc(X86_ESC_6)))
  <2>1. /\ \hDE \in ModRMOf(1) <=> TakesModRM(1, \hDE)
        /\ TakesModRM(1, \hDE)
        /\ \hDE \notin Groups(1)
    BY DEF ModRMOf, TakesModRM, Groups, X86_ModRM_1, NoModRM_1, LockPrefix_GR_1
  <2>2. GroupClass(1, \hDE, 0 .. 7, "none", "modrm")
    BY DEF GroupClass, Wanted, ImmediateBytes, KindBytes, Branches, TakesModRM,
       Fence, Saves, NoModRM_1, Byte_1, Full_1
  <2>3. GroupFits(1, \hDE, X86_ESC_6.mem)
    <3>1. GroupFits(1, \hDE, FpuMath(Mv))
      <4>1. GroupFits(1, \hDE, On({0, 1, 4, 5, 6, 7}, FpuStore(<<Reg, Mv>>)))
        <5>1. GroupClass(1, \hDE, {0, 1, 4, 5, 6, 7}, "none", "modrm")
          BY DEF GroupClass, Wanted, ImmediateBytes, KindBytes, Branches,
             TakesModRM, Fence, Saves, NoModRM_1, Byte_1, Full_1
        <5>2. Operands(<<Reg, Mv>>, "none", "modrm")
          BY Operands_modrm
        <5> QED BY <5>1, <5>2, GroupRowsFit DEF FpuStore, Wr, Row
      <4>2. GroupFits(1, \hDE, On({2, 3}, Fpu(<<Mv, Reg>>)))
        <5>1. GroupClass(1, \hDE, {2, 3}, "none", "modrm")
          BY DEF GroupClass, Wanted, ImmediateBytes, KindBytes, Branches,
             TakesModRM, Fence, Saves, NoModRM_1, Byte_1, Full_1
        <5>2. Operands(<<Mv, Reg>>, "none", "modrm")
          BY Operands_modrm
        <5> QED BY <5>1, <5>2, GroupRowsFit DEF Fpu, Row
      <4> QED BY <4>1, <4>2, BothGroupsFit DEF FpuMath
    <3> QED BY <3>1 DEF X86_ESC_6
  <2>4. RegisterFits(1, \hDE, X86_ESC_6.reg)
    <3>1. RegisterFits(1, \hDE,
             On((\hC0 .. \hCF) \cup {\hD9} \cup (\hE0 .. \hFF), Fpu(<<Reg, Reg>>)))
      <4>1. Operands(<<Reg, Reg>>, "none", "opcode")
        BY Operands_opcode
      <4>2. (\hC0 .. \hCF) \cup {\hD9} \cup (\hE0 .. \hFF) \subseteq \hC0 .. \hFF
        OBVIOUS
      <4> QED BY <2>2, <4>1, <4>2, RegisterRowsFit DEF Fpu, Row
    <3> QED BY <3>1, BothRegistersFit DEF X86_ESC_6
  <2> QED BY <2>1, <2>3, <2>4 DEF TableFits, On, Fits, Esc
<1>8. TableFits(1, On({\hDF}, Esc(X86_ESC_7)))
  <2>1. /\ \hDF \in ModRMOf(1) <=> TakesModRM(1, \hDF)
        /\ TakesModRM(1, \hDF)
        /\ \hDF \notin Groups(1)
    BY DEF ModRMOf, TakesModRM, Groups, X86_ModRM_1, NoModRM_1, LockPrefix_GR_1
  <2>2. GroupClass(1, \hDF, 0 .. 7, "none", "modrm")
    BY DEF GroupClass, Wanted, ImmediateBytes, KindBytes, Branches, TakesModRM,
       Fence, Saves, NoModRM_1, Byte_1, Full_1
  <2>3. GroupFits(1, \hDF, X86_ESC_7.mem)
    <3>1. GroupFits(1, \hDF, On({0, 4, 5}, Fpu(<<Mv>>)))
      <4>1. GroupClass(1, \hDF, {0, 4, 5}, "none", "modrm")
        BY DEF GroupClass, Wanted, ImmediateBytes, KindBytes, Branches,
           TakesModRM, Fence, Saves, NoModRM_1, Byte_1, Full_1
      <4>2. Operands(<<Mv>>, "none", "modrm")
        BY Operands_modrm
      <4> QED BY <4>1, <4>2, GroupRowsFit DEF Fpu, Row
    <3>2. GroupFits(1, \hDF, On({1, 2, 3, 6, 7}, FpuStore(<<Mv, Reg>>)))
      <4>1. GroupClass(1, \hDF, {1, 2, 3, 6, 7}, "none", "modrm")
        BY DEF GroupClass, Wanted, ImmediateBytes, KindBytes, Branches,
           TakesModRM, Fence, Saves, NoModRM_1, Byte_1, Full_1
      <4>2. Operands(<<Mv, Reg>>, "none", "modrm")
        BY Operands_modrm
      <4> QED BY <4>1, <4>2, GroupRowsFit DEF FpuStore, Wr, Row
    <3> QED BY <3>1, <3>2, BothGroupsFit DEF X86_ESC_7
  <2>4. RegisterFits(1, \hDF, X86_ESC_7.reg)
    <3>1. RegisterFits(1, \hDF, On({\hE0} \cup (\hE8 .. \hF7), Fpu(<<Reg, Reg>>)))
      <4>1. Operands(<<Reg, Reg>>, "none", "opcode")
        BY Operands_opcode
      <4>2. {\hE0} \cup (\hE8 .. \hF7) \subseteq \hC0 .. \hFF
        OBVIOUS
      <4> QED BY <2>2, <4>1, <4>2, RegisterRowsFit DEF Fpu, Row
    <3> QED BY <3>1, BothRegistersFit DEF X86_ESC_7
  <2> QED BY <2>1, <2>3, <2>4 DEF TableFits, On, Fits, Esc
<1> QED BY BothFit, <1>1, <1>2, <1>3, <1>4, <1>5, <1>6, <1>7, <1>8 DEF
    Opcodes_1_D8_DF

(* The rows of Opcodes_1_E0_EF suit their opcodes.                       *)
LEMMA Opcodes_1_E0_EF_Fit == TableFits(1, Opcodes_1_E0_EF)
<1>1. TableFits(1, On(\hE0 .. \hE3, Row("LOOPCC", <<Jb>>)))
  <2>1. Class(1, \hE0 .. \hE3, "jb", "opcode")
    BY DEF Class, ModRMOf, Groups, Wanted, ImmediateBytes, KindBytes, Branches,
       TakesModRM, Fence, Saves, NoModRM_1, Byte_1, Full_1, X86_ModRM_1,
       LockPrefix_GR_1
  <2>2. Operands(<<Jb>>, "jb", "opcode")
    BY Operands_jb
  <2> QED BY <2>1, <2>2, RowsFit DEF Row
<1>2. TableFits(1, On({\hE4, \hE5}, Wr("STRING", <<Reg, Ib>>)))
  <2>1. Class(1, {\hE4, \hE5}, "b", "opcode")
    BY DEF Class, ModRMOf, Groups, Wanted, ImmediateBytes, KindBytes, Branches,
       TakesModRM, Fence, Saves, NoModRM_1, Byte_1, Full_1, X86_ModRM_1,
       LockPrefix_GR_1
  <2>2. Operands(<<Reg, Ib>>, "b", "opcode")
    BY Operands_b
  <2> QED BY <2>1, <2>2, RowsFit DEF Wr, Row
<1>3. TableFits(1, On({\hE6, \hE7}, Wr("STRING", <<Ib, Reg>>)))
  <2>1. Class(1, {\hE6, \hE7}, "b", "opcode")
    BY DEF Class, ModRMOf, Groups, Wanted, ImmediateBytes, KindBytes, Branches,
       TakesModRM, Fence, Saves, NoModRM_1, Byte_1, Full_1, X86_ModRM_1,
       LockPrefix_GR_1
  <2>2. Operands(<<Ib, Reg>>, "b", "opcode")
    BY Operands_b
  <2> QED BY <2>1, <2>2, RowsFit DEF Wr, Row
<1>4. TableFits(1, On({\hE8}, Row("CALL", <<Jz>>)))
  <2>1. Class(1, {\hE8}, "jz", "opcode")
    BY DEF Class, ModRMOf, Groups, Wanted, ImmediateBytes, KindBytes, Branches,
       TakesModRM, Fence, Saves, NoModRM_1, Byte_1, Full_1, X86_ModRM_1,
       LockPrefix_GR_1
  <2>2. Operands(<<Jz>>, "jz", "opcode")
    BY Operands_jz
  <2> QED BY <2>1, <2>2, RowsFit DEF Row
<1>5. TableFits(1, On({\hE9}, Row("BRANCH", <<Jz>>)))
  <2>1. Class(1, {\hE9}, "jz", "opcode")
    BY DEF Class, ModRMOf, Groups, Wanted, ImmediateBytes, KindBytes, Branches,
       TakesModRM, Fence, Saves, NoModRM_1, Byte_1, Full_1, X86_ModRM_1,
       LockPrefix_GR_1
  <2>2. Operands(<<Jz>>, "jz", "opcode")
    BY Operands_jz
  <2> QED BY <2>1, <2>2, RowsFit DEF Row
<1>6. TableFits(1, On({\hEA}, Row("BRANCH", <<Ap>>)))
  <2>1. Class(1, {\hEA}, "p", "opcode")
    BY DEF Class, ModRMOf, Groups, Wanted, ImmediateBytes, KindBytes, Branches,
       TakesModRM, Fence, Saves, NoModRM_1, Byte_1, Full_1, X86_ModRM_1,
       LockPrefix_GR_1
  <2>2. Operands(<<Ap>>, "p", "opcode")
    BY Operands_p
  <2> QED BY <2>1, <2>2, RowsFit DEF Row
<1>7. TableFits(1, On({\hEB}, Row("BRANCH", <<Jb>>)))
  <2>1. Class(1, {\hEB}, "jb", "opcode")
    BY DEF Class, ModRMOf, Groups, Wanted, ImmediateBytes, KindBytes, Branches,
       TakesModRM, Fence, Saves, NoModRM_1, Byte_1, Full_1, X86_ModRM_1,
       LockPrefix_GR_1
  <2>2. Operands(<<Jb>>, "jb", "opcode")
    BY Operands_jb
  <2> QED BY <2>1, <2>2, RowsFit DEF Row
<1>8. TableFits(1, On(\hEC .. \hEF, Wr("STRING", <<Reg, Reg>>)))
  <2>1. Class(1, \hEC .. \hEF, "none", "opcode")
    BY DEF Class, ModRMOf, Groups, Wanted, ImmediateBytes, KindBytes, Branches,
       TakesModRM, Fence, Saves, NoModRM_1, Byte_1, Full_1, X86_ModRM_1,
       LockPrefix_GR_1
  <2>2. Operands(<<Reg, Reg>>, "none", "opcode")
    BY Operands_opcode
  <2> QED BY <2>1, <2>2, RowsFit DEF Wr, Row
<1> QED BY BothFit, <1>1, <1>2, <1>3, <1>4, <1>5, <1>6, <1>7, <1>8 DEF
    Opcodes_1_E0_EF

(* The rows of Opcodes_1_F0_FF suit their opcodes.                       *)
LEMMA Opcodes_1_F0_FF_Fit == TableFits(1, Opcodes_1_F0_FF)
<1>1. TableFits(1, On({\hF0, \hF2, \hF3}, PrefixRow))
  BY DEF TableFits, On, Fits, PrefixRow, Groups, LockPrefix_GR_1
<1>2. TableFits(1, On({\hF4}, Data(<< >>)))
  <2>1. Class(1, {\hF4}, "none", "opcode")
    BY DEF Class, ModRMOf, Groups, Wanted, ImmediateBytes, KindBytes, Branches,
       TakesModRM, Fence, Saves, NoModRM_1, Byte_1, Full_1, X86_ModRM_1,
       LockPrefix_GR_1
  <2>2. Operands(<< >>, "none", "opcode")
    BY Operands_opcode
  <2> QED BY <2>1, <2>2, RowsFit DEF Data, Row
<1>3. TableFits(1, On({\hF5} \cup (\hF8 .. \hFD), Store(<<Reg>>)))
  <2>1. Class(1, {\hF5} \cup (\hF8 .. \hFD), "none", "opcode")
    BY DEF Class, ModRMOf, Groups, Wanted, ImmediateBytes, KindBytes, Branches,
       TakesModRM, Fence, Saves, NoModRM_1, Byte_1, Full_1, X86_ModRM_1,
       LockPrefix_GR_1
  <2>2. Operands(<<Reg>>, "none", "opcode")
    BY Operands_opcode
  <2> QED BY <2>1, <2>2, RowsFit DEF Store, Wr, Row
<1>4. TableFits(1, On({\hF6}, Group(Group_3(Ib))))
  <2>1. ASSUME NEW b \in {\hF6} PROVE GroupFits(1, b, Group_3(Ib))
    <3>1. GroupFits(1, b, On({0, 1}, Data(<<Ev, Ib>>)))
      <4>1. GroupClass(1, b, {0, 1}, "b", "modrm")
        BY DEF GroupClass, Wanted, ImmediateBytes, KindBytes, Branches,
           TakesModRM, Fence, Saves, NoModRM_1, Byte_1, Full_1
      <4>2. Operands(<<Ev, Ib>>, "b", "modrm")
        BY Operands_b
      <4> QED BY <4>1, <4>2, GroupRowsFit DEF Data, Row
    <3>2. GroupFits(1, b, On({2, 3}, Store(<<Ev>>)))
      <4>1. GroupClass(1, b, {2, 3}, "none", "modrm")
        BY DEF GroupClass, Wanted, ImmediateBytes, KindBytes, Branches,
           TakesModRM, Fence, Saves, NoModRM_1, Byte_1, Full_1
      <4>2. Operands(<<Ev>>, "none", "modrm")
        BY Operands_modrm
      <4> QED BY <4>1, <4>2, GroupRowsFit DEF Store, Wr, Row
    <3>3. GroupFits(1, b, On(4 .. 7, Store(<<Reg, Ev, Reg>>)))
      <4>1. GroupClass(1, b, 4 .. 7, "none", "modrm")
        BY DEF GroupClass, Wanted, ImmediateBytes, KindBytes, Branches,
           TakesModRM, Fence, Saves, NoModRM_1, Byte_1, Full_1
      <4>2. Operands(<<Reg, Ev, Reg>>, "none", "modrm")
        BY Operands_modrm
      <4> QED BY <4>1, <4>2, GroupRowsFit DEF Store, Wr, Row
    <3> QED BY <3>1, <3>2, <3>3, BothGroupsFit DEF Group_3
  <2>2. \A b \in {\hF6} : b \in ModRMOf(1) <=> TakesModRM(1, b)
    BY DEF ModRMOf, TakesModRM, X86_ModRM_1, NoModRM_1
  <2>3. \A b \in {\hF6} : b \in Groups(1) => TakesModRM(1, b)
    BY DEF Groups, TakesModRM, LockPrefix_GR_1, NoModRM_1
  <2> QED BY <2>1, <2>2, <2>3, GroupsFit
<1>5. TableFits(1, On({\hF7}, Group(Group_3(Iz))))
  <2>1. ASSUME NEW b \in {\hF7} PROVE GroupFits(1, b, Group_3(Iz))
    <3>1. GroupFits(1, b, On({0, 1}, Data(<<Ev, Iz>>)))
      <4>1. GroupClass(1, b, {0, 1}, "z", "modrm")
        BY DEF GroupClass, Wanted, ImmediateBytes, KindBytes, Branches,
           TakesModRM, Fence, Saves, NoModRM_1, Byte_1, Full_1
      <4>2. Operands(<<Ev, Iz>>, "z", "modrm")
        BY Operands_z
      <4> QED BY <4>1, <4>2, GroupRowsFit DEF Data, Row
    <3>2. GroupFits(1, b, On({2, 3}, Store(<<Ev>>)))
      <4>1. GroupClass(1, b, {2, 3}, "none", "modrm")
        BY DEF GroupClass, Wanted, ImmediateBytes, KindBytes, Branches,
           TakesModRM, Fence, Saves, NoModRM_1, Byte_1, Full_1
      <4>2. Operands(<<Ev>>, "none", "modrm")
        BY Operands_modrm
      <4> QED BY <4>1, <4>2, GroupRowsFit DEF Store, Wr, Row
    <3>3. GroupFits(1, b, On(4 .. 7, Store(<<Reg, Ev, Reg>>)))
      <4>1. GroupClass(1, b, 4 .. 7, "none", "modrm")
        BY DEF GroupClass, Wanted, ImmediateBytes, KindBytes, Branches,
           TakesModRM, Fence, Saves, NoModRM_1, Byte_1, Full_1
      <4>2. Operands(<<Reg, Ev, Reg>>, "none", "modrm")
        BY Operands_modrm
      <4> QED BY <4>1, <4>2, GroupRowsFit DEF Store, Wr, Row
    <3> QED BY <3>1, <3>2, <3>3, BothGroupsFit DEF Group_3
  <2>2. \A b \in {\hF7} : b \in ModRMOf(1) <=> TakesModRM(1, b)
    BY DEF ModRMOf, TakesModRM, X86_ModRM_1, NoModRM_1
  <2>3. \A b \in {\hF7} : b \in Groups(1) => TakesModRM(1, b)
    BY DEF Groups, TakesModRM, LockPrefix_GR_1, NoModRM_1
  <2> QED BY <2>1, <2>2, <2>3, GroupsFit
<1>6. TableFits(1, On({\hFE}, Group(Group_4)))
  <2>1. ASSUME NEW b \in {\hFE} PROVE GroupFits(1, b, Group_4)
    <3>1. GroupClass(1, b, {0, 1}, "none", "modrm")
      BY DEF GroupClass, Wanted, ImmediateBytes, KindBytes, Branches,
         TakesModRM, Fence, Saves, NoModRM_1, Byte_1, Full_1
    <3>2. Operands(<<Ev>>, "none", "modrm")
      BY Operands_modrm
    <3> QED BY <3>1, <3>2, GroupRowsFit DEF Store, Wr, Row, Group_4
  <2>2. \A b \in {\hFE} : b \in ModRMOf(1) <=> TakesModRM(1, b)
    BY DEF ModRMOf, TakesModRM, X86_ModRM_1, NoModRM_1
  <2>3. \A b \in {\hFE} : b \in Groups(1) => TakesModRM(1, b)
    BY DEF Groups, TakesModRM, LockPrefix_GR_1, NoModRM_1
  <2> QED BY <2>1, <2>2, <2>3, GroupsFit
<1>7. TableFits(1, On({\hFF}, Group(Group_5)))
  <2>1. ASSUME NEW b \in {\hFF} PROVE GroupFits(1, b, Group_5)
    <3>1. GroupFits(1, b, On({0, 1}, Store(<<Ev>>)))
      <4>1. GroupClass(1, b, {0, 1}, "none", "modrm")
        BY DEF GroupClass, Wanted, ImmediateBytes, KindBytes, Branches,
           TakesModRM, Fence, Saves, NoModRM_1, Byte_1, Full_1
      <4>2. Operands(<<Ev>>, "none", "modrm")
        BY Operands_modrm
      <4> QED BY <4>1, <4>2, GroupRowsFit DEF Store, Wr, Row
    <3>2. GroupFits(1, b, On({2}, Row("CALL", <<Ev>>)))
      <4>1. GroupClass(1, b, {2}, "none", "modrm")
        BY DEF GroupClass, Wanted, ImmediateBytes, KindBytes, Branches,
           TakesModRM, Fence, Saves, NoModRM_1, Byte_1, Full_1
      <4>2. Operands(<<Ev>>, "none", "modrm")
        BY Operands_modrm
      <4> QED BY <4>1, <4>2, GroupRowsFit DEF Row, TakesModRM, NoModRM_1
    <3>3. GroupFits(1, b, On({3}, Row("CALL", <<Ep>>)))
      <4>1. GroupClass(1, b, {3}, "none", "modrm")
        BY DEF GroupClass, Wanted, ImmediateBytes, KindBytes, Branches,
           TakesModRM, Fence, Saves, NoModRM_1, Byte_1, Full_1
      <4>2. Operands(<<Ep>>, "none", "modrm")
        BY Operands_modrm
      <4> QED BY <4>1, <4>2, GroupRowsFit DEF Row, TakesModRM, NoModRM_1
    <3>4. GroupFits(1, b, On({4}, Row("BRANCH", <<Ev>>)))
      <4>1. GroupClass(1, b, {4}, "none", "modrm")
        BY DEF GroupClass, Wanted, ImmediateBytes, KindBytes, Branches,
           TakesModRM, Fence, Saves, NoModRM_1, Byte_1, Full_1
      <4>2. Operands(<<Ev>>, "none", "modrm")
        BY Operands_modrm
      <4> QED BY <4>1, <4>2, GroupRowsFit DEF Row
    <3>5. GroupFits(1, b, On({5}, Row("BRANCH", <<Ep>>)))
      <4>1. GroupClass(1, b, {5}, "none", "modrm")
        BY DEF GroupClass, Wanted, ImmediateBytes, KindBytes, Branches,
           TakesModRM, Fence, Saves, NoModRM_1, Byte_1, Full_1
      <4>2. Operands(<<Ep>>, "none", "modrm")
        BY Operands_modrm
      <4> QED BY <4>1, <4>2, GroupRowsFit DEF Row
    <3>6. GroupFits(1, b, On({6}, Row("PUSH", <<Ev>>)))
      <4>1. GroupClass(1, b, {6}, "none", "modrm")
        BY DEF GroupClass, Wanted, ImmediateBytes, KindBytes, Branches,
           TakesModRM, Fence, Saves, NoModRM_1, Byte_1, Full_1
      <4>2. Operands(<<Ev>>, "none", "modrm")
        BY Operands_modrm
      <4> QED BY <4>1, <4>2, GroupRowsFit DEF Row
    <3> QED BY <3>1, <3>2, <3>3, <3>4, <3>5, <3>6, BothGroupsFit DEF Group_5
  <2>2. \A b \in {\hFF} : b \in ModRMOf(1) <=> TakesModRM(1, b)
    BY DEF ModRMOf, TakesModRM, X86_ModRM_1, NoModRM_1
  <2>3. \A b \in {\hFF} : b \in Groups(1) => TakesModRM(1, b)
    BY DEF Groups, TakesModRM, LockPrefix_GR_1, NoModRM_1
  <2> QED BY <2>1, <2>2, <2>3, GroupsFit
<1> DEFINE first  == On({\hF0, \hF2, \hF3}, PrefixRow) ++ On({\hF4}, Data(<< >>))
           second == first ++ On({\hF5} \cup (\hF8 .. \hFD), Store(<<Reg>>))
           third  == second ++ On({\hF6}, Group(Group_3(Ib)))
           fourth == third ++ On({\hF7}, Group(Group_3(Iz)))
           fifth  == fourth ++ On({\hFE}, Group(Group_4))
<1>8. TableFits(1, first)
  BY <1>1, <1>2, BothFit
<1> HIDE DEF first
<1>9. TableFits(1, second)
  BY <1>8, <1>3, BothFit
<1> HIDE DEF second
<1>10. TableFits(1, third)
  BY <1>9, <1>4, BothFit
<1> HIDE DEF third
<1>11. TableFits(1, fourth)
  BY <1>10, <1>5, BothFit
<1> HIDE DEF fourth
<1>12. TableFits(1, fifth)
  BY <1>11, <1>6, BothFit
<1> HIDE DEF fifth
<1>13. TableFits(1, fifth ++ On({\hFF}, Group(Group_5)))
  BY <1>12, <1>7, BothFit
<1> QED BY <1>13 DEF Opcodes_1_F0_FF, first, second, third, fourth, fifth

(* The rows of Opcodes_2_00_07 suit their opcodes.                       *)
LEMMA Opcodes_2_00_07_Fit == TableFits(2, Opcodes_2_00_07)
<1>1. TableFits(2, On({\h00}, Group(X86_Group_6)))
  <2>1. ASSUME NEW b \in {\h00} PROVE GroupFits(2, b, X86_Group_6)
    <3>1. GroupFits(2, b, On({0, 1}, Wr("SYSTEM", <<Ev>>)))
      <4>1. GroupClass(2, b, {0, 1}, "none", "modrm")
        BY DEF GroupClass, Wanted, ImmediateBytes, KindBytes, Branches,
           TakesModRM, Fence, Saves, NoModRM_2, Byte_2, Full_2
      <4>2. Operands(<<Ev>>, "none", "modrm")
        BY Operands_modrm
      <4> QED BY <4>1, <4>2, GroupRowsFit DEF Wr, Row
    <3>2. GroupFits(2, b, On(2 .. 5, Row("SYSTEM", <<Ev>>)))
      <4>1. GroupClass(2, b, 2 .. 5, "none", "modrm")
        BY DEF GroupClass, Wanted, ImmediateBytes, KindBytes, Branches,
           TakesModRM, Fence, Saves, NoModRM_2, Byte_2, Full_2
      <4>2. Operands(<<Ev>>, "none", "modrm")
        BY Operands_modrm
      <4> QED BY <4>1, <4>2, GroupRowsFit DEF Row
    <3>3. GroupFits(2, b, On({6}, Amd64(Row("BRANCH", <<Ev>>))))
      <4>1. GroupClass(2, b, {6}, "none", "modrm")
        BY DEF GroupClass, Wanted, ImmediateBytes, KindBytes, Branches,
           TakesModRM, Fence, Saves, NoModRM_2, Byte_2, Full_2
      <4>2. Operands(<<Ev>>, "none", "modrm")
        BY Operands_modrm
      <4> QED BY <4>1, <4>2, GroupRowsFit DEF Amd64, Row
    <3> QED BY <3>1, <3>2, <3>3, BothGroupsFit DEF X86_Group_6
  <2>2. \A b \in {\h00} : b \in ModRMOf(2) <=> TakesModRM(2, b)
    BY DEF ModRMOf, TakesModRM, X86_ModRM_2, NoModRM_2
  <2>3. \A b \in {\h00} : b \in Groups(2) => TakesModRM(2, b)
    BY DEF Groups, TakesModRM, LockPrefix_GR_2, NoModRM_2
  <2> QED BY <2>1, <2>2, <2>3, GroupsFit
<1>2. TableFits(2,
         On({\h01},
         [kind |-> "modrm", table |-> X86_0F01_Register ++ X86_0F01_Memory]))
  <2>1. /\ \h01 \in ModRMOf(2) <=> TakesModRM(2, \h01)
        /\ TakesModRM(2, \h01)
        /\ \h01 \notin Groups(2)
    BY DEF ModRMOf, TakesModRM, Groups, X86_ModRM_2, NoModRM_2, LockPrefix_GR_2
  <2>2. ModRMFits(2, \h01, X86_0F01_Register ++ X86_0F01_Memory)
    BY ModRM_0F01_Fit
  <2> QED BY <2>1, <2>2 DEF TableFits, On, Fits
<1>3. TableFits(2, On({\h02, \h03}, Wr("SYSTEM", <<Gv, Ev>>)))
  <2>1. Class(2, {\h02, \h03}, "none", "modrm")
    BY DEF Class, ModRMOf, Groups, Wanted, ImmediateBytes, KindBytes, Branches,
       TakesModRM, Fence, Saves, NoModRM_2, Byte_2, Full_2, X86_ModRM_2,
       LockPrefix_GR_2
  <2>2. Operands(<<Gv, Ev>>, "none", "modrm")
    BY Operands_modrm
  <2> QED BY <2>1, <2>2, TwoByteRowsFit DEF Wr, Row
<1>4. TableFits(2,
         On({\h05},
         [kind |-> "ext64", table |->
         [x86 |-> Data(<<Reg, Reg, Reg>>), x64 |->
         Amd64(Data(<<Reg, Reg, Reg>>))]]))
  <2>1. RowFits(2, \h05, Data(<<Reg, Reg, Reg>>))
    <3>1. \A x \in 0 .. 7 : Wanted(2, \h05, x, "none", "opcode")
      BY DEF Wanted, ImmediateBytes, KindBytes, Branches, TakesModRM, Fence,
         Saves, NoModRM_2, Byte_2, Full_2
    <3>2. Operands(<<Reg, Reg, Reg>>, "none", "opcode")
      BY Operands_opcode
    <3> QED BY <3>1, <3>2, RowFit DEF Data, Row
  <2>2. RowFits(2, \h05, Amd64(Data(<<Reg, Reg, Reg>>)))
    <3>1. \A x \in 0 .. 7 : Wanted(2, \h05, x, "none", "opcode")
      BY DEF Wanted, ImmediateBytes, KindBytes, Branches, TakesModRM, Fence,
         Saves, NoModRM_2, Byte_2, Full_2
    <3>2. Operands(<<Reg, Reg, Reg>>, "none", "opcode")
      BY Operands_opcode
    <3>3. LET r == Amd64(Data(<<Reg, Reg, Reg>>))
          IN  r.kind = "row" /\ r.ops = <<Reg, Reg, Reg>> /\ r.type = "DATA"
      BY DEF Amd64, Data, Row
    <3> QED BY <3>1, <3>2, <3>3, RowFit
  <2>3. /\ \h05 \in ModRMOf(2) <=> TakesModRM(2, \h05)
        /\ \h05 \notin Groups(2)
    BY DEF ModRMOf, TakesModRM, Groups, X86_ModRM_2, NoModRM_2, LockPrefix_GR_2
  <2> QED BY <2>1, <2>2, <2>3 DEF TableFits, On, Fits
<1>5. TableFits(2, On({\h06}, Row("SYSTEM", <<Reg>>)))
  <2>1. Class(2, {\h06}, "none", "opcode")
    BY DEF Class, ModRMOf, Groups, Wanted, ImmediateBytes, KindBytes, Branches,
       TakesModRM, Fence, Saves, NoModRM_2, Byte_2, Full_2, X86_ModRM_2,
       LockPrefix_GR_2
  <2>2. Operands(<<Reg>>, "none", "opcode")
    BY Operands_opcode
  <2> QED BY <2>1, <2>2, TwoByteRowsFit DEF Row
<1>6. TableFits(2, On({\h07}, Data(<<Reg>>)))
  <2>1. Class(2, {\h07}, "none", "opcode")
    BY DEF Class, ModRMOf, Groups, Wanted, ImmediateBytes, KindBytes, Branches,
       TakesModRM, Fence, Saves, NoModRM_2, Byte_2, Full_2, X86_ModRM_2,
       LockPrefix_GR_2
  <2>2. Operands(<<Reg>>, "none", "opcode")
    BY Operands_opcode
  <2> QED BY <2>1, <2>2, TwoByteRowsFit DEF Data, Row
<1> QED BY BothFit, <1>1, <1>2, <1>3, <1>4, <1>5, <1>6 DEF Opcodes_2_00_07

(* The rows of Opcodes_2_08_1F suit their opcodes.                       *)
LEMMA Opcodes_2_08_1F_Fit == TableFits(2, Opcodes_2_08_1F)
<1>1. TableFits(2, On({\h08, \h09}, Row("SYSTEM", << >>)))
  <2>1. Class(2, {\h08, \h09}, "none", "opcode")
    BY DEF Class, ModRMOf, Groups, Wanted, ImmediateBytes, KindBytes, Branches,
       TakesModRM, Fence, Saves, NoModRM_2, Byte_2, Full_2, X86_ModRM_2,
       LockPrefix_GR_2
  <2>2. Operands(<< >>, "none", "opcode")
    BY Operands_opcode
  <2> QED BY <2>1, <2>2, TwoByteRowsFit DEF Row
<1>2. TableFits(2, On({\h0B}, Data(<< >>)))
  <2>1. Class(2, {\h0B}, "none", "opcode")
    BY DEF Class, ModRMOf, Groups, Wanted, ImmediateBytes, KindBytes, Branches,
       TakesModRM, Fence, Saves, NoModRM_2, Byte_2, Full_2, X86_ModRM_2,
       LockPrefix_GR_2
  <2>2. Operands(<< >>, "none", "opcode")
    BY Operands_opcode
  <2> QED BY <2>1, <2>2, TwoByteRowsFit DEF Data, Row
<1>3. TableFits(2, On({\h0D}, Group(X86_Group_P)))
  <2>1. ASSUME NEW b \in {\h0D} PROVE GroupFits(2, b, X86_Group_P)
    <3>1. GroupClass(2, b, {0, 1}, "none", "modrm")
      BY DEF GroupClass, Wanted, ImmediateBytes, KindBytes, Branches,
         TakesModRM, Fence, Saves, NoModRM_2, Byte_2, Full_2
    <3>2. Operands(<<Ev>>, "none", "modrm")
      BY Operands_modrm
    <3> QED BY <3>1, <3>2, GroupRowsFit DEF Data, Row, X86_Group_P
  <2>2. \A b \in {\h0D} : b \in ModRMOf(2) <=> TakesModRM(2, b)
    BY DEF ModRMOf, TakesModRM, X86_ModRM_2, NoModRM_2
  <2>3. \A b \in {\h0D} : b \in Groups(2) => TakesModRM(2, b)
    BY DEF Groups, TakesModRM, LockPrefix_GR_2, NoModRM_2
  <2> QED BY <2>1, <2>2, <2>3, GroupsFit
<1>4. TableFits(2, On({\h0E}, Store(<<Reg>>)))
  <2>1. Class(2, {\h0E}, "none", "opcode")
    BY DEF Class, ModRMOf, Groups, Wanted, ImmediateBytes, KindBytes, Branches,
       TakesModRM, Fence, Saves, NoModRM_2, Byte_2, Full_2, X86_ModRM_2,
       LockPrefix_GR_2
  <2>2. Operands(<<Reg>>, "none", "opcode")
    BY Operands_opcode
  <2> QED BY <2>1, <2>2, TwoByteRowsFit DEF Store, Wr, Row
<1>5. TableFits(2,
         On({\h0F},
         [kind |-> "suffix", ops |-> <<Pq, Qq>>, table |-> Now3D_Convert
         ++ Now3D_Arithmetic]))
  <2>1. RowFits(2, \h0F, Data(<<Pq, Qq>>))
    <3>1. \A x \in 0 .. 7 : Wanted(2, \h0F, x, "none", "modrm")
      BY DEF Wanted, ImmediateBytes, KindBytes, Branches, TakesModRM, Fence,
         Saves, NoModRM_2, Byte_2, Full_2
    <3>2. Operands(<<Pq, Qq>>, "none", "modrm")
      BY Operands_mmx
    <3> QED BY <3>1, <3>2, RowFit DEF Data, Row
  <2>2. /\ \h0F \in ModRMOf(2) <=> TakesModRM(2, \h0F)
        /\ \h0F \notin Groups(2)
    BY DEF ModRMOf, TakesModRM, Groups, X86_ModRM_2, NoModRM_2, LockPrefix_GR_2
  <2>3. \A s \in DOMAIN (Now3D_Convert ++ Now3D_Arithmetic) :
          (Now3D_Convert ++ Now3D_Arithmetic)[s] = Data(<<Pq, Qq>>)
    <3>1. Now3D_Convert
             ++ Now3D_Arithmetic = Merged(<<Now3D_Convert, Now3D_Arithmetic>>)
      BY DEF ++
    <3> QED BY <3>1 DEF Merged, Now3D_Convert, Now3D_Arithmetic, On
  <2> QED BY <2>1, <2>2, <2>3 DEF TableFits, On, Fits
<1>6. TableFits(2, On({\h10, \h12, \h14, \h15, \h16, \h28}, Sse(<<Vo, Wo>>)))
  <2>1. Class(2, {\h10, \h12, \h14, \h15, \h16, \h28}, "none", "modrm")
    BY DEF Class, ModRMOf, Groups, Wanted, ImmediateBytes, KindBytes, Branches,
       TakesModRM, Fence, Saves, NoModRM_2, Byte_2, Full_2, X86_ModRM_2,
       LockPrefix_GR_2
  <2>2. Operands(<<Vo, Wo>>, "none", "modrm")
    BY Operands_xmm
  <2> QED BY <2>1, <2>2, TwoByteRowsFit DEF Sse, Row
<1>7. TableFits(2, On({\h11, \h29}, SseStore(<<Wo, Vo>>)))
  <2>1. Class(2, {\h11, \h29}, "none", "modrm")
    BY DEF Class, ModRMOf, Groups, Wanted, ImmediateBytes, KindBytes, Branches,
       TakesModRM, Fence, Saves, NoModRM_2, Byte_2, Full_2, X86_ModRM_2,
       LockPrefix_GR_2
  <2>2. Operands(<<Wo, Vo>>, "none", "modrm")
    BY Operands_xmm
  <2> QED BY <2>1, <2>2, TwoByteRowsFit DEF SseStore, Wr, Row
<1>8. TableFits(2, On({\h13, \h17, \h2B}, SseStore(<<Mv, Vo>>)))
  <2>1. Class(2, {\h13, \h17, \h2B}, "none", "modrm")
    BY DEF Class, ModRMOf, Groups, Wanted, ImmediateBytes, KindBytes, Branches,
       TakesModRM, Fence, Saves, NoModRM_2, Byte_2, Full_2, X86_ModRM_2,
       LockPrefix_GR_2
  <2>2. Operands(<<Mv, Vo>>, "none", "modrm")
    BY Operands_xmm
  <2> QED BY <2>1, <2>2, TwoByteRowsFit DEF SseStore, Wr, Row
<1>9. TableFits(2, On({\h18}, Group(X86_Group_17)))
  <2>1. ASSUME NEW b \in {\h18} PROVE GroupFits(2, b, X86_Group_17)
    <3>1. GroupClass(2, b, 0 .. 7, "none", "modrm")
      BY DEF GroupClass, Wanted, ImmediateBytes, KindBytes, Branches,
         TakesModRM, Fence, Saves, NoModRM_2, Byte_2, Full_2
    <3>2. Operands(<<Ev>>, "none", "modrm")
      BY Operands_modrm
    <3> QED BY <3>1, <3>2, GroupRowsFit DEF Row, X86_Group_17
  <2>2. \A b \in {\h18} : b \in ModRMOf(2) <=> TakesModRM(2, b)
    BY DEF ModRMOf, TakesModRM, X86_ModRM_2, NoModRM_2
  <2>3. \A b \in {\h18} : b \in Groups(2) => TakesModRM(2, b)
    BY DEF Groups, TakesModRM, LockPrefix_GR_2, NoModRM_2
  <2> QED BY <2>1, <2>2, <2>3, GroupsFit
<1> QED BY BothFit, <1>1, <1>2, <1>3, <1>4, <1>5, <1>6, <1>7, <1>8, <1>9 DEF
    Opcodes_2_08_1F

(* The rows of Opcodes_2_20_3F suit their opcodes.                       *)
LEMMA Opcodes_2_20_3F_Fit == TableFits(2, Opcodes_2_20_3F)
<1>1. TableFits(2, On({\h20, \h21}, Store(<<Rd, Cd>>)))
  <2>1. Class(2, {\h20, \h21}, "none", "modrm")
    BY DEF Class, ModRMOf, Groups, Wanted, ImmediateBytes, KindBytes, Branches,
       TakesModRM, Fence, Saves, NoModRM_2, Byte_2, Full_2, X86_ModRM_2,
       LockPrefix_GR_2
  <2>2. Operands(<<Rd, Cd>>, "none", "modrm")
    BY Operands_modrm
  <2> QED BY <2>1, <2>2, TwoByteRowsFit DEF Store, Wr, Row
<1>2. TableFits(2, On({\h22, \h23}, Store(<<Cd, Rd>>)))
  <2>1. Class(2, {\h22, \h23}, "none", "modrm")
    BY DEF Class, ModRMOf, Groups, Wanted, ImmediateBytes, KindBytes, Branches,
       TakesModRM, Fence, Saves, NoModRM_2, Byte_2, Full_2, X86_ModRM_2,
       LockPrefix_GR_2
  <2>2. Operands(<<Cd, Rd>>, "none", "modrm")
    BY Operands_modrm
  <2> QED BY <2>1, <2>2, TwoByteRowsFit DEF Store, Wr, Row
<1>3. TableFits(2, On({\h2A}, Sse(<<Vo, Qq>>)))
  <2>1. Class(2, {\h2A}, "none", "modrm")
    BY DEF Class, ModRMOf, Groups, Wanted, ImmediateBytes, KindBytes, Branches,
       TakesModRM, Fence, Saves, NoModRM_2, Byte_2, Full_2, X86_ModRM_2,
       LockPrefix_GR_2
  <2>2. Operands(<<Vo, Qq>>, "none", "modrm")
    BY Operands_xmm
  <2> QED BY <2>1, <2>2, TwoByteRowsFit DEF Sse, Row
<1>4. TableFits(2, On({\h2C, \h2D}, Sse(<<Pq, Wo>>)))
  <2>1. Class(2, {\h2C, \h2D}, "none", "modrm")
    BY DEF Class, ModRMOf, Groups, Wanted, ImmediateBytes, KindBytes, Branches,
       TakesModRM, Fence, Saves, NoModRM_2, Byte_2, Full_2, X86_ModRM_2,
       LockPrefix_GR_2
  <2>2. Operands(<<Pq, Wo>>, "none", "modrm")
    BY Operands_xmm
  <2> QED BY <2>1, <2>2, TwoByteRowsFit DEF Sse, Row
<1>5. TableFits(2, On({\h2E, \h2F}, Sse(<<Vo, Wo>>)))
  <2>1. Class(2, {\h2E, \h2F}, "none", "modrm")
    BY DEF Class, ModRMOf, Groups, Wanted, ImmediateBytes, KindBytes, Branches,
       TakesModRM, Fence, Saves, NoModRM_2, Byte_2, Full_2, X86_ModRM_2,
       LockPrefix_GR_2
  <2>2. Operands(<<Vo, Wo>>, "none", "modrm")
    BY Operands_xmm
  <2> QED BY <2>1, <2>2, TwoByteRowsFit DEF Sse, Row
<1>6. TableFits(2, On(\h30 .. \h32, Row("SYSTEM", <<Reg, Reg>>)))
  <2>1. Class(2, \h30 .. \h32, "none", "opcode")
    BY DEF Class, ModRMOf, Groups, Wanted, ImmediateBytes, KindBytes, Branches,
       TakesModRM, Fence, Saves, NoModRM_2, Byte_2, Full_2, X86_ModRM_2,
       LockPrefix_GR_2
  <2>2. Operands(<<Reg, Reg>>, "none", "opcode")
    BY Operands_opcode
  <2> QED BY <2>1, <2>2, TwoByteRowsFit DEF Row
<1>7. TableFits(2, On({\h33}, Store(<<Reg, Reg>>)))
  <2>1. Class(2, {\h33}, "none", "opcode")
    BY DEF Class, ModRMOf, Groups, Wanted, ImmediateBytes, KindBytes, Branches,
       TakesModRM, Fence, Saves, NoModRM_2, Byte_2, Full_2, X86_ModRM_2,
       LockPrefix_GR_2
  <2>2. Operands(<<Reg, Reg>>, "none", "opcode")
    BY Operands_opcode
  <2> QED BY <2>1, <2>2, TwoByteRowsFit DEF Store, Wr, Row
<1>8. TableFits(2, On({\h34, \h35}, Data(<<Reg, Reg, Reg>>)))
  <2>1. Class(2, {\h34, \h35}, "none", "opcode")
    BY DEF Class, ModRMOf, Groups, Wanted, ImmediateBytes, KindBytes, Branches,
       TakesModRM, Fence, Saves, NoModRM_2, Byte_2, Full_2, X86_ModRM_2,
       LockPrefix_GR_2
  <2>2. Operands(<<Reg, Reg, Reg>>, "none", "opcode")
    BY Operands_opcode
  <2> QED BY <2>1, <2>2, TwoByteRowsFit DEF Data, Row
<1> QED BY BothFit, <1>1, <1>2, <1>3, <1>4, <1>5, <1>6, <1>7, <1>8 DEF
    Opcodes_2_20_3F

(* The rows of Opcodes_2_40_5F suit their opcodes.                       *)
LEMMA Opcodes_2_40_5F_Fit == TableFits(2, Opcodes_2_40_5F)
<1>1. TableFits(2, On(\h40 .. \h4F, Store(<<Gv, Ev>>)))
  <2>1. Class(2, \h40 .. \h4F, "none", "modrm")
    BY DEF Class, ModRMOf, Groups, Wanted, ImmediateBytes, KindBytes, Branches,
       TakesModRM, Fence, Saves, NoModRM_2, Byte_2, Full_2, X86_ModRM_2,
       LockPrefix_GR_2
  <2>2. Operands(<<Gv, Ev>>, "none", "modrm")
    BY Operands_modrm
  <2> QED BY <2>1, <2>2, TwoByteRowsFit DEF Store, Wr, Row
<1>2. TableFits(2, On({\h50}, Sse(<<Gv, VRo>>)))
  <2>1. Class(2, {\h50}, "none", "modrm")
    BY DEF Class, ModRMOf, Groups, Wanted, ImmediateBytes, KindBytes, Branches,
       TakesModRM, Fence, Saves, NoModRM_2, Byte_2, Full_2, X86_ModRM_2,
       LockPrefix_GR_2
  <2>2. Operands(<<Gv, VRo>>, "none", "modrm")
    BY Operands_xmm
  <2> QED BY <2>1, <2>2, TwoByteRowsFit DEF Sse, Row
<1>3. TableFits(2, On(\h51 .. \h5F, Sse(<<Vo, Wo>>)))
  <2>1. Class(2, \h51 .. \h5F, "none", "modrm")
    BY DEF Class, ModRMOf, Groups, Wanted, ImmediateBytes, KindBytes, Branches,
       TakesModRM, Fence, Saves, NoModRM_2, Byte_2, Full_2, X86_ModRM_2,
       LockPrefix_GR_2
  <2>2. Operands(<<Vo, Wo>>, "none", "modrm")
    BY Operands_xmm
  <2> QED BY <2>1, <2>2, TwoByteRowsFit DEF Sse, Row
<1> QED BY BothFit, <1>1, <1>2, <1>3 DEF Opcodes_2_40_5F

(* The rows of Opcodes_2_60_7F suit their opcodes.                       *)
LEMMA Opcodes_2_60_7F_Fit == TableFits(2, Opcodes_2_60_7F)
<1>1. TableFits(2, On((\h60 .. \h6B) \cup {\h6F} \cup (\h74 .. \h76), Mmx(<<Pq, Qq>>)))
  <2>1. Class(2, (\h60 .. \h6B) \cup {\h6F} \cup (\h74 .. \h76), "none", "modrm")
    BY DEF Class, ModRMOf, Groups, Wanted, ImmediateBytes, KindBytes, Branches,
       TakesModRM, Fence, Saves, NoModRM_2, Byte_2, Full_2, X86_ModRM_2,
       LockPrefix_GR_2
  <2>2. Operands(<<Pq, Qq>>, "none", "modrm")
    BY Operands_mmx
  <2> QED BY <2>1, <2>2, TwoByteRowsFit DEF Mmx, Row
<1>2. TableFits(2, On({\h6E}, Mmx(<<Pq, Ev>>)))
  <2>1. Class(2, {\h6E}, "none", "modrm")
    BY DEF Class, ModRMOf, Groups, Wanted, ImmediateBytes, KindBytes, Branches,
       TakesModRM, Fence, Saves, NoModRM_2, Byte_2, Full_2, X86_ModRM_2,
       LockPrefix_GR_2
  <2>2. Operands(<<Pq, Ev>>, "none", "modrm")
    BY Operands_mmx
  <2> QED BY <2>1, <2>2, TwoByteRowsFit DEF Mmx, Row
<1>3. TableFits(2, On({\h70}, Mmx(<<Pq, Qq, Ib>>)))
  <2>1. Class(2, {\h70}, "b", "modrm")
    BY DEF Class, ModRMOf, Groups, Wanted, ImmediateBytes, KindBytes, Branches,
       TakesModRM, Fence, Saves, NoModRM_2, Byte_2, Full_2, X86_ModRM_2,
       LockPrefix_GR_2
  <2>2. Operands(<<Pq, Qq, Ib>>, "b", "modrm")
    BY Operands_b
  <2> QED BY <2>1, <2>2, TwoByteRowsFit DEF Mmx, Row
<1>4. TableFits(2, On({\h71, \h72}, Group(Group_13_14("MMX", PRq))))
  <2>1. ASSUME NEW b \in {\h71, \h72} PROVE GroupFits(2, b, Group_13_14("MMX", PRq))
    <3>1. GroupClass(2, b, {2, 4, 6}, "b", "modrm")
      BY DEF GroupClass, Wanted, ImmediateBytes, KindBytes, Branches,
         TakesModRM, Fence, Saves, NoModRM_2, Byte_2, Full_2
    <3>2. Operands(<<PRq, Ib>>, "b", "modrm")
      BY Operands_b
    <3> QED BY <3>1, <3>2, GroupRowsFit DEF Row, Group_13_14
  <2>2. \A b \in {\h71, \h72} : b \in ModRMOf(2) <=> TakesModRM(2, b)
    BY DEF ModRMOf, TakesModRM, X86_ModRM_2, NoModRM_2
  <2>3. \A b \in {\h71, \h72} : b \in Groups(2) => TakesModRM(2, b)
    BY DEF Groups, TakesModRM, LockPrefix_GR_2, NoModRM_2
  <2> QED BY <2>1, <2>2, <2>3, GroupsFit
<1>5. TableFits(2, On({\h73}, Group(Group_15("MMX", PRq))))
  <2>1. ASSUME NEW b \in {\h73} PROVE GroupFits(2, b, Group_15("MMX", PRq))
    <3>1. GroupClass(2, b, {2, 3, 6, 7}, "b", "modrm")
      BY DEF GroupClass, Wanted, ImmediateBytes, KindBytes, Branches,
         TakesModRM, Fence, Saves, NoModRM_2, Byte_2, Full_2
    <3>2. Operands(<<PRq, Ib>>, "b", "modrm")
      BY Operands_b
    <3> QED BY <3>1, <3>2, GroupRowsFit DEF Row, Group_15
  <2>2. \A b \in {\h73} : b \in ModRMOf(2) <=> TakesModRM(2, b)
    BY DEF ModRMOf, TakesModRM, X86_ModRM_2, NoModRM_2
  <2>3. \A b \in {\h73} : b \in Groups(2) => TakesModRM(2, b)
    BY DEF Groups, TakesModRM, LockPrefix_GR_2, NoModRM_2
  <2> QED BY <2>1, <2>2, <2>3, GroupsFit
<1>6. TableFits(2, On({\h77}, Mmx(<<Reg>>)))
  <2>1. Class(2, {\h77}, "none", "opcode")
    BY DEF Class, ModRMOf, Groups, Wanted, ImmediateBytes, KindBytes, Branches,
       TakesModRM, Fence, Saves, NoModRM_2, Byte_2, Full_2, X86_ModRM_2,
       LockPrefix_GR_2
  <2>2. Operands(<<Reg>>, "none", "opcode")
    BY Operands_opcode
  <2> QED BY <2>1, <2>2, TwoByteRowsFit DEF Mmx, Row
<1>7. TableFits(2, On({\h7E}, Wr("MMX", <<Ev, Pq>>)))
  <2>1. Class(2, {\h7E}, "none", "modrm")
    BY DEF Class, ModRMOf, Groups, Wanted, ImmediateBytes, KindBytes, Branches,
       TakesModRM, Fence, Saves, NoModRM_2, Byte_2, Full_2, X86_ModRM_2,
       LockPrefix_GR_2
  <2>2. Operands(<<Ev, Pq>>, "none", "modrm")
    BY Operands_mmx
  <2> QED BY <2>1, <2>2, TwoByteRowsFit DEF Wr, Row
<1>8. TableFits(2, On({\h7F}, Wr("MMX", <<Qq, Pq>>)))
  <2>1. Class(2, {\h7F}, "none", "modrm")
    BY DEF Class, ModRMOf, Groups, Wanted, ImmediateBytes, KindBytes, Branches,
       TakesModRM, Fence, Saves, NoModRM_2, Byte_2, Full_2, X86_ModRM_2,
       LockPrefix_GR_2
  <2>2. Operands(<<Qq, Pq>>, "none", "modrm")
    BY Operands_mmx
  <2> QED BY <2>1, <2>2, TwoByteRowsFit DEF Wr, Row
<1>9. TableFits(2, On((\h60 .. \h6B) \cup {\h6F} \cup (\h74 .. \h76), Mmx(<<Pq, Qq>>))
      ++ On({\h6E}, Mmx(<<Pq, Ev>>)) ++ On({\h70}, Mmx(<<Pq, Qq, Ib>>)))
  BY BothFit, <1>1, <1>2, <1>3
<1>10. TableFits(2, On((\h60 .. \h6B) \cup {\h6F} \cup (\h74 .. \h76), Mmx(<<Pq, Qq>>))
      ++ On({\h6E}, Mmx(<<Pq, Ev>>)) ++ On({\h70}, Mmx(<<Pq, Qq, Ib>>))
      ++ On({\h71, \h72}, Group(Group_13_14("MMX", PRq)))
      ++ On({\h73}, Group(Group_15("MMX", PRq))) ++ On({\h77}, Mmx(<<Reg>>)))
  BY BothFit, <1>9, <1>4, <1>5, <1>6
<1> QED BY BothFit, <1>10, <1>7, <1>8 DEF Opcodes_2_60_7F

(* The rows of Opcodes_2_80_AF suit their opcodes.                       *)
LEMMA Opcodes_2_80_AF_Fit == TableFits(2, Opcodes_2_80_AF)
<1>1. TableFits(2, On(\h80 .. \h8F, Row("BRANCHCC", <<Jz>>)))
  <2>1. Class(2, \h80 .. \h8F, "jz", "opcode")
    BY DEF Class, ModRMOf, Groups, Wanted, ImmediateBytes, KindBytes, Branches,
       TakesModRM, Fence, Saves, NoModRM_2, Byte_2, Full_2, X86_ModRM_2,
       LockPrefix_GR_2
  <2>2. Operands(<<Jz>>, "jz", "opcode")
    BY Operands_jz
  <2> QED BY <2>1, <2>2, TwoByteRowsFit DEF Row
<1>2. TableFits(2, On(\h90 .. \h9F, Store(<<Ev, Reg, Reg>>)))
  <2>1. Class(2, \h90 .. \h9F, "none", "modrm")
    BY DEF Class, ModRMOf, Groups, Wanted, ImmediateBytes, KindBytes, Branches,
       TakesModRM, Fence, Saves, NoModRM_2, Byte_2, Full_2, X86_ModRM_2,
       LockPrefix_GR_2
  <2>2. Operands(<<Ev, Reg, Reg>>, "none", "modrm")
    BY Operands_modrm
  <2> QED BY <2>1, <2>2, TwoByteRowsFit DEF Store, Wr, Row
<1>3. TableFits(2, On({\hA0, \hA8}, Row("PUSH", <<Reg>>)))
  <2>1. Class(2, {\hA0, \hA8}, "none", "opcode")
    BY DEF Class, ModRMOf, Groups, Wanted, ImmediateBytes, KindBytes, Branches,
       TakesModRM, Fence, Saves, NoModRM_2, Byte_2, Full_2, X86_ModRM_2,
       LockPrefix_GR_2
  <2>2. Operands(<<Reg>>, "none", "opcode")
    BY Operands_opcode
  <2> QED BY <2>1, <2>2, TwoByteRowsFit DEF Row
<1>4. TableFits(2, On({\hA1, \hA9}, Row("POP", <<Reg>>)))
  <2>1. Class(2, {\hA1, \hA9}, "none", "opcode")
    BY DEF Class, ModRMOf, Groups, Wanted, ImmediateBytes, KindBytes, Branches,
       TakesModRM, Fence, Saves, NoModRM_2, Byte_2, Full_2, X86_ModRM_2,
       LockPrefix_GR_2
  <2>2. Operands(<<Reg>>, "none", "opcode")
    BY Operands_opcode
  <2> QED BY <2>1, <2>2, TwoByteRowsFit DEF Row
<1>5. TableFits(2, On({\hA2}, Store(<<Reg, Reg>>)))
  <2>1. Class(2, {\hA2}, "none", "opcode")
    BY DEF Class, ModRMOf, Groups, Wanted, ImmediateBytes, KindBytes, Branches,
       TakesModRM, Fence, Saves, NoModRM_2, Byte_2, Full_2, X86_ModRM_2,
       LockPrefix_GR_2
  <2>2. Operands(<<Reg, Reg>>, "none", "opcode")
    BY Operands_opcode
  <2> QED BY <2>1, <2>2, TwoByteRowsFit DEF Store, Wr, Row
<1>6. TableFits(2, On({\hAA}, Row("SYSTEM", << >>)))
  <2>1. Class(2, {\hAA}, "none", "opcode")
    BY DEF Class, ModRMOf, Groups, Wanted, ImmediateBytes, KindBytes, Branches,
       TakesModRM, Fence, Saves, NoModRM_2, Byte_2, Full_2, X86_ModRM_2,
       LockPrefix_GR_2
  <2>2. Operands(<< >>, "none", "opcode")
    BY Operands_opcode
  <2> QED BY <2>1, <2>2, TwoByteRowsFit DEF Row
<1>7. TableFits(2, On({\hA3, \hAB, \hB3, \hBB}, Data(<<Ev, Gv>>)))
  <2>1. Class(2, {\hA3, \hAB, \hB3, \hBB}, "none", "modrm")
    BY DEF Class, ModRMOf, Groups, Wanted, ImmediateBytes, KindBytes, Branches,
       TakesModRM, Fence, Saves, NoModRM_2, Byte_2, Full_2, X86_ModRM_2,
       LockPrefix_GR_2
  <2>2. Operands(<<Ev, Gv>>, "none", "modrm")
    BY Operands_modrm
  <2> QED BY <2>1, <2>2, TwoByteRowsFit DEF Data, Row
<1>8. TableFits(2, On({\hA4, \hAC}, Store(<<Ev, Gv, Ib>>)))
  <2>1. Class(2, {\hA4, \hAC}, "b", "modrm")
    BY DEF Class, ModRMOf, Groups, Wanted, ImmediateBytes, KindBytes, Branches,
       TakesModRM, Fence, Saves, NoModRM_2, Byte_2, Full_2, X86_ModRM_2,
       LockPrefix_GR_2
  <2>2. Operands(<<Ev, Gv, Ib>>, "b", "modrm")
    BY Operands_b
  <2> QED BY <2>1, <2>2, TwoByteRowsFit DEF Store, Wr, Row
<1>9. TableFits(2, On({\hA5, \hAD}, Store(<<Ev, Gv, Reg>>)))
  <2>1. Class(2, {\hA5, \hAD}, "none", "modrm")
    BY DEF Class, ModRMOf, Groups, Wanted, ImmediateBytes, KindBytes, Branches,
       TakesModRM, Fence, Saves, NoModRM_2, Byte_2, Full_2, X86_ModRM_2,
       LockPrefix_GR_2
  <2>2. Operands(<<Ev, Gv, Reg>>, "none", "modrm")
    BY Operands_modrm
  <2> QED BY <2>1, <2>2, TwoByteRowsFit DEF Store, Wr, Row
<1>10. TableFits(2, On({\hAE}, Group(X86_Group_16)))
  <2>1. ASSUME NEW b \in {\hAE} PROVE GroupFits(2, b, X86_Group_16)
    <3>1. GroupFits(2, b, On({0}, Wr("FPU", <<Mfst2>>)))
      <4>1. GroupClass(2, b, {0}, "none", "big")
        BY DEF GroupClass, Wanted, ImmediateBytes, KindBytes, Branches,
           TakesModRM, Fence, Saves, NoModRM_2, Byte_2, Full_2
      <4>2. Operands(<<Mfst2>>, "none", "big")
        BY Operands_big
      <4> QED BY <4>1, <4>2, GroupRowsFit DEF Wr, Row
    <3>2. GroupFits(2, b, On({1}, Row("FPU", <<Mfst2>>)))
      <4>1. GroupClass(2, b, {1}, "none", "big")
        BY DEF GroupClass, Wanted, ImmediateBytes, KindBytes, Branches,
           TakesModRM, Fence, Saves, NoModRM_2, Byte_2, Full_2
      <4>2. Operands(<<Mfst2>>, "none", "big")
        BY Operands_big
      <4> QED BY <4>1, <4>2, GroupRowsFit DEF Row
    <3>3. GroupFits(2, b, On({2}, Row("SSE", <<Mv>>)))
      <4>1. GroupClass(2, b, {2}, "none", "modrm")
        BY DEF GroupClass, Wanted, ImmediateBytes, KindBytes, Branches,
           TakesModRM, Fence, Saves, NoModRM_2, Byte_2, Full_2
      <4>2. Operands(<<Mv>>, "none", "modrm")
        BY Operands_modrm
      <4> QED BY <4>1, <4>2, GroupRowsFit DEF Row
    <3>4. GroupFits(2, b, On({3}, Wr("SSE", <<Mv>>)))
      <4>1. GroupClass(2, b, {3}, "none", "modrm")
        BY DEF GroupClass, Wanted, ImmediateBytes, KindBytes, Branches,
           TakesModRM, Fence, Saves, NoModRM_2, Byte_2, Full_2
      <4>2. Operands(<<Mv>>, "none", "modrm")
        BY Operands_modrm
      <4> QED BY <4>1, <4>2, GroupRowsFit DEF Wr, Row
    <3>5. GroupFits(2, b, On(5 .. 7, Row("SYSTEM", << >>)))
      <4>1. GroupClass(2, b, 5 .. 7, "none", "opcode")
        BY DEF GroupClass, Wanted, ImmediateBytes, KindBytes, Branches,
           TakesModRM, Fence, Saves, NoModRM_2, Byte_2, Full_2
      <4>2. Operands(<< >>, "none", "opcode")
        BY Operands_opcode
      <4> QED BY <4>1, <4>2, GroupRowsFit DEF Row
    <3> QED BY <3>1, <3>2, <3>3, <3>4, <3>5, BothGroupsFit DEF X86_Group_16
  <2>2. \A b \in {\hAE} : b \in ModRMOf(2) <=> TakesModRM(2, b)
    BY DEF ModRMOf, TakesModRM, X86_ModRM_2, NoModRM_2
  <2>3. \A b \in {\hAE} : b \in Groups(2) => TakesModRM(2, b)
    BY DEF Groups, TakesModRM, LockPrefix_GR_2, NoModRM_2
  <2> QED BY <2>1, <2>2, <2>3, GroupsFit
<1>11. TableFits(2, On({\hAF}, Store(<<Gv, Ev>>)))
  <2>1. Class(2, {\hAF}, "none", "modrm")
    BY DEF Class, ModRMOf, Groups, Wanted, ImmediateBytes, KindBytes, Branches,
       TakesModRM, Fence, Saves, NoModRM_2, Byte_2, Full_2, X86_ModRM_2,
       LockPrefix_GR_2
  <2>2. Operands(<<Gv, Ev>>, "none", "modrm")
    BY Operands_modrm
  <2> QED BY <2>1, <2>2, TwoByteRowsFit DEF Store, Wr, Row
<1> QED BY BothFit, <1>1, <1>2, <1>3, <1>4, <1>5, <1>6, <1>7, <1>8, <1>9,
    <1>10, <1>11 DEF Opcodes_2_80_AF

(* The rows of Opcodes_2_B0_BF suit their opcodes.                       *)
LEMMA Opcodes_2_B0_BF_Fit == TableFits(2, Opcodes_2_B0_BF)
<1>1. TableFits(2, On({\hB0, \hB1}, Store(<<Ev, Reg, Gv>>)))
  <2>1. Class(2, {\hB0, \hB1}, "none", "modrm")
    BY DEF Class, ModRMOf, Groups, Wanted, ImmediateBytes, KindBytes, Branches,
       TakesModRM, Fence, Saves, NoModRM_2, Byte_2, Full_2, X86_ModRM_2,
       LockPrefix_GR_2
  <2>2. Operands(<<Ev, Reg, Gv>>, "none", "modrm")
    BY Operands_modrm
  <2> QED BY <2>1, <2>2, TwoByteRowsFit DEF Store, Wr, Row
<1>2. TableFits(2, On({\hB2, \hB4, \hB5}, Store(<<Gv, Mv>>)))
  <2>1. Class(2, {\hB2, \hB4, \hB5}, "none", "modrm")
    BY DEF Class, ModRMOf, Groups, Wanted, ImmediateBytes, KindBytes, Branches,
       TakesModRM, Fence, Saves, NoModRM_2, Byte_2, Full_2, X86_ModRM_2,
       LockPrefix_GR_2
  <2>2. Operands(<<Gv, Mv>>, "none", "modrm")
    BY Operands_modrm
  <2> QED BY <2>1, <2>2, TwoByteRowsFit DEF Store, Wr, Row
<1>3. TableFits(2, On({\hB6, \hB7, \hBE, \hBF}, Store(<<Gv, Ev>>)))
  <2>1. Class(2, {\hB6, \hB7, \hBE, \hBF}, "none", "modrm")
    BY DEF Class, ModRMOf, Groups, Wanted, ImmediateBytes, KindBytes, Branches,
       TakesModRM, Fence, Saves, NoModRM_2, Byte_2, Full_2, X86_ModRM_2,
       LockPrefix_GR_2
  <2>2. Operands(<<Gv, Ev>>, "none", "modrm")
    BY Operands_modrm
  <2> QED BY <2>1, <2>2, TwoByteRowsFit DEF Store, Wr, Row
<1>4. TableFits(2, On({\hB9}, Group(X86_Group_11)))
  <2>1. ASSUME NEW b \in {\hB9} PROVE GroupFits(2, b, X86_Group_11)
    <3>1. GroupClass(2, b, 0 .. 7, "none", "opcode")
      BY DEF GroupClass, Wanted, ImmediateBytes, KindBytes, Branches,
         TakesModRM, Fence, Saves, NoModRM_2, Byte_2, Full_2
    <3>2. Operands(<< >>, "none", "opcode")
      BY Operands_opcode
    <3> QED BY <3>1, <3>2, GroupRowsFit DEF Data, Row, X86_Group_11
  <2>2. \A b \in {\hB9} : b \in ModRMOf(2) <=> TakesModRM(2, b)
    BY DEF ModRMOf, TakesModRM, X86_ModRM_2, NoModRM_2
  <2>3. \A b \in {\hB9} : b \in Groups(2) => TakesModRM(2, b)
    BY DEF Groups, TakesModRM, LockPrefix_GR_2, NoModRM_2
  <2> QED BY <2>1, <2>2, <2>3, GroupsFit
<1>5. TableFits(2, On({\hBA}, Group(X86_Group_8)))
  <2>1. ASSUME NEW b \in {\hBA} PROVE GroupFits(2, b, X86_Group_8)
    <3>1. GroupClass(2, b, 4 .. 7, "b", "modrm")
      BY DEF GroupClass, Wanted, ImmediateBytes, KindBytes, Branches,
         TakesModRM, Fence, Saves, NoModRM_2, Byte_2, Full_2
    <3>2. Operands(<<Ev, Ib>>, "b", "modrm")
      BY Operands_b
    <3> QED BY <3>1, <3>2, GroupRowsFit DEF Store, Wr, Row, X86_Group_8
  <2>2. \A b \in {\hBA} : b \in ModRMOf(2) <=> TakesModRM(2, b)
    BY DEF ModRMOf, TakesModRM, X86_ModRM_2, NoModRM_2
  <2>3. \A b \in {\hBA} : b \in Groups(2) => TakesModRM(2, b)
    BY DEF Groups, TakesModRM, LockPrefix_GR_2, NoModRM_2
  <2> QED BY <2>1, <2>2, <2>3, GroupsFit
<1>6. TableFits(2, On({\hBC, \hBD}, Data(<<Gv, Ev>>)))
  <2>1. Class(2, {\hBC, \hBD}, "none", "modrm")
    BY DEF Class, ModRMOf, Groups, Wanted, ImmediateBytes, KindBytes, Branches,
       TakesModRM, Fence, Saves, NoModRM_2, Byte_2, Full_2, X86_ModRM_2,
       LockPrefix_GR_2
  <2>2. Operands(<<Gv, Ev>>, "none", "modrm")
    BY Operands_modrm
  <2> QED BY <2>1, <2>2, TwoByteRowsFit DEF Data, Row
<1> QED BY BothFit, <1>1, <1>2, <1>3, <1>4, <1>5, <1>6 DEF Opcodes_2_B0_BF

(* The rows of Opcodes_2_C0_FF suit their opcodes.                       *)
LEMMA Opcodes_2_C0_FF_Fit == TableFits(2, Opcodes_2_C0_FF)
<1>1. TableFits(2, On({\hC0, \hC1}, Store(<<Ev, Gv>>)))
  <2>1. Class(2, {\hC0, \hC1}, "none", "modrm")
    BY DEF Class, ModRMOf, Groups, Wanted, ImmediateBytes, KindBytes, Branches,
       TakesModRM, Fence, Saves, NoModRM_2, Byte_2, Full_2, X86_ModRM_2,
       LockPrefix_GR_2
  <2>2. Operands(<<Ev, Gv>>, "none", "modrm")
    BY Operands_modrm
  <2> QED BY <2>1, <2>2, TwoByteRowsFit DEF Store, Wr, Row
<1>2. TableFits(2, On({\hC2, \hC6}, Sse(<<Vo, Wo, Ib>>)))
  <2>1. Class(2, {\hC2, \hC6}, "b", "modrm")
    BY DEF Class, ModRMOf, Groups, Wanted, ImmediateBytes, KindBytes, Branches,
       TakesModRM, Fence, Saves, NoModRM_2, Byte_2, Full_2, X86_ModRM_2,
       LockPrefix_GR_2
  <2>2. Operands(<<Vo, Wo, Ib>>, "b", "modrm")
    BY Operands_b
  <2> QED BY <2>1, <2>2, TwoByteRowsFit DEF Sse, Row
<1>3. TableFits(2, On({\hC3}, SseStore(<<Mv, Gv>>)))
  <2>1. Class(2, {\hC3}, "none", "modrm")
    BY DEF Class, ModRMOf, Groups, Wanted, ImmediateBytes, KindBytes, Branches,
       TakesModRM, Fence, Saves, NoModRM_2, Byte_2, Full_2, X86_ModRM_2,
       LockPrefix_GR_2
  <2>2. Operands(<<Mv, Gv>>, "none", "modrm")
    BY Operands_modrm
  <2> QED BY <2>1, <2>2, TwoByteRowsFit DEF SseStore, Wr, Row
<1>4. TableFits(2, On({\hC4}, Sse(<<Pq, Ev, Ib>>)))
  <2>1. Class(2, {\hC4}, "b", "modrm")
    BY DEF Class, ModRMOf, Groups, Wanted, ImmediateBytes, KindBytes, Branches,
       TakesModRM, Fence, Saves, NoModRM_2, Byte_2, Full_2, X86_ModRM_2,
       LockPrefix_GR_2
  <2>2. Operands(<<Pq, Ev, Ib>>, "b", "modrm")
    BY Operands_b
  <2> QED BY <2>1, <2>2, TwoByteRowsFit DEF Sse, Row
<1>5. TableFits(2, On({\hC5}, Sse(<<Gv, PRq, Ib>>)))
  <2>1. Class(2, {\hC5}, "b", "modrm")
    BY DEF Class, ModRMOf, Groups, Wanted, ImmediateBytes, KindBytes, Branches,
       TakesModRM, Fence, Saves, NoModRM_2, Byte_2, Full_2, X86_ModRM_2,
       LockPrefix_GR_2
  <2>2. Operands(<<Gv, PRq, Ib>>, "b", "modrm")
    BY Operands_b
  <2> QED BY <2>1, <2>2, TwoByteRowsFit DEF Sse, Row
<1>6. TableFits(2, On({\hC7}, Group(X86_Group_9)))
  <2>1. ASSUME NEW b \in {\hC7} PROVE GroupFits(2, b, X86_Group_9)
    <3>1. GroupClass(2, b, {1}, "none", "modrm")
      BY DEF GroupClass, Wanted, ImmediateBytes, KindBytes, Branches,
         TakesModRM, Fence, Saves, NoModRM_2, Byte_2, Full_2
    <3>2. Operands(<<Mv, Reg, Reg>>, "none", "modrm")
      BY Operands_modrm
    <3> QED BY <3>1, <3>2, GroupRowsFit DEF Store, Wr, Row, X86_Group_9
  <2>2. \A b \in {\hC7} : b \in ModRMOf(2) <=> TakesModRM(2, b)
    BY DEF ModRMOf, TakesModRM, X86_ModRM_2, NoModRM_2
  <2>3. \A b \in {\hC7} : b \in Groups(2) => TakesModRM(2, b)
    BY DEF Groups, TakesModRM, LockPrefix_GR_2, NoModRM_2
  <2> QED BY <2>1, <2>2, <2>3, GroupsFit
<1>7. TableFits(2, On(\hC8 .. \hCF, Store(<<Reg>>)))
  <2>1. Class(2, \hC8 .. \hCF, "none", "opcode")
    BY DEF Class, ModRMOf, Groups, Wanted, ImmediateBytes, KindBytes, Branches,
       TakesModRM, Fence, Saves, NoModRM_2, Byte_2, Full_2, X86_ModRM_2,
       LockPrefix_GR_2
  <2>2. Operands(<<Reg>>, "none", "opcode")
    BY Operands_opcode
  <2> QED BY <2>1, <2>2, TwoByteRowsFit DEF Store, Wr, Row
<1>8. TableFits(2, On({\hD7}, Sse(<<Gv, PRq>>)))
  <2>1. Class(2, {\hD7}, "none", "modrm")
    BY DEF Class, ModRMOf, Groups, Wanted, ImmediateBytes, KindBytes, Branches,
       TakesModRM, Fence, Saves, NoModRM_2, Byte_2, Full_2, X86_ModRM_2,
       LockPrefix_GR_2
  <2>2. Operands(<<Gv, PRq>>, "none", "modrm")
    BY Operands_mmx
  <2> QED BY <2>1, <2>2, TwoByteRowsFit DEF Sse, Row
<1>9. TableFits(2, On({\hE7}, SseStore(<<Mv, Pq>>)))
  <2>1. Class(2, {\hE7}, "none", "modrm")
    BY DEF Class, ModRMOf, Groups, Wanted, ImmediateBytes, KindBytes, Branches,
       TakesModRM, Fence, Saves, NoModRM_2, Byte_2, Full_2, X86_ModRM_2,
       LockPrefix_GR_2
  <2>2. Operands(<<Mv, Pq>>, "none", "modrm")
    BY Operands_mmx
  <2> QED BY <2>1, <2>2, TwoByteRowsFit DEF SseStore, Wr, Row
<1>10. TableFits(2, On({\hF7}, Sse(<<Pq, PRq>>)))
  <2>1. Class(2, {\hF7}, "none", "modrm")
    BY DEF Class, ModRMOf, Groups, Wanted, ImmediateBytes, KindBytes, Branches,
       TakesModRM, Fence, Saves, NoModRM_2, Byte_2, Full_2, X86_ModRM_2,
       LockPrefix_GR_2
  <2>2. Operands(<<Pq, PRq>>, "none", "modrm")
    BY Operands_mmx
  <2> QED BY <2>1, <2>2, TwoByteRowsFit DEF Sse, Row
<1>11. TableFits(2,
          On({\hD4, \hDA, \hDE, \hE0, \hE3, \hE4, \hEA, \hEE, \hF4, \hF6, \hFB},
          Sse(<<Pq, Qq>>)))
  <2>1. Class(2, {\hD4, \hDA, \hDE, \hE0, \hE3, \hE4, \hEA, \hEE, \hF4, \hF6,
           \hFB}, "none", "modrm")
    BY DEF Class, ModRMOf, Groups, Wanted, ImmediateBytes, KindBytes, Branches,
       TakesModRM, Fence, Saves, NoModRM_2, Byte_2, Full_2, X86_ModRM_2,
       LockPrefix_GR_2
  <2>2. Operands(<<Pq, Qq>>, "none", "modrm")
    BY Operands_mmx
  <2> QED BY <2>1, <2>2, TwoByteRowsFit DEF Sse, Row
<1>12. TableFits(2,
          On({\hD1, \hD2, \hD3, \hD5, \hD8, \hD9, \hDB, \hDC, \hDD, \hDF, \hE1,
          \hE2, \hE5, \hE8, \hE9, \hEB, \hEC, \hED, \hEF, \hF1, \hF2, \hF3, \hF5,
          \hF8, \hF9, \hFA, \hFC, \hFD, \hFE}, Mmx(<<Pq, Qq>>)))
  <2>1. Class(2, {\hD1, \hD2, \hD3, \hD5, \hD8, \hD9, \hDB, \hDC, \hDD, \hDF, \hE1,
           \hE2, \hE5, \hE8, \hE9, \hEB, \hEC, \hED, \hEF, \hF1, \hF2, \hF3, \hF5,
           \hF8, \hF9, \hFA, \hFC, \hFD, \hFE}, "none", "modrm")
    BY DEF Class, ModRMOf, Groups, Wanted, ImmediateBytes, KindBytes, Branches,
       TakesModRM, Fence, Saves, NoModRM_2, Byte_2, Full_2, X86_ModRM_2,
       LockPrefix_GR_2
  <2>2. Operands(<<Pq, Qq>>, "none", "modrm")
    BY Operands_mmx
  <2> QED BY <2>1, <2>2, TwoByteRowsFit DEF Mmx, Row
<1> QED BY BothFit, <1>1, <1>2, <1>3, <1>4, <1>5, <1>6, <1>7, <1>8, <1>9,
    <1>10, <1>11, <1>12 DEF Opcodes_2_C0_FF

(* The rows of SSE_66_00_2F suit their opcodes.                          *)
LEMMA SSE_66_00_2F_Fit == SseTableFits(SSE_66_00_2F)
<1>1. SseTableFits(On({\h10, \h14, \h15, \h28, \h2E, \h2F}, Sse(<<Vo, Wo>>)))
  <2>1. SseClass({\h10, \h14, \h15, \h28, \h2E, \h2F}, "none", "modrm")
    BY DEF SseClass, Wanted, ImmediateBytes, KindBytes, Branches, TakesModRM,
       Fence, Saves, NoModRM_2, Byte_2, Full_2, Groups, LockPrefix_GR_2, Full_2
  <2>2. Operands(<<Vo, Wo>>, "none", "modrm")
    BY Operands_xmm
  <2> QED BY <2>1, <2>2, SseRowsFit DEF Sse, Row
<1>2. SseTableFits(On({\h11, \h29}, SseStore(<<Wo, Vo>>)))
  <2>1. SseClass({\h11, \h29}, "none", "modrm")
    BY DEF SseClass, Wanted, ImmediateBytes, KindBytes, Branches, TakesModRM,
       Fence, Saves, NoModRM_2, Byte_2, Full_2, Groups, LockPrefix_GR_2, Full_2
  <2>2. Operands(<<Wo, Vo>>, "none", "modrm")
    BY Operands_xmm
  <2> QED BY <2>1, <2>2, SseRowsFit DEF SseStore, Wr, Row
<1>3. SseTableFits(On({\h12, \h16}, Sse(<<Vo, Mv>>)))
  <2>1. SseClass({\h12, \h16}, "none", "modrm")
    BY DEF SseClass, Wanted, ImmediateBytes, KindBytes, Branches, TakesModRM,
       Fence, Saves, NoModRM_2, Byte_2, Full_2, Groups, LockPrefix_GR_2, Full_2
  <2>2. Operands(<<Vo, Mv>>, "none", "modrm")
    BY Operands_xmm
  <2> QED BY <2>1, <2>2, SseRowsFit DEF Sse, Row
<1>4. SseTableFits(On({\h13, \h17, \h2B}, SseStore(<<Mv, Vo>>)))
  <2>1. SseClass({\h13, \h17, \h2B}, "none", "modrm")
    BY DEF SseClass, Wanted, ImmediateBytes, KindBytes, Branches, TakesModRM,
       Fence, Saves, NoModRM_2, Byte_2, Full_2, Groups, LockPrefix_GR_2, Full_2
  <2>2. Operands(<<Mv, Vo>>, "none", "modrm")
    BY Operands_xmm
  <2> QED BY <2>1, <2>2, SseRowsFit DEF SseStore, Wr, Row
<1>5. SseTableFits(On({\h2A}, Sse(<<Vo, Qq>>)))
  <2>1. SseClass({\h2A}, "none", "modrm")
    BY DEF SseClass, Wanted, ImmediateBytes, KindBytes, Branches, TakesModRM,
       Fence, Saves, NoModRM_2, Byte_2, Full_2, Groups, LockPrefix_GR_2, Full_2
  <2>2. Operands(<<Vo, Qq>>, "none", "modrm")
    BY Operands_xmm
  <2> QED BY <2>1, <2>2, SseRowsFit DEF Sse, Row
<1>6. SseTableFits(On({\h2C, \h2D}, Sse(<<Pq, Wo>>)))
  <2>1. SseClass({\h2C, \h2D}, "none", "modrm")
    BY DEF SseClass, Wanted, ImmediateBytes, KindBytes, Branches, TakesModRM,
       Fence, Saves, NoModRM_2, Byte_2, Full_2, Groups, LockPrefix_GR_2, Full_2
  <2>2. Operands(<<Pq, Wo>>, "none", "modrm")
    BY Operands_xmm
  <2> QED BY <2>1, <2>2, SseRowsFit DEF Sse, Row
<1> QED BY BothSseFit, <1>1, <1>2, <1>3, <1>4, <1>5, <1>6 DEF SSE_66_00_2F

(* The rows of SSE_66_50_7F suit their opcodes.                          *)
LEMMA SSE_66_50_7F_Fit == SseTableFits(SSE_66_50_7F)
<1>1. SseTableFits(On({\h51, \h6F, \h7C, \h7D, \h7F} \cup (\h54 .. \h6D)
         \cup (\h74 .. \h76), Sse(<<Vo, Wo>>)))
  <2>1. SseClass({\h51, \h6F, \h7C, \h7D, \h7F} \cup (\h54 .. \h6D)
           \cup (\h74 .. \h76), "none", "modrm")
    BY DEF SseClass, Wanted, ImmediateBytes, KindBytes, Branches, TakesModRM,
       Fence, Saves, NoModRM_2, Byte_2, Full_2, Groups, LockPrefix_GR_2, Full_2
  <2>2. Operands(<<Vo, Wo>>, "none", "modrm")
    BY Operands_xmm
  <2> QED BY <2>1, <2>2, SseRowsFit DEF Sse, Row
<1>2. SseTableFits(On({\h50}, Sse(<<Gv, VRo>>)))
  <2>1. SseClass({\h50}, "none", "modrm")
    BY DEF SseClass, Wanted, ImmediateBytes, KindBytes, Branches, TakesModRM,
       Fence, Saves, NoModRM_2, Byte_2, Full_2, Groups, LockPrefix_GR_2, Full_2
  <2>2. Operands(<<Gv, VRo>>, "none", "modrm")
    BY Operands_xmm
  <2> QED BY <2>1, <2>2, SseRowsFit DEF Sse, Row
<1>3. SseTableFits(On({\h6E}, Sse(<<Vo, Ev>>)))
  <2>1. SseClass({\h6E}, "none", "modrm")
    BY DEF SseClass, Wanted, ImmediateBytes, KindBytes, Branches, TakesModRM,
       Fence, Saves, NoModRM_2, Byte_2, Full_2, Groups, LockPrefix_GR_2, Full_2
  <2>2. Operands(<<Vo, Ev>>, "none", "modrm")
    BY Operands_xmm
  <2> QED BY <2>1, <2>2, SseRowsFit DEF Sse, Row
<1>4. SseTableFits(On({\h7E}, SseStore(<<Ev, Vo>>)))
  <2>1. SseClass({\h7E}, "none", "modrm")
    BY DEF SseClass, Wanted, ImmediateBytes, KindBytes, Branches, TakesModRM,
       Fence, Saves, NoModRM_2, Byte_2, Full_2, Groups, LockPrefix_GR_2, Full_2
  <2>2. Operands(<<Ev, Vo>>, "none", "modrm")
    BY Operands_xmm
  <2> QED BY <2>1, <2>2, SseRowsFit DEF SseStore, Wr, Row
<1>5. SseTableFits(On({\h70}, Sse(<<Vo, Wo, Ib>>)))
  <2>1. SseClass({\h70}, "b", "modrm")
    BY DEF SseClass, Wanted, ImmediateBytes, KindBytes, Branches, TakesModRM,
       Fence, Saves, NoModRM_2, Byte_2, Full_2, Groups, LockPrefix_GR_2, Full_2
  <2>2. Operands(<<Vo, Wo, Ib>>, "b", "modrm")
    BY Operands_b
  <2> QED BY <2>1, <2>2, SseRowsFit DEF Sse, Row
<1>6. SseTableFits(On({\h71, \h72}, Group(Group_13_14("SSE", VRo))))
  <2>1. ASSUME NEW b \in {\h71, \h72} PROVE GroupFits(2, b, Group_13_14("SSE", VRo))
    <3>1. GroupClass(2, b, {2, 4, 6}, "b", "modrm")
      BY DEF GroupClass, Wanted, ImmediateBytes, KindBytes, Branches,
         TakesModRM, Fence, Saves, NoModRM_2, Byte_2, Full_2
    <3>2. Operands(<<VRo, Ib>>, "b", "modrm")
      BY Operands_b
    <3> QED BY <3>1, <3>2, GroupRowsFit DEF Row, Group_13_14
  <2>2. \A b \in {\h71, \h72} : b \notin Full_2 \cup {\h0F, \hAE} \cup Groups(2)
    BY DEF Groups, LockPrefix_GR_2, Full_2
  <2>3. \A y \in DOMAIN Group_13_14("SSE", VRo) :
           Group_13_14("SSE", VRo)[y].type = "SSE"
    BY DEF Group_13_14, On, Row
  <2> QED BY <2>1, <2>2, <2>3, SseGroupsFit
<1>7. SseTableFits(On({\h73}, Group(Group_15("SSE", VRo))))
  <2>1. ASSUME NEW b \in {\h73} PROVE GroupFits(2, b, Group_15("SSE", VRo))
    <3>1. GroupClass(2, b, {2, 3, 6, 7}, "b", "modrm")
      BY DEF GroupClass, Wanted, ImmediateBytes, KindBytes, Branches,
         TakesModRM, Fence, Saves, NoModRM_2, Byte_2, Full_2
    <3>2. Operands(<<VRo, Ib>>, "b", "modrm")
      BY Operands_b
    <3> QED BY <3>1, <3>2, GroupRowsFit DEF Row, Group_15
  <2>2. \A b \in {\h73} : b \notin Full_2 \cup {\h0F, \hAE} \cup Groups(2)
    BY DEF Groups, LockPrefix_GR_2, Full_2
  <2>3. \A y \in DOMAIN Group_15("SSE", VRo) : Group_15("SSE", VRo)[y].type = "SSE"
    BY DEF Group_15, On, Row
  <2> QED BY <2>1, <2>2, <2>3, SseGroupsFit
<1> QED BY BothSseFit, <1>1, <1>2, <1>3, <1>4, <1>5, <1>6, <1>7 DEF
    SSE_66_50_7F

(* The rows of SSE_66_80_FF suit their opcodes.                          *)
LEMMA SSE_66_80_FF_Fit == SseTableFits(SSE_66_80_FF)
<1>1. SseTableFits(On({\hC2, \hC6}, Sse(<<Vo, Wo, Ib>>)))
  <2>1. SseClass({\hC2, \hC6}, "b", "modrm")
    BY DEF SseClass, Wanted, ImmediateBytes, KindBytes, Branches, TakesModRM,
       Fence, Saves, NoModRM_2, Byte_2, Full_2, Groups, LockPrefix_GR_2, Full_2
  <2>2. Operands(<<Vo, Wo, Ib>>, "b", "modrm")
    BY Operands_b
  <2> QED BY <2>1, <2>2, SseRowsFit DEF Sse, Row
<1>2. SseTableFits(On({\hC4}, Sse(<<Vo, Ev, Ib>>)))
  <2>1. SseClass({\hC4}, "b", "modrm")
    BY DEF SseClass, Wanted, ImmediateBytes, KindBytes, Branches, TakesModRM,
       Fence, Saves, NoModRM_2, Byte_2, Full_2, Groups, LockPrefix_GR_2, Full_2
  <2>2. Operands(<<Vo, Ev, Ib>>, "b", "modrm")
    BY Operands_b
  <2> QED BY <2>1, <2>2, SseRowsFit DEF Sse, Row
<1>3. SseTableFits(On({\hC5}, Sse(<<Gv, VRo, Ib>>)))
  <2>1. SseClass({\hC5}, "b", "modrm")
    BY DEF SseClass, Wanted, ImmediateBytes, KindBytes, Branches, TakesModRM,
       Fence, Saves, NoModRM_2, Byte_2, Full_2, Groups, LockPrefix_GR_2, Full_2
  <2>2. Operands(<<Gv, VRo, Ib>>, "b", "modrm")
    BY Operands_b
  <2> QED BY <2>1, <2>2, SseRowsFit DEF Sse, Row
<1>4. SseTableFits(On({\hD6}, SseStore(<<Wo, Vo>>)))
  <2>1. SseClass({\hD6}, "none", "modrm")
    BY DEF SseClass, Wanted, ImmediateBytes, KindBytes, Branches, TakesModRM,
       Fence, Saves, NoModRM_2, Byte_2, Full_2, Groups, LockPrefix_GR_2, Full_2
  <2>2. Operands(<<Wo, Vo>>, "none", "modrm")
    BY Operands_xmm
  <2> QED BY <2>1, <2>2, SseRowsFit DEF SseStore, Wr, Row
<1>5. SseTableFits(On({\hD7}, Sse(<<Gv, VRo>>)))
  <2>1. SseClass({\hD7}, "none", "modrm")
    BY DEF SseClass, Wanted, ImmediateBytes, KindBytes, Branches, TakesModRM,
       Fence, Saves, NoModRM_2, Byte_2, Full_2, Groups, LockPrefix_GR_2, Full_2
  <2>2. Operands(<<Gv, VRo>>, "none", "modrm")
    BY Operands_xmm
  <2> QED BY <2>1, <2>2, SseRowsFit DEF Sse, Row
<1>6. SseTableFits(On({\hE7}, SseStore(<<Mv, Vo>>)))
  <2>1. SseClass({\hE7}, "none", "modrm")
    BY DEF SseClass, Wanted, ImmediateBytes, KindBytes, Branches, TakesModRM,
       Fence, Saves, NoModRM_2, Byte_2, Full_2, Groups, LockPrefix_GR_2, Full_2
  <2>2. Operands(<<Mv, Vo>>, "none", "modrm")
    BY Operands_xmm
  <2> QED BY <2>1, <2>2, SseRowsFit DEF SseStore, Wr, Row
<1>7. SseTableFits(On({\hF7}, Sse(<<Vo, VRo>>)))
  <2>1. SseClass({\hF7}, "none", "modrm")
    BY DEF SseClass, Wanted, ImmediateBytes, KindBytes, Branches, TakesModRM,
       Fence, Saves, NoModRM_2, Byte_2, Full_2, Groups, LockPrefix_GR_2, Full_2
  <2>2. Operands(<<Vo, VRo>>, "none", "modrm")
    BY Operands_xmm
  <2> QED BY <2>1, <2>2, SseRowsFit DEF Sse, Row
<1>8. SseTableFits(On((\hD0 .. \hFE) \ {\hF0}, Sse(<<Vo, Wo>>)))
  <2>1. SseClass((\hD0 .. \hFE) \ {\hF0}, "none", "modrm")
    BY DEF SseClass, Wanted, ImmediateBytes, KindBytes, Branches, TakesModRM,
       Fence, Saves, NoModRM_2, Byte_2, Full_2, Groups, LockPrefix_GR_2, Full_2
  <2>2. Operands(<<Vo, Wo>>, "none", "modrm")
    BY Operands_xmm
  <2> QED BY <2>1, <2>2, SseRowsFit DEF Sse, Row
<1> QED BY BothSseFit, <1>1, <1>2, <1>3, <1>4, <1>5, <1>6, <1>7, <1>8 DEF
    SSE_66_80_FF

(* The rows of SSE_F2_00_7F suit their opcodes.                          *)
LEMMA SSE_F2_00_7F_Fit == SseTableFits(SSE_F2_00_7F)
<1>1. SseTableFits(On({\h10, \h12, \h51, \h58, \h59, \h5A, \h5C, \h5D, \h5E, \h5F,
         \h6F, \h7C, \h7D}, Sse(<<Vo, Wo>>)))
  <2>1. SseClass({\h10, \h12, \h51, \h58, \h59, \h5A, \h5C, \h5D, \h5E, \h5F, \h6F,
           \h7C, \h7D}, "none", "modrm")
    BY DEF SseClass, Wanted, ImmediateBytes, KindBytes, Branches, TakesModRM,
       Fence, Saves, NoModRM_2, Byte_2, Full_2, Groups, LockPrefix_GR_2, Full_2
  <2>2. Operands(<<Vo, Wo>>, "none", "modrm")
    BY Operands_xmm
  <2> QED BY <2>1, <2>2, SseRowsFit DEF Sse, Row
<1>2. SseTableFits(On({\h11}, SseStore(<<Wo, Vo>>)))
  <2>1. SseClass({\h11}, "none", "modrm")
    BY DEF SseClass, Wanted, ImmediateBytes, KindBytes, Branches, TakesModRM,
       Fence, Saves, NoModRM_2, Byte_2, Full_2, Groups, LockPrefix_GR_2, Full_2
  <2>2. Operands(<<Wo, Vo>>, "none", "modrm")
    BY Operands_xmm
  <2> QED BY <2>1, <2>2, SseRowsFit DEF SseStore, Wr, Row
<1>3. SseTableFits(On({\h2A}, Sse(<<Vo, Ev>>)))
  <2>1. SseClass({\h2A}, "none", "modrm")
    BY DEF SseClass, Wanted, ImmediateBytes, KindBytes, Branches, TakesModRM,
       Fence, Saves, NoModRM_2, Byte_2, Full_2, Groups, LockPrefix_GR_2, Full_2
  <2>2. Operands(<<Vo, Ev>>, "none", "modrm")
    BY Operands_xmm
  <2> QED BY <2>1, <2>2, SseRowsFit DEF Sse, Row
<1>4. SseTableFits(On({\h2C, \h2D}, Sse(<<Gv, Wo>>)))
  <2>1. SseClass({\h2C, \h2D}, "none", "modrm")
    BY DEF SseClass, Wanted, ImmediateBytes, KindBytes, Branches, TakesModRM,
       Fence, Saves, NoModRM_2, Byte_2, Full_2, Groups, LockPrefix_GR_2, Full_2
  <2>2. Operands(<<Gv, Wo>>, "none", "modrm")
    BY Operands_xmm
  <2> QED BY <2>1, <2>2, SseRowsFit DEF Sse, Row
<1>5. SseTableFits(On({\h70}, Sse(<<Vo, Wo, Ib>>)))
  <2>1. SseClass({\h70}, "b", "modrm")
    BY DEF SseClass, Wanted, ImmediateBytes, KindBytes, Branches, TakesModRM,
       Fence, Saves, NoModRM_2, Byte_2, Full_2, Groups, LockPrefix_GR_2, Full_2
  <2>2. Operands(<<Vo, Wo, Ib>>, "b", "modrm")
    BY Operands_b
  <2> QED BY <2>1, <2>2, SseRowsFit DEF Sse, Row
<1> QED BY BothSseFit, <1>1, <1>2, <1>3, <1>4, <1>5 DEF SSE_F2_00_7F

(* The rows of SSE_F2_80_FF suit their opcodes.                          *)
LEMMA SSE_F2_80_FF_Fit == SseTableFits(SSE_F2_80_FF)
<1>1. SseTableFits(On({\hC2}, Sse(<<Vo, Wo, Ib>>)))
  <2>1. SseClass({\hC2}, "b", "modrm")
    BY DEF SseClass, Wanted, ImmediateBytes, KindBytes, Branches, TakesModRM,
       Fence, Saves, NoModRM_2, Byte_2, Full_2, Groups, LockPrefix_GR_2, Full_2
  <2>2. Operands(<<Vo, Wo, Ib>>, "b", "modrm")
    BY Operands_b
  <2> QED BY <2>1, <2>2, SseRowsFit DEF Sse, Row
<1>2. SseTableFits(On({\hD0, \hE6}, Sse(<<Vo, Wo>>)))
  <2>1. SseClass({\hD0, \hE6}, "none", "modrm")
    BY DEF SseClass, Wanted, ImmediateBytes, KindBytes, Branches, TakesModRM,
       Fence, Saves, NoModRM_2, Byte_2, Full_2, Groups, LockPrefix_GR_2, Full_2
  <2>2. Operands(<<Vo, Wo>>, "none", "modrm")
    BY Operands_xmm
  <2> QED BY <2>1, <2>2, SseRowsFit DEF Sse, Row
<1>3. SseTableFits(On({\hD6}, Sse(<<Pq, VRo>>)))
  <2>1. SseClass({\hD6}, "none", "modrm")
    BY DEF SseClass, Wanted, ImmediateBytes, KindBytes, Branches, TakesModRM,
       Fence, Saves, NoModRM_2, Byte_2, Full_2, Groups, LockPrefix_GR_2, Full_2
  <2>2. Operands(<<Pq, VRo>>, "none", "modrm")
    BY Operands_xmm
  <2> QED BY <2>1, <2>2, SseRowsFit DEF Sse, Row
<1>4. SseTableFits(On({\hF0}, Sse(<<Vo, Mv>>)))
  <2>1. SseClass({\hF0}, "none", "modrm")
    BY DEF SseClass, Wanted, ImmediateBytes, KindBytes, Branches, TakesModRM,
       Fence, Saves, NoModRM_2, Byte_2, Full_2, Groups, LockPrefix_GR_2, Full_2
  <2>2. Operands(<<Vo, Mv>>, "none", "modrm")
    BY Operands_xmm
  <2> QED BY <2>1, <2>2, SseRowsFit DEF Sse, Row
<1> QED BY BothSseFit, <1>1, <1>2, <1>3, <1>4 DEF SSE_F2_80_FF

(* The rows of SSE_F3_00_7F suit their opcodes.                          *)
LEMMA SSE_F3_00_7F_Fit == SseTableFits(SSE_F3_00_7F)
<1>1. SseTableFits(On({\h10, \h12, \h16, \h51, \h52, \h53, \h6F, \h7E}
         \cup (\h58 .. \h5F), Sse(<<Vo, Wo>>)))
  <2>1. SseClass({\h10, \h12, \h16, \h51, \h52, \h53, \h6F, \h7E}
           \cup (\h58 .. \h5F), "none", "modrm")
    BY DEF SseClass, Wanted, ImmediateBytes, KindBytes, Branches, TakesModRM,
       Fence, Saves, NoModRM_2, Byte_2, Full_2, Groups, LockPrefix_GR_2, Full_2
  <2>2. Operands(<<Vo, Wo>>, "none", "modrm")
    BY Operands_xmm
  <2> QED BY <2>1, <2>2, SseRowsFit DEF Sse, Row
<1>2. SseTableFits(On({\h11, \h7F}, SseStore(<<Wo, Vo>>)))
  <2>1. SseClass({\h11, \h7F}, "none", "modrm")
    BY DEF SseClass, Wanted, ImmediateBytes, KindBytes, Branches, TakesModRM,
       Fence, Saves, NoModRM_2, Byte_2, Full_2, Groups, LockPrefix_GR_2, Full_2
  <2>2. Operands(<<Wo, Vo>>, "none", "modrm")
    BY Operands_xmm
  <2> QED BY <2>1, <2>2, SseRowsFit DEF SseStore, Wr, Row
<1>3. SseTableFits(On({\h2A}, Sse(<<Vo, Ev>>)))
  <2>1. SseClass({\h2A}, "none", "modrm")
    BY DEF SseClass, Wanted, ImmediateBytes, KindBytes, Branches, TakesModRM,
       Fence, Saves, NoModRM_2, Byte_2, Full_2, Groups, LockPrefix_GR_2, Full_2
  <2>2. Operands(<<Vo, Ev>>, "none", "modrm")
    BY Operands_xmm
  <2> QED BY <2>1, <2>2, SseRowsFit DEF Sse, Row
<1>4. SseTableFits(On({\h2C, \h2D}, Sse(<<Gv, Wo>>)))
  <2>1. SseClass({\h2C, \h2D}, "none", "modrm")
    BY DEF SseClass, Wanted, ImmediateBytes, KindBytes, Branches, TakesModRM,
       Fence, Saves, NoModRM_2, Byte_2, Full_2, Groups, LockPrefix_GR_2, Full_2
  <2>2. Operands(<<Gv, Wo>>, "none", "modrm")
    BY Operands_xmm
  <2> QED BY <2>1, <2>2, SseRowsFit DEF Sse, Row
<1>5. SseTableFits(On({\h70}, Sse(<<Vo, Wo, Ib>>)))
  <2>1. SseClass({\h70}, "b", "modrm")
    BY DEF SseClass, Wanted, ImmediateBytes, KindBytes, Branches, TakesModRM,
       Fence, Saves, NoModRM_2, Byte_2, Full_2, Groups, LockPrefix_GR_2, Full_2
  <2>2. Operands(<<Vo, Wo, Ib>>, "b", "modrm")
    BY Operands_b
  <2> QED BY <2>1, <2>2, SseRowsFit DEF Sse, Row
<1> QED BY BothSseFit, <1>1, <1>2, <1>3, <1>4, <1>5 DEF SSE_F3_00_7F

(* The rows of SSE_F3_80_FF suit their opcodes.                          *)
LEMMA SSE_F3_80_FF_Fit == SseTableFits(SSE_F3_80_FF)
<1>1. SseTableFits(On({\hC2}, Sse(<<Vo, Wo, Ib>>)))
  <2>1. SseClass({\hC2}, "b", "modrm")
    BY DEF SseClass, Wanted, ImmediateBytes, KindBytes, Branches, TakesModRM,
       Fence, Saves, NoModRM_2, Byte_2, Full_2, Groups, LockPrefix_GR_2, Full_2
  <2>2. Operands(<<Vo, Wo, Ib>>, "b", "modrm")
    BY Operands_b
  <2> QED BY <2>1, <2>2, SseRowsFit DEF Sse, Row
<1>2. SseTableFits(On({\hD6}, Sse(<<Vo, PRq>>)))
  <2>1. SseClass({\hD6}, "none", "modrm")
    BY DEF SseClass, Wanted, ImmediateBytes, KindBytes, Branches, TakesModRM,
       Fence, Saves, NoModRM_2, Byte_2, Full_2, Groups, LockPrefix_GR_2, Full_2
  <2>2. Operands(<<Vo, PRq>>, "none", "modrm")
    BY Operands_xmm
  <2> QED BY <2>1, <2>2, SseRowsFit DEF Sse, Row
<1>3. SseTableFits(On({\hE6}, Sse(<<Vo, Wo>>)))
  <2>1. SseClass({\hE6}, "none", "modrm")
    BY DEF SseClass, Wanted, ImmediateBytes, KindBytes, Branches, TakesModRM,
       Fence, Saves, NoModRM_2, Byte_2, Full_2, Groups, LockPrefix_GR_2, Full_2
  <2>2. Operands(<<Vo, Wo>>, "none", "modrm")
    BY Operands_xmm
  <2> QED BY <2>1, <2>2, SseRowsFit DEF Sse, Row
<1> QED BY BothSseFit, <1>1, <1>2, <1>3 DEF SSE_F3_80_FF

(* All the tables.                                                         *)
THEOREM TablesFit == Tables
<1>1. TableFits(1, On({\h0F}, [kind |-> "twobyte"]))
  BY DEF TableFits, On, Fits, ModRMOf, TakesModRM, Groups, X86_ModRM_1, NoModRM_1,
     LockPrefix_GR_1
<1>2. TableFits(1, X86_Opcodes_1)
  BY <1>1, Arithmetic_Fit, Opcodes_1_40_5F_Fit, Opcodes_1_60_7F_Fit,
     Opcodes_1_80_9F_Fit, Opcodes_1_A0_BF_Fit, Opcodes_1_C0_D7_Fit,
     Opcodes_1_D8_DF_Fit, Opcodes_1_E0_EF_Fit, Opcodes_1_F0_FF_Fit, BothFit DEF
     X86_Opcodes_1
<1>3. TableFits(2, X86_Opcodes_2)
  BY Opcodes_2_00_07_Fit, Opcodes_2_08_1F_Fit, Opcodes_2_20_3F_Fit,
     Opcodes_2_40_5F_Fit, Opcodes_2_60_7F_Fit, Opcodes_2_80_AF_Fit,
     Opcodes_2_B0_BF_Fit, Opcodes_2_C0_FF_Fit, BothFit DEF X86_Opcodes_2
<1>4. SseTableFits(SSE_66_00_2F ++ SSE_66_50_7F ++ SSE_66_80_FF)
  BY SSE_66_00_2F_Fit, SSE_66_50_7F_Fit, SSE_66_80_FF_Fit, BothSseFit
<1>5. SseTableFits(SSE_F2_00_7F ++ SSE_F2_80_FF)
  BY SSE_F2_00_7F_Fit, SSE_F2_80_FF_Fit, BothSseFit
<1>6. SseTableFits(SSE_F3_00_7F ++ SSE_F3_80_FF)
  BY SSE_F3_00_7F_Fit, SSE_F3_80_FF_Fit, BothSseFit
<1>7. /\ X86_SSE[PREFIX_OPERAND_SIZE] = SSE_66_00_2F ++ SSE_66_50_7F ++ SSE_66_80_FF
      /\ X86_SSE[PREFIX_REPNE] = SSE_F2_00_7F ++ SSE_F2_80_FF
      /\ X86_SSE[PREFIX_REP] = SSE_F3_00_7F ++ SSE_F3_80_FF
  <2> DEFINE f66 == On({\h66}, SSE_66_00_2F ++ SSE_66_50_7F ++ SSE_66_80_FF)
             fF2 == On({\hF2}, SSE_F2_00_7F ++ SSE_F2_80_FF)
             fF3 == On({\hF3}, SSE_F3_00_7F ++ SSE_F3_80_FF)
  <2>1. f66 ++ fF2 = Merged(<<f66, fF2>>) /\ X86_SSE = Merged(<<f66 ++ fF2, fF3>>)
    BY DEF ++, X86_SSE
  <2>2. /\ DOMAIN f66 = {\h66} /\ DOMAIN fF2 = {\hF2} /\ DOMAIN fF3 = {\hF3}
        /\ f66[\h66] = SSE_66_00_2F ++ SSE_66_50_7F ++ SSE_66_80_FF
        /\ fF2[\hF2] = SSE_F2_00_7F ++ SSE_F2_80_FF
        /\ fF3[\hF3] = SSE_F3_00_7F ++ SSE_F3_80_FF
    BY DEF On
  <2> HIDE DEF f66, fF2, fF3
  <2>3. /\ DOMAIN (f66 ++ fF2) = {\h66, \hF2}
        /\ (f66 ++ fF2)[\h66] = f66[\h66] /\ (f66 ++ fF2)[\hF2] = fF2[\hF2]
    BY <2>1, <2>2 DEF Merged
  <2>4. /\ X86_SSE[\h66] = f66[\h66] /\ X86_SSE[\hF2] = fF2[\hF2]
        /\ X86_SSE[\hF3] = fF3[\hF3]
    BY <2>1, <2>2, <2>3 DEF Merged
  <2> QED BY <2>2, <2>4 DEF PREFIX_OPERAND_SIZE, PREFIX_REPNE, PREFIX_REP
<1> QED BY <1>2, <1>3, <1>4, <1>5, <1>6, <1>7 DEF Tables

----------------------------------------------------------------------------
(* Prefixes.                                                               *)

(* What the case of the switch for a prefix does to the instruction.       *)
LEMMA PrefixedFields ==
  ASSUME NEW row, NEW memory, NEW i \in Instructions(row, memory),
         NEW b \in LegacyPrefixes, i.OperandSize # 8
  PROVE  LET j == Prefixed(i, b)
         IN /\ j \in Instructions(row, memory)
            /\ j.Length = i.Length + 1 /\ j.Prefixes = Append(i.Prefixes, b)
            /\ j.rex = i.rex /\ j.OpcodeLength = i.OpcodeLength
            /\ j.HasDstAddressing = i.HasDstAddressing
            /\ j.Relative = i.Relative /\ j.failed = i.failed
            /\ i.AnomalyOccurred => j.AnomalyOccurred
            /\ j.HasLockPrefix <=> i.HasLockPrefix \/ b = PREFIX_LOCK
            /\ j.HasOperandSizePrefix <=> i.HasOperandSizePrefix \/ b = PREFIX_OPERAND_SIZE
            /\ j.HasAddressSizePrefix <=> i.HasAddressSizePrefix \/ b = PREFIX_ADDRESS_SIZE
            /\ j.OperandSize = IF b = PREFIX_OPERAND_SIZE /\ ~i.HasOperandSizePrefix
                               THEN 6 - i.OperandSize ELSE i.OperandSize
            /\ j.AddressSize = IF b # PREFIX_ADDRESS_SIZE \/ i.HasAddressSizePrefix
                               THEN i.AddressSize
                               ELSE IF i.AddressSize = 8 THEN 4 ELSE 6 - i.AddressSize
            /\ j.SSE_Prefix = IF b \in {PREFIX_OPERAND_SIZE, PREFIX_REPNE, PREFIX_REP}
                              THEN b ELSE i.SSE_Prefix
<1> DEFINE twice == i.AnomalyOccurred \/ OneOf(i.Prefixes, b)
           seen == [i EXCEPT !.Length = i.Length + 1, !.AnomalyOccurred = twice]
           s == CASE b \in {PREFIX_REPNE, PREFIX_REP} -> RepeatPrefix(seen, b)
                  [] b = PREFIX_OPERAND_SIZE          -> OperandSizePrefix(seen)
                  [] b = PREFIX_ADDRESS_SIZE          -> AddressSizePrefix(seen)
                  [] b = PREFIX_LOCK                  -> LockPrefix(seen)
                  [] OTHER                            -> SegmentPrefix(seen, b)
           long == s.AnomalyOccurred \/ Len(s.Prefixes) = X86_MAX_PREFIX_LENGTH
           j == [s EXCEPT !.AnomalyOccurred = long, !.Prefixes = Append(s.Prefixes, b)]
<1>1. /\ b \in Byte /\ PREFIX_REPNE = \hF2 /\ PREFIX_REP = \hF3 /\ PREFIX_LOCK = \hF0
      /\ PREFIX_OPERAND_SIZE = \h66 /\ PREFIX_ADDRESS_SIZE = \h67
  BY DEF LegacyPrefixes, Byte, PREFIX_REPNE, PREFIX_REP, PREFIX_LOCK,
         PREFIX_OPERAND_SIZE, PREFIX_ADDRESS_SIZE
<1>2. Prefixed(i, b) = j
  BY DEF Prefixed, Counted
<1>3. twice \in BOOLEAN /\ (i.AnomalyOccurred => twice)
  BY ZenonT(20)
<1>4. long \in BOOLEAN /\ (s.AnomalyOccurred => long)
  BY ZenonT(20)
<1>5. /\ b \in {PREFIX_REPNE, PREFIX_REP} => s = RepeatPrefix(seen, b)
      /\ b = PREFIX_OPERAND_SIZE => s = OperandSizePrefix(seen)
      /\ b = PREFIX_ADDRESS_SIZE => s = AddressSizePrefix(seen)
      /\ b = PREFIX_LOCK => s = LockPrefix(seen)
      /\ b \notin {PREFIX_REPNE, PREFIX_REP, PREFIX_OPERAND_SIZE, PREFIX_ADDRESS_SIZE,
                   PREFIX_LOCK} => s = SegmentPrefix(seen, b)
  <2>1. \A x \in {PREFIX_REPNE, PREFIX_REP} :
          x # PREFIX_OPERAND_SIZE /\ x # PREFIX_ADDRESS_SIZE /\ x # PREFIX_LOCK
    BY <1>1
  <2>2. /\ PREFIX_OPERAND_SIZE \notin {PREFIX_REPNE, PREFIX_REP}
        /\ PREFIX_ADDRESS_SIZE \notin {PREFIX_REPNE, PREFIX_REP}
        /\ PREFIX_LOCK \notin {PREFIX_REPNE, PREFIX_REP}
        /\ PREFIX_OPERAND_SIZE # PREFIX_ADDRESS_SIZE
              /\ PREFIX_OPERAND_SIZE # PREFIX_LOCK
        /\ PREFIX_ADDRESS_SIZE # PREFIX_LOCK
    BY <1>1
  <2> HIDE DEF seen
  <2> QED BY <2>1, <2>2, ZenonT(30)
<1> HIDE DEF twice, long, s
<1>6. seen \in Instructions(row, memory)
  <2>1. i.Length + 1 \in Nat
    BY DEF Instructions
  <2> QED BY <1>3, <2>1, ZenonT(30) DEF Instructions
<1>7. /\ seen.Length = i.Length + 1 /\ seen.Prefixes = i.Prefixes
      /\ i.AnomalyOccurred => seen.AnomalyOccurred
      /\ seen.rex = i.rex /\ seen.OpcodeLength = i.OpcodeLength
      /\ seen.HasDstAddressing = i.HasDstAddressing
      /\ seen.Relative = i.Relative /\ seen.failed = i.failed
      /\ seen.HasLockPrefix = i.HasLockPrefix
      /\ seen.HasOperandSizePrefix = i.HasOperandSizePrefix
      /\ seen.HasAddressSizePrefix = i.HasAddressSizePrefix
      /\ seen.OperandSize = i.OperandSize /\ seen.AddressSize = i.AddressSize
      /\ seen.SSE_Prefix = i.SSE_Prefix
  BY <1>3 DEF Instructions
<1> HIDE DEF seen
<1>8. s \in Instructions(row, memory)
  <2>1. /\ (seen.AnomalyOccurred \/ seen.Repeat \notin {0, b}) \in BOOLEAN
        /\ (seen.AnomalyOccurred \/ seen.HasOperandSizePrefix) \in BOOLEAN
        /\ (seen.AnomalyOccurred \/ seen.HasAddressSizePrefix) \in BOOLEAN
        /\ (seen.AnomalyOccurred \/ seen.HasSegmentOverridePrefix) \in BOOLEAN
        /\ (seen.AnomalyOccurred \/ seen.HasLockPrefix) \in BOOLEAN
    OBVIOUS
  <2>2. CASE b \in {PREFIX_REPNE, PREFIX_REP}
    BY <1>5, <1>6, <2>1, <2>2, ZenonT(30) DEF RepeatPrefix, Instructions
  <2>3. CASE b = PREFIX_OPERAND_SIZE
    <3>1. (IF seen.HasOperandSizePrefix THEN seen.OperandSize
           ELSE 6 - seen.OperandSize) \in {2, 4, 8}
      BY <1>6, <1>7 DEF Instructions
    <3> QED BY <1>5, <1>6, <2>1, <2>3, <3>1, ZenonT(30) DEF OperandSizePrefix,
       Instructions
  <2>4. CASE b = PREFIX_ADDRESS_SIZE
    <3>1. (IF seen.HasAddressSizePrefix THEN seen.AddressSize
           ELSE IF seen.AddressSize = 8 THEN 4 ELSE 6 - seen.AddressSize) \in {2, 4, 8}
      BY <1>6, <1>7 DEF Instructions
    <3> QED BY <1>5, <1>6, <2>1, <2>4, <3>1, ZenonT(30) DEF AddressSizePrefix,
       Instructions
  <2>5. CASE b = PREFIX_LOCK
    BY <1>5, <1>6, <2>1, <2>5, ZenonT(30) DEF LockPrefix, Instructions
  <2>6. CASE b \notin {PREFIX_REPNE, PREFIX_REP, PREFIX_OPERAND_SIZE,
           PREFIX_ADDRESS_SIZE,
                       PREFIX_LOCK}
    <3>1. s = SegmentPrefix(seen, b)
      BY <1>5, <2>6
    <3>2. CASE IS_AMD64 /\ b \notin PREFIX_SEGMENT_FS_GS
      BY <1>6, <2>1, <3>1, <3>2, ZenonT(30) DEF SegmentPrefix, Instructions
    <3>3. CASE ~(IS_AMD64 /\ b \notin PREFIX_SEGMENT_FS_GS)
      BY <1>6, <2>1, <3>1, <3>3, ZenonT(30) DEF SegmentPrefix, Instructions
    <3> QED BY <3>2, <3>3
  <2> QED BY <2>2, <2>3, <2>4, <2>5, <2>6
<1>9. LET k == s
      IN /\ k.Length = seen.Length /\ k.Prefixes = seen.Prefixes
         /\ k.rex = seen.rex /\ k.OpcodeLength = seen.OpcodeLength
         /\ k.HasDstAddressing = seen.HasDstAddressing
         /\ k.Relative = seen.Relative /\ k.failed = seen.failed
         /\ seen.AnomalyOccurred => k.AnomalyOccurred
         /\ k.HasLockPrefix <=> seen.HasLockPrefix \/ b = PREFIX_LOCK
         /\ k.HasOperandSizePrefix <=> seen.HasOperandSizePrefix \/ b = PREFIX_OPERAND_SIZE
         /\ k.HasAddressSizePrefix <=> seen.HasAddressSizePrefix \/ b = PREFIX_ADDRESS_SIZE
         /\ k.OperandSize = IF b = PREFIX_OPERAND_SIZE /\ ~seen.HasOperandSizePrefix
                            THEN 6 - seen.OperandSize ELSE seen.OperandSize
         /\ k.AddressSize = IF b # PREFIX_ADDRESS_SIZE \/ seen.HasAddressSizePrefix
                            THEN seen.AddressSize
                            ELSE IF seen.AddressSize = 8 THEN 4 ELSE 6 - seen.AddressSize
         /\ k.SSE_Prefix = IF b \in {PREFIX_OPERAND_SIZE, PREFIX_REPNE, PREFIX_REP}
                           THEN b ELSE seen.SSE_Prefix
  <2>2. CASE b \in {PREFIX_REPNE, PREFIX_REP}
    <3>1. s = RepeatPrefix(seen, b)
      BY <1>5, <2>2
    <3> QED BY <1>1, <1>6, <2>2, <3>1 DEF RepeatPrefix, Instructions
  <2>3. CASE b = PREFIX_OPERAND_SIZE
    <3>1. s = OperandSizePrefix(seen)
      BY <1>5, <2>3
    <3> QED BY <1>1, <1>6, <2>3, <3>1 DEF OperandSizePrefix, Instructions
  <2>4. CASE b = PREFIX_ADDRESS_SIZE
    <3>1. s = AddressSizePrefix(seen)
      BY <1>5, <2>4
    <3> QED BY <1>1, <1>6, <2>4, <3>1 DEF AddressSizePrefix, Instructions
  <2>5. CASE b = PREFIX_LOCK
    <3>1. s = LockPrefix(seen)
      BY <1>5, <2>5
    <3> QED BY <1>1, <1>6, <2>5, <3>1 DEF LockPrefix, Instructions
  <2>6. CASE b \notin {PREFIX_REPNE, PREFIX_REP, PREFIX_OPERAND_SIZE,
           PREFIX_ADDRESS_SIZE,
                       PREFIX_LOCK}
    <3>1. s = SegmentPrefix(seen, b)
      BY <1>5, <2>6
    <3>2. CASE IS_AMD64 /\ b \notin PREFIX_SEGMENT_FS_GS
      BY <1>1, <1>6, <2>6, <3>1, <3>2 DEF SegmentPrefix, Instructions
    <3>3. CASE ~(IS_AMD64 /\ b \notin PREFIX_SEGMENT_FS_GS)
      BY <1>1, <1>6, <2>6, <3>1, <3>3 DEF SegmentPrefix, Instructions
    <3> QED BY <3>2, <3>3
  <2> QED BY <1>1, <2>2, <2>3, <2>4, <2>5, <2>6
<1>10. j \in Instructions(row, memory)
  <2>1. Append(s.Prefixes, b) \in Seq(Byte)
    BY <1>1, <1>8 DEF Instructions
  <2> QED BY <1>4, <1>8, <2>1, ZenonT(30) DEF Instructions
<1>11. LET k == j
       IN  /\ k.Length = s.Length /\ k.Prefixes = Append(s.Prefixes, b)
           /\ k.rex = s.rex /\ k.OpcodeLength = s.OpcodeLength
           /\ k.HasDstAddressing = s.HasDstAddressing
           /\ k.Relative = s.Relative /\ k.failed = s.failed
           /\ s.AnomalyOccurred => k.AnomalyOccurred
           /\ k.HasLockPrefix = s.HasLockPrefix
           /\ k.HasOperandSizePrefix = s.HasOperandSizePrefix
           /\ k.HasAddressSizePrefix = s.HasAddressSizePrefix
           /\ k.OperandSize = s.OperandSize /\ k.AddressSize = s.AddressSize
           /\ k.SSE_Prefix = s.SSE_Prefix
  BY <1>4, <1>8 DEF Instructions
<1> HIDE DEF j
<1> QED BY <1>2, <1>7, <1>9, <1>10, <1>11

(* What a prefix more means for the reference.                             *)
LEMMA PrefixMore ==
  ASSUME NEW c \in CodeType, NEW b \in Byte
  PROVE  LET d == [c EXCEPT !.prefixes = @ \o <<b>>]
         IN /\ d \in CodeType
            /\ d.opcode = c.opcode /\ d.modrm = c.modrm /\ d.sib = c.sib
            /\ d.prefixes = Append(c.prefixes, b)
            /\ Len(d.prefixes) = Len(c.prefixes) + 1
            /\ \A x : Has(d, x) <=> Has(c, x) \/ x = b
            /\ \A a : LastRex(a, d) = IF a = "x64" /\ b \in RexPrefixes THEN b ELSE 0
<1> DEFINE d == [c EXCEPT !.prefixes = @ \o <<b>>]
<1>1. c.prefixes \in Seq(Byte)
  BY Zenon DEF CodeType
<1>2. c.prefixes \o <<b>> = Append(c.prefixes, b) /\ Append(c.prefixes, b) \in Seq(Byte)
  BY <1>1
<1>3. d \in CodeType
  BY <1>2, ZenonT(20) DEF CodeType
<1>4. /\ d.opcode = c.opcode /\ d.modrm = c.modrm /\ d.sib = c.sib
      /\ d.prefixes = Append(c.prefixes, b)
  BY <1>2 DEF CodeType
<1> HIDE DEF d
<1>5. /\ Len(d.prefixes) = Len(c.prefixes) + 1
            /\ DOMAIN d.prefixes = 1 .. Len(c.prefixes) + 1
      /\ DOMAIN c.prefixes = 1 .. Len(c.prefixes) /\ Len(c.prefixes) \in Nat
      /\ d.prefixes[Len(c.prefixes) + 1] = b
      /\ \A k \in 1 .. Len(c.prefixes) : d.prefixes[k] = c.prefixes[k]
  BY <1>1, <1>4
<1>6. ASSUME NEW x PROVE Has(d, x) <=> Has(c, x) \/ x = b
  <2>1. ASSUME Has(d, x), x # b PROVE Has(c, x)
    <3>1. PICK k \in DOMAIN d.prefixes : d.prefixes[k] = x
      BY <2>1 DEF Has
    <3>2. k # Len(c.prefixes) + 1
      BY <2>1, <3>1, <1>5
    <3>3. k \in DOMAIN c.prefixes /\ c.prefixes[k] = x
      BY <3>1, <3>2, <1>5
    <3> QED BY <3>3 DEF Has
  <2>2. ASSUME Has(c, x) PROVE Has(d, x)
    <3>1. PICK k \in DOMAIN c.prefixes : c.prefixes[k] = x
      BY <2>2 DEF Has
    <3>3. k \in DOMAIN d.prefixes /\ d.prefixes[k] = x
      BY <3>1, <1>5
    <3> QED BY <3>3 DEF Has
  <2>3. Has(d, b)
    <3>1. Len(c.prefixes) + 1 \in DOMAIN d.prefixes
      BY <1>5
    <3> QED BY <1>5, <3>1 DEF Has
  <2> QED BY <2>1, <2>2, <2>3
<1>7. ASSUME NEW a PROVE LastRex(a, d) = IF a = "x64" /\ b \in RexPrefixes THEN b ELSE 0
  <2>1. d.prefixes # << >> /\ d.prefixes[Len(d.prefixes)] = b
    BY <1>1, <1>4, <1>5
  <2> QED BY <2>1 DEF LastRex
<1> QED BY <1>3, <1>4, <1>5, <1>6, <1>7 DEF d

(* The prefixes are all that these look at.                                *)
LEMMA SamePrefixes ==
  ASSUME NEW c, NEW d, d.prefixes = c.prefixes
  PROVE  /\ \A x : Has(d, x) <=> Has(c, x)
         /\ \A a : /\ LastRex(a, d) = LastRex(a, c)
               /\ OperandBytes(a, d) = OperandBytes(a, c)
                   /\ AddressBytes(a, d) = AddressBytes(a, c)
BY DEF Has, LastRex, OperandBytes, AddressBytes

(* Where decoding has been given up nothing is left to say.                *)
LEMMA Refusal ==
  ASSUME TypeOK', stage' = "refused"
  PROVE  Inv'
BY DEF Inv, OpcodeInv, HeadInv, ReadInv, PrefixInv, RowInv, CheckInv, SseInv, LengthInv,
       MemoryInv, LockOnlyWhereLegal, AssertionsHold, Accepted, Reading, Known

(* Counting one byte more.                                               *)
LEMMA OneMore ==
  ASSUME NEW a \in Nat, NEW b \in Nat, NEW c, c = a + 1
  PROVE  c \in Nat /\ c + b = (a + b) + 1
OBVIOUS

(* Two bytes behind a sequence, one at a time.                           *)
LEMMA TwoBehind ==
  ASSUME NEW p \in Seq(Byte), NEW r \in Byte, NEW b \in Byte
  PROVE  p \o <<r, b>> = (p \o <<r>>) \o <<b>>
<1> DEFINE x == p \o <<r, b>>
           y == (p \o <<r>>) \o <<b>>
<1>1. x \in Seq(Byte) /\ y \in Seq(Byte)
  OBVIOUS
<1>2. Len(x) = Len(p) + 2 /\ Len(y) = Len(p) + 2
  OBVIOUS
<1>3. ASSUME NEW k \in 1 .. Len(p) + 2 PROVE x[k] = y[k]
  <2>1. CASE k <= Len(p)
    BY <2>1
  <2>2. CASE k = Len(p) + 1
    BY <2>2
  <2>3. CASE k = Len(p) + 2
    BY <2>3
  <2> QED BY <2>1, <2>2, <2>3
<1> HIDE DEF x, y
<1>4. x = y
  BY <1>1, <1>2, <1>3, SeqEqual
<1> QED BY <1>4 DEF x, y

(* No byte is a legacy prefix and a REX prefix.                          *)
LEMMA PrefixNumbers ==
  /\ PREFIX_REPNE = \hF2 /\ PREFIX_REP = \hF3 /\ PREFIX_LOCK = \hF0
  /\ PREFIX_OPERAND_SIZE = \h66 /\ PREFIX_ADDRESS_SIZE = \h67
  /\ LegacyPrefixes \subseteq Byte /\ RexPrefixes \subseteq Byte
  /\ \A b \in LegacyPrefixes : b \notin RexPrefixes /\ b # 0
  /\ \A b \in RexPrefixes : b \notin LegacyPrefixes /\ b # 0
  /\ \h66 \notin RexPrefixes /\ \h67 \notin RexPrefixes /\ \hF0 \notin RexPrefixes
  /\ \hF2 \notin RexPrefixes /\ \hF3 \notin RexPrefixes
  /\ ~RexW(0)
BY DEF LegacyPrefixes, RexPrefixes, Byte, PREFIX_REPNE, PREFIX_REP, PREFIX_LOCK,
       PREFIX_OPERAND_SIZE, PREFIX_ADDRESS_SIZE, RexW

(* In the prefix loop the instruction says of the prefixes what they are.  *)
(* i: the instruction when the legacy prefix b is seen.                    *)
LEMMA LoopStep ==
  ASSUME Inv, stage = "prefixes", stage' = "prefixes", arch' = arch,
         NEW b \in LegacyPrefixes, NEW i \in Instructions(ins.row, ins.memory),
         ins' = Prefixed(i, b), code' \in CodeType,
         code'.opcode = code.opcode, code'.modrm = code.modrm, code'.sib = code.sib,
         LastRex(arch, code') = 0,
         \A x : x \notin RexPrefixes => (Has(code', x) <=> Has(code, x) \/ x = b),
         Len(code'.prefixes) + Len(code.opcode) = i.Length + 1,
         ~i.AnomalyOccurred => ~ins.AnomalyOccurred /\ i.Prefixes = ins.Prefixes
                               /\ code'.prefixes = Append(code.prefixes, b),
         i.rex = ins.rex, i.HasDstAddressing = ins.HasDstAddressing,
         i.Relative = ins.Relative, i.failed = ins.failed,
         i.HasLockPrefix = ins.HasLockPrefix,
         i.HasOperandSizePrefix = ins.HasOperandSizePrefix,
         i.HasAddressSizePrefix = ins.HasAddressSizePrefix,
         i.OperandSize = ins.OperandSize, i.AddressSize = ins.AddressSize,
         i.SSE_Prefix = ins.SSE_Prefix
  PROVE  Inv'
<1>1. /\ b \in Byte /\ b \notin RexPrefixes
      /\ arch \in {"x86", "x64"} /\ code \in CodeType
      /\ ins \in Instructions(ins.row, ins.memory)
      /\ ins.Length \in Nat /\ i.Length \in Nat
  BY PrefixNumbers DEF Inv, TypeOK, InsType, Instructions
<1>2. /\ code.opcode = << >> /\ code.modrm = None /\ code.sib = None
      /\ ins.HasLockPrefix <=> Has(code, PREFIX_LOCK)
      /\ ins.AddressSize = AddressBytes(arch, code)
      /\ LastRex(arch, code) = 0 /\ ins.rex = 0
  BY DEF Inv, OpcodeInv, HeadInv, Reading
<1>3. /\ ins.Length = Bytes
      /\ ins.OperandSize = OperandBytes(arch, code)
      /\ ins.HasOperandSizePrefix <=> Has(code, PREFIX_OPERAND_SIZE)
      /\ ins.HasAddressSizePrefix <=> Has(code, PREFIX_ADDRESS_SIZE)
      /\ ins.Relative = 0 /\ ins.memory = NoMemory /\ ins.failed = "none"
      /\ ~ins.HasDstAddressing
  BY <1>2, PrefixNumbers DEF Inv, ReadInv, Reading, Wide
<1>4. /\ ~ins.AnomalyOccurred => ins.Prefixes = code.prefixes
      /\ ins.SSE_Prefix # 0 => ins.SSE_Prefix \in SsePrefixes
      /\ ins.SSE_Prefix = 0 => SsePrefixes = {}
  BY DEF Inv, PrefixInv, Reading
<1>5. ins.OperandSize # 8
  BY <1>2, <1>3, PrefixNumbers DEF OperandBytes
<1>6. ins' \in Instructions(ins.row, ins.memory)
  BY <1>5, PrefixedFields
<1>7. ins'.row = ins.row /\ ins'.memory = ins.memory
  BY <1>6 DEF Instructions
<1>8. TypeOK'
  BY <1>1, <1>6, <1>7 DEF TypeOK, InsType, Reading
<1>9. /\ ins'.Length = i.Length + 1 /\ ins'.Prefixes = Append(i.Prefixes, b)
      /\ ins'.rex = 0 /\ ins'.Relative = 0 /\ ins'.memory = NoMemory
            /\ ins'.failed = "none"
      /\ ~ins'.HasDstAddressing
      /\ ~ins'.AnomalyOccurred => ~i.AnomalyOccurred
      /\ ins'.HasLockPrefix <=> ins.HasLockPrefix \/ b = PREFIX_LOCK
      /\ ins'.HasOperandSizePrefix <=> ins.HasOperandSizePrefix \/ b = PREFIX_OPERAND_SIZE
      /\ ins'.HasAddressSizePrefix <=> ins.HasAddressSizePrefix \/ b = PREFIX_ADDRESS_SIZE
      /\ ins'.OperandSize = IF b = PREFIX_OPERAND_SIZE /\ ~ins.HasOperandSizePrefix
                            THEN 6 - ins.OperandSize ELSE ins.OperandSize
      /\ ins'.AddressSize = IF b # PREFIX_ADDRESS_SIZE \/ ins.HasAddressSizePrefix
                            THEN ins.AddressSize
                            ELSE IF ins.AddressSize = 8 THEN 4 ELSE 6 - ins.AddressSize
      /\ ins'.SSE_Prefix = IF b \in {PREFIX_OPERAND_SIZE, PREFIX_REPNE, PREFIX_REP}
                           THEN b ELSE ins.SSE_Prefix
  BY <1>2, <1>3, <1>5, <1>7, PrefixedFields
<1>10. OpcodeInv'
  BY <1>2 DEF OpcodeInv, Reading, Known
<1>11. /\ Has(code', \h66) <=> Has(code, \h66) \/ b = \h66
       /\ Has(code', \h67) <=> Has(code, \h67) \/ b = \h67
       /\ Has(code', \hF0) <=> Has(code, \hF0) \/ b = \hF0
  BY PrefixNumbers
<1>12. ins'.AddressSize = AddressBytes(arch, code')
  BY <1>1, <1>2, <1>3, <1>9, <1>11, PrefixNumbers DEF AddressBytes
<1>13. HeadInv'
  BY <1>1, <1>2, <1>9, <1>11, <1>12, PrefixNumbers DEF HeadInv
<1>14. ins'.OperandSize = OperandBytes(arch, code')
  BY <1>1, <1>2, <1>3, <1>9, <1>11, PrefixNumbers DEF OperandBytes
<1>15. ReadInv'
  <2>1. ins'.Length = Bytes'
    BY <1>9 DEF Bytes
  <2> QED BY <1>1, <1>3, <1>9, <1>11, <1>14, <2>1, PrefixNumbers DEF ReadInv, Wide
<1>16. PrefixInv'
  <2>1. SsePrefixes' = SsePrefixes \cup
                         ({b} \cap {PREFIX_OPERAND_SIZE, PREFIX_REPNE, PREFIX_REP})
    <3>1. \A x \in {PREFIX_OPERAND_SIZE, PREFIX_REPNE, PREFIX_REP} :
             x \notin RexPrefixes
      BY PrefixNumbers
    <3> QED BY <3>1 DEF SsePrefixes
  <2>2. ins'.SSE_Prefix # 0 => ins'.SSE_Prefix \in SsePrefixes'
    <3>1. CASE b \in {PREFIX_OPERAND_SIZE, PREFIX_REPNE, PREFIX_REP}
      BY <1>9, <2>1, <3>1, Zenon
    <3>2. CASE b \notin {PREFIX_OPERAND_SIZE, PREFIX_REPNE, PREFIX_REP}
      <4>1. ins'.SSE_Prefix = ins.SSE_Prefix
        BY <1>9, <3>2
      <4> QED BY <1>4, <2>1, <4>1, Zenon
    <3> QED BY <3>1, <3>2
  <2>3. ins'.SSE_Prefix = 0 => SsePrefixes' = {}
    <3>1. ASSUME ins'.SSE_Prefix = 0
          PROVE  /\ b \notin {PREFIX_OPERAND_SIZE, PREFIX_REPNE, PREFIX_REP}
                 /\ ins.SSE_Prefix = 0
      BY <1>1, <1>9, <3>1, PrefixNumbers
    <3> QED BY <1>4, <2>1, <3>1, Zenon
  <2>4. ins'.Prefixes # << >>
    BY <1>1, <1>9 DEF Instructions
  <2> QED BY <1>4, <1>9, <2>2, <2>3, <2>4 DEF PrefixInv
<1> QED BY <1>8, <1>10, <1>13, <1>15, <1>16
        DEF Inv, RowInv, CheckInv, SseInv, LengthInv, MemoryInv, LockOnlyWhereLegal,
            AssertionsHold, Accepted, Reading, Known

(* One legacy prefix, or too many.                                       *)
LEMMA PrefixStep ==
  ASSUME Inv, NEW b, Prefix(b)
  PROVE  Inv'
<1> USE DEF Prefix
<1>1. /\ stage = "prefixes" /\ b \in LegacyPrefixes /\ b \in Byte /\ arch' = arch
      /\ arch \in {"x86", "x64"} /\ code \in CodeType
      /\ ins \in Instructions(ins.row, ins.memory)
      /\ ins.Length \in Nat
  BY PrefixNumbers DEF Inv, TypeOK, InsType, Instructions
<1>2. code' = [code EXCEPT !.prefixes = @ \o <<b>>]
  BY DEF Reads
<1>3. /\ code' \in CodeType
      /\ code'.opcode = code.opcode /\ code'.modrm = code.modrm /\ code'.sib = code.sib
      /\ code'.prefixes = Append(code.prefixes, b)
      /\ Len(code'.prefixes) = Len(code.prefixes) + 1
      /\ \A x : Has(code', x) <=> Has(code, x) \/ x = b
      /\ LastRex(arch, code') = 0
  BY <1>1, <1>2, PrefixMore, PrefixNumbers
<1>4. CASE TooMany
  <2>1. ins' = ins /\ stage' = "refused"
    BY <1>4
  <2> QED BY <1>1, <1>3, <2>1, Refusal DEF TypeOK, InsType
<1>5. CASE ~TooMany
  <2>1. ins' = Prefixed(ins, b) /\ stage' = "prefixes"
    BY <1>1, <1>5
  <2>2. ins.Length = Len(code.prefixes) + Len(code.opcode)
    BY <1>1 DEF Inv, ReadInv, Reading, Bytes
  <2>3. Len(code'.prefixes) + Len(code.opcode) = ins.Length + 1
    <3>1. Len(code.prefixes) \in Nat /\ Len(code.opcode) \in Nat
      BY <1>1 DEF CodeType
    <3> QED BY ONLY <1>3, <2>2, <3>1, OneMore
  <2> QED BY <1>1, <1>3, <2>1, <2>3, LoopStep
<1> QED BY <1>4, <1>5

(* A REX prefix that is stepped over, and what follows it.               *)
LEMMA MisplacedRexStep ==
  ASSUME Inv, NEW r, NEW b, MisplacedRex(r, b)
  PROVE  Inv'
<1> DEFINE i == [ins EXCEPT !.Length = @ + 1, !.AnomalyOccurred = TRUE]
           c == [code EXCEPT !.prefixes = @ \o <<r>>]
<1>1. /\ stage = "prefixes" /\ stage' = stage /\ r \in RexPrefixes
            /\ b \in LegacyPrefixes
      /\ r \in Byte /\ b \in Byte /\ arch' = arch
      /\ arch \in {"x86", "x64"} /\ code \in CodeType
      /\ ins \in Instructions(ins.row, ins.memory)
      /\ ins.Length \in Nat /\ ins.Length + 1 \in Nat
      /\ ins' = Prefixed(i, b)
  BY PrefixNumbers DEF Inv, TypeOK, InsType, Instructions, MisplacedRex
<1>2. i \in Instructions(ins.row, ins.memory)
  BY <1>1, ZenonT(30) DEF Instructions
<1>3. /\ i.Length = ins.Length + 1 /\ i.AnomalyOccurred
      /\ i.rex = ins.rex /\ i.HasDstAddressing = ins.HasDstAddressing
      /\ i.Relative = ins.Relative /\ i.failed = ins.failed
      /\ i.HasLockPrefix = ins.HasLockPrefix
      /\ i.HasOperandSizePrefix = ins.HasOperandSizePrefix
      /\ i.HasAddressSizePrefix = ins.HasAddressSizePrefix
      /\ i.OperandSize = ins.OperandSize /\ i.AddressSize = ins.AddressSize
      /\ i.SSE_Prefix = ins.SSE_Prefix
  BY <1>1 DEF Instructions
<1>4. code' = [c EXCEPT !.prefixes = @ \o <<b>>]
  <2>1. code.prefixes \o <<r, b>> = (code.prefixes \o <<r>>) \o <<b>>
    <3>1. code.prefixes \in Seq(Byte)
      BY <1>1, Zenon DEF CodeType
    <3> QED BY <1>1, <3>1, TwoBehind
  <2>2. code' = [code EXCEPT !.prefixes = @ \o <<r, b>>]
    BY DEF MisplacedRex, Reads
  <2> QED BY <1>1, <2>1, <2>2 DEF CodeType
<1> HIDE DEF i
<1>5. /\ c \in CodeType
      /\ c.opcode = code.opcode /\ c.modrm = code.modrm /\ c.sib = code.sib
      /\ Len(c.prefixes) = Len(code.prefixes) + 1
      /\ \A x : Has(c, x) <=> Has(code, x) \/ x = r
  BY <1>1, PrefixMore
<1> HIDE DEF c
<1>6. /\ code' \in CodeType
      /\ code'.opcode = c.opcode /\ code'.modrm = c.modrm /\ code'.sib = c.sib
      /\ Len(code'.prefixes) = Len(c.prefixes) + 1
      /\ \A x : Has(code', x) <=> Has(c, x) \/ x = b
      /\ LastRex(arch, code') = 0
  <2>1. b \in Byte /\ b \notin RexPrefixes
    BY <1>1, PrefixNumbers
  <2> QED BY <1>4, <1>5, <2>1, PrefixMore
<1>7. \A x : x \notin RexPrefixes => (Has(code', x) <=> Has(code, x) \/ x = b)
  BY <1>1, <1>5, <1>6, Zenon
<1>8. Len(code'.prefixes) + Len(code.opcode) = i.Length + 1
  <2>1. Len(code.prefixes) \in Nat /\ Len(code.opcode) \in Nat
    BY <1>1 DEF CodeType
  <2>2. ins.Length = Len(code.prefixes) + Len(code.opcode)
    BY <1>1 DEF Inv, ReadInv, Reading, Bytes
  <2>3. Len(c.prefixes) \in Nat /\ Len(c.prefixes) + Len(code.opcode) = ins.Length + 1
    BY ONLY <1>5, <2>1, <2>2, OneMore
  <2>4. Len(code'.prefixes) + Len(code.opcode) = (Len(c.prefixes) + Len(code.opcode)) + 1
    BY ONLY <1>6, <2>1, <2>3, OneMore
  <2> QED BY ONLY <1>3, <2>3, <2>4, Zenon
<1>9. stage' = "prefixes"
  BY <1>1
<1>10. /\ code'.opcode = code.opcode /\ code'.modrm = code.modrm /\ code'.sib = code.sib
  BY <1>5, <1>6
<1> HIDE DEF MisplacedRex
<1> QED BY <1>1, <1>2, <1>3, <1>6, <1>7, <1>8, <1>9, <1>10, LoopStep

(* A REX prefix directly before the opcode.                              *)
LEMMA RexStep ==
  ASSUME Inv, NEW r, Rex(r)
  PROVE  Inv'
<1>1. /\ stage = "prefixes" /\ r \in RexPrefixes /\ r \in Byte /\ arch' = arch
      /\ arch = "x64" /\ code \in CodeType
      /\ ins \in Instructions(ins.row, ins.memory)
      /\ ins.Length \in Nat /\ ins.Length + 1 \in Nat
  BY PrefixNumbers DEF Inv, TypeOK, InsType, Instructions, Rex, IS_AMD64
<1>2. code' = [code EXCEPT !.prefixes = @ \o <<r>>]
  BY DEF Rex, Reads
<1>3. /\ code' \in CodeType
      /\ code'.opcode = code.opcode /\ code'.modrm = code.modrm /\ code'.sib = code.sib
      /\ code'.prefixes = Append(code.prefixes, r)
      /\ Len(code'.prefixes) = Len(code.prefixes) + 1
      /\ \A x : Has(code', x) <=> Has(code, x) \/ x = r
      /\ LastRex(arch, code') = r
  BY <1>1, <1>2, PrefixMore, PrefixNumbers
<1>4. CASE TooMany
  <2>1. ins' = ins /\ stage' = "refused"
    BY <1>4 DEF Rex
  <2> QED BY <1>1, <1>3, <2>1, Refusal DEF TypeOK, InsType
<1>5. CASE ~TooMany
  <2> DEFINE i0 == [ins EXCEPT !.Length = @ + 1, !.rex = r]
             long == i0.AnomalyOccurred \/ Len(i0.Prefixes) = AMD64_MAX_PREFIX_LENGTH
             i == [i0 EXCEPT !.AnomalyOccurred = long,
                     !.Prefixes = Append(i0.Prefixes, r)]
             only == i.AnomalyOccurred \/ (~i.HasOperandSizePrefix /\ r = \h40)
             j == [i EXCEPT !.AnomalyOccurred = only]
             k == [i EXCEPT !.OperandSize = 8, !.HasOperandSizePrefix = FALSE]
  <2>1. stage' = "rex" /\ (ins' = IF RexW(r) THEN k ELSE j)
    BY <1>5, Zenon DEF Rex, Counted
  <2>2. long \in BOOLEAN /\ (i0.AnomalyOccurred => long)
    BY ZenonT(20)
  <2>3. only \in BOOLEAN /\ (i.AnomalyOccurred => only)
    BY ZenonT(20)
  <2> HIDE DEF long, only
  <2>4. i0 \in Instructions(ins.row, ins.memory)
    BY <1>1, ZenonT(30) DEF Instructions
  <2>5. Append(i0.Prefixes, r) \in Seq(Byte)
    BY <1>1, <2>4 DEF Instructions
  <2>6. i \in Instructions(ins.row, ins.memory)
    <3> HIDE DEF i0
    <3> QED BY <2>2, <2>4, <2>5, ZenonT(30) DEF Instructions
  <2>7. ins' \in Instructions(ins.row, ins.memory)
    <3> HIDE DEF i
    <3>1. j \in Instructions(ins.row, ins.memory)
      BY <2>3, <2>6, ZenonT(30) DEF Instructions
    <3>2. k \in Instructions(ins.row, ins.memory)
      <4>1. 8 \in {2, 4, 8}
        OBVIOUS
      <4> QED BY <2>6, <4>1, ZenonT(30) DEF Instructions
    <3> QED BY <2>1, <3>1, <3>2, Zenon
  <2>8. /\ i0.Length = ins.Length + 1 /\ i0.Prefixes = ins.Prefixes /\ i0.rex = r
        /\ i0.AnomalyOccurred = ins.AnomalyOccurred
        /\ i0.Relative = ins.Relative /\ i0.failed = ins.failed
        /\ i0.HasDstAddressing = ins.HasDstAddressing
        /\ i0.HasLockPrefix = ins.HasLockPrefix
        /\ i0.HasOperandSizePrefix = ins.HasOperandSizePrefix
        /\ i0.HasAddressSizePrefix = ins.HasAddressSizePrefix
        /\ i0.OperandSize = ins.OperandSize /\ i0.AddressSize = ins.AddressSize
        /\ i0.SSE_Prefix = ins.SSE_Prefix
    BY <1>1 DEF Instructions
  <2> HIDE DEF i0
  <2>9. /\ i.Length = i0.Length /\ i.Prefixes = Append(i0.Prefixes, r) /\ i.rex = i0.rex
        /\ ~i.AnomalyOccurred => ~i0.AnomalyOccurred
        /\ i.Relative = i0.Relative /\ i.failed = i0.failed
        /\ i.HasDstAddressing = i0.HasDstAddressing
        /\ i.HasLockPrefix = i0.HasLockPrefix
        /\ i.HasOperandSizePrefix = i0.HasOperandSizePrefix
        /\ i.HasAddressSizePrefix = i0.HasAddressSizePrefix
        /\ i.OperandSize = i0.OperandSize /\ i.AddressSize = i0.AddressSize
        /\ i.SSE_Prefix = i0.SSE_Prefix
    BY <2>2, <2>4 DEF Instructions
  <2> HIDE DEF i
  <2>10. /\ ins'.Length = i.Length /\ ins'.Prefixes = i.Prefixes /\ ins'.rex = i.rex
         /\ ~ins'.AnomalyOccurred => ~i.AnomalyOccurred
         /\ ins'.Relative = i.Relative /\ ins'.failed = i.failed
         /\ ins'.HasDstAddressing = i.HasDstAddressing
         /\ ins'.HasLockPrefix = i.HasLockPrefix
         /\ ins'.HasOperandSizePrefix <=> i.HasOperandSizePrefix /\ ~RexW(r)
         /\ ins'.HasAddressSizePrefix = i.HasAddressSizePrefix
         /\ ins'.OperandSize = IF RexW(r) THEN 8 ELSE i.OperandSize
         /\ ins'.AddressSize = i.AddressSize
         /\ ins'.SSE_Prefix = i.SSE_Prefix
         /\ ins'.row = ins.row /\ ins'.memory = ins.memory
    <3>1. CASE RexW(r)
      <4>1. ins' = k
        BY <2>1, <3>1
      <4> QED BY <2>6, <3>1, <4>1 DEF Instructions
    <3>2. CASE ~RexW(r)
      <4>1. ins' = j
        BY <2>1, <3>2
      <4> QED BY <2>3, <2>6, <3>2, <4>1 DEF Instructions
    <3> QED BY <3>1, <3>2
  <2> HIDE DEF j, k
  <2>11. /\ code.opcode = << >> /\ code.modrm = None /\ code.sib = None
         /\ ins.HasLockPrefix <=> Has(code, PREFIX_LOCK)
         /\ ins.AddressSize = AddressBytes(arch, code)
         /\ LastRex(arch, code) = 0
    BY <1>1 DEF Inv, OpcodeInv, HeadInv, Reading
  <2>12. /\ ins.Length = Len(code.prefixes) + Len(code.opcode)
         /\ ins.OperandSize = OperandBytes(arch, code)
         /\ ins.HasOperandSizePrefix <=> Has(code, PREFIX_OPERAND_SIZE)
         /\ ins.HasAddressSizePrefix <=> Has(code, PREFIX_ADDRESS_SIZE)
         /\ ins.Relative = 0 /\ ins.memory = NoMemory /\ ins.failed = "none"
         /\ ~ins.HasDstAddressing
    BY <1>1, <2>11, PrefixNumbers DEF Inv, ReadInv, Reading, Wide, Bytes
  <2>13. /\ ~ins.AnomalyOccurred => ins.Prefixes = code.prefixes
         /\ ins.SSE_Prefix # 0 => ins.SSE_Prefix \in SsePrefixes
         /\ ins.SSE_Prefix = 0 => SsePrefixes = {}
    BY <1>1 DEF Inv, PrefixInv, Reading
  <2>14. TypeOK'
    BY <1>1, <1>3, <2>1, <2>7, <2>10 DEF TypeOK, InsType, Reading
  <2>15. OpcodeInv'
    BY <1>3, <2>1, <2>11 DEF OpcodeInv, Reading, Known
  <2>16. /\ Has(code', \h66) <=> Has(code, \h66)
         /\ Has(code', \h67) <=> Has(code, \h67)
         /\ Has(code', \hF0) <=> Has(code, \hF0)
    BY <1>1, <1>3, PrefixNumbers
  <2>17. ins'.AddressSize = AddressBytes(arch, code')
    BY <1>1, <2>8, <2>9, <2>10, <2>11, <2>16 DEF AddressBytes
  <2>18. HeadInv'
    BY <1>1, <1>3, <2>1, <2>8, <2>9, <2>10, <2>11, <2>16, <2>17,
       PrefixNumbers DEF HeadInv
  <2>19. ins'.OperandSize = OperandBytes(arch, code')
    BY <1>3, <2>8, <2>9, <2>10, <2>11, <2>12, <2>16, PrefixNumbers DEF OperandBytes
  <2>20. ReadInv'
    <3>1. ins'.Length = Bytes'
      <4>1. Len(code.prefixes) \in Nat /\ Len(code.opcode) \in Nat
        BY <1>1 DEF CodeType
      <4>2. Len(code'.prefixes) + Len(code.opcode) = ins.Length + 1
        BY ONLY <1>3, <2>12, <4>1, OneMore
      <4> QED BY <1>3, <2>8, <2>9, <2>10, <4>2 DEF Bytes
    <3>2. /\ ins'.HasOperandSizePrefix <=> Has(code', PREFIX_OPERAND_SIZE) /\ ~RexW(r)
          /\ ins'.HasAddressSizePrefix <=> Has(code', PREFIX_ADDRESS_SIZE)
      <4>1. /\ i.HasOperandSizePrefix <=> Has(code, PREFIX_OPERAND_SIZE)
            /\ i.HasAddressSizePrefix <=> Has(code, PREFIX_ADDRESS_SIZE)
        BY <2>8, <2>9, <2>12, Zenon
      <4>2. /\ Has(code', PREFIX_OPERAND_SIZE) <=> Has(code, PREFIX_OPERAND_SIZE)
            /\ Has(code', PREFIX_ADDRESS_SIZE) <=> Has(code, PREFIX_ADDRESS_SIZE)
        BY <2>16, PrefixNumbers
      <4> QED BY <2>10, <4>1, <4>2, Zenon
    <3>3. /\ ins'.Relative = 0 /\ ins'.memory = NoMemory /\ ins'.failed = "none"
          /\ ~ins'.HasDstAddressing
      BY <2>8, <2>9, <2>10, <2>12
    <3>4. Wide' <=> RexW(r)
      BY <1>1, <1>3 DEF Wide
    <3> QED BY ONLY <1>1, <2>1, <2>19, <3>1, <3>2, <3>3, <3>4 DEF ReadInv
  <2>21. PrefixInv'
    <3>1. SsePrefixes' = SsePrefixes
      BY <1>1, <1>3, PrefixNumbers DEF SsePrefixes
    <3> QED BY <1>3, <2>1, <2>8, <2>9, <2>10, <2>13, <3>1 DEF PrefixInv
  <2> QED BY <2>1, <2>14, <2>15, <2>18, <2>20, <2>21
          DEF Inv, RowInv, CheckInv, SseInv, LengthInv, MemoryInv, LockOnlyWhereLegal,
              AssertionsHold, Accepted, Reading, Known
<1> QED BY <1>4, <1>5

----------------------------------------------------------------------------
(* The bytes of the opcode and the ModRM byte.                             *)

(* Reading on: what the prefixes say stays, one byte more is counted, or   *)
(* none (a ModRM byte).                                                    *)
LEMMA ReadOn ==
  ASSUME Inv, stage \in Reading, stage' \in {"second", "modrm", "row"}, arch' = arch,
         code' \in CodeType, code'.prefixes = code.prefixes, code'.sib = code.sib,
         ins' \in Instructions(ins.row, ins.memory), ins'.Length = Bytes',
         ins'.Prefixes = ins.Prefixes, ins'.SSE_Prefix = ins.SSE_Prefix,
              ins'.rex = ins.rex,
         ins'.OperandSize = ins.OperandSize, ins'.AddressSize = ins.AddressSize,
         ins'.HasOperandSizePrefix = ins.HasOperandSizePrefix,
         ins'.HasAddressSizePrefix = ins.HasAddressSizePrefix,
         ins'.HasLockPrefix = ins.HasLockPrefix,
         ins'.AnomalyOccurred = ins.AnomalyOccurred,
         ins'.HasDstAddressing = ins.HasDstAddressing,
         ins'.Relative = ins.Relative, ins'.failed = ins.failed,
         OpcodeInv'
  PROVE  Inv'
<1>1. /\ \A x : Has(code', x) <=> Has(code, x)
      /\ LastRex(arch, code') = LastRex(arch, code)
      /\ OperandBytes(arch, code') = OperandBytes(arch, code)
      /\ AddressBytes(arch, code') = AddressBytes(arch, code)
  BY SamePrefixes
<1>2. /\ arch \in {"x86", "x64"} /\ ins'.row = ins.row /\ ins'.memory = ins.memory
      /\ stage \notin {"operands", "finish", "accepted"} /\ stage # "refused"
  BY DEF Inv, TypeOK, Instructions, Reading
<1>3. TypeOK'
  BY <1>2 DEF TypeOK, InsType, Reading
<1>4. HeadInv'
  BY <1>1, <1>2 DEF Inv, HeadInv
<1>5. ReadInv'
  BY <1>1, <1>2 DEF Inv, ReadInv, Wide
<1>6. SsePrefixes' = SsePrefixes
  BY <1>1 DEF SsePrefixes
<1>7. PrefixInv'
  BY <1>6 DEF Inv, PrefixInv
<1> QED BY <1>3, <1>4, <1>5, <1>7
        DEF Inv, RowInv, CheckInv, SseInv, LengthInv, MemoryInv, LockOnlyWhereLegal,
            AssertionsHold, Accepted, Reading, Known

(* The first byte of the opcode, or the only one.                        *)
LEMMA ReadOpcodeStep ==
  ASSUME Inv, NEW b \in Byte, ReadOpcode(b)
  PROVE  Inv'
<1>1. /\ stage \in {"prefixes", "rex"} /\ arch' = arch
      /\ arch \in {"x86", "x64"} /\ code \in CodeType
      /\ ins \in Instructions(ins.row, ins.memory)
      /\ ins.Length \in Nat /\ ins.Length + 1 \in Nat
      /\ code.opcode = << >> /\ code.modrm = None /\ code.sib = None
      /\ ins.Length = Bytes
  BY DEF Inv, TypeOK, InsType, Instructions, ReadOpcode, OpcodeInv, ReadInv, Reading
<1>2. /\ code' = [code EXCEPT !.opcode = <<b>>]
      /\ ins' = [ins EXCEPT !.Length = @ + 1, !.OpcodeLength = 1]
  BY DEF ReadOpcode
<1>3. /\ code' \in CodeType /\ code'.prefixes = code.prefixes /\ code'.opcode = <<b>>
      /\ code'.modrm = None /\ code'.sib = None
  <2>1. <<b>> \in Seq(Byte)
    OBVIOUS
  <2>2. code' \in CodeType
    BY <1>1, <1>2, <2>1, ZenonT(20) DEF CodeType
  <2> QED BY <1>1, <1>2, <2>2 DEF CodeType
<1>4. ins' \in Instructions(ins.row, ins.memory)
  <2>1. 1 \in 0 .. 3
    OBVIOUS
  <2> QED BY <1>1, <1>2, <2>1, ZenonT(30) DEF Instructions
<1>5. /\ ins'.Length = ins.Length + 1 /\ ins'.OpcodeLength = 1
      /\ ins'.Prefixes = ins.Prefixes /\ ins'.SSE_Prefix = ins.SSE_Prefix
      /\ ins'.rex = ins.rex
      /\ ins'.OperandSize = ins.OperandSize /\ ins'.AddressSize = ins.AddressSize
      /\ ins'.HasOperandSizePrefix = ins.HasOperandSizePrefix
      /\ ins'.HasAddressSizePrefix = ins.HasAddressSizePrefix
      /\ ins'.HasLockPrefix = ins.HasLockPrefix
      /\ ins'.AnomalyOccurred = ins.AnomalyOccurred
      /\ ins'.HasDstAddressing = ins.HasDstAddressing
      /\ ins'.Relative = ins.Relative /\ ins'.failed = ins.failed
      /\ ins'.row = ins.row /\ ins'.memory = ins.memory
  BY <1>1, <1>2 DEF Instructions
<1>6. /\ stage' \in {"second", "refused", "modrm", "row"}
      /\ stage' = "second" => b = X86_TWO_BYTE_OPCODE
      /\ stage' \in {"modrm", "row"} => b # X86_TWO_BYTE_OPCODE
      /\ stage' = "modrm" => b \in X86_ModRM_1
      /\ stage' = "row" => b \notin X86_ModRM_1
  BY DEF ReadOpcode
<1>7. CASE stage' = "refused"
  BY <1>1, <1>3, <1>4, <1>5, <1>7, Refusal DEF TypeOK, InsType
<1>8. CASE stage' # "refused"
  <2>1. ins'.Length = Bytes'
    <3>1. Len(code.prefixes) \in Nat /\ Len(<< >>) = 0 /\ Len(<<b>>) = 1
      BY <1>1 DEF CodeType
    <3> QED BY <1>1, <1>3, <1>5, <3>1 DEF Bytes
  <2>2. OpcodeInv'
    <3>1. Len(code'.opcode) = 1 /\ code'.opcode[1] = b
      BY <1>3
    <3> QED BY <1>3, <1>5, <1>6, <1>8, <3>1
            DEF OpcodeInv, OpcodeCount, LastOpcode, Reading, Known
  <2> QED BY <1>1, <1>3, <1>4, <1>5, <1>6, <1>8, <2>1, <2>2, ReadOn DEF Reading
<1> QED BY <1>7, <1>8

(* A sequence of one byte becomes one of two.                            *)
LEMMA AppendSecond ==
  ASSUME NEW a \in Byte, NEW b \in Byte
  PROVE  Append(<<a>>, b) = <<a, b>>
<1> DEFINE x == Append(<<a>>, b)
           y == <<a, b>>
<1>1. /\ x \in Seq(Byte) /\ y \in Seq(Byte) /\ Len(x) = 2 /\ Len(y) = 2
      /\ x[1] = y[1] /\ x[2] = y[2]
  OBVIOUS
<1> HIDE DEF x, y
<1>2. x = y
  BY <1>1, SeqEqual
<1> QED BY <1>2 DEF x, y

(* The byte behind 0F.                                                   *)
LEMMA ReadSecondStep ==
  ASSUME Inv, NEW b \in Byte, ReadSecond(b)
  PROVE  Inv'
<1>1. /\ stage = "second" /\ arch' = arch
      /\ arch \in {"x86", "x64"} /\ code \in CodeType
      /\ ins \in Instructions(ins.row, ins.memory)
      /\ ins.Length \in Nat /\ ins.Length + 1 \in Nat
      /\ code.opcode = <<X86_TWO_BYTE_OPCODE>> /\ code.modrm = None /\ code.sib = None
      /\ ins.Length = Bytes
  BY DEF Inv, TypeOK, InsType, Instructions, ReadSecond, OpcodeInv, ReadInv, Reading
<1>2. /\ code' = [code EXCEPT !.opcode = <<X86_TWO_BYTE_OPCODE, b>>]
      /\ ins' = [ins EXCEPT !.Length = @ + 1, !.OpcodeLength = 2]
  <2>1. Append(<<X86_TWO_BYTE_OPCODE>>, b) = <<X86_TWO_BYTE_OPCODE, b>>
    <3>1. X86_TWO_BYTE_OPCODE \in Byte
      BY DEF X86_TWO_BYTE_OPCODE, Byte
    <3> QED BY <3>1, AppendSecond
  <2> QED BY <1>1, <2>1 DEF ReadSecond
<1>3. /\ code' \in CodeType /\ code'.prefixes = code.prefixes
      /\ code'.opcode = <<X86_TWO_BYTE_OPCODE, b>>
      /\ code'.modrm = None /\ code'.sib = None
  <2>1. <<X86_TWO_BYTE_OPCODE, b>> \in Seq(Byte)
    BY DEF Byte, X86_TWO_BYTE_OPCODE
  <2>2. code' \in CodeType
    BY <1>1, <1>2, <2>1, ZenonT(20) DEF CodeType
  <2> QED BY <1>1, <1>2, <2>2 DEF CodeType
<1>4. ins' \in Instructions(ins.row, ins.memory)
  <2>1. 2 \in 0 .. 3
    OBVIOUS
  <2> QED BY <1>1, <1>2, <2>1, ZenonT(30) DEF Instructions
<1>5. /\ ins'.Length = ins.Length + 1 /\ ins'.OpcodeLength = 2
      /\ ins'.Prefixes = ins.Prefixes /\ ins'.SSE_Prefix = ins.SSE_Prefix
      /\ ins'.rex = ins.rex
      /\ ins'.OperandSize = ins.OperandSize /\ ins'.AddressSize = ins.AddressSize
      /\ ins'.HasOperandSizePrefix = ins.HasOperandSizePrefix
      /\ ins'.HasAddressSizePrefix = ins.HasAddressSizePrefix
      /\ ins'.HasLockPrefix = ins.HasLockPrefix
      /\ ins'.AnomalyOccurred = ins.AnomalyOccurred
      /\ ins'.HasDstAddressing = ins.HasDstAddressing
      /\ ins'.Relative = ins.Relative /\ ins'.failed = ins.failed
      /\ ins'.row = ins.row /\ ins'.memory = ins.memory
  BY <1>1, <1>2 DEF Instructions
<1>6. /\ stage' \in {"refused", "modrm", "row"}
      /\ stage' = "modrm" => b \in X86_ModRM_2
      /\ stage' = "row" => b \notin X86_ModRM_2
  BY Zenon DEF ReadSecond
<1>7. CASE stage' = "refused"
  BY <1>1, <1>3, <1>4, <1>5, <1>7, Refusal DEF TypeOK, InsType
<1>8. CASE stage' # "refused"
  <2>1. ins'.Length = Bytes'
    <3>1. /\ Len(code.prefixes) \in Nat /\ Len(<<X86_TWO_BYTE_OPCODE>>) = 1
          /\ Len(<<X86_TWO_BYTE_OPCODE, b>>) = 2
      BY <1>1 DEF CodeType
    <3> QED BY <1>1, <1>3, <1>5, <3>1 DEF Bytes
  <2>2. OpcodeInv'
    <3>1. Len(code'.opcode) = 2 /\ code'.opcode[2] = b
      BY <1>3
    <3> QED BY <1>3, <1>5, <1>6, <1>8, <3>1
            DEF OpcodeInv, OpcodeCount, LastOpcode, Reading, Known
  <2> QED BY <1>1, <1>3, <1>4, <1>5, <1>6, <1>8, <2>1, <2>2, ReadOn DEF Reading
<1> QED BY <1>7, <1>8

(* The ModRM byte is looked at and not counted.                          *)
LEMMA PeekModRMStep ==
  ASSUME Inv, NEW m \in Byte, PeekModRM(m)
  PROVE  Inv'
<1>1. /\ stage = "modrm" /\ stage' = "row" /\ arch' = arch /\ ins' = ins
      /\ code \in CodeType
      /\ ins \in Instructions(ins.row, ins.memory)
      /\ code.sib = None
      /\ ins.Length = Bytes /\ ins.OpcodeLength = OpcodeCount
      /\ LastOpcode \in (IF OpcodeCount = 1 THEN X86_ModRM_1 ELSE X86_ModRM_2)
      /\ \/ \E b \in Byte \ {X86_TWO_BYTE_OPCODE} :
              code.opcode = <<b>> /\ ins.OpcodeLength = 1
         \/ \E b \in Byte :
              code.opcode = <<X86_TWO_BYTE_OPCODE, b>> /\ ins.OpcodeLength \in {2, 3}
  BY DEF Inv, TypeOK, InsType, PeekModRM, OpcodeInv, ReadInv, Reading
<1>2. code' = [code EXCEPT !.modrm = m]
  BY DEF PeekModRM
<1>3. /\ code' \in CodeType /\ code'.prefixes = code.prefixes
            /\ code'.opcode = code.opcode
      /\ code'.modrm = m /\ code'.sib = None
  <2>1. m \in Byte \cup {None}
    OBVIOUS
  <2>2. code' \in CodeType
    BY <1>1, <1>2, <2>1, ZenonT(20) DEF CodeType
  <2> QED BY <1>1, <1>2, <2>2 DEF CodeType
<1>4. m # None
  BY DEF Byte, None
<1>5. LastOpcode' = LastOpcode /\ OpcodeCount' = OpcodeCount /\ Bytes' = Bytes
  BY <1>3 DEF LastOpcode, OpcodeCount, Bytes
<1>6. OpcodeInv'
  BY <1>1, <1>3, <1>4, <1>5 DEF OpcodeInv, Reading, Known
<1> QED BY <1>1, <1>3, <1>5, <1>6, ReadOn DEF Reading

----------------------------------------------------------------------------
(* The row of the tables.                                                  *)

Kinds == {"row", "group", "modrm", "fpu", "ext64", "suffix"}

(* What is found in a table is in it.                                    *)
LEMMA AtFound ==
  ASSUME NEW table, NEW b, At(table, b) # Invalid
  PROVE  b \in DOMAIN table /\ At(table, b) = table[b]
BY DEF At

(* An invalid entry is of no kind that fits.                             *)
LEMMA InvalidKind == Invalid.kind = "invalid" /\ \A k \in Kinds : k # "invalid"
BY DEF Invalid, Kinds

(* The opcode has been read; its entry in the tables fits.                 *)
LEMMA EntryFits ==
  ASSUME Inv, stage = "row", Entry.kind \in Kinds
  PROVE  /\ OpcodeCount \in {1, 2} /\ LastOpcode \in Byte
         /\ OpcodeCount = 1 => ins.OpcodeLength = 1 /\ code.opcode = <<LastOpcode>>
                               /\ LastOpcode # X86_TWO_BYTE_OPCODE
         /\ OpcodeCount = 2 => ins.OpcodeLength = 2
                               /\ code.opcode = <<X86_TWO_BYTE_OPCODE, LastOpcode>>
         /\ Fits(OpcodeCount, LastOpcode, Entry)
         /\ code.modrm # None <=> TakesModRM(OpcodeCount, LastOpcode)
<1>1. /\ \/ \E b \in Byte \ {X86_TWO_BYTE_OPCODE} :
              code.opcode = <<b>> /\ ins.OpcodeLength = 1
         \/ \E b \in Byte :
              code.opcode = <<X86_TWO_BYTE_OPCODE, b>> /\ ins.OpcodeLength \in {2, 3}
      /\ ins.OpcodeLength = OpcodeCount
      /\ code.modrm # None <=> LastOpcode \in ModRMOf(OpcodeCount)
  BY DEF Inv, OpcodeInv, Reading, ModRMOf
<1>2. Entry # Invalid /\ Entry.kind # "prefix"
  BY InvalidKind DEF Kinds
<1>3. /\ TableFits(1, X86_Opcodes_1) /\ TableFits(2, X86_Opcodes_2)
  BY TablesFit DEF Tables
<1>4. CASE \E b \in Byte \ {X86_TWO_BYTE_OPCODE} :
             code.opcode = <<b>> /\ ins.OpcodeLength = 1
  <2>1. PICK b \in Byte \ {X86_TWO_BYTE_OPCODE} : code.opcode = <<b>>
           /\ ins.OpcodeLength = 1
    BY <1>4
  <2>2. OpcodeCount = 1 /\ LastOpcode = b
    BY <2>1 DEF OpcodeCount, LastOpcode
  <2>3. Entry = At(X86_Opcodes_1, b)
    BY <2>1, <2>2 DEF Entry
  <2>4. b \in DOMAIN X86_Opcodes_1 /\ Entry = X86_Opcodes_1[b]
    BY <1>2, <2>3, AtFound
  <2>5. Fits(1, b, Entry)
    BY <1>3, <2>4 DEF TableFits
  <2>6. b \in ModRMOf(1) <=> TakesModRM(1, b)
    BY <1>2, <2>5 DEF Fits
  <2> QED BY <1>1, <2>1, <2>2, <2>5, <2>6
<1>5. CASE \E b \in Byte :
             code.opcode = <<X86_TWO_BYTE_OPCODE, b>> /\ ins.OpcodeLength \in {2, 3}
  <2>1. PICK b \in Byte : code.opcode = <<X86_TWO_BYTE_OPCODE, b>>
                          /\ ins.OpcodeLength \in {2, 3}
    BY <1>5
  <2>2. OpcodeCount = 2 /\ LastOpcode = b /\ ins.OpcodeLength = 2
    BY <1>1, <2>1 DEF OpcodeCount, LastOpcode
  <2>3. Entry = At(X86_Opcodes_2, b)
    BY <2>2 DEF Entry
  <2>4. b \in DOMAIN X86_Opcodes_2 /\ Entry = X86_Opcodes_2[b]
    BY <1>2, <2>3, AtFound
  <2>5. Fits(2, b, Entry)
    BY <1>3, <2>4 DEF TableFits
  <2>6. b \in ModRMOf(2) <=> TakesModRM(2, b)
    BY <1>2, <2>5 DEF Fits
  <2> QED BY <1>1, <2>1, <2>2, <2>5, <2>6
<1> QED BY <1>1, <1>4, <1>5

(* What makes i the instruction for the opcode once its row is known.      *)
Selected(i, row) ==
  /\ Suits(OpcodeCount, LastOpcode, Extension, InRegister, row)
  /\ LastOpcode \in Groups(OpcodeCount) =>
       i.OpcodeLength # 3 /\ i.OpcodeExtension = Extension
  /\ i.OpcodeLength \in {ins.OpcodeLength, 3}
  /\ i.OpcodeLength = 3 => OpcodeCount = 2 /\ LastOpcode \notin Full_2
  /\ i.OpcodeLength = 3 /\ ~Is3DNow =>
       /\ row.type = "SSE" /\ i.SSE_Prefix \in SsePrefixes
       /\ ~i.AnomalyOccurred => i.Prefixes = Tail(code.prefixes)
  /\ i.OpcodeLength # 3 =>
       i.OperandSize = ins.OperandSize
            /\ i.HasOperandSizePrefix = ins.HasOperandSizePrefix
  /\ ~Is3DNow =>
       i.Length = Bytes + (IF row.ops = << >> /\ code.modrm # None /\ ~IsFence
                           THEN 1 ELSE 0)
  /\ i.failed # "none" => Is3DNow /\ code.modrm # None /\ Mod(code.modrm) # 3
  /\ i.rex = ins.rex /\ i.HasLockPrefix = ins.HasLockPrefix
  /\ i.AddressSize = ins.AddressSize /\ i.HasDstAddressing = ins.HasDstAddressing
  /\ i.Relative = ins.Relative

(* The row is noted, and nothing else.                                   *)
LEMMA SetRow ==
  ASSUME NEW row, NEW memory, NEW i \in Instructions(row, memory), NEW new
  PROVE  LET j == [i EXCEPT !.row = new]
         IN /\ j \in Instructions(new, memory) /\ j.row = new /\ j.memory = memory
            /\ j.Length = i.Length /\ j.Prefixes = i.Prefixes
                  /\ j.SSE_Prefix = i.SSE_Prefix
            /\ j.rex = i.rex /\ j.OperandSize = i.OperandSize
            /\ j.AddressSize = i.AddressSize
            /\ j.HasOperandSizePrefix = i.HasOperandSizePrefix
            /\ j.HasLockPrefix = i.HasLockPrefix
                  /\ j.AnomalyOccurred = i.AnomalyOccurred
            /\ j.OpcodeLength = i.OpcodeLength /\ j.OpcodeExtension = i.OpcodeExtension
            /\ j.HasDstAddressing = i.HasDstAddressing /\ j.Relative = i.Relative
            /\ j.failed = i.failed
<1> DEFINE j == [i EXCEPT !.row = new]
<1>1. j \in Instructions(new, memory)
  BY ZenonT(30) DEF Instructions
<1> QED BY <1>1 DEF Instructions

(* What is left to show when a row has been found.                       *)
LEMMA ChosenStep ==
  ASSUME Inv, stage = "row", Entry.kind \in Kinds,
         NEW row, NEW i \in Instructions(ins.row, ins.memory), Chosen(row, i),
         row # Invalid => Selected(i, row),
         code' \in CodeType, code'.prefixes = code.prefixes, code'.opcode = code.opcode,
         code'.modrm = code.modrm, ~Is3DNow => code'.sib = None
  PROVE  Inv'
<1>1. /\ arch' = arch /\ arch \in {"x86", "x64"}
      /\ ins \in Instructions(ins.row, ins.memory)
  BY DEF Inv, TypeOK, InsType, Chosen
<1>2. CASE stage' = "refused"
  <2>1. ins' = ins
    BY <1>2 DEF Chosen
  <2> QED BY <1>1, <1>2, <2>1, Refusal DEF TypeOK, InsType
<1>3. CASE stage' # "refused"
  <2>1. row # Invalid /\ stage' = "checks" /\ ins' = [i EXCEPT !.row = row]
    BY <1>3 DEF Chosen
  <2>2. /\ ins' \in Instructions(row, ins.memory) /\ ins'.row = row
              /\ ins'.memory = ins.memory
        /\ ins'.Length = i.Length /\ ins'.Prefixes = i.Prefixes
        /\ ins'.SSE_Prefix = i.SSE_Prefix
        /\ ins'.rex = i.rex /\ ins'.OperandSize = i.OperandSize
        /\ ins'.AddressSize = i.AddressSize
        /\ ins'.HasOperandSizePrefix = i.HasOperandSizePrefix
        /\ ins'.HasLockPrefix = i.HasLockPrefix
              /\ ins'.AnomalyOccurred = i.AnomalyOccurred
        /\ ins'.OpcodeLength = i.OpcodeLength
              /\ ins'.OpcodeExtension = i.OpcodeExtension
        /\ ins'.HasDstAddressing = i.HasDstAddressing /\ ins'.Relative = i.Relative
        /\ ins'.failed = i.failed
    BY <2>1, SetRow
  <2>3. Selected(i, row)
    BY <2>1
  <2>4. TypeOK'
    BY <1>1, <2>1, <2>2 DEF TypeOK, InsType, Known
  <2>5. /\ OpcodeCount' = OpcodeCount /\ LastOpcode' = LastOpcode
              /\ Extension' = Extension
        /\ InRegister' = InRegister /\ Bytes' = Bytes /\ Is3DNow' = Is3DNow
        /\ IsFence' = IsFence
    BY DEF OpcodeCount, LastOpcode, Extension, InRegister, Bytes, Is3DNow, IsFence
  <2>6. /\ \A x : Has(code', x) <=> Has(code, x)
        /\ LastRex(arch, code') = LastRex(arch, code)
        /\ OperandBytes(arch, code') = OperandBytes(arch, code)
        /\ AddressBytes(arch, code') = AddressBytes(arch, code)
    BY SamePrefixes
  <2>7. /\ SsePrefixes' = SsePrefixes /\ Wide' = Wide
    BY <1>1, <2>6 DEF SsePrefixes, Wide
  <2>8. /\ ins.Length = Bytes /\ ins.OperandSize = OperandBytes(arch, code)
        /\ ins.HasOperandSizePrefix <=> Has(code, PREFIX_OPERAND_SIZE) /\ ~Wide
        /\ ins.Relative = 0 /\ ins.memory = NoMemory /\ ~ins.HasDstAddressing
        /\ ins.HasLockPrefix <=> Has(code, PREFIX_LOCK)
        /\ ins.AddressSize = AddressBytes(arch, code)
        /\ ins.rex = LastRex(arch, code)
    BY DEF Inv, ReadInv, HeadInv, Reading
  <2>9. OpcodeInv'
    <3>1. ins'.OpcodeLength \in {ins.OpcodeLength, 3}
          /\ (ins'.OpcodeLength = 3 => OpcodeCount = 2)
      BY <2>2, <2>3 DEF Selected
    <3>2. CASE OpcodeCount = 1
      <4>1. ins'.OpcodeLength = 1 /\ code'.opcode = <<LastOpcode>>
            /\ LastOpcode \in Byte \ {X86_TWO_BYTE_OPCODE}
        BY <3>1, <3>2, EntryFits
      <4> QED BY <2>1, <4>1 DEF OpcodeInv, Reading, Known
    <3>3. CASE OpcodeCount = 2
      <4>1. ins'.OpcodeLength \in {2, 3}
               /\ code'.opcode = <<X86_TWO_BYTE_OPCODE, LastOpcode>>
            /\ LastOpcode \in Byte
        BY <3>1, <3>3, EntryFits
      <4> QED BY <2>1, <4>1 DEF OpcodeInv, Reading, Known
    <3> QED BY <3>2, <3>3, EntryFits
  <2>10. HeadInv'
    BY <1>1, <2>1, <2>2, <2>3, <2>6, <2>8 DEF HeadInv, Selected
  <2>11. RowInv'
    <3>1. TwoBytes' \/ (OpcodeCount = 2 /\ LastOpcode \notin Full_2)
      BY <1>1, <2>2, <2>3, <2>6, <2>8 DEF TwoBytes, Selected
    <3>2. OpcodeCount = 1 => ins'.OperandSize = OperandBytes(arch, code')
      BY <2>2, <2>3, <2>6, <2>8 DEF Selected
    <3> QED BY <1>1, <2>1, <2>2, <2>3, <2>5, <2>7, <3>1, <3>2,
       EntryFits DEF RowInv, Selected
  <2>12. CheckInv'
    <3>1. ins'.OpcodeLength = 3 \/ (ins'.HasOperandSizePrefix <=>
                                      Has(code', PREFIX_OPERAND_SIZE) /\ ~Wide')
      BY <2>2, <2>3, <2>6, <2>7, <2>8 DEF Selected
    <3> QED BY <2>1, <2>2, <2>3, <2>5, <2>8, <3>1 DEF CheckInv, Selected
  <2> QED BY <2>1, <2>4, <2>9, <2>10, <2>11, <2>12
          DEF Inv, ReadInv, PrefixInv, SseInv, LengthInv, MemoryInv, LockOnlyWhereLegal,
              AssertionsHold, Accepted, Reading, Known
<1> QED BY <1>2, <1>3

(* The field reg of any byte.                                            *)
LEMMA RegRange ==
  /\ Extension \in 0 .. 7 \/ code.modrm \notin Byte \cup {None}
  /\ code.modrm # None => GET_MODRM_EXT = Extension
BY DEF Extension, Reg3, GET_MODRM_EXT, Byte, None

(* A row that suits an opcode in any case suits it with a register.      *)
LEMMA MoreSuits ==
  ASSUME NEW n, NEW b, NEW x, NEW reg, NEW row, Suits(n, b, x, FALSE, row)
  PROVE  Suits(n, b, x, reg, row)
BY DEF Suits, Placed

(* A row that suits whether ModRM names a register or memory has operands  *)
(* if there is a ModRM byte, unless it is a fence.                         *)
LEMMA HasOperands ==
  ASSUME Inv, stage = "row", Entry.kind \in Kinds, NEW row,
         Suits(OpcodeCount, LastOpcode, Extension, FALSE, row)
  PROVE  ~(row.ops = << >> /\ code.modrm # None /\ ~IsFence)
<1> SUFFICES ASSUME row.ops = << >>, code.modrm # None, ~IsFence PROVE FALSE
  OBVIOUS
<1>1. TakesModRM(OpcodeCount, LastOpcode)
  BY EntryFits
<1>2. ~Fence(OpcodeCount, LastOpcode, Extension)
  BY EntryFits DEF Fence, IsFence, Extension, X86_TWO_BYTE_OPCODE
<1>3. Located(row.ops)
  BY <1>1, <1>2 DEF Suits, Placed
<1> QED BY <1>3 DEF Located

(* The instruction as it is when an entry without more ado is selected.    *)
LEMMA SelectedPlainly ==
  ASSUME Inv, stage = "row", Entry.kind \in Kinds,
         NEW i \in Instructions(ins.row, ins.memory), NEW row,
         Suits(OpcodeCount, LastOpcode, Extension, InRegister, row),
         LastOpcode \in Groups(OpcodeCount) => i.OpcodeExtension = Extension,
         i.Length = Bytes + (IF row.ops = << >> /\ code.modrm # None /\ ~IsFence
                             THEN 1 ELSE 0),
         i.OpcodeLength = ins.OpcodeLength,
         i.OperandSize = ins.OperandSize,
         i.HasOperandSizePrefix = ins.HasOperandSizePrefix, i.failed = ins.failed,
         i.rex = ins.rex, i.HasLockPrefix = ins.HasLockPrefix,
         i.AddressSize = ins.AddressSize, i.HasDstAddressing = ins.HasDstAddressing,
         i.Relative = ins.Relative
  PROVE  Selected(i, row)
<1>1. ins.OpcodeLength \in {1, 2}
  BY EntryFits
<1>2. ins.failed = "none"
  BY DEF Inv, ReadInv, Reading
<1> QED BY <1>1, <1>2 DEF Selected

(* What Extended changes,                                                *)
LEMMA ExtendedFields ==
  ASSUME Inv, NEW e
  PROVE  LET i == Extended(e)
         IN /\ i \in Instructions(ins.row, ins.memory)
            /\ i.OpcodeExtension = IF e.kind = "group" THEN GET_MODRM_EXT ELSE 0
            /\ i.Length = ins.Length /\ i.OpcodeLength = ins.OpcodeLength
            /\ i.OperandSize = ins.OperandSize
            /\ i.HasOperandSizePrefix = ins.HasOperandSizePrefix
                  /\ i.failed = ins.failed
            /\ i.rex = ins.rex /\ i.HasLockPrefix = ins.HasLockPrefix
            /\ i.AddressSize = ins.AddressSize
                  /\ i.HasDstAddressing = ins.HasDstAddressing
            /\ i.Relative = ins.Relative
            /\ i.AnomalyOccurred = ins.AnomalyOccurred /\ i.Prefixes = ins.Prefixes
            /\ i.SSE_Prefix = ins.SSE_Prefix
<1> DEFINE x == IF e.kind = "group" THEN GET_MODRM_EXT ELSE 0
<1>1. ins \in Instructions(ins.row, ins.memory) /\ code \in CodeType
  BY DEF Inv, TypeOK, InsType
<1>2. code.modrm \in Byte \cup {None}
  BY <1>1 DEF CodeType
<1>3. x \in 0 .. 63
  BY <1>2 DEF GET_MODRM_EXT, Reg3, Byte, None
<1>4. Extended(e) = [ins EXCEPT !.OpcodeExtension = x]
  BY DEF Extended
<1> HIDE DEF x
<1>5. Extended(e) \in Instructions(ins.row, ins.memory)
  BY <1>1, <1>3, <1>4, ZenonT(30) DEF Instructions
<1>6. x = IF e.kind = "group" THEN GET_MODRM_EXT ELSE 0
  BY DEF x
<1> QED BY <1>1, <1>4, <1>5, <1>6 DEF Instructions

(* and Counting.                                                         *)
LEMMA CountingFields ==
  ASSUME NEW i \in Instructions(ins.row, ins.memory), NEW row
  PROVE  LET j == Counting(i, row)
         IN /\ j \in Instructions(ins.row, ins.memory)
            /\ j.Length = i.Length + IF row # Invalid /\ row.ops = << >> THEN 1 ELSE 0
            /\ j.OpcodeLength = i.OpcodeLength /\ j.OpcodeExtension = i.OpcodeExtension
            /\ j.OperandSize = i.OperandSize
            /\ j.HasOperandSizePrefix = i.HasOperandSizePrefix /\ j.failed = i.failed
            /\ j.rex = i.rex /\ j.HasLockPrefix = i.HasLockPrefix
            /\ j.AddressSize = i.AddressSize /\ j.HasDstAddressing = i.HasDstAddressing
            /\ j.Relative = i.Relative
<1> DEFINE x == IF row # Invalid /\ row.ops = << >> THEN 1 ELSE 0
<1>1. x \in Nat
  OBVIOUS
<1>2. Counting(i, row) = [i EXCEPT !.Length = @ + x]
  BY DEF Counting
<1> HIDE DEF x
<1>3. i.Length + x \in Nat
  BY <1>1 DEF Instructions
<1>4. Counting(i, row) \in Instructions(ins.row, ins.memory)
  BY <1>2, <1>3, ZenonT(30) DEF Instructions
<1>5. x = IF row # Invalid /\ row.ops = << >> THEN 1 ELSE 0
  BY DEF x
<1> QED BY <1>2, <1>4, <1>5 DEF Instructions

(* A row of a group, chosen by ModRM.reg.                                  *)
LEMMA MemberFits ==
  ASSUME Inv, stage = "row", Entry.kind \in Kinds, NEW table,
         GroupFits(OpcodeCount, LastOpcode, table), At(table, GET_MODRM_EXT) # Invalid
  PROVE  Suits(OpcodeCount, LastOpcode, Extension, FALSE, At(table, GET_MODRM_EXT))
<1>1. GET_MODRM_EXT \in DOMAIN table /\ At(table, GET_MODRM_EXT) = table[GET_MODRM_EXT]
  BY AtFound
<1>2. code.modrm \in Byte \cup {None}
  BY DEF Inv, TypeOK, CodeType
<1>3. Extension \in 0 .. 7
         /\ (Extension = GET_MODRM_EXT \/ ~TakesModRM(OpcodeCount, LastOpcode))
  BY <1>2, RegRange, EntryFits
<1> QED BY <1>1, <1>3 DEF GroupFits

(* The bytes stay what they are when a row is chosen.                    *)
LEMMA SameCode ==
  ASSUME Inv, stage = "row", UNCHANGED code
  PROVE  /\ code' \in CodeType /\ code'.prefixes = code.prefixes
         /\ code'.opcode = code.opcode /\ code'.modrm = code.modrm
         /\ code'.sib = None
BY DEF Inv, TypeOK, OpcodeInv, Reading

(* A row of the opcode's entry or of its group.                          *)
LEMMA SelectRowStep ==
  ASSUME Inv, SelectRow
  PROVE  Inv'
<1> DEFINE row == Member(Entry)
           i   == Extended(Entry)
<1>1. stage = "row" /\ Entry.kind \in {"row", "group"} /\ Chosen(row, i)
         /\ UNCHANGED code
  BY DEF SelectRow
<1>2. Entry.kind \in Kinds
  BY <1>1 DEF Kinds
<1>3. /\ i \in Instructions(ins.row, ins.memory)
      /\ i.OpcodeExtension = IF Entry.kind = "group" THEN GET_MODRM_EXT ELSE 0
      /\ i.Length = ins.Length /\ i.OpcodeLength = ins.OpcodeLength
      /\ i.OperandSize = ins.OperandSize
      /\ i.HasOperandSizePrefix = ins.HasOperandSizePrefix /\ i.failed = ins.failed
      /\ i.rex = ins.rex /\ i.HasLockPrefix = ins.HasLockPrefix
      /\ i.AddressSize = ins.AddressSize /\ i.HasDstAddressing = ins.HasDstAddressing
      /\ i.Relative = ins.Relative
  BY ExtendedFields
<1> HIDE DEF i
<1>4. Fits(OpcodeCount, LastOpcode, Entry)
      /\ (code.modrm # None <=> TakesModRM(OpcodeCount, LastOpcode))
  BY <1>1, <1>2, EntryFits
<1>5. code.modrm \in Byte \cup {None} /\ ins.Length = Bytes /\ Bytes \in Nat
  BY <1>1 DEF Inv, TypeOK, InsType, Instructions, CodeType, ReadInv, Reading
<1>6. ASSUME row # Invalid
      PROVE  Selected(i, row)
  <2>1. Suits(OpcodeCount, LastOpcode, Extension, FALSE, row)
    <3>1. CASE Entry.kind = "row"
      <4>1. row = Entry
        BY <3>1 DEF Member
      <4>2. RowFits(OpcodeCount, LastOpcode, row)
        BY <1>4, <3>1, <4>1 DEF Fits
      <4> QED BY <1>5, <4>2, RegRange DEF RowFits
    <3>2. CASE Entry.kind = "group"
      <4>1. row = At(Entry.table, GET_MODRM_EXT)
        BY <3>2 DEF Member
      <4>2. GroupFits(OpcodeCount, LastOpcode, Entry.table)
        BY <1>4, <3>2 DEF Fits
      <4> QED BY <1>1, <1>2, <1>6, <4>1, <4>2, MemberFits
    <3> QED BY <1>1, <3>1, <3>2
  <2> HIDE DEF row
  <2>2. LastOpcode \in Groups(OpcodeCount) => i.OpcodeExtension = Extension
    BY <1>3, <1>4, RegRange DEF Fits
  <2>3. i.Length = Bytes + (IF row.ops = << >> /\ code.modrm # None
           /\ ~IsFence THEN 1 ELSE 0)
    <3>1. ~(row.ops = << >> /\ code.modrm # None /\ ~IsFence)
      BY <1>1, <1>2, <2>1, HasOperands
    <3> QED BY ONLY <1>3, <1>5, <3>1
  <2> QED BY <1>1, <1>2, <1>3, <2>1, <2>2, <2>3, MoreSuits, SelectedPlainly
<1>7. /\ code' \in CodeType /\ code'.prefixes = code.prefixes
      /\ code'.opcode = code.opcode /\ code'.modrm = code.modrm
      /\ code'.sib = None
  BY <1>1, SameCode
<1> HIDE DEF row
<1> QED BY <1>1, <1>2, <1>3, <1>6, <1>7, ChosenStep

(* A row found by the whole ModRM byte.                                  *)
LEMMA SelectModRMStep ==
  ASSUME Inv, SelectModRM
  PROVE  Inv'
<1> DEFINE e   == At(Entry.table, code.modrm)
           row == Member(e)
           i   == IF e.kind = "group" THEN Extended(e) ELSE Counting(ins, e)
<1>1. stage = "row" /\ Entry.kind = "modrm" /\ Chosen(row, i) /\ UNCHANGED code
  BY DEF SelectModRM
<1>2. Entry.kind \in Kinds
  BY <1>1 DEF Kinds
<1>3. /\ ins \in Instructions(ins.row, ins.memory)
      /\ code.modrm \in Byte \cup {None} /\ ins.Length = Bytes /\ Bytes \in Nat
  BY <1>1 DEF Inv, TypeOK, InsType, Instructions, CodeType, ReadInv, Reading
<1>4. /\ ModRMFits(OpcodeCount, LastOpcode, Entry.table)
      /\ code.modrm # None /\ ~IsFence
      /\ LastOpcode \notin Groups(OpcodeCount)
  <2>1. Fits(OpcodeCount, LastOpcode, Entry)
        /\ (code.modrm # None <=> TakesModRM(OpcodeCount, LastOpcode))
        /\ (OpcodeCount = 2 => code.opcode = <<X86_TWO_BYTE_OPCODE, LastOpcode>>)
        /\ (OpcodeCount = 1 => code.opcode = <<LastOpcode>>) /\ OpcodeCount \in {1, 2}
    BY <1>1, <1>2, EntryFits
  <2>2. ~(OpcodeCount = 2 /\ LastOpcode = \hAE)
    BY <1>1, <2>1 DEF Fits
  <2>3. ~IsFence
    BY <2>1, <2>2 DEF IsFence
  <2> QED BY <1>1, <2>1, <2>3 DEF Fits
<1>5. e # Invalid => ModRMEntryFits(OpcodeCount, LastOpcode, code.modrm, e)
  BY <1>4, AtFound DEF ModRMFits
<1> HIDE DEF e
<1>6. /\ e.kind = "group" => i = Extended(e)
      /\ e.kind # "group" => i = Counting(ins, e)
  OBVIOUS
<1>7. /\ i \in Instructions(ins.row, ins.memory)
      /\ e.kind = "group" => i.Length = ins.Length
      /\ e.kind # "group" =>
           i.Length = ins.Length + IF e # Invalid /\ e.ops = << >> THEN 1 ELSE 0
      /\ i.OpcodeLength = ins.OpcodeLength
      /\ i.OperandSize = ins.OperandSize
      /\ i.HasOperandSizePrefix = ins.HasOperandSizePrefix /\ i.failed = ins.failed
      /\ i.rex = ins.rex /\ i.HasLockPrefix = ins.HasLockPrefix
      /\ i.AddressSize = ins.AddressSize /\ i.HasDstAddressing = ins.HasDstAddressing
      /\ i.Relative = ins.Relative
  <2> HIDE DEF i
  <2>1. CASE e.kind = "group"
    BY <1>6, <2>1, ExtendedFields
  <2>2. CASE e.kind # "group"
    <3>1. i = Counting(ins, e)
      BY <1>6, <2>2
    <3> QED BY <1>3, <2>2, <3>1, CountingFields, ZenonT(30)
  <2> QED BY <2>1, <2>2
<1> HIDE DEF i
<1>8. ASSUME row # Invalid
      PROVE  Selected(i, row)
  <2>1. e # Invalid
    BY <1>8, InvalidKind DEF Member, Invalid
  <2>2. CASE e.kind = "row"
    <3>1. row = e /\ code.modrm \in \hC0 .. \hFF
          /\ Suits(OpcodeCount, LastOpcode, Extension, TRUE, e)
      BY <1>5, <2>1, <2>2 DEF ModRMEntryFits, Member, Extension
    <3>2. InRegister = TRUE
      BY <1>4, <3>1 DEF InRegister
    <3>3. i.Length = Bytes + (IF row.ops = << >> /\ code.modrm # None /\ ~IsFence
                              THEN 1 ELSE 0)
      BY ONLY <1>3, <1>4, <1>7, <2>1, <2>2, <3>1
    <3> QED BY <1>1, <1>2, <1>4, <1>7, <3>1, <3>2, <3>3, SelectedPlainly
  <2>3. CASE e.kind = "group"
    <3>1. /\ row = At(e.table, GET_MODRM_EXT)
          /\ GroupFits(OpcodeCount, LastOpcode, e.table)
      BY <1>5, <2>1, <2>3 DEF ModRMEntryFits, Member
    <3>2. Suits(OpcodeCount, LastOpcode, Extension, FALSE, row)
      BY <1>1, <1>2, <1>8, <3>1, MemberFits
    <3>3. ~(row.ops = << >> /\ code.modrm # None /\ ~IsFence)
      BY <1>1, <1>2, <3>2, HasOperands
    <3>4. i.Length = Bytes + (IF row.ops = << >> /\ code.modrm # None /\ ~IsFence
                              THEN 1 ELSE 0)
      BY ONLY <1>3, <1>7, <2>3, <3>3
    <3> QED BY <1>1, <1>2, <1>4, <1>7, <3>2, <3>4, MoreSuits, SelectedPlainly
  <2> QED BY <1>5, <2>1, <2>2, <2>3 DEF ModRMEntryFits
<1>9. /\ code' \in CodeType /\ code'.prefixes = code.prefixes
      /\ code'.opcode = code.opcode /\ code'.modrm = code.modrm
      /\ code'.sib = None
  BY <1>1, SameCode
<1> HIDE DEF row
<1> QED BY <1>1, <1>2, <1>7, <1>8, <1>9, ChosenStep

(* A row of the floating-point unit's.                                   *)
LEMMA SelectFPUStep ==
  ASSUME Inv, SelectFPU
  PROVE  Inv'
<1> DEFINE memory == code.modrm < \hC0
           row == IF memory THEN At(Entry.table.mem, GET_MODRM_EXT)
                            ELSE At(Entry.table.reg, code.modrm)
           x   == IF memory THEN GET_MODRM_EXT ELSE code.modrm % 64
           i0  == [ins EXCEPT !.OpcodeExtension = x]
           i   == Counting(i0, row)
<1>1. stage = "row" /\ Entry.kind = "fpu" /\ Chosen(row, i) /\ UNCHANGED code
  BY DEF SelectFPU
<1>2. Entry.kind \in Kinds
  BY <1>1 DEF Kinds
<1>3. /\ ins \in Instructions(ins.row, ins.memory)
      /\ code.modrm \in Byte \cup {None} /\ ins.Length = Bytes /\ Bytes \in Nat
  BY <1>1 DEF Inv, TypeOK, InsType, Instructions, CodeType, ReadInv, Reading
<1>4. /\ GroupFits(OpcodeCount, LastOpcode, Entry.table.mem)
      /\ RegisterFits(OpcodeCount, LastOpcode, Entry.table.reg)
      /\ code.modrm # None /\ ~IsFence
      /\ LastOpcode \notin Groups(OpcodeCount)
  <2>1. Fits(OpcodeCount, LastOpcode, Entry)
        /\ (code.modrm # None <=> TakesModRM(OpcodeCount, LastOpcode))
        /\ (OpcodeCount = 2 => code.opcode = <<X86_TWO_BYTE_OPCODE, LastOpcode>>)
        /\ (OpcodeCount = 1 => code.opcode = <<LastOpcode>>) /\ OpcodeCount \in {1, 2}
    BY <1>1, <1>2, EntryFits
  <2>2. ~(OpcodeCount = 2 /\ LastOpcode = \hAE)
    BY <1>1, <2>1 DEF Fits
  <2>3. ~IsFence
    BY <2>1, <2>2 DEF IsFence
  <2> QED BY <1>1, <2>1, <2>3 DEF Fits
<1>5. x \in 0 .. 63
  BY <1>3, <1>4 DEF GET_MODRM_EXT, Reg3, Byte, None
<1> HIDE DEF x
<1>6. i0 \in Instructions(ins.row, ins.memory)
  BY <1>3, <1>5, ZenonT(30) DEF Instructions
<1>7. /\ i0.Length = ins.Length /\ i0.OpcodeLength = ins.OpcodeLength
      /\ i0.OperandSize = ins.OperandSize
      /\ i0.HasOperandSizePrefix = ins.HasOperandSizePrefix /\ i0.failed = ins.failed
      /\ i0.rex = ins.rex /\ i0.HasLockPrefix = ins.HasLockPrefix
      /\ i0.AddressSize = ins.AddressSize /\ i0.HasDstAddressing = ins.HasDstAddressing
      /\ i0.Relative = ins.Relative
  BY <1>3 DEF Instructions
<1> HIDE DEF i0
<1>8. /\ i \in Instructions(ins.row, ins.memory)
      /\ i.Length = i0.Length + IF row # Invalid /\ row.ops = << >> THEN 1 ELSE 0
      /\ i.OpcodeLength = i0.OpcodeLength
      /\ i.OperandSize = i0.OperandSize
      /\ i.HasOperandSizePrefix = i0.HasOperandSizePrefix /\ i.failed = i0.failed
      /\ i.rex = i0.rex /\ i.HasLockPrefix = i0.HasLockPrefix
      /\ i.AddressSize = i0.AddressSize /\ i.HasDstAddressing = i0.HasDstAddressing
      /\ i.Relative = i0.Relative
  <2> HIDE DEF row
  <2> QED BY <1>6, CountingFields, ZenonT(30)
<1> HIDE DEF i
<1>9. ASSUME row # Invalid
      PROVE  Selected(i, row)
  <2>1. Suits(OpcodeCount, LastOpcode, Extension, InRegister, row)
    <3>1. CASE memory
      <4>1. row = At(Entry.table.mem, GET_MODRM_EXT)
        BY <3>1
      <4> QED BY <1>1, <1>2, <1>4, <1>9, <4>1, MemberFits, MoreSuits
    <3>2. CASE ~memory
      <4>1. row = At(Entry.table.reg, code.modrm)
        BY <3>2
      <4>2. code.modrm \in DOMAIN Entry.table.reg /\ row = Entry.table.reg[code.modrm]
        BY <1>9, <4>1, AtFound
      <4>3. Suits(OpcodeCount, LastOpcode, Extension, TRUE, row)
               /\ code.modrm \in \hC0 .. \hFF
        BY <1>4, <4>2 DEF RegisterFits, Extension
      <4>4. InRegister = TRUE
        BY <1>4, <4>3 DEF InRegister
      <4> QED BY <4>3, <4>4
    <3> QED BY <3>1, <3>2
  <2> HIDE DEF row
  <2>2. i.Length = Bytes + (IF row.ops = << >> /\ code.modrm # None
           /\ ~IsFence THEN 1 ELSE 0)
    BY ONLY <1>3, <1>4, <1>7, <1>8, <1>9
  <2> QED BY <1>1, <1>2, <1>4, <1>7, <1>8, <2>1, <2>2, SelectedPlainly
<1>10. /\ code' \in CodeType /\ code'.prefixes = code.prefixes
       /\ code'.opcode = code.opcode /\ code'.modrm = code.modrm
       /\ code'.sib = None
  BY <1>1, SameCode
<1> HIDE DEF row
<1> QED BY <1>1, <1>2, <1>8, <1>9, <1>10, ChosenStep

(* A row that depends on the mode.                                       *)
LEMMA SelectExt64Step ==
  ASSUME Inv, SelectExt64
  PROVE  Inv'
<1> DEFINE row == IF IS_AMD64 THEN Entry.table.x64 ELSE Entry.table.x86
<1>1. stage = "row" /\ Entry.kind = "ext64" /\ Chosen(row, ins) /\ UNCHANGED code
  BY DEF SelectExt64
<1>2. Entry.kind \in Kinds
  BY <1>1 DEF Kinds
<1>3. /\ ins \in Instructions(ins.row, ins.memory)
      /\ code.modrm \in Byte \cup {None} /\ ins.Length = Bytes /\ Bytes \in Nat
  BY <1>1 DEF Inv, TypeOK, InsType, Instructions, CodeType, ReadInv, Reading
<1>4. /\ RowFits(OpcodeCount, LastOpcode, row)
      /\ LastOpcode \notin Groups(OpcodeCount)
  BY <1>1, <1>2, EntryFits DEF Fits
<1> HIDE DEF row
<1>5. Suits(OpcodeCount, LastOpcode, Extension, FALSE, row)
  BY <1>3, <1>4, RegRange DEF RowFits
<1>6. ins.Length = Bytes + (IF row.ops = << >> /\ code.modrm # None
         /\ ~IsFence THEN 1 ELSE 0)
  <2>1. ~(row.ops = << >> /\ code.modrm # None /\ ~IsFence)
    BY <1>1, <1>2, <1>5, HasOperands
  <2> QED BY ONLY <1>3, <2>1
<1>7. Selected(ins, row)
  BY <1>1, <1>2, <1>3, <1>4, <1>5, <1>6, MoreSuits, SelectedPlainly
<1>8. /\ code' \in CodeType /\ code'.prefixes = code.prefixes
      /\ code'.opcode = code.opcode /\ code'.modrm = code.modrm
      /\ code'.sib = None
  BY <1>1, SameCode
<1> QED BY <1>1, <1>2, <1>3, <1>7, <1>8, ChosenStep

(* A row that 66, F2 or F3 is part of.                                   *)
LEMMA SelectSSEStep ==
  ASSUME Inv, SelectSSE
  PROVE  Inv'
<1> DEFINE e   == At(X86_SSE[ins.SSE_Prefix], LastOpcode)
           row == Member(e)
           i0  == Extended(e)
           o   == IF ins.SSE_Prefix # PREFIX_OPERAND_SIZE THEN i0.OperandSize
                  ELSE IF IS_AMD64 /\ RexW(ins.rex) THEN 8 ELSE 4
           i   == [i0 EXCEPT !.OpcodeLength = 3, !.Prefixes = Tail(@), !.Repeat = 0,
                             !.HasOperandSizePrefix = FALSE, !.OperandSize = o]
<1>1. /\ stage = "row" /\ ins.OpcodeLength = 2 /\ Entry.kind \in {"row", "group"}
      /\ ins.SSE_Prefix # 0 /\ Chosen(row, i) /\ UNCHANGED code
  BY Zenon DEF SelectSSE, IsSSE
<1>2. Entry.kind \in Kinds
  BY <1>1 DEF Kinds
<1>3. /\ ins \in Instructions(ins.row, ins.memory)
      /\ code.modrm \in Byte \cup {None} /\ ins.Length = Bytes /\ Bytes \in Nat
      /\ ins.failed = "none"
  BY <1>1 DEF Inv, TypeOK, InsType, Instructions, CodeType, ReadInv, Reading
<1>4. /\ ins.SSE_Prefix \in SsePrefixes /\ ins.Prefixes # << >>
      /\ ~ins.AnomalyOccurred => ins.Prefixes = code.prefixes
  BY <1>1 DEF Inv, PrefixInv, Reading
<1>5. /\ i0 \in Instructions(ins.row, ins.memory)
      /\ i0.Length = ins.Length /\ i0.OpcodeLength = ins.OpcodeLength
      /\ i0.OperandSize = ins.OperandSize
      /\ i0.failed = ins.failed
      /\ i0.rex = ins.rex /\ i0.HasLockPrefix = ins.HasLockPrefix
      /\ i0.AddressSize = ins.AddressSize /\ i0.HasDstAddressing = ins.HasDstAddressing
      /\ i0.Relative = ins.Relative
      /\ i0.AnomalyOccurred = ins.AnomalyOccurred /\ i0.Prefixes = ins.Prefixes
      /\ i0.SSE_Prefix = ins.SSE_Prefix
  BY ExtendedFields
<1> HIDE DEF i0
<1>6. Tail(i0.Prefixes) \in Seq(Byte)
  BY <1>4, <1>5 DEF Instructions
<1>7. o \in {2, 4, 8}
  BY <1>5 DEF Instructions
<1> HIDE DEF o
<1>8. i \in Instructions(ins.row, ins.memory)
  <2>1. 3 \in 0 .. 3
    OBVIOUS
  <2> QED BY <1>5, <1>6, <1>7, <2>1, ZenonT(30) DEF Instructions
<1>9. /\ i.OpcodeLength = 3 /\ i.Prefixes = Tail(i0.Prefixes)
      /\ i.Length = i0.Length /\ i.failed = i0.failed
      /\ i.rex = i0.rex /\ i.HasLockPrefix = i0.HasLockPrefix
      /\ i.AddressSize = i0.AddressSize /\ i.HasDstAddressing = i0.HasDstAddressing
      /\ i.Relative = i0.Relative
      /\ i.AnomalyOccurred = i0.AnomalyOccurred
      /\ i.SSE_Prefix = i0.SSE_Prefix
  BY <1>5, <1>6, <1>7 DEF Instructions
<1> HIDE DEF i
<1>10. /\ OpcodeCount = 2 /\ LastOpcode \in Byte
       /\ code.opcode = <<X86_TWO_BYTE_OPCODE, LastOpcode>>
  BY <1>1, <1>2, EntryFits
<1>11. ASSUME row # Invalid
       PROVE  Selected(i, row)
  <2>1. e # Invalid
    BY <1>11, InvalidKind DEF Member, Invalid
  <2>2. SseFits(LastOpcode, e)
    <3>1. ins.SSE_Prefix \in {PREFIX_OPERAND_SIZE, PREFIX_REPNE, PREFIX_REP}
      BY <1>4 DEF SsePrefixes
    <3> QED BY <2>1, <3>1, AtFound, TablesFit DEF Tables, SseTableFits
  <2> HIDE DEF e
  <2>3. Suits(2, LastOpcode, Extension, FALSE, row) /\ row.type = "SSE"
    <3>1. CASE e.kind = "row"
      <4>1. row = e /\ RowFits(2, LastOpcode, e) /\ e.type = "SSE"
        BY <2>2, <3>1 DEF SseFits, Member
      <4> QED BY <1>3, <4>1, RegRange DEF RowFits
    <3>2. CASE e.kind = "group"
      <4>1. row = At(e.table, GET_MODRM_EXT) /\ GroupFits(2, LastOpcode, e.table)
            /\ (\A y \in DOMAIN e.table : e.table[y].type = "SSE")
        BY <2>2, <3>2 DEF SseFits, Member
      <4>2. row.type = "SSE"
        BY <1>11, <4>1, AtFound
      <4> QED BY <1>1, <1>2, <1>10, <1>11, <4>1, <4>2, MemberFits
    <3> QED BY <2>2, <3>1, <3>2 DEF SseFits
  <2>4. /\ LastOpcode \notin Full_2 /\ LastOpcode # \h0F
        /\ LastOpcode \notin Groups(2)
    BY <2>2 DEF SseFits
  <2>5. ~Is3DNow
    BY <1>10, <2>4 DEF Is3DNow
  <2> HIDE DEF row
  <2>6. i.Length = Bytes + (IF row.ops = << >> /\ code.modrm # None
           /\ ~IsFence THEN 1 ELSE 0)
    <3>1. ~(row.ops = << >> /\ code.modrm # None /\ ~IsFence)
      BY <1>1, <1>2, <1>10, <2>3, HasOperands
    <3> QED BY ONLY <1>3, <1>5, <1>9, <3>1
  <2>7. Suits(OpcodeCount, LastOpcode, Extension, InRegister, row)
    BY <1>10, <2>3, MoreSuits
  <2>8. i.SSE_Prefix \in SsePrefixes
           /\ (~i.AnomalyOccurred => i.Prefixes = Tail(code.prefixes))
    BY <1>4, <1>5, <1>9
  <2>9. /\ i.failed = "none" /\ i.rex = ins.rex /\ i.HasLockPrefix = ins.HasLockPrefix
        /\ i.AddressSize = ins.AddressSize /\ i.HasDstAddressing = ins.HasDstAddressing
        /\ i.Relative = ins.Relative
    BY <1>3, <1>5, <1>9
  <2> QED BY <1>9, <1>10, <2>3, <2>4, <2>5, <2>6, <2>7, <2>8, <2>9 DEF Selected
<1>12. /\ code' \in CodeType /\ code'.prefixes = code.prefixes
       /\ code'.opcode = code.opcode /\ code'.modrm = code.modrm
       /\ code'.sib = None
  BY <1>1, SameCode
<1> HIDE DEF row
<1> QED BY <1>1, <1>2, <1>8, <1>11, <1>12, ChosenStep

----------------------------------------------------------------------------
(* Operands in memory.                                                     *)

Indexed(s, rex) == Index(s) + 8 * RexX(rex) # 4
Absolute(m, s)  == Base(s) = 5 /\ Mod(m) = 0
Factor(s)       == <<1, 2, 4, 8>>[Scale(s) + 1]

SIBIs(r, m, s, rex, valid) ==
  /\ r.bytes = 1 + (IF Base(s) # 5 THEN 0 ELSE IF Mod(m) = 1 THEN 1 ELSE 4)
  /\ Absolute(m, s) => r.base = FALSE
  /\ ~Absolute(m, s) => r.base = TRUE
  /\ Indexed(s, rex) => r.index = TRUE
  /\ ~Indexed(s, rex) => r.index = FALSE
  /\ r.scale = IF Indexed(s, rex) THEN Factor(s) ELSE 0
  /\ r.global <=> valid /\ Base(s) = 5 /\ Mod(m) # 1
  /\ ~r.ip

(* The fields of an operand with a SIB byte.                             *)
LEMMA SIBFields ==
  ASSUME NEW m, NEW s, NEW rex, NEW valid
  PROVE  SIBIs(SetSIB(m, s, rex, valid), m, s, rex, valid)
<1> SUFFICES ASSUME NEW r, r = SetSIB(m, s, rex, valid) PROVE SIBIs(r, m, s, rex, valid)
  OBVIOUS
<1> DEFINE bytes == 1 + (IF Base(s) # 5 THEN 0 ELSE IF Mod(m) = 1 THEN 1 ELSE 4)
           base  == IF Absolute(m, s) THEN FALSE ELSE TRUE
           index == IF Indexed(s, rex) THEN TRUE ELSE FALSE
           scale == IF Indexed(s, rex) THEN Factor(s) ELSE 0
           global == valid /\ Base(s) = 5 /\ Mod(m) # 1
           target == valid /\ Absolute(m, s) /\ ~Indexed(s, rex)
<1>0. (~Absolute(m, s)) = base /\ Indexed(s, rex) = index
  BY DEF Absolute, Indexed
<1>1. r =
        [NoMemory EXCEPT !.bytes = bytes, !.base = base, !.index = index,
             !.scale = scale,
                         !.global = global, !.target = target]
  BY <1>0, Zenon DEF SetSIB, Indexed, Absolute, Factor
<1> HIDE DEF bytes, base, index, scale, global, target
<1>2. /\ r.bytes = bytes /\ r.base = base /\ r.index = index /\ r.scale = scale
      /\ r.global = global /\ r.target = target /\ r.ip = FALSE
  BY <1>1 DEF NoMemory
<1> QED BY <1>2, Zenon DEF SIBIs, bytes, base, index, scale, global, target

(* The scale is 1 only where its field is 0.                             *)
LEMMA FactorOne ==
  ASSUME NEW s \in Byte
  PROVE  Factor(s) \in Nat /\ (Factor(s) = 1 => Scale(s) = 0)
<1>1. Scale(s) \in 0 .. 3
  BY DEF Scale, Byte
<1> QED BY <1>1 DEF Factor

(* The fields of any byte.                                               *)
LEMMA ByteFields ==
  ASSUME NEW b \in Byte
  PROVE  /\ Mod(b) \in 0 .. 3 /\ Reg3(b) \in 0 .. 7 /\ Rm(b) \in 0 .. 7
         /\ Index(b) \in 0 .. 7 /\ Base(b) \in 0 .. 7
         /\ RexX(b) \in {0, 1}
         /\ Mod(b) = 3 <=> b >= \hC0
BY DEF Mod, Reg3, Rm, Index, Base, RexX, Byte

(* Without a base or without an index register: all that the guesses at an *)
(* address need to know of an operand in memory.                           *)
OneRegister(m, s, scale) ==
  \/ /\ Rm(m) = 4 /\ Base(s) = 5 /\ Mod(m) = 0
     /\ scale = 1 => Scale(s) = 0
  \/ /\ Mod(m) = 2 /\ scale = 0
     /\ Rm(m) # 4 \/ Index(s) = 4

(* a: bytes of an address.                                                 *)
MemoryIs(r, a, m, s) ==
  /\ r.bytes = IF a = 2 THEN IF Mod(m) = 0 THEN IF Rm(m) = 6 THEN 2 ELSE 0 ELSE Mod(m)
               ELSE (IF Rm(m) = 4 THEN 1 ELSE 0)
                      + (IF Mod(m) = 1 THEN 1 ELSE IF Mod(m) = 2 THEN 4
                         ELSE IF Rm(m) = 5 \/ (Rm(m) = 4 /\ Base(s) = 5) THEN 4 ELSE 0)
  /\ r.ip <=> a # 2 /\ IS_AMD64 /\ Mod(m) = 0 /\ Rm(m) = 5
  /\ r.global /\ ~r.target /\ r.base # r.index => OneRegister(m, s, r.scale)

(* Operands in memory with 16-bit addresses,                             *)
LEMMA Memory16 ==
  ASSUME NEW m \in Byte, Mod(m) # 3, NEW s
  PROVE  MemoryIs(SetModRM16(m), 2, m, s)
<1> DEFINE index == Rm(m) \in 0 .. 3
<1>1. Mod(m) \in 0 .. 2 /\ Rm(m) \in 0 .. 7
  BY ByteFields
<1>2. CASE Mod(m) = 0 /\ Rm(m) = 6
  <2>1. SetModRM16(m) = [NoMemory EXCEPT !.bytes = 2]
    BY <1>2 DEF SetModRM16
  <2> QED BY <1>2, <2>1 DEF MemoryIs, NoMemory
<1>3. CASE ~(Mod(m) = 0 /\ Rm(m) = 6)
  <2>1. SetModRM16(m) = [NoMemory EXCEPT !.bytes = Mod(m), !.base = TRUE,
           !.index = index]
    BY <1>3 DEF SetModRM16
  <2> HIDE DEF index
  <2>2. /\ SetModRM16(m).bytes = Mod(m) /\ ~SetModRM16(m).ip /\ ~SetModRM16(m).global
    BY <2>1 DEF NoMemory
  <2> QED BY <1>1, <1>3, <2>2 DEF MemoryIs
<1> QED BY <1>2, <1>3

(* with others,                                                          *)
LEMMA Memory32 ==
  ASSUME NEW m \in Byte, Mod(m) # 3, NEW s, Rm(m) = 4 => s \in Byte,
         NEW rex \in Byte, NEW valid \in BOOLEAN, NEW a \in {4, 8}
  PROVE  MemoryIs(SetModRM32(m, s, rex, valid), a, m, s)
<1> DEFINE displacement == DisplacementBytes(Mod(m))
           global == valid /\ Mod(m) = 2
<1> SUFFICES ASSUME NEW r, r = SetModRM32(m, s, rex, valid)
             PROVE  MemoryIs(r, a, m, s)
  OBVIOUS
<1>1. Mod(m) \in 0 .. 2 /\ Rm(m) \in 0 .. 7
  BY ByteFields
<1>2. displacement = IF Mod(m) = 1 THEN 1 ELSE IF Mod(m) = 2 THEN 4 ELSE 0
  BY <1>1 DEF DisplacementBytes
<1>3. CASE Mod(m) = 0 /\ Rm(m) = 5
  <2> DEFINE ip == IS_AMD64
             target == IS_AMD64 \/ valid
             guess  == ~IS_AMD64 /\ valid
  <2>1. r = [NoMemory EXCEPT !.bytes = 4, !.base = ip, !.ip = ip, !.target = target,
                             !.global = guess]
    BY <1>3, Zenon DEF SetModRM32
  <2> HIDE DEF ip, target, guess
  <2>2. r.bytes = 4 /\ r.ip = ip /\ r.target = target /\ r.global = guess
    BY <2>1 DEF NoMemory
  <2>3. r.bytes = 4 /\ (r.ip <=> IS_AMD64) /\ (r.global => r.target)
    BY <2>2, Zenon DEF ip, target, guess
  <2> QED BY <1>3, <2>3 DEF MemoryIs
<1>4. CASE Rm(m) # 4 /\ ~(Mod(m) = 0 /\ Rm(m) = 5)
  <2>1. r = [NoMemory EXCEPT !.bytes = displacement, !.base = TRUE, !.global = global]
    BY <1>4, Zenon DEF SetModRM32
  <2> HIDE DEF displacement, global
  <2>2. r.bytes = displacement /\ ~r.ip /\ r.global = global /\ r.scale = 0
    BY <2>1 DEF NoMemory
  <2>3. r.bytes = displacement /\ ~r.ip /\ (r.global => Mod(m) = 2) /\ r.scale = 0
    BY <2>2, Zenon DEF global
  <2> QED BY <1>1, <1>2, <1>4, <2>3 DEF MemoryIs, OneRegister
<1>5. CASE Rm(m) = 4
  <2>1. /\ s \in Byte /\ Index(s) \in 0 .. 7 /\ RexX(rex) \in {0, 1}
              /\ Base(s) \in 0 .. 7
        /\ Factor(s) = 1 => Scale(s) = 0
    BY <1>5, ByteFields, FactorOne
  <2>2. ~Indexed(s, rex) => Index(s) = 4
    BY <2>1 DEF Indexed
  <2>0. PICK q : q = SetSIB(m, s, rex, valid)
    OBVIOUS
  <2>3. /\ q.bytes = 1 + (IF Base(s) # 5 THEN 0 ELSE IF Mod(m) = 1 THEN 1 ELSE 4)
        /\ Absolute(m, s) => q.base = FALSE
        /\ ~Absolute(m, s) => q.base = TRUE
        /\ Indexed(s, rex) => q.index = TRUE
        /\ ~Indexed(s, rex) => q.index = FALSE
        /\ q.scale = IF Indexed(s, rex) THEN Factor(s) ELSE 0
        /\ q.global <=> valid /\ Base(s) = 5 /\ Mod(m) # 1
        /\ ~q.ip
    <3>1. SIBIs(q, m, s, rex, valid)
      <4>1. SIBIs(SetSIB(m, s, rex, valid), m, s, rex, valid)
        BY SIBFields
      <4> QED BY ONLY <2>0, <4>1
    <3> QED BY ONLY <3>1 DEF SIBIs
  <2>4. CASE Base(s) = 5
    <3>1. r = q
      BY <1>5, <2>0, <2>4 DEF SetModRM32
    <3>2. r.global /\ r.base # r.index => OneRegister(m, s, r.scale)
      <4> SUFFICES ASSUME r.global, r.base # r.index PROVE OneRegister(m, s, r.scale)
        OBVIOUS
      <4>1. Mod(m) \in {0, 2}
        BY <1>1, <2>3, <3>1
      <4>2. CASE Mod(m) = 0
        <5>1. q.base # q.index
          BY <3>1
        <5>2. Absolute(m, s)
          BY <4>2, <2>4 DEF Absolute
        <5>3. Indexed(s, rex)
          BY <5>1, <5>2, <2>3, Zenon
        <5>4. r.scale = Factor(s)
          BY <5>3, <2>3, <3>1
        <5> QED BY <1>5, <2>1, <2>4, <4>2, <5>4 DEF OneRegister
      <4>3. CASE Mod(m) = 2
        <5>1. q.base # q.index
          BY <3>1
        <5>2. ~Absolute(m, s)
          BY <4>3 DEF Absolute
        <5>3. ~Indexed(s, rex)
          BY <5>1, <5>2, <2>3, Zenon
        <5>4. r.scale = 0
          BY <5>3, <2>3, <3>1
        <5> QED BY <1>5, <2>2, <4>3, <5>3, <5>4 DEF OneRegister
      <4> QED BY <4>1, <4>2, <4>3
    <3>3. r.bytes = 1 + (IF Mod(m) = 1 THEN 1 ELSE 4) /\ ~r.ip
      BY <2>3, <2>4, <3>1
    <3> QED BY <1>1, <1>5, <2>4, <3>2, <3>3 DEF MemoryIs
  <2>5. CASE Base(s) # 5
    <3>1. r = [q EXCEPT !.bytes = q.bytes + displacement, !.global = global]
      BY <1>5, <2>0, <2>5 DEF SetModRM32
    <3>2. /\ "bytes" \in DOMAIN q /\ "global" \in DOMAIN q
      BY <2>0 DEF SetSIB, NoMemory
    <3> HIDE DEF displacement, global
    <3>3. /\ r.bytes = q.bytes + displacement /\ r.global = global
          /\ r.base = q.base /\ r.index = q.index /\ r.scale = q.scale /\ r.ip = q.ip
      BY <3>1, <3>2
    <3>4. r.global => Mod(m) = 2
      BY <3>3 DEF global
    <3>5. ~Absolute(m, s)
      BY <2>5 DEF Absolute
    <3>6. r.global /\ r.base # r.index => OneRegister(m, s, r.scale)
      <4> SUFFICES ASSUME r.global, r.base # r.index PROVE OneRegister(m, s, r.scale)
        OBVIOUS
      <4>1. q.base # q.index
        BY <3>3
      <4>3. ~Indexed(s, rex)
        BY <4>1, <3>5, <2>3, Zenon
      <4>4. r.scale = 0
        BY <4>3, <2>3, <3>3
      <4> QED BY <2>2, <3>4, <4>3, <4>4 DEF OneRegister
    <3>7. r.bytes = 1 + displacement /\ ~r.ip
      BY <1>1, <1>2, <2>3, <2>5, <3>3
    <3> QED BY <1>1, <1>2, <1>5, <2>5, <3>6, <3>7 DEF MemoryIs
  <2> QED BY <2>4, <2>5
<1> QED BY <1>3, <1>4, <1>5

(* and with either.                                                      *)
LEMMA MemoryFields ==
  ASSUME NEW i, NEW row, NEW s, NEW valid \in BOOLEAN, UsesMemory(row),
         code.modrm \in Byte, i.AddressSize \in {2, 4, 8}, i.rex \in Byte,
         i.AddressSize # 2 /\ Rm(code.modrm) = 4 => s \in Byte
  PROVE  MemoryIs(Memory(i, row, s, valid), i.AddressSize, code.modrm, s)
<1>1. Mod(code.modrm) # 3
  BY DEF UsesMemory
<1>2. CASE i.AddressSize = 2
  BY <1>1, <1>2, Memory16 DEF Memory
<1>3. CASE i.AddressSize # 2
  <2>1. Memory(i, row, s, valid) = SetModRM32(code.modrm, s, i.rex, valid)
    BY <1>3, Zenon DEF Memory
  <2>2. i.AddressSize \in {4, 8}
    BY <1>3
  <2> QED BY <1>1, <1>3, <2>1, <2>2, Memory32
<1> QED BY <1>2, <1>3

(* The reference reckons the same.                                         *)
LEMMA MemoryLengthIs ==
  ASSUME NEW r, NEW d, d.modrm \in Byte, Mod(d.modrm) # 3,
         MemoryIs(r, AddressBytes(arch, d), d.modrm, d.sib)
  PROVE  r.bytes = Displacement(arch, d) /\ r.bytes \in Nat
<1>1. Mod(d.modrm) \in 0 .. 2 /\ Rm(d.modrm) \in 0 .. 7
  BY ByteFields
<1>2. (CASE Mod(d.modrm) = 1 -> 1
         [] Mod(d.modrm) = 2 -> 4
         [] OTHER -> IF Rm(d.modrm) = 5 \/ (Rm(d.modrm) = 4
              /\ Base(d.sib) = 5) THEN 4 ELSE 0)
      = IF Mod(d.modrm) = 1 THEN 1 ELSE IF Mod(d.modrm) = 2 THEN 4
        ELSE IF Rm(d.modrm) = 5 \/ (Rm(d.modrm) = 4 /\ Base(d.sib) = 5) THEN 4 ELSE 0
  BY <1>1
<1> QED BY <1>1, <1>2 DEF MemoryIs, Displacement

----------------------------------------------------------------------------
(* The bytes of the operands.                                              *)

(* No operand is without length.                                         *)
LEMMA LengthOfOperand ==
  ASSUME NEW i, i.OperandSize \in {2, 4, 8}, NEW type
  PROVE  OperandLength(i, type) \in Nat \ {0}
BY DEF OperandLength

(* The fields of Sizes.                                                  *)
LEMMA SizesFields ==
  ASSUME NEW o, NEW a
  PROVE  Sizes(o, a).OperandSize = o /\ Sizes(o, a).AddressSize = a
BY DEF Sizes

(* The bytes of an operand: those of its own, and those of one in memory.*)
LEMMA BytesOfIs ==
  ASSUME NEW i, i.OperandSize \in {2, 4, 8}, i.AddressSize \in {2, 4, 8}, NEW op,
            NEW memory
  PROVE  LET own == BytesOf(Sizes(i.OperandSize, i.AddressSize), op, NoMemory)
         IN /\ own \in Nat
            /\ op[1] \in MemoryModes => BytesOf(i, op, memory) = memory.bytes /\ own = 0
            /\ op[1] \notin MemoryModes => BytesOf(i, op, memory) = own
            /\ op[1] = "I" => own = OperandLength(i, op[2])
            /\ op[1] \notin {"I", "J", "A", "O"} => own = 0
<1> SUFFICES ASSUME NEW j, j = Sizes(i.OperandSize, i.AddressSize)
             PROVE  LET own == BytesOf(j, op, NoMemory)
         IN /\ own \in Nat
            /\ op[1] \in MemoryModes => BytesOf(i, op, memory) = memory.bytes /\ own = 0
            /\ op[1] \notin MemoryModes => BytesOf(i, op, memory) = own
            /\ op[1] = "I" => own = OperandLength(i, op[2])
            /\ op[1] \notin {"I", "J", "A", "O"} => own = 0
  OBVIOUS
<1>1. j.OperandSize = i.OperandSize /\ j.AddressSize = i.AddressSize
  BY SizesFields
<1>2. OperandLength(i, op[2]) = OperandLength(j, op[2])
  BY <1>1 DEF OperandLength
<1>3. OperandLength(j, op[2]) \in Nat
  BY <1>1, LengthOfOperand
<1>4. NoMemory.bytes = 0
  BY DEF NoMemory
<1>5. CASE op[1] \in {"I", "J", "A"}
  BY <1>2, <1>3, <1>5 DEF BytesOf, MemoryModes
<1>6. CASE op[1] = "O"
  BY <1>1, <1>6 DEF BytesOf, MemoryModes
<1>7. CASE op[1] \in MemoryModes
  BY <1>4, <1>7 DEF BytesOf, MemoryModes
<1>8. CASE op[1] \notin {"I", "J", "A", "O"} \cup MemoryModes
  BY <1>8 DEF BytesOf, MemoryModes
<1> QED BY <1>5, <1>6, <1>7, <1>8

(* Three summands, one of which is somewhere else.                         *)
LEMMA SumOfThree ==
  ASSUME NEW f, NEW g, NEW k \in 1 .. 3, NEW x \in Nat,
         \A j \in 1 .. 3 : g[j] \in Nat, \A j \in 1 .. 3 \ {k} : f[j] = g[j],
         g[k] = 0, f[k] = x
  PROVE  Sum3(f) = Sum3(g) + x /\ Sum3(g) \in Nat
<1>1. CASE k = 1
  BY <1>1 DEF Sum3
<1>2. CASE k = 2
  BY <1>2 DEF Sum3
<1>3. CASE k = 3
  BY <1>3 DEF Sum3
<1> QED BY <1>1, <1>2, <1>3

HeadBytes == IF code.modrm = None THEN 0 ELSE 1
(* The bytes of all operands, and the immediates behind one in memory.   *)
LEMMA AllBytesIs ==
  ASSUME NEW i, i.OperandSize \in {2, 4, 8}, i.AddressSize \in {2, 4, 8}, NEW row,
         Shape(row.ops), NEW memory, memory.bytes \in Nat
  PROVE  LET own == OwnBytes(row.ops, i.OperandSize, i.AddressSize)
         IN /\ own \in Nat
            /\ AllBytes(i, row, memory) =
                 HeadBytes + own + (IF InMemory(row.ops) THEN memory.bytes ELSE 0)
            /\ \A k \in DOMAIN row.ops :
                 Mode(row.ops, k) \in MemoryModes => ImmediateSize(i, row, k) = own
<1> DEFINE f == [k \in 1 .. 3 |->
                   IF k \in DOMAIN row.ops THEN BytesOf(i, row.ops[k], memory) ELSE 0]
           g == [k \in 1 .. 3 |->
                   IF k \in DOMAIN row.ops
                   THEN BytesOf(Sizes(i.OperandSize, i.AddressSize), row.ops[k],
                        NoMemory)
                   ELSE 0]
<1>1. /\ AllBytes(i, row, memory) = HeadBytes + Sum3(f)
      /\ OwnBytes(row.ops, i.OperandSize, i.AddressSize) = Sum3(g)
  BY DEF AllBytes, OwnBytes, HeadBytes
<1>2. HeadBytes \in Nat
  BY DEF HeadBytes
<1>3. \A k \in 1 .. 3 :
        /\ g[k] \in Nat
        /\ k \notin DOMAIN row.ops => f[k] = 0 /\ g[k] = 0
        /\ k \in DOMAIN row.ops =>
             /\ Mode(row.ops, k) \in MemoryModes => f[k] = memory.bytes /\ g[k] = 0
             /\ Mode(row.ops, k) \notin MemoryModes => f[k] = g[k]
             /\ Mode(row.ops, k) = "I" => g[k] = OperandLength(i, row.ops[k][2])
             /\ Mode(row.ops, k) \notin {"I", "J", "A", "O"} => g[k] = 0
  BY BytesOfIs DEF Mode
<1>4. DOMAIN row.ops \subseteq 1 .. 3 /\ DOMAIN row.ops = 1 .. Len(row.ops)
      /\ Len(row.ops) \in 0 .. 3
  <2>1. DOMAIN row.ops = 1 .. Len(row.ops) /\ Len(row.ops) \in 0 .. 3
    BY Zenon DEF Shape
  <2>2. \A n \in 0 .. 3 : 1 .. n \subseteq 1 .. 3
    OBVIOUS
  <2> QED BY <2>1, <2>2, Zenon
<1>5. ASSUME NEW k \in DOMAIN row.ops, Mode(row.ops, k) \in MemoryModes,
             NEW j \in DOMAIN row.ops \ {k}
      PROVE  /\ Mode(row.ops, j) \notin MemoryModes \cup {"J", "A", "O"}
             /\ j < k => Mode(row.ops, j) # "I"
  BY <1>5 DEF Shape
<1>6. ASSUME NEW k \in DOMAIN row.ops, Mode(row.ops, k) \in MemoryModes
      PROVE  ImmediateSize(i, row, k) = Sum3(g)
  <2> DEFINE h == [n \in 1 .. 3 |->
                     IF n \in k + 1 .. Len(row.ops) /\ row.ops[n][1] = "I"
                     THEN OperandLength(i, row.ops[n][2]) ELSE 0]
  <2>1. ASSUME NEW n \in 1 .. 3 PROVE h[n] = g[n]
    <3>1. CASE n \notin DOMAIN row.ops
      <4>1. n \notin k + 1 .. Len(row.ops)
        BY <1>4, <3>1
      <4>2. h[n] = 0
        BY <4>1
      <4> QED BY <1>3, <3>1, <4>2
    <3>2. CASE n = k
      <4>1. n \notin k + 1 .. Len(row.ops)
        BY <1>4, <3>2
      <4>2. h[n] = 0
        BY <4>1
      <4> QED BY <1>3, <1>6, <3>2, <4>2
    <3>3. CASE n \in DOMAIN row.ops \ {k} /\ Mode(row.ops, n) = "I"
      <4>1. ~(n < k)
        BY <1>5, <1>6, <3>3
      <4>2. n \in k + 1 .. Len(row.ops) /\ row.ops[n][1] = "I"
        BY <1>4, <3>3, <4>1 DEF Mode
      <4>3. h[n] = OperandLength(i, row.ops[n][2])
        BY <4>2
      <4>4. g[n] = OperandLength(i, row.ops[n][2])
        BY <1>3, <3>3
      <4> QED BY <4>3, <4>4
    <3>4. CASE n \in DOMAIN row.ops \ {k} /\ Mode(row.ops, n) # "I"
      <4>1. row.ops[n][1] # "I"
        BY <3>4 DEF Mode
      <4>2. h[n] = 0
        BY <4>1
      <4>3. Mode(row.ops, n) \notin {"I", "J", "A", "O"}
        BY <1>5, <1>6, <3>4
      <4> QED BY <1>3, <3>4, <4>2, <4>3
    <3> QED BY <3>1, <3>2, <3>3, <3>4
  <2>2. ImmediateSize(i, row, k) = Sum3(h)
    BY DEF ImmediateSize
  <2> HIDE DEF h, g
  <2> QED BY <2>1, <2>2 DEF Sum3
<1> HIDE DEF f, g
<1>7. Sum3(f) = Sum3(g) + (IF InMemory(row.ops) THEN memory.bytes ELSE 0)
         /\ Sum3(g) \in Nat
  <2>1. CASE InMemory(row.ops)
    <3>1. PICK k \in DOMAIN row.ops : Mode(row.ops, k) \in MemoryModes
      BY <2>1 DEF InMemory
    <3>2. k \in 1 .. 3 /\ g[k] = 0 /\ f[k] = memory.bytes
      BY <1>3, <1>4, <3>1
    <3>3. \A j \in 1 .. 3 : g[j] \in Nat
      BY <1>3
    <3>4. ASSUME NEW j \in 1 .. 3 \ {k} PROVE f[j] = g[j]
      <4>1. CASE j \in DOMAIN row.ops
        <5>1. Mode(row.ops, j) \notin MemoryModes
          BY <1>5, <3>1, <4>1
        <5> QED BY <1>3, <4>1, <5>1
      <4>2. CASE j \notin DOMAIN row.ops
        BY <1>3, <4>2
      <4> QED BY <4>1, <4>2
    <3>5. Sum3(f) = Sum3(g) + memory.bytes /\ Sum3(g) \in Nat
      BY <3>2, <3>3, <3>4, SumOfThree
    <3> QED BY <2>1, <3>5
  <2>2. CASE ~InMemory(row.ops)
    <3>1. ASSUME NEW j \in 1 .. 3 PROVE f[j] = g[j] /\ g[j] \in Nat
      BY <1>3, <2>2 DEF InMemory
    <3>2. Sum3(f) = Sum3(g) /\ Sum3(g) \in Nat
      BY <3>1 DEF Sum3
    <3> QED BY <2>2, <3>2
  <2> QED BY <2>1, <2>2
<1>8. (IF InMemory(row.ops) THEN memory.bytes ELSE 0) \in Nat
  OBVIOUS
<1>9. AllBytes(i, row, memory) =
        HeadBytes + Sum3(g) + (IF InMemory(row.ops) THEN memory.bytes ELSE 0)
  BY ONLY <1>1, <1>2, <1>7, <1>8
<1> QED BY <1>1, <1>6, <1>7, <1>9

(* A displacement that is relative counts from the end of all bytes.     *)
LEMMA RelativeIs ==
  ASSUME NEW i, i.OperandSize \in {2, 4, 8}, i.AddressSize \in {2, 4, 8}, NEW row,
         Shape(row.ops), NEW memory, memory.bytes \in Nat,
         memory.ip => code.modrm # None, Bytes \in Nat
  PROVE  RelativeTo(i, row, memory) =
           IF Branching(row.ops) \/ (memory.ip /\ InMemory(row.ops))
           THEN Bytes + AllBytes(i, row, memory) ELSE 0
<1> DEFINE rel == {k \in DOMAIN row.ops : memory.ip /\ row.ops[k][1] \in MemoryModes}
           k == CHOOSE n \in rel : TRUE
           own == OwnBytes(row.ops, i.OperandSize, i.AddressSize)
<1>1. /\ own \in Nat
      /\ AllBytes(i, row, memory) =
           HeadBytes + own + (IF InMemory(row.ops) THEN memory.bytes ELSE 0)
      /\ \A n \in DOMAIN row.ops :
           Mode(row.ops, n) \in MemoryModes => ImmediateSize(i, row, n) = own
  BY AllBytesIs
<1>2. RelativeTo(i, row, memory) =
        IF Branching(row.ops) THEN Bytes + AllBytes(i, row, memory)
        ELSE IF rel = {} THEN 0
        ELSE Bytes + 1 + memory.bytes + ImmediateSize(i, row, k)
  BY DEF RelativeTo, Branching, Bytes, Mode
<1>3. rel # {} <=> memory.ip /\ InMemory(row.ops)
  BY DEF InMemory, Mode
<1>4. CASE Branching(row.ops)
  BY <1>2, <1>4
<1>5. CASE ~Branching(row.ops) /\ rel = {}
  <2> HIDE DEF rel
  <2> QED BY <1>2, <1>3, <1>5
<1>6. CASE ~Branching(row.ops) /\ rel # {}
  <2>1. k \in rel
    BY <1>6
  <2>2. Mode(row.ops, k) \in MemoryModes /\ k \in DOMAIN row.ops
    BY <2>1 DEF Mode
  <2> HIDE DEF k, rel, own
  <2>3. ImmediateSize(i, row, k) = own /\ HeadBytes = 1 /\ InMemory(row.ops)
    BY <1>1, <1>3, <1>6, <2>2 DEF HeadBytes
  <2>4. Bytes + 1 + memory.bytes + own = Bytes + (1 + own + memory.bytes)
    BY <1>1
  <2> QED BY <1>1, <1>2, <1>3, <1>6, <2>3, <2>4
<1> QED BY <1>4, <1>5, <1>6

----------------------------------------------------------------------------
(* What the reference says of an instruction whose row is known.           *)

(* The opcode of an instruction whose row is known.                      *)
LEMMA KnownOpcode ==
  ASSUME Inv, stage \in Known
  PROVE  /\ OpcodeCount \in {1, 2} /\ LastOpcode \in Byte
         /\ OpcodeCount = 1 => ins.OpcodeLength = 1 /\ code.opcode = <<LastOpcode>>
                               /\ LastOpcode # X86_TWO_BYTE_OPCODE
         /\ OpcodeCount = 2 => ins.OpcodeLength \in {2, 3}
                               /\ code.opcode = <<X86_TWO_BYTE_OPCODE, LastOpcode>>
<1>1. \/ \E b \in Byte \ {X86_TWO_BYTE_OPCODE} : code.opcode = <<b>>
            /\ ins.OpcodeLength = 1
      \/ \E b \in Byte : code.opcode = <<X86_TWO_BYTE_OPCODE, b>>
            /\ ins.OpcodeLength \in {2, 3}
  BY DEF Inv, OpcodeInv, Reading, Known
<1>2. CASE \E b \in Byte \ {X86_TWO_BYTE_OPCODE} : code.opcode = <<b>>
         /\ ins.OpcodeLength = 1
  <2>1. PICK b \in Byte \ {X86_TWO_BYTE_OPCODE} : code.opcode = <<b>>
           /\ ins.OpcodeLength = 1
    BY <1>2
  <2>2. OpcodeCount = 1 /\ LastOpcode = b
    BY <2>1 DEF OpcodeCount, LastOpcode
  <2> QED BY <2>1, <2>2
<1>3. CASE \E b \in Byte :
             code.opcode = <<X86_TWO_BYTE_OPCODE, b>> /\ ins.OpcodeLength \in {2, 3}
  <2>1. PICK b \in Byte : code.opcode = <<X86_TWO_BYTE_OPCODE, b>>
                          /\ ins.OpcodeLength \in {2, 3}
    BY <1>3
  <2>2. OpcodeCount = 2 /\ LastOpcode = b
    BY <2>1 DEF OpcodeCount, LastOpcode
  <2> QED BY <2>1, <2>2
<1> QED BY <1>1, <1>2, <1>3

(* Sizes of operands and addresses.                                      *)
LEMMA SizesRange ==
  ASSUME NEW d
  PROVE  OperandBytes(arch, d) \in {2, 4, 8} /\ AddressBytes(arch, d) \in {2, 4, 8}
BY DEF OperandBytes, AddressBytes

(* The row says what the reference says.                                   *)
LEMMA KnownRow ==
  ASSUME Inv, stage \in Known
  PROVE  /\ Shape(ins.row.ops)
         /\ Placed(OpcodeCount, LastOpcode, Extension, InRegister, ins.row.ops)
         /\ Typed(OpcodeCount, LastOpcode, Extension, ins.row)
         /\ code.modrm # None <=> TakesModRM(OpcodeCount, LastOpcode)
         /\ TwoBytes \/ (OpcodeCount = 2 /\ LastOpcode \notin Full_2)
         /\ OpcodeCount = 1 /\ LastOpcode \in \hB8 .. \hBF =>
              ins.OperandSize = OperandBytes(arch, code)
         /\ ins \in Instructions(ins.row, ins.memory) /\ code \in CodeType
         /\ code.modrm \in Byte \cup {None}
         /\ ins.OperandSize \in {2, 4, 8} /\ ins.AddressSize \in {2, 4, 8}
         /\ ins.AddressSize = AddressBytes(arch, code)
         /\ ins.rex \in Byte
         /\ Bytes \in Nat
<1>1. stage # "refused" /\ ins \in Instructions(ins.row, ins.memory)
         /\ code \in CodeType
  BY DEF Inv, TypeOK, InsType, Known
<1>2. /\ code.modrm \in Byte \cup {None}
      /\ ins.OperandSize \in {2, 4, 8} /\ ins.AddressSize \in {2, 4, 8}
      /\ ins.rex \in Byte
      /\ code.prefixes \in Seq(Byte) /\ code.opcode \in Seq(Byte)
  BY <1>1 DEF Instructions, CodeType
<1>3. Bytes \in Nat
  <2>1. Len(code.prefixes) \in Nat /\ Len(code.opcode) \in Nat
    BY <1>2
  <2>2. \A a, b \in Nat : a + b \in Nat
    OBVIOUS
  <2> QED BY <2>1, <2>2, Zenon DEF Bytes
<1>4. ins.AddressSize = AddressBytes(arch, code)
  BY <1>1 DEF Inv, HeadInv
<1>5. /\ Suits(OpcodeCount, LastOpcode, Extension, InRegister, ins.row)
      /\ code.modrm # None <=> TakesModRM(OpcodeCount, LastOpcode)
      /\ TwoBytes \/ (OpcodeCount = 2 /\ LastOpcode \notin Full_2)
      /\ OpcodeCount = 1 /\ LastOpcode \in \hB8 .. \hBF =>
           ins.OperandSize = OperandBytes(arch, code)
  BY DEF Inv, RowInv
<1> QED BY <1>1, <1>2, <1>3, <1>4, <1>5 DEF Suits

OwnNow     == OwnBytes(ins.row.ops, ins.OperandSize, ins.AddressSize)
OwnMeant   == OwnBytes(ins.row.ops, OperandBytes(arch, code), AddressBytes(arch, code))
IpRelative == arch = "x64" /\ code.modrm # None /\ Mod(code.modrm) = 0
                 /\ Rm(code.modrm) = 5

(* The reference looks for a ModRM byte exactly where the decoder did.   *)
LEMMA HasModRMIs ==
  ASSUME Inv, stage \in Known, NEW d, d.opcode = code.opcode
  PROVE  HasModRM(d) <=> code.modrm # None
<1>1. /\ OpcodeCount \in {1, 2}
      /\ Len(d.opcode) = OpcodeCount
      /\ OpcodeCount = 1 => d.opcode[1] = LastOpcode
      /\ OpcodeCount = 2 => d.opcode[2] = LastOpcode
  BY KnownOpcode DEF OpcodeCount, LastOpcode
<1> QED BY <1>1, KnownRow DEF HasModRM, TakesModRM

(* The reference, in the words used for the rows.                        *)
LEMMA ReferenceIs ==
  ASSUME Inv, stage \in Known, ~Is3DNow, NEW d, d.prefixes = code.prefixes,
         d.opcode = code.opcode, d.modrm = code.modrm
  PROVE  /\ HasModRM(d) <=> code.modrm # None
         /\ ReferenceLength(arch, d) =
              Bytes + (IF code.modrm # None THEN 1 + Displacement(arch,
                   d) ELSE 0) + OwnMeant + 0
         /\ IsRelative(arch, d) <=> Branching(ins.row.ops) \/ IpRelative
<1>1. /\ OperandBytes(arch, d) = OperandBytes(arch, code)
      /\ AddressBytes(arch, d) = AddressBytes(arch, code)
  BY SamePrefixes
<1>2. /\ OpcodeCount \in {1, 2}
      /\ Len(d.opcode) = OpcodeCount /\ d.opcode[Len(d.opcode)] = LastOpcode
      /\ OpcodeCount = 1 => d.opcode[1] = LastOpcode
      /\ OpcodeCount = 2 => d.opcode[2] = LastOpcode
  BY KnownOpcode DEF OpcodeCount, LastOpcode
<1>3. HasModRM(d) <=> code.modrm # None
  BY HasModRMIs
<1>4. Immediate(arch, d) = OwnMeant
  <2>1. Immediate(arch, d) = ImmediateBytes(OpcodeCount = 2, LastOpcode, Extension,
                                            OperandBytes(arch, code),
                                                 AddressBytes(arch, code))
    BY <1>1, <1>2, Zenon DEF Immediate, Extension
  <2>2. \A o, a \in {2, 4, 8} : OwnBytes(ins.row.ops, o, a) =
          ImmediateBytes(OpcodeCount = 2, LastOpcode, Extension, o, a)
    BY KnownRow, Zenon DEF Placed
  <2> QED BY <2>1, <2>2, SizesRange, Zenon DEF OwnMeant
<1>5. IsRelative(arch, d) <=> Branching(ins.row.ops) \/ IpRelative
  <2>1. Branching(ins.row.ops) <=> Branches(OpcodeCount, LastOpcode)
    BY KnownRow DEF Placed
  <2> QED BY <1>2, <1>3, <2>1 DEF IsRelative, Branches, IpRelative
<1>6. d.opcode # <<\h0F, \h0F>>
  BY DEF Is3DNow
<1>7. Len(d.prefixes) + Len(d.opcode) = Bytes
  BY DEF Bytes
<1>8. ReferenceLength(arch, d) =
        Bytes + (IF code.modrm # None THEN 1 + Displacement(arch,
             d) ELSE 0) + OwnMeant + 0
  BY <1>3, <1>4, <1>6, <1>7, Zenon DEF ReferenceLength
<1> QED BY <1>3, <1>5, <1>8

(* The immediate is as long as the reference says, whatever the prefixes   *)
(* and the opcode made of the size of the operands.                        *)
LEMMA OwnIsMeant ==
  ASSUME Inv, stage \in Known
  PROVE  OwnNow = OwnMeant /\ OwnNow \in Nat
<1> DEFINE size == ins.OperandSize
           o == OperandBytes(arch, code)
           a == AddressBytes(arch, code)
           bytes(s) == ImmediateBytes(OpcodeCount = 2, LastOpcode, Extension, s, a)
<1>1. size \in {2, 4, 8} /\ o \in {2, 4, 8} /\ a \in {2, 4, 8} /\ ins.AddressSize = a
  BY KnownRow, SizesRange
<1>2. OwnNow = bytes(size) /\ OwnMeant = bytes(o)
  BY <1>1, KnownRow, Zenon DEF Placed, OwnNow, OwnMeant
<1>3. OpcodeCount \in {1, 2}
  BY KnownOpcode
<1>4. /\ TwoBytes \/ (OpcodeCount = 2 /\ LastOpcode \notin Full_2)
      /\ OpcodeCount = 1 /\ LastOpcode \in \hB8 .. \hBF => size = o
  BY KnownRow
<1> HIDE DEF o, a
<1>5. TwoBytes <=> (size = 2 <=> o = 2)
  BY DEF TwoBytes, o
<1>6. CASE OpcodeCount = 2
  <2>1. \A s : bytes(s) = IF LastOpcode \in Byte_2 THEN 1 ELSE IF LastOpcode \in Full_2
                          THEN IF s = 2 THEN 2 ELSE 4 ELSE 0
    BY <1>6 DEF ImmediateBytes, Byte_2, Full_2
  <2> HIDE DEF bytes, size
  <2> QED BY <1>1, <1>2, <1>3, <1>4, <1>5, <1>6, <2>1
<1>7. CASE OpcodeCount = 1
  <2>1. (size = 2 <=> o = 2) /\ (LastOpcode \in \hB8 .. \hBF => size = o)
    BY <1>4, <1>5, <1>7
  <2>2. bytes(size) = bytes(o)
    BY <1>1, <1>7, <2>1 DEF ImmediateBytes
  <2>3. bytes(size) \in Nat
    BY <1>1, <1>7 DEF ImmediateBytes
  <2> QED BY <1>2, <2>2, <2>3
<1> QED BY <1>3, <1>6, <1>7

----------------------------------------------------------------------------
(* Setting the operands.                                                   *)

(* What UsesMemory comes to.                                             *)
LEMMA MemoryIsUsed ==
  ASSUME NEW row
  PROVE  UsesMemory(row) <=> code.modrm # None /\ Mod(code.modrm) # 3
            /\ InMemory(row.ops)
BY DEF UsesMemory, InMemory, Mode

(* A ModRM byte that names memory has an operand to go with it.            *)
LEMMA OperandInMemory ==
  ASSUME Inv, stage \in Known, ~CannotBe(ins, ins.row), ~IsFence,
         code.modrm # None, Mod(code.modrm) # 3
  PROVE  UsesMemory(ins.row)
<1>1. code.modrm \in Byte
  BY KnownRow
<1>2. ~InRegister
  BY <1>1, ByteFields DEF InRegister
<1>3. ~Fence(OpcodeCount, LastOpcode, Extension)
  BY KnownOpcode DEF Fence, IsFence, Extension, X86_TWO_BYTE_OPCODE
<1>4. Located(ins.row.ops)
  BY <1>2, <1>3, KnownRow DEF Placed
<1>5. PICK k \in DOMAIN ins.row.ops : Mode(ins.row.ops, k) \in MemoryModes
         \cup RegisterModes
  BY <1>4 DEF Located
<1>6. ~Impossible(ins, ins.row.ops[k])
  BY <1>5 DEF CannotBe
<1>7. Mode(ins.row.ops, k) \notin RegisterModes
  BY <1>6 DEF Impossible, RegisterModes, Mode
<1> QED BY <1>5, <1>7, MemoryIsUsed DEF InMemory

(* A SIB byte is there when it is asked for.                             *)
LEMMA SIBsRange ==
  ASSUME NEW i, NEW row, NEW s \in SIBs(i, row), code \in CodeType
  PROVE  /\ s \in Byte \cup {None}
         /\ UsesMemory(row) /\ i.AddressSize # 2 /\ Rm(code.modrm) = 4 => s \in Byte
<1>1. SIBBytes \subseteq Byte
  BY X86DecodeAssumption
<1>2. code.sib \in Byte \cup {None}
  BY DEF CodeType
<1> QED BY <1>1, <1>2 DEF SIBs

(* The bytes of an operand in memory are a number.                       *)
LEMMA MemoryBytes ==
  ASSUME NEW i, NEW row, NEW s, NEW valid \in BOOLEAN, UsesMemory(row)
            => code.modrm \in Byte,
         i.AddressSize \in {2, 4, 8}, i.rex \in Byte,
         UsesMemory(row) /\ i.AddressSize # 2 /\ Rm(code.modrm) = 4 => s \in Byte
  PROVE  /\ Memory(i, row, s, valid).bytes \in Nat
         /\ Memory(i, row, s, valid).ip => UsesMemory(row)
<1>1. CASE UsesMemory(row)
  <2>1. MemoryIs(Memory(i, row, s, valid), i.AddressSize, code.modrm, s)
    BY <1>1, MemoryFields
  <2>2. Mod(code.modrm) \in Nat
    BY <1>1, ByteFields
  <2> QED BY <1>1, <2>1, <2>2 DEF MemoryIs
<1>2. CASE ~UsesMemory(row)
  BY <1>2 DEF Memory, NoMemory
<1> QED BY <1>1, <1>2

(* The operand in memory depends on nothing that changes here.             *)
LEMMA SameMemory ==
  ASSUME NEW i, NEW row, NEW s, NEW valid, arch' = arch, code'.modrm = code.modrm,
         ins'.row = row, ins'.rex = i.rex, ins'.AddressSize = i.AddressSize,
              code'.sib = s
  PROVE  /\ UsesMemory(ins.row)' <=> UsesMemory(row)
         /\ Memory(ins, ins.row, code.sib, valid)' = Memory(i, row, s, valid)
<1>1. UsesMemory(ins.row)' <=> UsesMemory(row)
  BY DEF UsesMemory
<1>2. SetModRM16(code.modrm)' = SetModRM16(code.modrm)
  BY DEF SetModRM16
<1>3. SetModRM32(code.modrm, code.sib, ins.rex, valid)'
        = SetModRM32(code.modrm, s, i.rex, valid)
  BY Zenon DEF SetModRM32, IS_AMD64
<1>4. Memory(ins, ins.row, code.sib, valid)' = Memory(i, row, s, valid)
  BY <1>1, <1>2, <1>3, Zenon DEF Memory
<1> QED BY <1>1, <1>4

(* The length and the end from which a displacement counts.                *)
LEMMA LengthStep ==
  ASSUME Inv, stage = "operands", ~CannotBe(ins, ins.row), ~Is3DNow, ~IsFence,
         code' \in CodeType, code'.prefixes = code.prefixes, code'.opcode = code.opcode,
         code'.modrm = code.modrm,
         NEW valid \in BOOLEAN, NEW s, code'.sib = s,
         UsesMemory(ins.row) /\ ins.AddressSize # 2 /\ Rm(code.modrm) = 4 => s \in Byte,
         NEW memory, memory = Memory(ins, ins.row, s, valid)
  PROVE  LET length == ins.Length + AllBytes(ins, ins.row, memory)
         IN /\ length = ReferenceLength(arch, code')
            /\ RelativeTo(ins, ins.row, memory) =
                 IF IsRelative(arch, code') THEN length ELSE 0
<1>1. stage \in Known
  BY DEF Known
<1>2. /\ Shape(ins.row.ops) /\ code.modrm \in Byte \cup {None}
      /\ ins.OperandSize \in {2, 4, 8} /\ ins.AddressSize \in {2, 4, 8}
      /\ ins.AddressSize = AddressBytes(arch, code) /\ ins.rex \in Byte /\ Bytes \in Nat
  BY <1>1, KnownRow
<1>3. ins.Length = Bytes
  BY <1>1, <1>2 DEF Inv, CheckInv
<1>4. AddressBytes(arch, code') = ins.AddressSize
  BY <1>2, SamePrefixes
<1>5. /\ HasModRM(code') <=> code.modrm # None
      /\ ReferenceLength(arch, code') =
           Bytes + (IF code.modrm # None THEN 1 + Displacement(arch, code') ELSE 0)
             + OwnMeant + 0
      /\ IsRelative(arch, code') <=> Branching(ins.row.ops) \/ IpRelative
  BY <1>1, ReferenceIs
<1>6. OwnNow = OwnMeant /\ OwnNow \in Nat
  BY <1>1, OwnIsMeant
<1>7. /\ UsesMemory(ins.row) => code.modrm \in Byte
      /\ UsesMemory(ins.row) <=>
           code.modrm # None /\ Mod(code.modrm) # 3 /\ InMemory(ins.row.ops)
  BY <1>2, MemoryIsUsed
<1>8. memory.bytes \in Nat /\ (memory.ip => UsesMemory(ins.row))
  BY <1>2, <1>7, MemoryBytes
<1>9. AllBytes(ins, ins.row, memory) =
        HeadBytes + OwnNow + (IF InMemory(ins.row.ops) THEN memory.bytes ELSE 0)
  BY <1>2, <1>8, AllBytesIs DEF OwnNow
<1>10. RelativeTo(ins, ins.row, memory) =
         IF Branching(ins.row.ops) \/ (memory.ip /\ InMemory(ins.row.ops))
         THEN Bytes + AllBytes(ins, ins.row, memory) ELSE 0
  BY <1>2, <1>7, <1>8, RelativeIs
<1>11. /\ (IF InMemory(ins.row.ops) THEN memory.bytes ELSE 0) =
            IF code.modrm # None THEN Displacement(arch, code') ELSE 0
       /\ memory.ip /\ InMemory(ins.row.ops) <=> IpRelative
  <2>1. CASE UsesMemory(ins.row)
    <3>1. MemoryIs(memory, ins.AddressSize, code.modrm, s)
      BY <1>2, <1>7, <2>1, MemoryFields
    <3>2. memory.bytes = Displacement(arch, code')
      BY <1>4, <1>7, <2>1, <3>1, MemoryLengthIs
    <3>3. arch = "x64" => ins.AddressSize # 2
      BY <1>2 DEF AddressBytes
    <3>4. memory.ip <=> IpRelative
      BY <1>7, <2>1, <3>1, <3>3 DEF MemoryIs, IpRelative, IS_AMD64
    <3> QED BY <1>7, <2>1, <3>2, <3>4
  <2>2. CASE ~UsesMemory(ins.row)
    <3>1. memory.bytes = 0 /\ ~memory.ip
      BY <2>2 DEF Memory, NoMemory
    <3>2. code.modrm # None => Mod(code.modrm) = 3
      BY <1>1, <2>2, OperandInMemory
    <3>3. code.modrm # None => Displacement(arch, code') = 0
      BY <3>2 DEF Displacement
    <3>4. ~IpRelative
      BY <3>2 DEF IpRelative
    <3> QED BY <3>1, <3>3, <3>4
  <2> QED BY <2>1, <2>2
<1>12. /\ HeadBytes = 1 <=> code.modrm # None
       /\ HeadBytes \in {0, 1}
  BY DEF HeadBytes
<1>13. (IF InMemory(ins.row.ops) THEN memory.bytes ELSE 0) \in Nat
  BY <1>8
<1>14. ins.Length + AllBytes(ins, ins.row, memory) = ReferenceLength(arch, code')
  <2>1. CASE code.modrm # None
    <3>1. HeadBytes = 1 /\ Displacement(arch, code') \in Nat
          /\ AllBytes(ins, ins.row, memory) = 1 + OwnNow + Displacement(arch, code')
          /\ ReferenceLength(arch,
                code') = Bytes + (1 + Displacement(arch, code')) + OwnNow + 0
      BY <1>5, <1>6, <1>9, <1>11, <1>12, <1>13, <2>1
    <3> QED BY ONLY <1>2, <1>3, <1>6, <3>1
  <2>2. CASE code.modrm = None
    <3>1. AllBytes(ins, ins.row, memory) = 0 + OwnNow + 0
          /\ ReferenceLength(arch, code') = Bytes + 0 + OwnNow + 0
      BY <1>5, <1>6, <1>9, <1>11, <1>12, <1>13, <2>2
    <3> QED BY ONLY <1>2, <1>3, <1>6, <3>1
  <2> QED BY <2>1, <2>2
<1> QED BY <1>3, <1>5, <1>10, <1>11, <1>14

(* The operands are set, or refused.                                     *)
LEMMA SetOperandsStep ==
  ASSUME Inv, SetOperands
  PROVE  Inv'
<1>1. /\ stage = "operands" /\ arch' = arch /\ arch \in {"x86", "x64"}
      /\ code \in CodeType /\ ins \in Instructions(ins.row, ins.memory)
      /\ stage \in Known
  BY DEF SetOperands, Inv, TypeOK, InsType, Known
<1>2. CASE CannotBe(ins, ins.row)
  <2>1. stage' = "refused" /\ UNCHANGED <<code, ins>>
    BY <1>2 DEF SetOperands
  <2> QED BY <1>1, <2>1, Refusal DEF TypeOK, InsType
<1>3. CASE ~CannotBe(ins, ins.row)
  <2>0. PICK s \in SIBs(ins, ins.row) : \E valid \in Validities(ins, ins.row, s) :
          LET memory == Memory(ins, ins.row, s, valid)
          IN /\ code' = [code EXCEPT !.sib = s]
             /\ ins' = [ins EXCEPT
                         !.Length = @ + AllBytes(ins, ins.row, memory),
                         !.Relative = RelativeTo(ins, ins.row, memory),
                         !.memory = memory,
                         !.AnomalyOccurred = @ \/ Unexpected(ins),
                         !.HasDstAddressing =
                            /\ ins.row.dst /\ UsesMemory(ins.row)
                            /\ ins.row.ops[1][1] \in MemoryModes]
             /\ stage' = "finish"
    BY <1>3, Zenon DEF SetOperands
  <2>1. PICK valid \in Validities(ins, ins.row, s) :
          LET memory == Memory(ins, ins.row, s, valid)
          IN /\ code' = [code EXCEPT !.sib = s]
             /\ ins' = [ins EXCEPT
                         !.Length = @ + AllBytes(ins, ins.row, memory),
                         !.Relative = RelativeTo(ins, ins.row, memory),
                         !.memory = memory,
                         !.AnomalyOccurred = @ \/ Unexpected(ins),
                         !.HasDstAddressing =
                            /\ ins.row.dst /\ UsesMemory(ins.row)
                            /\ ins.row.ops[1][1] \in MemoryModes]
             /\ stage' = "finish"
    BY <2>0, Zenon
  <2> DEFINE memory   == Memory(ins, ins.row, s, valid)
             length   == ins.Length + AllBytes(ins, ins.row, memory)
             relative == RelativeTo(ins, ins.row, memory)
             anomaly  == ins.AnomalyOccurred \/ Unexpected(ins)
             dst      == /\ ins.row.dst /\ UsesMemory(ins.row)
                         /\ ins.row.ops[1][1] \in MemoryModes
  <2>2. /\ valid \in BOOLEAN /\ s \in Byte \cup {None}
        /\ UsesMemory(ins.row) /\ ins.AddressSize # 2 /\ Rm(code.modrm) = 4
              => s \in Byte
    <3>1. Validities(ins, ins.row, s) \subseteq BOOLEAN
      BY DEF Validities
    <3> QED BY <1>1, <3>1, SIBsRange
  <2>3. /\ Shape(ins.row.ops) /\ code.modrm \in Byte \cup {None}
        /\ ins.OperandSize \in {2, 4, 8} /\ ins.AddressSize \in {2, 4, 8}
        /\ ins.rex \in Byte /\ Bytes \in Nat
    BY <1>1, KnownRow
  <2>4. memory.bytes \in Nat /\ (memory.ip => UsesMemory(ins.row))
        /\ (UsesMemory(ins.row) => code.modrm # None)
    BY <2>2, <2>3, MemoryBytes, MemoryIsUsed
  <2>5. /\ ins' = [ins EXCEPT !.Length = length, !.Relative = relative,
              !.memory = memory,
                              !.AnomalyOccurred = anomaly, !.HasDstAddressing = dst]
        /\ stage' = "finish"
    BY <2>1, Zenon
  <2>6. code' = [code EXCEPT !.sib = s]
    BY <2>1, Zenon
  <2>7. /\ code' \in CodeType /\ code'.prefixes = code.prefixes
        /\ code'.opcode = code.opcode /\ code'.modrm = code.modrm /\ code'.sib = s
    <3>1. code' \in CodeType
      BY <1>1, <2>2, <2>6, ZenonT(30) DEF CodeType
    <3>2. code'.prefixes = code.prefixes
          /\ code'.opcode = code.opcode /\ code'.modrm = code.modrm /\ code'.sib = s
      BY <1>1, <2>6 DEF CodeType
    <3> QED BY <3>1, <3>2
  <2> HIDE DEF memory
  <2>8. length \in Nat /\ relative \in Nat
    <3>1. AllBytes(ins, ins.row, memory) \in Nat
      <4>1. /\ OwnNow \in Nat
            /\ AllBytes(ins, ins.row, memory) =
                 HeadBytes + OwnNow + (IF InMemory(ins.row.ops) THEN memory.bytes ELSE 0)
        BY <2>3, <2>4, AllBytesIs DEF OwnNow
      <4>2. HeadBytes \in Nat
               /\ (IF InMemory(ins.row.ops) THEN memory.bytes ELSE 0) \in Nat
        BY <2>4 DEF HeadBytes
      <4> QED BY ONLY <4>1, <4>2
    <3>2. ins.Length \in Nat
      BY <1>1 DEF Instructions
    <3>3. relative = IF Branching(ins.row.ops) \/ (memory.ip /\ InMemory(ins.row.ops))
                     THEN Bytes + AllBytes(ins, ins.row, memory) ELSE 0
      BY <2>3, <2>4, RelativeIs
    <3> HIDE DEF relative
    <3> QED BY <2>3, <3>1, <3>2, <3>3
  <2>9. anomaly \in BOOLEAN /\ dst \in BOOLEAN
    BY Zenon
  <2>10. dst => UsesMemory(ins.row) /\ Mode(ins.row.ops, 1) \in MemoryModes
    BY DEF Mode
  <2>11. ~Is3DNow /\ ~IsFence =>
           length = ReferenceLength(arch, code') /\
           relative = IF IsRelative(arch, code') THEN length ELSE 0
    BY <1>1, <1>3, <2>2, <2>7, LengthStep DEF memory
  <2> HIDE DEF length, relative, anomaly, dst
  <2>12. /\ ins' \in Instructions(ins.row, memory) /\ ins'.row = ins.row
               /\ ins'.memory = memory
         /\ ins'.Length = length /\ ins'.Relative = relative
         /\ ins'.HasDstAddressing = dst /\ ins'.AnomalyOccurred = anomaly
         /\ ins'.Prefixes = ins.Prefixes /\ ins'.SSE_Prefix = ins.SSE_Prefix
         /\ ins'.rex = ins.rex /\ ins'.OperandSize = ins.OperandSize
         /\ ins'.AddressSize = ins.AddressSize
         /\ ins'.HasLockPrefix = ins.HasLockPrefix
         /\ ins'.OpcodeLength = ins.OpcodeLength
               /\ ins'.OpcodeExtension = ins.OpcodeExtension
         /\ ins'.failed = ins.failed
    <3>1. ins' \in Instructions(ins.row, memory)
      BY <1>1, <2>5, <2>8, <2>9, ZenonT(30) DEF Instructions
    <3>2. /\ ins'.row = ins.row /\ ins'.memory = memory
          /\ ins'.Length = length /\ ins'.Relative = relative
          /\ ins'.HasDstAddressing = dst /\ ins'.AnomalyOccurred = anomaly
          /\ ins'.Prefixes = ins.Prefixes /\ ins'.SSE_Prefix = ins.SSE_Prefix
          /\ ins'.rex = ins.rex /\ ins'.OperandSize = ins.OperandSize
          /\ ins'.AddressSize = ins.AddressSize
          /\ ins'.HasLockPrefix = ins.HasLockPrefix
          /\ ins'.OpcodeLength = ins.OpcodeLength
          /\ ins'.OpcodeExtension = ins.OpcodeExtension
          /\ ins'.failed = ins.failed
      BY <1>1, <2>5 DEF Instructions
    <3> QED BY <3>1, <3>2
  <2>13. /\ OpcodeCount' = OpcodeCount /\ LastOpcode' = LastOpcode
               /\ Extension' = Extension
         /\ InRegister' = InRegister /\ Bytes' = Bytes /\ Is3DNow' = Is3DNow
         /\ IsFence' = IsFence
    BY <2>7 DEF OpcodeCount, LastOpcode, Extension, InRegister, Bytes, Is3DNow, IsFence
  <2>14. /\ \A x : Has(code', x) <=> Has(code, x)
         /\ LastRex(arch, code') = LastRex(arch, code)
         /\ OperandBytes(arch, code') = OperandBytes(arch, code)
         /\ AddressBytes(arch, code') = AddressBytes(arch, code)
    BY <2>7, SamePrefixes
  <2>15. SsePrefixes' = SsePrefixes
    BY <1>1, <2>14 DEF SsePrefixes
  <2>16. stage' = "finish"
    BY <2>5
  <2>17. TypeOK'
    BY <1>1, <2>7, <2>12, <2>16 DEF TypeOK, InsType, Known
  <2>18. OpcodeInv'
    BY <1>1, <2>7, <2>12, <2>16 DEF Inv, OpcodeInv, Reading, Known
  <2>19. HeadInv'
    BY <1>1, <2>12, <2>14, <2>16 DEF Inv, HeadInv
  <2>20. RowInv'
    <3>1. TwoBytes' = TwoBytes
      BY <1>1, <2>12, <2>14 DEF TwoBytes
    <3> QED BY <1>1, <2>7, <2>12, <2>13, <2>14, <2>15, <3>1 DEF Inv, RowInv
  <2>21. CheckInv'
    BY <1>1, <2>7, <2>12, <2>13, <2>16 DEF Inv, CheckInv
  <2>22. SseInv'
    <3>1. ins'.AnomalyOccurred \/ ~ins.AnomalyOccurred
      BY <2>12 DEF anomaly
    <3> QED BY <1>1, <2>12, <2>13, <2>15, <3>1 DEF Inv, SseInv
  <2>23. LengthInv'
    BY <1>1, <2>11, <2>12, <2>13 DEF LengthInv
  <2>24. MemoryInv'
    <3>1. /\ UsesMemory(ins.row)' <=> UsesMemory(ins.row)
          /\ Memory(ins, ins.row, code.sib, valid)' = Memory(ins, ins.row, s, valid)
      BY <1>1, <2>7, <2>12, SameMemory
    <3>2. \E v \in BOOLEAN : (ins.memory = Memory(ins, ins.row, code.sib, v))'
      BY <2>2, <2>12, <3>1 DEF memory
    <3> QED BY <2>2, <2>7, <2>10, <2>12, <3>1, <3>2 DEF MemoryInv
  <2> QED BY <2>16, <2>17, <2>18, <2>19, <2>20, <2>21, <2>22, <2>23, <2>24
          DEF Inv, ReadInv, PrefixInv, LockOnlyWhereLegal, AssertionsHold,
          Accepted, Reading
<1> QED BY <1>2, <1>3

----------------------------------------------------------------------------
(* 3DNow.                                                                  *)

(* The bytes of all operands are a number.                               *)
LEMMA AllBytesNat ==
  ASSUME NEW i, i.OperandSize \in {2, 4, 8}, i.AddressSize \in {2, 4, 8}, NEW row,
         NEW memory, memory.bytes \in Nat
  PROVE  AllBytes(i, row, memory) \in Nat
<1> DEFINE f == [k \in 1 .. 3 |->
                   IF k \in DOMAIN row.ops THEN BytesOf(i, row.ops[k], memory) ELSE 0]
<1>1. ASSUME NEW k PROVE BytesOf(i, row.ops[k], memory) \in Nat
  BY BytesOfIs
<1>2. f[1] \in Nat /\ f[2] \in Nat /\ f[3] \in Nat
  BY <1>1
<1>3. AllBytes(i, row, memory) = HeadBytes + Sum3(f)
  BY DEF AllBytes, HeadBytes
<1> HIDE DEF f
<1>4. Sum3(f) \in Nat /\ HeadBytes \in Nat
  BY <1>2 DEF Sum3, HeadBytes
<1> QED BY <1>3, <1>4

(* A row of 3DNow, selected by the byte behind the operands.             *)
LEMMA SelectSuffixStep ==
  ASSUME Inv, SelectSuffix
  PROVE  Inv'
<1> DEFINE size    == IF ins.HasOperandSizePrefix THEN 4 ELSE ins.OperandSize
           anomaly == ins.AnomalyOccurred \/ ins.HasOperandSizePrefix
           i       == [ins EXCEPT !.AnomalyOccurred = anomaly,
                                  !.HasOperandSizePrefix = FALSE, !.OperandSize = size]
<1>1. stage = "row" /\ Entry.kind = "suffix"
  BY DEF SelectSuffix
<1>2. Entry.kind \in Kinds
  BY <1>1 DEF Kinds
<1>3. /\ ins \in Instructions(ins.row, ins.memory) /\ code \in CodeType
      /\ code.modrm \in Byte \cup {None}
      /\ ins.failed = "none"
  BY <1>1 DEF Inv, TypeOK, InsType, CodeType, ReadInv, Reading
<1>4. PICK s \in SIBs(ins, Entry), suffix \in SuffixBytes :
        LET memory == Memory(i, Entry, s, FALSE)
        IN /\ code' = [code EXCEPT !.sib = s, !.suffix = suffix]
           /\ IF CannotBe(i, Entry)
              THEN Chosen(Invalid, i)
              ELSE Chosen(At(Entry.table, suffix),
                          [i EXCEPT !.Length = @ + AllBytes(i, Entry, memory) + 1,
                                    !.OpcodeLength = 3,
                                    !.failed = IF UsesMemory(Entry)
                                               THEN "!HasSrcAddressing" ELSE @])
  BY DEF SelectSuffix
<1>5. size \in {2, 4, 8} /\ anomaly \in BOOLEAN
  BY <1>3 DEF Instructions
<1> DEFINE memory == Memory(i, Entry, s, FALSE)
           length == i.Length + AllBytes(i, Entry, memory) + 1
           failed == IF UsesMemory(Entry) THEN "!HasSrcAddressing" ELSE i.failed
           j      == [i EXCEPT !.Length = length, !.OpcodeLength = 3, !.failed = failed]
           row    == IF CannotBe(i, Entry) THEN Invalid ELSE At(Entry.table, suffix)
           k      == IF CannotBe(i, Entry) THEN i ELSE j
<1>6. Chosen(row, k)
  BY <1>4, Zenon
<1>7. /\ s \in Byte \cup {None} /\ suffix \in Byte
      /\ UsesMemory(Entry) /\ ins.AddressSize # 2 /\ Rm(code.modrm) = 4 => s \in Byte
  BY <1>3, SIBsRange, X86DecodeAssumption
<1>8. code' = [code EXCEPT !.sib = s, !.suffix = suffix]
  BY <1>4, Zenon
<1>9. /\ code' \in CodeType /\ code'.prefixes = code.prefixes
      /\ code'.opcode = code.opcode /\ code'.modrm = code.modrm
  <2>1. code' \in CodeType
    BY <1>3, <1>7, <1>8, ZenonT(30) DEF CodeType
  <2>2. code'.prefixes = code.prefixes /\ code'.opcode = code.opcode
           /\ code'.modrm = code.modrm
    BY <1>3, <1>8 DEF CodeType
  <2> QED BY <2>1, <2>2
<1> HIDE DEF size, anomaly
<1>10. i \in Instructions(ins.row, ins.memory)
  BY <1>3, <1>5, ZenonT(30) DEF Instructions
<1>11. /\ i.OperandSize = size /\ i.AddressSize = ins.AddressSize /\ i.rex = ins.rex
       /\ i.failed = ins.failed /\ i.HasLockPrefix = ins.HasLockPrefix
       /\ i.HasDstAddressing = ins.HasDstAddressing /\ i.Relative = ins.Relative
  BY <1>3 DEF Instructions
<1> HIDE DEF i
<1>12. AllBytes(i, Entry, memory) \in Nat
  <2>1. i.AddressSize \in {2, 4, 8} /\ i.rex \in Byte /\ i.OperandSize \in {2, 4, 8}
    BY <1>10 DEF Instructions
  <2>2. UsesMemory(Entry) => code.modrm \in Byte
    BY <1>3, MemoryIsUsed
  <2>3. memory.bytes \in Nat
    BY <1>7, <1>11, <2>1, <2>2, MemoryBytes
  <2> HIDE DEF memory
  <2> QED BY <2>1, <2>3, AllBytesNat
<1>13. length \in Nat
  <2>1. i.Length \in Nat
    BY <1>10 DEF Instructions
  <2> HIDE DEF memory
  <2> QED BY <1>12, <2>1
<1> HIDE DEF memory, length
<1>14. failed \in Failures /\ (failed # "none" => UsesMemory(Entry))
  BY <1>3, <1>11 DEF Failures
<1> HIDE DEF failed
<1>15. j \in Instructions(ins.row, ins.memory)
  <2>1. 3 \in 0 .. 3
    OBVIOUS
  <2> QED BY <1>10, <1>13, <1>14, <2>1, ZenonT(30) DEF Instructions
<1>16. /\ j.OpcodeLength = 3 /\ j.failed = failed /\ j.rex = i.rex
       /\ j.HasLockPrefix = i.HasLockPrefix /\ j.AddressSize = i.AddressSize
       /\ j.HasDstAddressing = i.HasDstAddressing /\ j.Relative = i.Relative
  BY <1>10 DEF Instructions
<1> HIDE DEF j
<1>17. k \in Instructions(ins.row, ins.memory)
  BY <1>10, <1>15
<1>18. /\ OpcodeCount = 2 /\ LastOpcode = \h0F /\ Is3DNow
       /\ LastOpcode \notin Groups(OpcodeCount)
       /\ \A x \in DOMAIN Entry.table : RowFits(OpcodeCount, LastOpcode, Entry.table[x])
  BY <1>1, <1>2, EntryFits DEF Fits, Is3DNow, X86_TWO_BYTE_OPCODE
<1>19. ASSUME row # Invalid
       PROVE  Selected(k, row)
  <2>1. k = j /\ row = At(Entry.table, suffix)
    BY <1>19
  <2>2. row = Entry.table[suffix] /\ suffix \in DOMAIN Entry.table
    BY <1>19, <2>1, AtFound
  <2> HIDE DEF row, k
  <2>3. Suits(OpcodeCount, LastOpcode, Extension, InRegister, row)
    BY <1>3, <1>18, <2>2, RegRange, MoreSuits DEF RowFits
  <2>4. j.failed # "none" => code.modrm # None /\ Mod(code.modrm) # 3
    BY <1>14, <1>16, MemoryIsUsed
  <2>5. LastOpcode \notin Full_2
    BY <1>18 DEF Full_2
  <2> QED BY <1>11, <1>16, <1>18, <2>1, <2>3, <2>4, <2>5 DEF Selected
<1> HIDE DEF row, k
<1> QED BY <1>1, <1>2, <1>6, <1>9, <1>17, <1>18, <1>19, ChosenStep

----------------------------------------------------------------------------
(* Prefixes, now that the opcode is known.                                 *)

(* A REX prefix without its bit w is a byte.                             *)
LEMMA RexWithoutW ==
  ASSUME NEW r \in Byte, RexW(r)
  PROVE  r - 8 \in Byte
BY DEF RexW, Byte

(* What Sized and Repeated make of an instruction.                         *)
LEMMA SizedFields ==
  ASSUME NEW row, NEW memory, NEW i \in Instructions(row, memory)
  PROVE  LET j == Sized(i)
             dropped == \/ i.row.type \in NoPrefixes \ {"FENV"}
                        \/ IS_AMD64 /\ RexW(i.rex)
         IN /\ j \in Instructions(row, memory)
            /\ j.row = i.row /\ j.memory = i.memory
            /\ j.Length = i.Length /\ j.Relative = i.Relative
            /\ j.HasDstAddressing = i.HasDstAddressing
            /\ j.Prefixes = i.Prefixes /\ j.SSE_Prefix = i.SSE_Prefix
            /\ j.AddressSize = i.AddressSize /\ j.HasLockPrefix = i.HasLockPrefix
            /\ j.OpcodeLength = i.OpcodeLength /\ j.OpcodeExtension = i.OpcodeExtension
            /\ j.failed = i.failed
            /\ i.AnomalyOccurred => j.AnomalyOccurred
            /\ \/ j.OperandSize = i.OperandSize
               \/ /\ HasDefault64Operand /\ j.OperandSize = 8
                  /\ i.HasOperandSizePrefix => dropped
<1> DEFINE dropped == \/ i.row.type \in NoPrefixes \ {"FENV"}
                      \/ IS_AMD64 /\ RexW(i.rex)
           size66  == /\ i.HasOperandSizePrefix
                      /\ ~(dropped /\ OneOf(i.Prefixes, PREFIX_OPERAND_SIZE))
           default == IS_AMD64 /\ HasDefault64Operand
           size    == IF default /\ ~size66 THEN 8 ELSE i.OperandSize
           rex     == IF default /\ RexW(i.rex) THEN i.rex - 8 ELSE i.rex
           anomaly == \/ i.AnomalyOccurred
                      \/ /\ RexW(i.rex)
                         /\ default \/ OneOf(i.Prefixes, PREFIX_OPERAND_SIZE)
<1>1. Sized(i) = [i EXCEPT !.HasOperandSizePrefix = size66, !.OperandSize = size,
                           !.rex = rex, !.AnomalyOccurred = anomaly]
  BY DEF Sized
<1>2. size66 \in BOOLEAN /\ anomaly \in BOOLEAN /\ (i.AnomalyOccurred => anomaly)
  BY Zenon
<1>3. i.rex \in Byte /\ i.OperandSize \in {2, 4, 8}
  BY DEF Instructions
<1>4. rex \in Byte
  BY <1>3, RexWithoutW
<1>5. size \in {2, 4, 8}
  BY <1>3
<1>6. \/ size = i.OperandSize
      \/ /\ HasDefault64Operand /\ size = 8
         /\ i.HasOperandSizePrefix => dropped
  OBVIOUS
<1> HIDE DEF dropped, size66, default, size, rex, anomaly
<1>7. Sized(i) \in Instructions(row, memory)
  BY <1>1, <1>2, <1>4, <1>5, ZenonT(30) DEF Instructions
<1>8. LET j == Sized(i)
      IN /\ j.row = i.row /\ j.memory = i.memory
         /\ j.Length = i.Length /\ j.Relative = i.Relative
         /\ j.HasDstAddressing = i.HasDstAddressing
         /\ j.Prefixes = i.Prefixes /\ j.SSE_Prefix = i.SSE_Prefix
         /\ j.AddressSize = i.AddressSize /\ j.HasLockPrefix = i.HasLockPrefix
         /\ j.OpcodeLength = i.OpcodeLength /\ j.OpcodeExtension = i.OpcodeExtension
         /\ j.failed = i.failed
  BY <1>1 DEF Instructions
<1>9. Sized(i).OperandSize = size /\ Sized(i).AnomalyOccurred = anomaly
  BY <1>1 DEF Instructions
<1> QED BY <1>2, <1>6, <1>7, <1>8, <1>9, Zenon DEF dropped

(* The same of Repeated.                                                 *)
LEMMA RepeatedFields ==
  ASSUME NEW row, NEW memory, NEW i \in Instructions(row, memory)
  PROVE  LET j == Repeated(i)
         IN /\ j \in Instructions(row, memory)
            /\ j.row = i.row /\ j.memory = i.memory
            /\ j.Length = i.Length /\ j.Relative = i.Relative
            /\ j.HasDstAddressing = i.HasDstAddressing
            /\ j.Prefixes = i.Prefixes /\ j.SSE_Prefix = i.SSE_Prefix
            /\ j.AddressSize = i.AddressSize /\ j.HasLockPrefix = i.HasLockPrefix
            /\ j.OpcodeLength = i.OpcodeLength /\ j.OpcodeExtension = i.OpcodeExtension
            /\ j.failed = i.failed /\ j.OperandSize = i.OperandSize
            /\ i.AnomalyOccurred => j.AnomalyOccurred
<1> DEFINE rep     == i.row.type = "STRING"
           any     == i.row.type = "STRCMP"
           repeat  == IF i.Repeat = 0 \/ any THEN i.Repeat ELSE IF rep THEN PREFIX_REP ELSE 0
           anomaly == \/ i.AnomalyOccurred
                      \/ /\ i.Repeat # 0 /\ ~any
                         /\ ~rep \/ i.Repeat = PREFIX_REPNE
<1>1. Repeated(i) = [i EXCEPT !.Repeat = repeat, !.AnomalyOccurred = anomaly]
  BY Zenon DEF Repeated
<1>2. anomaly \in BOOLEAN /\ (i.AnomalyOccurred => anomaly)
  BY Zenon
<1>3. i.Repeat \in {0, PREFIX_REPNE, PREFIX_REP}
  BY DEF Instructions
<1>4. repeat \in {0, PREFIX_REPNE, PREFIX_REP}
  BY <1>3, Zenon
<1> HIDE DEF rep, any, repeat, anomaly
<1>5. Repeated(i) \in Instructions(row, memory)
  BY <1>1, <1>2, <1>4, ZenonT(30) DEF Instructions
<1>6. LET j == Repeated(i)
      IN /\ j.row = i.row /\ j.memory = i.memory
         /\ j.Length = i.Length /\ j.Relative = i.Relative
         /\ j.HasDstAddressing = i.HasDstAddressing
         /\ j.Prefixes = i.Prefixes /\ j.SSE_Prefix = i.SSE_Prefix
         /\ j.AddressSize = i.AddressSize /\ j.HasLockPrefix = i.HasLockPrefix
         /\ j.OpcodeLength = i.OpcodeLength /\ j.OpcodeExtension = i.OpcodeExtension
         /\ j.failed = i.failed /\ j.OperandSize = i.OperandSize
  BY <1>1 DEF Instructions
<1>7. Repeated(i).AnomalyOccurred = anomaly
  BY <1>1 DEF Instructions
<1> QED BY <1>2, <1>5, <1>6, <1>7, Zenon

(* Of the prefixes an SSE opcode can take none is left but the first.      *)
LEMMA OnlyFirst ==
  ASSUME NEW p \in Seq(Byte), NEW x, NEW y,
         \E k \in DOMAIN p : p[k] = x, \E k \in DOMAIN p : p[k] = y,
         ~OneOf(Tail(p), x), ~OneOf(Tail(p), y)
  PROVE  x = y
<1>1. ASSUME NEW k \in DOMAIN p, NEW z, p[k] = z, ~OneOf(Tail(p), z) PROVE k = 1
  <2> SUFFICES ASSUME k # 1 PROVE FALSE
    OBVIOUS
  <2>1. p # << >> /\ k \in 2 .. Len(p) /\ Len(p) \in Nat
    OBVIOUS
  <2>2. DOMAIN Tail(p) = 1 .. Len(p) - 1 /\ \A n \in 1 .. Len(p) - 1 :
           Tail(p)[n] = p[n + 1]
    BY <2>1
  <2>3. k - 1 \in 1 .. Len(p) - 1 /\ (k - 1) + 1 = k
    BY <2>1
  <2>4. Tail(p)[k - 1] = z
    BY <1>1, <2>2, <2>3
  <2> QED BY <1>1, <2>2, <2>3, <2>4 DEF OneOf
<1>2. PICK k \in DOMAIN p : p[k] = x
  OBVIOUS
<1>3. PICK n \in DOMAIN p : p[n] = y
  OBVIOUS
<1>4. k = 1 /\ n = 1
  BY <1>1, <1>2, <1>3
<1> QED BY <1>2, <1>3, <1>4

(* Without operands there is nothing to count.                           *)
LEMMA EmptyOperands ==
  ASSUME NEW o, NEW a
  PROVE  OwnBytes(<< >>, o, a) = 0 /\ ~Located(<< >>) /\ ~Branching(<< >>)
<1>1. DOMAIN << >> = {}
  OBVIOUS
<1> QED BY <1>1 DEF OwnBytes, Sum3, Located, Branching

(* The types Unpredictable asks about have no default size.              *)
LEMMA DisjointTypes ==
  \A type \in NoPrefixes : type \notin Default64 /\ type # "SYSTEM"
BY DEF NoPrefixes, FpuTypes, Default64

(* The prefixes are checked against the row.                             *)
LEMMA CheckPrefixesStep ==
  ASSUME Inv, CheckPrefixes
  PROVE  Inv'
<1>1. /\ stage = "checks" /\ arch' = arch /\ code' = code /\ arch \in {"x86", "x64"}
      /\ code \in CodeType /\ ins \in Instructions(ins.row, ins.memory)
      /\ stage \in Known
  BY DEF CheckPrefixes, Inv, TypeOK, InsType, Known
<1>2. CASE Unpredictable
  <2>1. stage' = "refused" /\ ins' = ins
    BY <1>2 DEF CheckPrefixes
  <2> QED BY <1>1, <2>1, Refusal DEF TypeOK, InsType
<1>3. CASE ~Unpredictable
  <2> DEFINE own     == ins.row.type \in OwnSegment
             anomaly == ins.AnomalyOccurred \/ (own /\ ins.HasSegmentOverridePrefix)
             segment == ins.HasSegmentOverridePrefix /\ ~own
             i == [ins EXCEPT !.AnomalyOccurred = anomaly,
                              !.HasSegmentOverridePrefix = segment]
             j == Sized(i)
             k == Repeated(j)
  <2>1. ins' = k /\ stage' = IF ins.row.ops = << >> THEN "finish" ELSE "operands"
    BY <1>3 DEF CheckPrefixes
  <2>2. anomaly \in BOOLEAN /\ segment \in BOOLEAN /\ (ins.AnomalyOccurred => anomaly)
    BY Zenon
  <2> HIDE DEF anomaly, segment
  <2>3. i \in Instructions(ins.row, ins.memory)
    BY <1>1, <2>2, ZenonT(30) DEF Instructions
  <2>4. /\ i.row = ins.row /\ i.memory = ins.memory
        /\ i.Length = ins.Length /\ i.Relative = ins.Relative
        /\ i.HasDstAddressing = ins.HasDstAddressing
        /\ i.Prefixes = ins.Prefixes /\ i.SSE_Prefix = ins.SSE_Prefix
        /\ i.AddressSize = ins.AddressSize /\ i.HasLockPrefix = ins.HasLockPrefix
        /\ i.OpcodeLength = ins.OpcodeLength /\ i.OpcodeExtension = ins.OpcodeExtension
        /\ i.failed = ins.failed /\ i.OperandSize = ins.OperandSize
        /\ i.rex = ins.rex /\ i.HasOperandSizePrefix = ins.HasOperandSizePrefix
        /\ ins.AnomalyOccurred => i.AnomalyOccurred
    BY <1>1, <2>2 DEF Instructions
  <2> HIDE DEF i
  <2>5. /\ j \in Instructions(ins.row, ins.memory)
        /\ j.row = i.row /\ j.memory = i.memory
        /\ j.Length = i.Length /\ j.Relative = i.Relative
        /\ j.HasDstAddressing = i.HasDstAddressing
        /\ j.Prefixes = i.Prefixes /\ j.SSE_Prefix = i.SSE_Prefix
        /\ j.AddressSize = i.AddressSize /\ j.HasLockPrefix = i.HasLockPrefix
        /\ j.OpcodeLength = i.OpcodeLength /\ j.OpcodeExtension = i.OpcodeExtension
        /\ j.failed = i.failed
        /\ i.AnomalyOccurred => j.AnomalyOccurred
        /\ \/ j.OperandSize = i.OperandSize
           \/ /\ HasDefault64Operand /\ j.OperandSize = 8
              /\ i.HasOperandSizePrefix =>
                   \/ i.row.type \in NoPrefixes \ {"FENV"}
                   \/ IS_AMD64 /\ RexW(i.rex)
    BY <2>3, SizedFields, ZenonT(30)
  <2> HIDE DEF j
  <2>6. /\ k \in Instructions(ins.row, ins.memory)
        /\ k.row = j.row /\ k.memory = j.memory
        /\ k.Length = j.Length /\ k.Relative = j.Relative
        /\ k.HasDstAddressing = j.HasDstAddressing
        /\ k.Prefixes = j.Prefixes /\ k.SSE_Prefix = j.SSE_Prefix
        /\ k.AddressSize = j.AddressSize /\ k.HasLockPrefix = j.HasLockPrefix
        /\ k.OpcodeLength = j.OpcodeLength /\ k.OpcodeExtension = j.OpcodeExtension
        /\ k.failed = j.failed /\ k.OperandSize = j.OperandSize
        /\ j.AnomalyOccurred => k.AnomalyOccurred
    BY <2>5, RepeatedFields, ZenonT(30)
  <2> HIDE DEF k
  <2>7. /\ ins' \in Instructions(ins.row, ins.memory)
        /\ ins'.row = ins.row /\ ins'.memory = ins.memory
        /\ ins'.Length = ins.Length /\ ins'.Relative = ins.Relative
        /\ ins'.HasDstAddressing = ins.HasDstAddressing
        /\ ins'.Prefixes = ins.Prefixes /\ ins'.SSE_Prefix = ins.SSE_Prefix
        /\ ins'.AddressSize = ins.AddressSize /\ ins'.HasLockPrefix = ins.HasLockPrefix
        /\ ins'.OpcodeLength = ins.OpcodeLength
              /\ ins'.OpcodeExtension = ins.OpcodeExtension
        /\ ins'.failed = ins.failed
        /\ ins.AnomalyOccurred => ins'.AnomalyOccurred
    BY <2>1, <2>4, <2>5, <2>6
  <2>8. \/ ins'.OperandSize = ins.OperandSize
        \/ /\ HasDefault64Operand /\ ins'.OperandSize = 8
           /\ ins.HasOperandSizePrefix =>
                \/ ins.row.type \in NoPrefixes \ {"FENV"}
                \/ IS_AMD64 /\ RexW(ins.rex)
    BY <2>1, <2>4, <2>5, <2>6
  <2>9. /\ ins.Relative = 0 /\ ins.memory = NoMemory /\ ~ins.HasDstAddressing
        /\ ~Is3DNow =>
             ins.Length = Bytes + (IF ins.row.ops = << >> /\ code.modrm # None
                  /\ ~IsFence
                                   THEN 1 ELSE 0)
        /\ ins.failed # "none" => Is3DNow /\ code.modrm # None /\ Mod(code.modrm) # 3
        /\ ~Is3DNow => code.sib = None
        /\ ins.OpcodeLength = 3 \/
             (ins.HasOperandSizePrefix <=> Has(code, PREFIX_OPERAND_SIZE) /\ ~Wide)
        /\ ins.OpcodeLength = 3 /\ ~Is3DNow /\ ~ins.AnomalyOccurred =>
             ins.Prefixes = Tail(code.prefixes)
    BY <1>1 DEF Inv, CheckInv
  <2>10. /\ Shape(ins.row.ops)
         /\ Placed(OpcodeCount, LastOpcode, Extension, InRegister, ins.row.ops)
         /\ Typed(OpcodeCount, LastOpcode, Extension, ins.row)
         /\ TwoBytes \/ (OpcodeCount = 2 /\ LastOpcode \notin Full_2)
         /\ OpcodeCount = 1 /\ LastOpcode \in \hB8 .. \hBF =>
              ins.OperandSize = OperandBytes(arch, code)
         /\ code.modrm \in Byte \cup {None}
         /\ code.modrm # None <=> TakesModRM(OpcodeCount, LastOpcode)
         /\ ins.OperandSize \in {2, 4, 8} /\ Bytes \in Nat
    BY <1>1, KnownRow
  <2>11. /\ ins.OpcodeLength = 3 => OpcodeCount = 2 /\ LastOpcode \notin Full_2
         /\ ins.OpcodeLength = 3 /\ ~Is3DNow =>
              ins.row.type = "SSE" /\ ins.SSE_Prefix \in SsePrefixes
         /\ ins.rex = LastRex(arch, code)
    BY <1>1 DEF Inv, RowInv, HeadInv, Known
  <2>12. /\ OpcodeCount' = OpcodeCount /\ LastOpcode' = LastOpcode
               /\ Extension' = Extension
         /\ InRegister' = InRegister /\ Bytes' = Bytes /\ Is3DNow' = Is3DNow
         /\ IsFence' = IsFence /\ SsePrefixes' = SsePrefixes
    BY <1>1 DEF OpcodeCount, LastOpcode, Extension, InRegister, Bytes, Is3DNow, IsFence,
                SsePrefixes
  <2>13. stage' \in {"finish", "operands"}
            /\ (stage' = "operands" <=> ins.row.ops # << >>)
    BY <2>1
  <2>14. TypeOK'
    BY <1>1, <2>7, <2>13 DEF TypeOK, InsType, Known
  <2>15. OpcodeInv'
    BY <1>1, <2>7, <2>13 DEF Inv, OpcodeInv, Reading, Known
  <2>16. HeadInv'
    BY <1>1, <2>7, <2>13 DEF Inv, HeadInv
  <2>17. RowInv'
    <3>1. TwoBytes' \/ (OpcodeCount = 2 /\ LastOpcode \notin Full_2)
      <4>1. CASE ins'.OperandSize = ins.OperandSize
        BY <1>1, <2>10, <4>1 DEF TwoBytes
      <4>2. CASE ins'.OperandSize # ins.OperandSize
        <5>1. /\ HasDefault64Operand /\ ins'.OperandSize = 8
              /\ ins.HasOperandSizePrefix =>
                   \/ ins.row.type \in NoPrefixes \ {"FENV"}
                   \/ IS_AMD64 /\ RexW(ins.rex)
          BY <2>8, <4>2
        <5>2. ins.row.type \notin NoPrefixes
          BY <5>1, DisjointTypes DEF HasDefault64Operand
        <5>3. ins.HasOperandSizePrefix => Wide
          BY <2>11, <5>1, <5>2 DEF Wide
        <5>4. CASE ins.OpcodeLength = 3
          BY <2>11, <5>4
        <5>5. CASE ins.OpcodeLength # 3
          <6>1. Has(code, PREFIX_OPERAND_SIZE) => Wide
            BY <2>9, <5>3, <5>5
          <6>2. OperandBytes(arch, code) # 2
            BY <6>1 DEF OperandBytes, Wide, PREFIX_OPERAND_SIZE
          <6> QED BY <1>1, <5>1, <6>2 DEF TwoBytes
        <5> QED BY <5>4, <5>5
      <4> QED BY <4>1, <4>2
    <3>2. OpcodeCount = 1 /\ LastOpcode \in \hB8 .. \hBF =>
            ins'.OperandSize = OperandBytes(arch, code)
      <4> SUFFICES ASSUME OpcodeCount = 1, LastOpcode \in \hB8 .. \hBF
                   PROVE  ins'.OperandSize = OperandBytes(arch, code)
        OBVIOUS
      <4>1. ins.row.type \notin Default64 /\ ins.row.type # "SYSTEM"
        BY <2>10 DEF Typed
      <4>2. ~HasDefault64Operand
        BY <4>1 DEF HasDefault64Operand
      <4> QED BY <2>8, <2>10, <4>2
    <3> QED BY <1>1, <2>7, <2>12, <3>1, <3>2 DEF Inv, RowInv
  <2>18. CheckInv'
    BY <1>1, <2>7, <2>9, <2>12, <2>13 DEF CheckInv
  <2>19. SseInv'
    <3> SUFFICES ASSUME ins.OpcodeLength = 3, ~Is3DNow, ~ins'.AnomalyOccurred
                 PROVE  SsePrefixes = {ins.SSE_Prefix}
      BY <2>7, <2>12 DEF SseInv
    <3>1. ins.row.type = "SSE" /\ ins.SSE_Prefix \in SsePrefixes /\ ~ins.AnomalyOccurred
          /\ ins.Prefixes = Tail(code.prefixes)
      BY <2>7, <2>9, <2>11
    <3>2. /\ "SSE" \in NoPrefixes /\ "SSE" \notin FpuTypes /\ "SSE" # "FENV"
      BY DEF NoPrefixes, FpuTypes
    <3>3. ~OneOf(Tail(code.prefixes), PREFIX_REPNE)
             /\ ~OneOf(Tail(code.prefixes), PREFIX_REP)
          /\ ~OneOf(Tail(code.prefixes), PREFIX_OPERAND_SIZE)
      BY <1>3, <3>1, <3>2 DEF Unpredictable
    <3>4. ASSUME NEW x \in SsePrefixes
          PROVE  (\E n \in DOMAIN code.prefixes : code.prefixes[n] = x)
                 /\ ~OneOf(Tail(code.prefixes), x)
      BY <3>3 DEF SsePrefixes, Has
    <3>5. code.prefixes \in Seq(Byte)
      BY <1>1 DEF CodeType
    <3>6. \A x \in SsePrefixes : x = ins.SSE_Prefix
      BY <3>1, <3>4, <3>5, OnlyFirst
    <3> QED BY <3>1, <3>6
  <2>20. LengthInv'
    <3> SUFFICES ASSUME stage' = "finish", ~Is3DNow, ~IsFence
                 PROVE  /\ ins.Length = ReferenceLength(arch, code)
                        /\ ins.Relative = IF IsRelative(arch,
                              code) THEN ins.Length ELSE 0
      BY <1>1, <2>7, <2>12, <2>13 DEF LengthInv
    <3>1. ins.row.ops = << >>
      BY <2>13
    <3>2. OwnMeant = 0 /\ ~Located(ins.row.ops) /\ ~Branching(ins.row.ops)
      BY <3>1, EmptyOperands DEF OwnMeant
    <3>3. code.modrm # None => Mod(code.modrm) = 3
      <4> SUFFICES ASSUME code.modrm # None PROVE Mod(code.modrm) = 3
        OBVIOUS
      <4>1. ~Fence(OpcodeCount, LastOpcode, Extension)
        BY <1>1, KnownOpcode DEF Fence, IsFence, Extension, X86_TWO_BYTE_OPCODE
      <4>2. InRegister
        BY <2>10, <3>2, <4>1 DEF Placed
      <4> QED BY <2>10, <4>2, ByteFields DEF InRegister
    <3>4. /\ ReferenceLength(arch, code) =
               Bytes + (IF code.modrm # None THEN 1 + Displacement(arch, code) ELSE 0)
                 + OwnMeant + 0
          /\ IsRelative(arch, code) <=> Branching(ins.row.ops) \/ IpRelative
      BY <1>1, ReferenceIs
    <3>5. code.modrm # None => Displacement(arch, code) = 0
      BY <3>3 DEF Displacement
    <3>6. ~IsRelative(arch, code)
      BY <3>2, <3>3, <3>4 DEF IpRelative
    <3>7. ins.Length = Bytes + (IF code.modrm # None THEN 1 ELSE 0)
      BY <2>9, <3>1
    <3>8. ReferenceLength(arch,
             code) = Bytes + (IF code.modrm # None THEN 1 + 0 ELSE 0) + 0 + 0
      BY <3>2, <3>4, <3>5
    <3>9. ins.Length = ReferenceLength(arch, code)
      BY ONLY <2>10, <3>7, <3>8
    <3> QED BY <2>9, <3>6, <3>9
  <2>21. MemoryInv'
    <3>1. ins.row.ops = << >> => ~UsesMemory(ins.row)'
      BY <2>7 DEF UsesMemory
    <3> QED BY <2>7, <2>9, <2>13, <3>1 DEF MemoryInv
  <2> QED BY <2>13, <2>14, <2>15, <2>16, <2>17, <2>18, <2>19, <2>20, <2>21
          DEF Inv, ReadInv, PrefixInv, LockOnlyWhereLegal, AssertionsHold,
          Accepted, Reading
<1> QED BY <1>2, <1>3

----------------------------------------------------------------------------
(* What is checked last.                                                   *)

(* The entries of On.                                                    *)
LEMMA OnAt ==
  ASSUME NEW S, NEW v
  PROVE  DOMAIN On(S, v) = S /\ \A x \in S : On(S, v)[x] = v
BY DEF On

(* The groups with opcodes that may be locked, and their members that may. *)
LEMMA LockGroups ==
  /\ \A b \in \h80 .. \h83 : X86_Groups_1[b] = 1
  /\ \A b \in {\hF6, \hF7} : X86_Groups_1[b] = 3
  /\ X86_Groups_1[\hFE] = 4 /\ X86_Groups_1[\hFF] = 5
  /\ X86_Groups_2[\hBA] = 8 /\ X86_Groups_2[\hC7] = 9
<1> DEFINE f1 == On(\h80 .. \h83, 1)
           f3 == On({\hF6, \hF7}, 3)
           f4 == On({\hFE}, 4)
           f5 == On({\hFF}, 5)
           f8 == On({\hBA}, 8)
           f9 == On({\hC7}, 9)
           g3 == f1 ++ f3
           g4 == g3 ++ f4
<1>1. X86_Groups_1 = Merged(<<g4, f5>>) /\ X86_Groups_2 = Merged(<<f8, f9>>)
  BY DEF X86_Groups_1, X86_Groups_2, ++
<1>2. g3 = Merged(<<f1, f3>>) /\ g4 = Merged(<<g3, f4>>)
  BY DEF ++
<1>3. /\ DOMAIN f1 = \h80 .. \h83 /\ \A b \in \h80 .. \h83 : f1[b] = 1
      /\ DOMAIN f3 = {\hF6, \hF7} /\ \A b \in {\hF6, \hF7} : f3[b] = 3
      /\ DOMAIN f4 = {\hFE} /\ f4[\hFE] = 4
      /\ DOMAIN f5 = {\hFF} /\ f5[\hFF] = 5
      /\ DOMAIN f8 = {\hBA} /\ f8[\hBA] = 8
      /\ DOMAIN f9 = {\hC7} /\ f9[\hC7] = 9
  BY OnAt
<1> HIDE DEF f1, f3, f4, f5, f8, f9, g3, g4
<1>4. /\ DOMAIN g3 = (\h80 .. \h83) \cup {\hF6, \hF7}
      /\ \A b \in \h80 .. \h83 : g3[b] = 1
      /\ \A b \in {\hF6, \hF7} : g3[b] = 3
  BY <1>2, <1>3 DEF Merged
<1>5. /\ DOMAIN g4 = (\h80 .. \h83) \cup {\hF6, \hF7, \hFE}
      /\ \A b \in \h80 .. \h83 : g4[b] = 1
      /\ \A b \in {\hF6, \hF7} : g4[b] = 3
      /\ g4[\hFE] = 4
  BY <1>2, <1>3, <1>4 DEF Merged
<1>6. /\ \A b \in \h80 .. \h83 : X86_Groups_1[b] = 1
      /\ \A b \in {\hF6, \hF7} : X86_Groups_1[b] = 3
      /\ X86_Groups_1[\hFE] = 4 /\ X86_Groups_1[\hFF] = 5
  BY <1>1, <1>3, <1>5 DEF Merged
<1>7. X86_Groups_2[\hBA] = 8 /\ X86_Groups_2[\hC7] = 9
  BY <1>1, <1>3 DEF Merged
<1> QED BY <1>6, <1>7

(* The members of those groups that a lock prefix may stand before.      *)
LEMMA LockExtensions ==
  /\ X86_LockPrefix_Groups[1] = 0 .. 6 /\ X86_LockPrefix_Groups[3] = {2, 3}
  /\ X86_LockPrefix_Groups[4] = {0, 1} /\ X86_LockPrefix_Groups[5] = {0, 1}
  /\ X86_LockPrefix_Groups[8] = 4 .. 7 /\ X86_LockPrefix_Groups[9] = {1}
<1> DEFINE f1 == On({1}, 0 .. 6)
           f3 == On({3}, {2, 3})
           f4 == On({4}, {0, 1})
           f5 == On({5}, {0, 1})
           f8 == On({8}, 4 .. 7)
           f9 == On({9}, {1})
           g3 == f1 ++ f3
           g4 == g3 ++ f4
           g5 == g4 ++ f5
           g8 == g5 ++ f8
<1>1. X86_LockPrefix_Groups = Merged(<<g8, f9>>)
  BY DEF X86_LockPrefix_Groups, ++
<1>2. /\ g3 = Merged(<<f1, f3>>) /\ g4 = Merged(<<g3, f4>>)
      /\ g5 = Merged(<<g4, f5>>) /\ g8 = Merged(<<g5, f8>>)
  BY DEF ++
<1>3. /\ DOMAIN f1 = {1} /\ f1[1] = 0 .. 6
      /\ DOMAIN f3 = {3} /\ f3[3] = {2, 3}
      /\ DOMAIN f4 = {4} /\ f4[4] = {0, 1}
      /\ DOMAIN f5 = {5} /\ f5[5] = {0, 1}
      /\ DOMAIN f8 = {8} /\ f8[8] = 4 .. 7
      /\ DOMAIN f9 = {9} /\ f9[9] = {1}
  BY OnAt
<1> HIDE DEF f1, f3, f4, f5, f8, f9, g3, g4, g5, g8
<1>4. DOMAIN g3 = {1, 3} /\ g3[1] = f1[1] /\ g3[3] = f3[3]
  BY <1>2, <1>3 DEF Merged
<1>5. DOMAIN g4 = {1, 3, 4} /\ g4[1] = g3[1] /\ g4[3] = g3[3] /\ g4[4] = f4[4]
  BY <1>2, <1>3, <1>4 DEF Merged
<1>6. DOMAIN g5 = {1, 3, 4, 5} /\ g5[5] = f5[5] /\ \A x \in {1, 3, 4} : g5[x] = g4[x]
  <2>1. DOMAIN g4 = {1, 3, 4} /\ DOMAIN f5 = {5} /\ g5 = Merged(<<g4, f5>>)
    BY <1>2, <1>3, <1>5
  <2> QED BY <2>1 DEF Merged
<1>7. DOMAIN g8 = {1, 3, 4, 5, 8} /\ g8[8] = f8[8] /\ \A x \in {1, 3, 4, 5} :
         g8[x] = g5[x]
  <2>1. DOMAIN g5 = {1, 3, 4, 5} /\ DOMAIN f8 = {8} /\ g8 = Merged(<<g5, f8>>)
    BY <1>2, <1>3, <1>6
  <2> QED BY <2>1 DEF Merged
<1>8. /\ \A x \in {1, 3, 4, 5, 8} : X86_LockPrefix_Groups[x] = g8[x]
      /\ X86_LockPrefix_Groups[9] = f9[9]
  BY <1>1, <1>3, <1>7 DEF Merged
<1> QED BY <1>3, <1>4, <1>5, <1>6, <1>7, <1>8

(* A lock prefix stands before an opcode that may have one.                *)
LEMMA LockIsLegal ==
  ASSUME Inv, stage = "finish", IsValidLockPrefix(ins)
  PROVE  \/ MayLock(code)
         \/ code.opcode = <<\h0F, \hBA>> /\ Reg3(code.modrm) = 4 /\ Mod(code.modrm) # 3
<1>1. stage \in Known
  BY DEF Known
<1>2. /\ LockableOpcode(ins) /\ code.modrm # None /\ Mod(code.modrm) # 3
      /\ ins.HasDstAddressing
  BY DEF IsValidLockPrefix
<1>3. Mode(ins.row.ops, 1) \in MemoryModes
  BY <1>2 DEF Inv, MemoryInv
<1>4. /\ OpcodeCount = 1 /\ LastOpcode < \h40 /\ LastOpcode % 8 \in {2, 3} => FALSE
      /\ code.modrm \in Byte
  BY <1>1, <1>2, <1>3, KnownRow DEF Typed
<1>5. Extension \in 0 .. 7 /\ Extension = Reg3(code.modrm)
  BY <1>4, ByteFields DEF Extension
<1>6. LastOpcode \in Groups(OpcodeCount) => ins.OpcodeExtension = Extension
  BY <1>1 DEF Inv, RowInv
<1>7. HasModRM(code)
  BY <1>1, <1>2, HasModRMIs
<1>8. Len(code.opcode) = OpcodeCount /\ code.opcode[Len(code.opcode)] = LastOpcode
  BY DEF OpcodeCount, LastOpcode
<1>9. CASE OpcodeCount = 1
  <2>1. ins.OpcodeLength = 1 /\ LastOpcode \in Byte
    BY <1>1, <1>9, KnownOpcode
  <2>2. CASE LastOpcode \in X86_LockPrefix_1
    <3>1. LastOpcode \in {8 * n + k : n \in 0 .. 6, k \in {0, 1}} \cup {\h86, \h87}
      <4>1. LastOpcode \in {8 * n + k : n \in 0 .. 6, k \in 0 .. 3} \cup {\h86, \h87}
        BY <2>2 DEF X86_LockPrefix_1
      <4>2. CASE LastOpcode \in {\h86, \h87}
        BY <4>2
      <4>3. ASSUME NEW n \in 0 .. 6, NEW k \in 0 .. 3, LastOpcode = 8 * n + k
            PROVE  LastOpcode \in {8 * m + j : m \in 0 .. 6, j \in {0, 1}}
        <5>1. LastOpcode < \h40 /\ LastOpcode % 8 = k
          BY <4>3
        <5>2. k \in {0, 1}
          BY <1>4, <1>9, <5>1
        <5> QED BY <4>3, <5>2
      <4> QED BY <4>1, <4>2, <4>3
    <3> QED BY <1>2, <1>7, <1>8, <1>9, <3>1 DEF MayLock
  <2>3. CASE LastOpcode \notin X86_LockPrefix_1
    <3>1. /\ LastOpcode \in LockPrefix_GR_1
          /\ ins.OpcodeExtension \in X86_LockPrefix_Groups[X86_Groups_1[LastOpcode]]
      BY <1>2, <2>1, <2>3 DEF LockableOpcode
    <3>2. Extension \in X86_LockPrefix_Groups[X86_Groups_1[LastOpcode]]
      BY <1>6, <1>9, <3>1 DEF Groups
    <3>3. \/ LastOpcode \in \h80 .. \h83 /\ Extension \in 0 .. 6
          \/ LastOpcode \in {\hF6, \hF7} /\ Extension \in {2, 3}
          \/ LastOpcode \in {\hFE, \hFF} /\ Extension \in {0, 1}
      <4>1. CASE LastOpcode \in \h80 .. \h83
        BY <3>2, <4>1, LockGroups, LockExtensions
      <4>2. CASE LastOpcode \in {\hF6, \hF7}
        BY <3>2, <4>2, LockGroups, LockExtensions
      <4>3. CASE LastOpcode \in {\hFE, \hFF}
        BY <3>2, <4>3, LockGroups, LockExtensions
      <4> QED BY <3>1, <4>1, <4>2, <4>3 DEF LockPrefix_GR_1
    <3> QED BY <1>2, <1>5, <1>7, <1>8, <1>9, <3>3 DEF MayLock
  <2> QED BY <2>2, <2>3
<1>10. CASE OpcodeCount = 2
  <2>1. ins.OpcodeLength # 1 /\ code.opcode = <<X86_TWO_BYTE_OPCODE, LastOpcode>>
    BY <1>1, <1>10, KnownOpcode
  <2>2. CASE LastOpcode \in X86_LockPrefix_2
    BY <1>2, <1>7, <1>8, <1>10, <2>2 DEF MayLock, X86_LockPrefix_2
  <2>3. CASE LastOpcode \notin X86_LockPrefix_2
    <3>1. /\ LastOpcode \in LockPrefix_GR_2
          /\ ins.OpcodeExtension \in X86_LockPrefix_Groups[X86_Groups_2[LastOpcode]]
      BY <1>2, <2>1, <2>3 DEF LockableOpcode
    <3>2. Extension \in X86_LockPrefix_Groups[X86_Groups_2[LastOpcode]]
      BY <1>6, <1>10, <3>1 DEF Groups
    <3>3. \/ LastOpcode = \hBA /\ Extension \in 4 .. 7
          \/ LastOpcode = \hC7 /\ Extension = 1
      <4>1. CASE LastOpcode = \hBA
        BY <3>2, <4>1, LockGroups, LockExtensions
      <4>2. CASE LastOpcode = \hC7
        BY <3>2, <4>2, LockGroups, LockExtensions
      <4> QED BY <3>1, <4>1, <4>2 DEF LockPrefix_GR_2
    <3>4. CASE LastOpcode = \hBA /\ Extension = 4
      BY <1>2, <1>5, <2>1, <3>4 DEF X86_TWO_BYTE_OPCODE
    <3>5. CASE LastOpcode = \hBA /\ Extension # 4
      <4>1. Extension \in 5 .. 7
        BY <3>3, <3>5
      <4> QED BY <1>2, <1>5, <1>7, <1>8, <1>10, <3>5, <4>1 DEF MayLock
    <3>6. CASE LastOpcode = \hC7
      BY <1>2, <1>5, <1>7, <1>8, <1>10, <3>3, <3>6 DEF MayLock
    <3> QED BY <3>3, <3>4, <3>5, <3>6
  <2> QED BY <2>2, <2>3
<1> QED BY <1>1, <1>9, <1>10, KnownOpcode

(* The longest operand in memory is the only one.                          *)
LEMMA LongestIs ==
  ASSUME NEW i, i.OperandSize \in {2, 4, 8}, Shape(i.row.ops), InMemory(i.row.ops),
         MemoryLength(i) > 16
  PROVE  \E k \in DOMAIN i.row.ops : i.row.ops[k][2] \in BigTypes
<1>1. PICK k \in DOMAIN i.row.ops : Mode(i.row.ops, k) \in MemoryModes
  BY DEF InMemory
<1>2. {n \in DOMAIN i.row.ops : i.row.ops[n][1] \in MemoryModes} = {k}
  BY <1>1 DEF Shape, Mode
<1> DEFINE length == OperandLength(i, i.row.ops[k][2])
<1>3. MemoryLength(i) = Max({length})
  BY <1>2, Zenon DEF MemoryLength
<1>4. length \in Nat
  BY LengthOfOperand
<1> HIDE DEF length
<1>5. Max({length}) = length
  BY <1>4 DEF Max
<1>6. OperandLength(i, i.row.ops[k][2]) > 16
  BY <1>3, <1>5 DEF length
<1>7. i.row.ops[k][2] \in BigTypes
  BY <1>6 DEF OperandLength, BigTypes
<1> QED BY <1>1, <1>7

(* The assertions that can fail, and where.                                *)
Asserting ==
  /\ code.modrm # None /\ Mod(code.modrm) # 3
  /\ \/ Is3DNow
     \/ /\ code.opcode = <<\hFF>> /\ Reg3(code.modrm) \in {2, 3}
        /\ NoBase /\ Scale(code.sib) = 0
     \/ SavesState /\ (NoBase \/ (Mod(code.modrm) = 2 /\ NoIndex))

(* An assertion that fails does so at one of the named instructions.     *)
LEMMA AssertedIs ==
  ASSUME Inv, stage = "finish"
  PROVE  Asserted(ins) \in Failures /\ (Asserted(ins) # "none" => Asserting)
<1>1. stage \in Known
  BY DEF Known
<1>2. /\ ins.failed \in Failures /\ ins.OperandSize \in {2, 4, 8}
      /\ ins.AddressSize \in {2, 4, 8} /\ ins.rex \in Byte
      /\ code.modrm \in Byte \cup {None}
  BY DEF Inv, TypeOK, InsType, Instructions, CodeType
<1>3. ins.failed # "none" => Asserting
  BY DEF Inv, CheckInv, Asserting
<1>4. CASE Asserted(ins) = ins.failed
  BY <1>2, <1>3, <1>4
<1>5. CASE Asserted(ins) # ins.failed
  <2>1. /\ ins.memory.global /\ ~ins.memory.target /\ ins.memory.base # ins.memory.index
        /\ \/ /\ ins.row.type = "CALL" /\ ins.memory.scale = 1
              /\ Asserted(ins) = "Scale > 1"
           \/ MemoryLength(ins) > 16 /\ Asserted(ins) = "tmpScale <= 16"
    BY <1>5 DEF Asserted, Guessed
  <2>2. ins.memory # NoMemory
    <3>1. NoMemory.global = FALSE
      BY DEF NoMemory
    <3> QED BY <2>1, <3>1, Zenon
  <2>3. PICK valid \in BOOLEAN : ins.memory = Memory(ins, ins.row, code.sib, valid)
    BY <2>2 DEF Inv, MemoryInv
  <2>4. UsesMemory(ins.row)
    BY <2>2, <2>3 DEF Memory
  <2>5. code.modrm # None /\ Mod(code.modrm) # 3 /\ InMemory(ins.row.ops)
    BY <2>4, MemoryIsUsed
  <2>6. code.modrm \in Byte
    BY <1>2, <2>5
  <2>7. ins.AddressSize # 2 /\ Rm(code.modrm) = 4 => code.sib \in Byte
    BY <2>4 DEF Inv, MemoryInv
  <2>8. MemoryIs(ins.memory, ins.AddressSize, code.modrm, code.sib)
    BY <1>2, <2>3, <2>4, <2>6, <2>7, MemoryFields
  <2>9. OneRegister(code.modrm, code.sib, ins.memory.scale)
    BY <2>1, <2>8 DEF MemoryIs
  <2>10. /\ Shape(ins.row.ops)
         /\ Typed(OpcodeCount, LastOpcode, Extension, ins.row)
    BY <1>1, KnownRow
  <2>11. /\ OpcodeCount = 1 => code.opcode = <<LastOpcode>>
         /\ OpcodeCount = 2 => code.opcode = <<X86_TWO_BYTE_OPCODE, LastOpcode>>
    BY <1>1, KnownOpcode
  <2>12. CASE ins.row.type = "CALL" /\ ins.memory.scale = 1
            /\ Asserted(ins) = "Scale > 1"
    <3>1. code.opcode = <<\hFF>> /\ Reg3(code.modrm) \in {2, 3}
      BY <2>5, <2>10, <2>11, <2>12 DEF Typed, Extension
    <3>2. OneRegister(code.modrm, code.sib, 1)
      BY <2>9, <2>12
    <3>3. NoBase /\ Scale(code.sib) = 0
      BY <3>2 DEF OneRegister, NoBase
    <3> QED BY <2>5, <2>12, <3>1, <3>3 DEF Asserting, Failures
  <2>13. CASE MemoryLength(ins) > 16 /\ Asserted(ins) = "tmpScale <= 16"
    <3>1. \E k \in DOMAIN ins.row.ops : ins.row.ops[k][2] \in BigTypes
      <4>1. MemoryLength(ins) > 16
        BY <2>13
      <4>2. ins.OperandSize \in {2, 4, 8} /\ Shape(ins.row.ops) /\ InMemory(ins.row.ops)
        BY <1>2, <2>5, <2>10
      <4> QED BY ONLY <4>1, <4>2, LongestIs
    <3>2. Saves(OpcodeCount, LastOpcode, Extension)
      BY <2>10, <3>1 DEF Typed
    <3>3. SavesState
      BY <2>11, <3>2 DEF Saves, SavesState, Extension, X86_TWO_BYTE_OPCODE
    <3>4. NoBase \/ (Mod(code.modrm) = 2 /\ NoIndex)
      BY <2>9 DEF OneRegister, NoBase, NoIndex
    <3> QED BY <2>5, <2>13, <3>3, <3>4 DEF Asserting, Failures
  <2> QED BY <2>1, <2>12, <2>13
<1> QED BY <1>4, <1>5

(* The last checks: lock prefix, length and assertions.                  *)
LEMMA FinishStep ==
  ASSUME Inv, Finish
  PROVE  Inv'
<1>1. /\ stage = "finish" /\ arch' = arch /\ code' = code /\ arch \in {"x86", "x64"}
      /\ code \in CodeType /\ ins \in Instructions(ins.row, ins.memory)
      /\ stage \in Known
  BY DEF Finish, Inv, TypeOK, InsType, Known
<1>2. CASE stage' = "refused" /\ ins' = ins
  BY <1>1, <1>2, Refusal DEF TypeOK, InsType
<1>3. CASE ~(stage' = "refused" /\ ins' = ins)
  <2> DEFINE failed == Asserted(ins)
  <2>1. /\ ~(ins.HasLockPrefix /\ ~IsValidLockPrefix(ins))
        /\ stage' = "accepted" /\ ins' = [ins EXCEPT !.failed = failed]
    BY <1>3 DEF Finish
  <2>2. failed \in Failures /\ (failed # "none" => Asserting)
    BY <1>1, AssertedIs
  <2> HIDE DEF failed
  <2>3. [ins EXCEPT !.failed = failed] \in Instructions(ins.row, ins.memory)
    BY <1>1, <2>2, ZenonT(30) DEF Instructions
  <2>4. /\ ins'.row = ins.row /\ ins'.memory = ins.memory
        /\ ins'.Length = ins.Length /\ ins'.Relative = ins.Relative
        /\ ins'.HasDstAddressing = ins.HasDstAddressing
        /\ ins'.Prefixes = ins.Prefixes /\ ins'.SSE_Prefix = ins.SSE_Prefix
        /\ ins'.AddressSize = ins.AddressSize /\ ins'.HasLockPrefix = ins.HasLockPrefix
        /\ ins'.OpcodeLength = ins.OpcodeLength
              /\ ins'.OpcodeExtension = ins.OpcodeExtension
        /\ ins'.failed = failed /\ ins'.OperandSize = ins.OperandSize
        /\ ins'.rex = ins.rex /\ ins'.AnomalyOccurred = ins.AnomalyOccurred
    BY <1>1, <2>1 DEF Instructions
  <2>5. ins' \in Instructions(ins.row, ins.memory)
    BY <2>1, <2>3
  <2>6. /\ OpcodeCount' = OpcodeCount /\ LastOpcode' = LastOpcode
              /\ Extension' = Extension
        /\ InRegister' = InRegister /\ Is3DNow' = Is3DNow /\ IsFence' = IsFence
        /\ SsePrefixes' = SsePrefixes
    BY <1>1 DEF OpcodeCount, LastOpcode, Extension, InRegister, Is3DNow, IsFence,
       SsePrefixes
  <2>7. TypeOK'
    BY <1>1, <2>1, <2>4, <2>5 DEF TypeOK, InsType, Known
  <2>8. OpcodeInv'
    BY <1>1, <2>1, <2>4, <2>6 DEF Inv, OpcodeInv, Reading, Known
  <2>9. HeadInv'
    BY <1>1, <2>1, <2>4 DEF Inv, HeadInv
  <2>10. RowInv'
    <3>1. TwoBytes' <=> TwoBytes
      BY <1>1, <2>4 DEF TwoBytes
    <3> QED BY <1>1, <2>4, <2>6, <3>1 DEF Inv, RowInv
  <2>11. CheckInv'
    BY <2>1 DEF CheckInv
  <2>12. SseInv'
    BY <1>1, <2>4, <2>6 DEF Inv, SseInv
  <2>13. LengthInv'
    BY <1>1, <2>4, <2>6 DEF Inv, LengthInv
  <2>14. MemoryInv'
    <3>1. /\ UsesMemory(ins.row)' <=> UsesMemory(ins.row)
          /\ \A valid \in BOOLEAN :
               Memory(ins, ins.row, code.sib, valid)' = Memory(ins, ins.row,
                    code.sib, valid)
      BY <1>1, <2>4, SameMemory
    <3> QED BY <1>1, <2>4, <3>1 DEF Inv, MemoryInv
  <2>15. LockOnlyWhereLegal'
    <3> SUFFICES ASSUME Has(code, PREFIX_LOCK)
                 PROVE  \/ MayLock(code)
                        \/ /\ code.opcode = <<\h0F, \hBA>> /\ Reg3(code.modrm) = 4
                           /\ Mod(code.modrm) # 3
      BY <1>1 DEF LockOnlyWhereLegal
    <3>1. ins.HasLockPrefix
      BY <1>1 DEF Inv, HeadInv
    <3> QED BY <1>1, <2>1, <3>1, LockIsLegal
  <2>16. AssertionsHold'
    <3>1. Asserting' <=> Asserting
      BY <1>1, <2>6 DEF Asserting, NoBase, NoIndex, SavesState
    <3>2. AssertionsHold <=> (Accepted /\ ins.failed # "none" => Asserting)
      BY DEF AssertionsHold, Asserting
    <3>3. AssertionsHold' <=> (Accepted' /\ ins'.failed # "none" => Asserting')
      BY DEF AssertionsHold, Asserting
    <3> QED BY <2>2, <2>4, <3>1, <3>3
  <2> QED BY <2>1, <2>7, <2>8, <2>9, <2>10, <2>11, <2>12, <2>13, <2>14, <2>15, <2>16
          DEF Inv, ReadInv, PrefixInv, Reading
<1> QED BY <1>2, <1>3

----------------------------------------------------------------------------
(* All steps together.                                                     *)

(* The invariant holds before the first byte is read,                    *)
LEMMA InitInv == Init => Inv
<1> SUFFICES ASSUME Init PROVE Inv
  OBVIOUS
<1>1. /\ stage = "prefixes" /\ arch \in {"x86", "x64"}
      /\ code = [prefixes |-> << >>, opcode |-> << >>, modrm |-> None, sib |-> None,
                 suffix |-> None]
      /\ ins = X86_InitInstruction(arch)
  BY X86DecodeAssumption DEF Init
<1>2. /\ ins.Length = 0 /\ ins.Prefixes = << >> /\ ins.SSE_Prefix = 0 /\ ins.rex = 0
      /\ ins.OperandSize = 4 /\ ins.AddressSize = (IF arch = "x64" THEN 8 ELSE 4)
      /\ ins.HasOperandSizePrefix = FALSE /\ ins.HasAddressSizePrefix = FALSE
      /\ ins.HasLockPrefix = FALSE /\ ins.AnomalyOccurred = FALSE
      /\ ins.HasDstAddressing = FALSE /\ ins.memory = NoMemory
      /\ ins.Relative = 0 /\ ins.failed = "none"
  BY <1>1 DEF X86_InitInstruction
<1>3. /\ code.prefixes = << >> /\ code.opcode = << >> /\ code.modrm = None
      /\ code.sib = None
  BY <1>1
<1>4. code \in CodeType
  BY <1>1 DEF CodeType
<1>5. ins \in Instructions(ins.row, ins.memory)
  <2>1. ins.row = Invalid /\ ins.memory = NoMemory
    BY <1>1 DEF X86_InitInstruction
  <2>2. /\ 0 \in Nat /\ << >> \in Seq(Byte) /\ 0 \in Byte /\ 0 \in 0 .. 3
              /\ 0 \in 0 .. 63
        /\ 4 \in {2, 4, 8} /\ (IF arch = "x64" THEN 8 ELSE 4) \in {2, 4, 8}
        /\ "none" \in Failures
    BY DEF Byte, Failures
  <2>3. X86_InitInstruction(arch) \in Instructions(Invalid, NoMemory)
    BY <2>2, ZenonT(30) DEF X86_InitInstruction, Instructions
  <2> QED BY <1>1, <2>1, <2>3
<1>6. TypeOK
  BY <1>1, <1>4, <1>5 DEF TypeOK, InsType, Reading
<1>7. (\A b : ~Has(code, b)) /\ LastRex(arch, code) = 0 /\ ~Wide
  BY <1>3, PrefixNumbers DEF Has, LastRex, Wide
<1>8. OpcodeInv
  BY <1>1, <1>3 DEF OpcodeInv, Known
<1>9. HeadInv
  BY <1>1, <1>2, <1>7 DEF HeadInv, AddressBytes
<1>10. ReadInv
  <2>1. Bytes = 0
    BY <1>3 DEF Bytes
  <2>2. OperandBytes(arch, code) = 4
    BY <1>7, PrefixNumbers DEF OperandBytes
  <2> QED BY <1>2, <1>7, <2>1, <2>2 DEF ReadInv
<1>11. PrefixInv
  BY <1>2, <1>3, <1>7 DEF PrefixInv, SsePrefixes
<1> QED BY <1>1, <1>6, <1>8, <1>9, <1>10, <1>11
        DEF Inv, RowInv, CheckInv, SseInv, LengthInv, MemoryInv, LockOnlyWhereLegal,
            AssertionsHold, Accepted, Known

(* when nothing happens,                                                 *)
LEMMA StutterInv == Inv /\ UNCHANGED vars => Inv'
<1> SUFFICES ASSUME Inv, UNCHANGED vars PROVE Inv'
  OBVIOUS
<1>1. arch' = arch /\ code' = code /\ ins' = ins /\ stage' = stage
  BY DEF vars
<1>2. /\ OpcodeCount' = OpcodeCount /\ LastOpcode' = LastOpcode
            /\ Extension' = Extension
      /\ InRegister' = InRegister /\ Is3DNow' = Is3DNow /\ IsFence' = IsFence
      /\ SsePrefixes' = SsePrefixes /\ Bytes' = Bytes
  BY <1>1 DEF OpcodeCount, LastOpcode, Extension, InRegister, Is3DNow, IsFence,
     SsePrefixes,
              Bytes
<1>3. (TwoBytes' <=> TwoBytes) /\ (Wide' <=> Wide)
  BY <1>1 DEF TwoBytes, Wide
<1>4. TypeOK' /\ OpcodeInv' /\ HeadInv'
  BY <1>1, <1>2 DEF Inv, TypeOK, InsType, OpcodeInv, HeadInv
<1>5. ReadInv' /\ PrefixInv' /\ RowInv'
  BY <1>1, <1>2, <1>3 DEF Inv, ReadInv, PrefixInv, RowInv
<1>6. CheckInv' /\ SseInv' /\ LengthInv'
  BY <1>1, <1>2, <1>3 DEF Inv, CheckInv, SseInv, LengthInv
<1>7. MemoryInv'
  <2>1. /\ UsesMemory(ins.row)' <=> UsesMemory(ins.row)
        /\ \A valid \in BOOLEAN :
             Memory(ins, ins.row, code.sib, valid)' = Memory(ins, ins.row,
                  code.sib, valid)
    BY <1>1, SameMemory
  <2> QED BY <1>1, <2>1 DEF Inv, MemoryInv
<1>8. LockOnlyWhereLegal' /\ AssertionsHold'
  BY <1>1, <1>2 DEF Inv, LockOnlyWhereLegal, AssertionsHold, Accepted, SavesState,
     NoBase,
                    NoIndex
<1> QED BY <1>4, <1>5, <1>6, <1>7, <1>8 DEF Inv

(* and across every step.                                                *)
LEMMA NextInv == Inv /\ [Next]_vars => Inv'
<1> SUFFICES ASSUME Inv, [Next]_vars PROVE Inv'
  OBVIOUS
<1>1. CASE UNCHANGED vars
  BY <1>1, StutterInv
<1>2. ASSUME NEW b \in PrefixBytes, Prefix(b) \/ Rex(b) PROVE Inv'
  BY <1>2, PrefixStep, RexStep
<1>3. ASSUME NEW r \in PrefixBytes, NEW b \in PrefixBytes, MisplacedRex(r, b) PROVE Inv'
  BY <1>3, MisplacedRexStep
<1>4. ASSUME NEW b \in OpcodeBytes, ReadOpcode(b) PROVE Inv'
  <2>1. b \in Byte
    BY X86DecodeAssumption
  <2> QED BY <1>4, <2>1, ReadOpcodeStep
<1>5. ASSUME NEW b \in SecondBytes, ReadSecond(b) PROVE Inv'
  <2>1. b \in Byte
    BY X86DecodeAssumption
  <2> QED BY <1>5, <2>1, ReadSecondStep
<1>6. ASSUME NEW m \in ModRMBytes, PeekModRM(m) PROVE Inv'
  <2>1. m \in Byte
    BY X86DecodeAssumption
  <2> QED BY <1>6, <2>1, PeekModRMStep
<1>7. CASE SelectRow \/ SelectSSE \/ SelectModRM \/ SelectFPU \/ SelectSuffix \/ SelectExt64
  BY <1>7, SelectRowStep, SelectSSEStep, SelectModRMStep, SelectFPUStep,
     SelectSuffixStep,
     SelectExt64Step
<1>8. CASE CheckPrefixes \/ SetOperands \/ Finish
  BY <1>8, CheckPrefixesStep, SetOperandsStep, FinishStep
<1> QED BY <1>1, <1>2, <1>3, <1>4, <1>5, <1>6, <1>7, <1>8 DEF Next

(* The invariant holds at every stage of every instruction.                *)
THEOREM Invariance == Spec => []Inv
BY InitInv, NextInv, PTL DEF Spec

----------------------------------------------------------------------------
(* What the hooking service relies on.                                     *)

(* An accepted instruction is as long as its bytes make it, for every      *)
(* opcode, addressing form and sequence of prefixes (X86_GetInstruction,   *)
(* disasm_x86.c 968-2522); 3DNow and fences are excepted.                 *)
THEOREM LengthsAreRight == Spec => []LengthIsReference
<1>1. Inv => LengthIsReference
  <2> SUFFICES ASSUME Inv, Accepted, ~Is3DNow, ~IsFence
               PROVE  /\ HasModRM(code) <=> code.modrm # None
                      /\ ins.Length = ReferenceLength(arch, code)
    BY DEF LengthIsReference
  <2>1. stage = "accepted" /\ stage \in Known
    BY DEF Accepted, Known
  <2>2. HasModRM(code) <=> code.modrm # None
    BY <2>1, HasModRMIs
  <2>3. ins.Length = ReferenceLength(arch, code)
    BY <2>1 DEF Inv, LengthInv
  <2> QED BY <2>2, <2>3
<1> QED BY Invariance, <1>1, PTL

(* It is known to be relative exactly when it is, and its displacement     *)
(* counts from its end, also with an immediate behind it (ImmediateSize,   *)
(* disasm_x86.c 4302-4338).                                                *)
THEOREM RelativeOnesAreKnown == Spec => []RelativeToEnd
<1>1. Inv => RelativeToEnd
  BY DEF Inv, LengthInv, RelativeToEnd, Accepted
<1> QED BY Invariance, <1>1, PTL

(* A lock prefix is accepted only before an instruction that changes       *)
(* memory, and before bt (IsValidLockPrefix, disasm_x86.c 4611).           *)
THEOREM LocksAreLegal == Spec => []LockOnlyWhereLegal
<1>1. Inv => LockOnlyWhereLegal
  BY DEF Inv
<1> QED BY Invariance, <1>1, PTL

(* An SSE opcode accepted without an anomaly has one of 66, F2 and F3, the *)
(* one that was taken as part of it, in whatever order the prefixes came.  *)
THEOREM SsePrefixesAgree == Spec => []SseTakesItsPrefix
<1>1. Inv => SseTakesItsPrefix
  BY DEF Inv, SseInv, SseTakesItsPrefix, Accepted
<1> QED BY Invariance, <1>1, PTL

(* The assertions on operands in memory fail at the three kinds of         *)
(* instruction that AssertionsHold names and nowhere else.                 *)
THEOREM AssertionsFailOnlyThere == Spec => []AssertionsHold
<1>1. Inv => AssertionsHold
  BY DEF Inv
<1> QED BY Invariance, <1>1, PTL
=============================================================================
