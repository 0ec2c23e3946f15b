---------------------------- MODULE X86Reference ----------------------------
(***************************************************************************)
(* What the length of an instruction is, said the way the processor        *)
(* manuals say it and without the tables of disasm-lib: prefixes, opcode,  *)
(* ModRM, SIB, displacement and immediate, from the bytes alone.  The      *)
(* decoder is compared with it.                                            *)
(*                                                                         *)
(* Bytes of an instruction: [prefixes, opcode, modrm, sib, suffix], the    *)
(* first two sequences, the others a byte or None.  The bytes of the       *)
(* displacement and the immediate have no influence on a length and are    *)
(* not part of it.                                                         *)
(***************************************************************************)
EXTENDS Integers, Sequences

None == -1

(* Fields of a ModRM byte, a SIB byte and a REX prefix.                    *)
Mod(b)   == b \div 64       Reg3(b)  == (b \div 8) % 8    Rm(b)   == b % 8
Scale(b) == b \div 64       Index(b) == (b \div 8) % 8    Base(b) == b % 8
RexW(b)  == (b \div 8) % 2 = 1
RexR(b)  == (b \div 4) % 2
RexX(b)  == (b \div 2) % 2
RexB(b)  == b % 2

RexPrefixes    == \h40 .. \h4F
LegacyPrefixes == {\h26, \h2E, \h36, \h3E, \h64, \h65, \h66, \h67, \hF0, \hF2, \hF3}

(* A REX prefix counts only directly before the opcode.                    *)
LastRex(arch, code) ==
  LET p == code.prefixes
  IN IF arch = "x64" /\ p # << >> /\ p[Len(p)] \in RexPrefixes THEN p[Len(p)] ELSE 0
Has(code, b) == \E k \in DOMAIN code.prefixes : code.prefixes[k] = b

OperandBytes(arch, code) ==
  IF RexW(LastRex(arch, code)) THEN 8 ELSE IF Has(code, \h66) THEN 2 ELSE 4
AddressBytes(arch, code) ==
  IF arch = "x64" THEN IF Has(code, \h67) THEN 4 ELSE 8
                  ELSE IF Has(code, \h67) THEN 2 ELSE 4

(* Opcodes without a ModRM byte.                                           *)
NoModRM_1 ==
  {8 * n + k : n \in 0 .. 7, k \in 4 .. 7} \cup (\h40 .. \h61) \cup {\h68, \h6A}
    \cup (\h6C .. \h7F) \cup (\h90 .. \hBF) \cup {\hC2, \hC3} \cup (\hC8 .. \hCF)
    \cup (\hD4 .. \hD7) \cup (\hE0 .. \hEF) \cup {\hF1, \hF4, \hF5} \cup (\hF8 .. \hFD)
NoModRM_2 ==
  (\h04 .. \h0C) \cup {\h0E} \cup (\h30 .. \h37) \cup {\h77} \cup (\h80 .. \h8F)
    \cup (\hA0 .. \hA2) \cup (\hA8 .. \hAA) \cup {\hB9} \cup (\hC8 .. \hCF)
HasModRM(code) ==
  IF Len(code.opcode) = 1 THEN code.opcode[1] \notin NoModRM_1
                          ELSE code.opcode[2] \notin NoModRM_2

(* Bytes behind the ModRM byte that belong to the memory operand.          *)
Displacement(arch, code) ==
  LET mod == Mod(code.modrm)
      rm  == Rm(code.modrm)
  IN IF mod = 3 THEN 0
     ELSE IF AddressBytes(arch, code) = 2
     THEN IF mod = 0 THEN IF rm = 6 THEN 2 ELSE 0 ELSE mod
     ELSE (IF rm = 4 THEN 1 ELSE 0)
            + (CASE mod = 1 -> 1
                 [] mod = 2 -> 4
                 [] OTHER   -> IF rm = 5 \/ (rm = 4 /\ Base(code.sib) = 5)
                               THEN 4 ELSE 0)

(* Opcodes with an immediate of one byte, and of two or four.              *)
Byte_1 ==
  {8 * n + 4 : n \in 0 .. 7} \cup {\h6A, \h6B} \cup (\h70 .. \h7F) \cup {\h80, \h82, \h83}
    \cup {\hA8} \cup (\hB0 .. \hB7) \cup {\hC0, \hC1, \hC6, \hCD, \hD4, \hD5}
    \cup (\hE0 .. \hE7) \cup {\hEB}
Full_1 == {8 * n + 5 : n \in 0 .. 7} \cup {\h68, \h69, \h81, \hA9, \hC7, \hE8, \hE9}
Byte_2 == (\h70 .. \h73) \cup {\hA4, \hAC, \hBA, \hC2, \hC4, \hC5, \hC6}
Full_2 == \h80 .. \h8F

(* Bytes of the immediate behind an opcode (of one byte or two) with the    *)
(* given reg field, operands of size bytes and addresses of addr bytes.     *)
ImmediateBytes(two, op, ext, size, addr) ==
  LET full == IF size = 2 THEN 2 ELSE 4
  IN IF two
     THEN CASE op \in Byte_2 -> 1 [] op \in Full_2 -> full [] OTHER -> 0
     ELSE CASE op \in Byte_1 \/ (op = \hF6 /\ ext \in {0, 1}) -> 1
            [] op \in Full_1 \/ (op = \hF7 /\ ext \in {0, 1}) -> full
            [] op \in \hB8 .. \hBF  -> size
            [] op \in \hA0 .. \hA3  -> addr
            [] op \in {\hC2, \hCA}  -> 2
            [] op = \hC8            -> 3
            [] op \in {\h9A, \hEA}  -> 2 + full
            [] OTHER                -> 0
Immediate(arch, code) ==
  ImmediateBytes(Len(code.opcode) = 2, code.opcode[Len(code.opcode)], Reg3(code.modrm),
                 OperandBytes(arch, code), AddressBytes(arch, code))

ReferenceLength(arch, code) ==
  Len(code.prefixes) + Len(code.opcode)
    + (IF HasModRM(code) THEN 1 + Displacement(arch, code) ELSE 0)
    + Immediate(arch, code)
    + (IF code.opcode = <<\h0F, \h0F>> THEN 1 ELSE 0)

(* Branches, and in 64-bit mode operands in memory addressed by RIP.       *)
IsRelative(arch, code) ==
  LET op == code.opcode[Len(code.opcode)]
  IN \/ IF Len(code.opcode) = 2 THEN op \in Full_2
        ELSE op \in (\h70 .. \h7F) \cup (\hE0 .. \hE3) \cup {\hE8, \hE9, \hEB}
     \/ arch = "x64" /\ HasModRM(code) /\ Mod(code.modrm) = 0 /\ Rm(code.modrm) = 5

(* Instructions that a lock prefix may stand before when they write to     *)
(* memory: add or adc sbb and sub xor, not neg inc dec, xchg, bts btr btc, *)
(* xadd, cmpxchg, cmpxchg8b.                                               *)
MayLock(code) ==
  LET op  == code.opcode[Len(code.opcode)]
      ext == Reg3(code.modrm)
  IN /\ HasModRM(code) /\ Mod(code.modrm) # 3
     /\ IF Len(code.opcode) = 2
        THEN \/ op \in {\hAB, \hB3, \hBB, \hB0, \hB1, \hC0, \hC1}
             \/ op = \hBA /\ ext \in 5 .. 7
             \/ op = \hC7 /\ ext = 1
        ELSE \/ op \in {8 * n + k : n \in 0 .. 6, k \in {0, 1}} \cup {\h86, \h87}
             \/ op \in \h80 .. \h83 /\ ext # 7
             \/ op \in {\hF6, \hF7} /\ ext \in {2, 3}
             \/ op \in {\hFE, \hFF} /\ ext \in {0, 1}
=============================================================================
