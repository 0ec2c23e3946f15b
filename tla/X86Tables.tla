----------------------------- MODULE X86Tables -----------------------------
(***************************************************************************)
(* The opcode tables of disasm-lib (disasm_x86_tables.h), as far as the    *)
(* decoding of an instruction depends on them.  Of a row of a table stay:  *)
(*   type   the ITYPE, where X86_GetInstruction looks at it: "DATA" stands *)
(*          for all the types it treats alike                              *)
(*   ops    the operands by addressing mode; sizes that make no difference *)
(*          to the decoder are one                                         *)
(*   dst    the first operand is written (OP_DST, OP_COND_DST); an operand *)
(*          in memory that is written is the first one in every row        *)
(*   amd64  the row asks for a CPU of at least CPU_AMD64                   *)
(* A table is a function on the bytes that have a row; the other bytes     *)
(* are NOINSTR in the source.  Tables within tables (groups, the FPU       *)
(* opcodes, ...) are entries of another kind.                              *)
(***************************************************************************)
EXTENDS Integers, Sequences

(***************************************************************************)
(* Operands: <<addressing mode, type>>.                                    *)
(***************************************************************************)
Ev == <<"E", "v">>       (* register or memory by ModRM, at most 8 bytes   *)
Ep == <<"E", "p">>       (* the same, a far pointer: memory only           *)
Mv == <<"M", "v">>       (* memory by ModRM, at most 16 bytes              *)
Mfev  == <<"M", "fev">>  (* FPU environment                                *)
Mfst1 == <<"M", "fst1">> (* FPU state                                      *)
Mfst2 == <<"M", "fst2">> (* FPU, MMX and XMM state: 512 bytes              *)
Qq == <<"Q", "q">>       (* MMX register or memory                         *)
Wo == <<"W", "o">>       (* XMM register or memory                         *)
Gv == <<"G", "v">>       (* general or segment register: ModRM.reg         *)
Cd == <<"C", "dq">>      (* control or debug register                      *)
Rd == <<"R", "dq">>      (* general register: ModRM.rm, mod = 3            *)
Pq == <<"P", "q">>       (* MMX register: ModRM.reg                        *)
PRq == <<"PR", "q">>     (* MMX register: ModRM.rm, mod = 3                *)
Vo == <<"V", "o">>       (* XMM register: ModRM.reg                        *)
VRo == <<"VR", "o">>     (* XMM register: ModRM.rm, mod = 3                *)
Ib == <<"I", "b">>       (* immediate of one byte                          *)
Iw == <<"I", "w">>       (* of two bytes                                   *)
Iz == <<"I", "z">>       (* of two or four bytes                           *)
Iv == <<"I", "v">>       (* of two, four or eight bytes                    *)
Jb == <<"J", "b">>       (* relative branch, one byte                      *)
Jz == <<"J", "z">>       (* relative branch, two or four bytes             *)
Ap == <<"A", "p">>       (* far address in the instruction                 *)
Ov == <<"O", "v">>       (* offset in the instruction                      *)
Xv == <<"X", "v">>       (* DS:[ESI], and DS:[EBX+AL]                      *)
Yv == <<"Y", "v">>       (* ES:[EDI]                                       *)
Reg == <<"reg", "v">>    (* a register, flag or constant of the opcode     *)

Row(type, ops) == [kind |-> "row", type |-> type, ops |-> ops,
                   dst |-> FALSE, amd64 |-> FALSE]
Wr(type, ops)  == [Row(type, ops) EXCEPT !.dst = TRUE]
Data(ops)      == Row("DATA", ops)
Store(ops)     == Wr("DATA", ops)
Amd64(row)     == [row EXCEPT !.amd64 = TRUE]

Invalid == [kind |-> "invalid"]
PrefixRow == [kind |-> "prefix"]
Group(table) == [kind |-> "group", table |-> table]

(* The same row at several bytes, and two tables in one: where both have a *)
(* row the first counts.                                                   *)
On(bytes, row) == [b \in bytes |-> row]
Merged(p) == [b \in DOMAIN p[1] \cup DOMAIN p[2] |->
                IF b \in DOMAIN p[1] THEN p[1][b] ELSE p[2][b]]
f ++ g == Merged(<<f, g>>)
At(table, b) == IF b \in DOMAIN table THEN table[b] ELSE Invalid

----------------------------------------------------------------------------
(* Groups of the one-byte opcodes: the row is chosen by ModRM.reg.         *)

Group_1(imm) == On(0 .. 6, Store(<<Ev, imm>>)) ++ On({7}, Data(<<Ev, imm>>))
Group_2(count) == On(0 .. 7, Store(<<Ev, count>>))
Group_3(imm) == On({0, 1}, Data(<<Ev, imm>>)) ++ On({2, 3}, Store(<<Ev>>))
                  ++ On(4 .. 7, Store(<<Reg, Ev, Reg>>))
Group_4 == On({0, 1}, Store(<<Ev>>))
Group_5 == On({0, 1}, Store(<<Ev>>))
             ++ On({2}, Row("CALL", <<Ev>>))   ++ On({3}, Row("CALL", <<Ep>>))
             ++ On({4}, Row("BRANCH", <<Ev>>)) ++ On({5}, Row("BRANCH", <<Ep>>))
             ++ On({6}, Row("PUSH", <<Ev>>))
Group_10 == On({0}, Wr("POP", <<Ev>>))
Group_12(imm) == On({0}, Store(<<Ev, imm>>))

----------------------------------------------------------------------------
(* The FPU opcodes D8..DF: a memory operand by ModRM.reg below 0xC0, the   *)
(* whole ModRM byte from 0xC0 on.  Stack registers take no bytes: whether  *)
(* a row has any is kept, how many is not.                                 *)

Fpu(ops)      == Row("FPU", ops)
FpuStore(ops) == Wr("FPU", ops)
FpuMath(mem)  == On({0, 1, 4, 5, 6, 7}, FpuStore(<<Reg, mem>>))
                   ++ On({2, 3}, Fpu(<<mem, Reg>>))

X86_ESC_0 == [mem |-> FpuMath(Mv), reg |-> On(\hC0 .. \hFF, Fpu(<<Reg, Reg>>))]
X86_ESC_1 ==
  [mem |-> On({0}, Fpu(<<Mv>>)) ++ On({2, 3}, FpuStore(<<Mv, Reg>>))
             ++ On({4}, Row("FENV", <<Mfev>>)) ++ On({5}, FpuStore(<<Reg, Mv>>))
             ++ On({6}, FpuStore(<<Mfev>>))    ++ On({7}, FpuStore(<<Mv, Reg>>)),
   reg |-> On((\hC0 .. \hCF) \cup {\hE0, \hE1, \hE4, \hE5} \cup (\hE8 .. \hEE)
                \cup (\hF0 .. \hF5) \cup (\hF8 .. \hFF), Fpu(<<Reg>>))
             ++ On({\hD0, \hF6, \hF7}, Fpu(<< >>))]
X86_ESC_2 == [mem |-> FpuMath(Mv),
              reg |-> On((\hC0 .. \hDF) \cup {\hE9}, Fpu(<<Reg, Reg>>))]
X86_ESC_3 ==
  [mem |-> On({0, 1, 5}, Fpu(<<Mv>>)) ++ On({2, 3, 7}, FpuStore(<<Mv, Reg>>)),
   reg |-> On((\hC0 .. \hDF) \cup {\hE2, \hE3} \cup (\hE8 .. \hF7),
              Fpu(<<Reg, Reg>>))]
X86_ESC_4 ==
  [mem |-> FpuMath(Mv),
   reg |-> On((\hC0 .. \hCF) \cup (\hE0 .. \hFF), Fpu(<<Reg, Reg>>))]
X86_ESC_5 ==
  [mem |-> On({0}, Fpu(<<Mv>>)) ++ On({1, 7}, FpuStore(<<Mv, Reg>>))
             ++ On({2, 3}, Fpu(<<Mv, Reg>>))
             ++ On({4}, Row("FENV", <<Mfst1>>)) ++ On({6}, Wr("FENV", <<Mfst1>>)),
   reg |-> On((\hC0 .. \hC7) \cup (\hD0 .. \hEF), Fpu(<<Reg, Reg>>))]
X86_ESC_6 ==
  [mem |-> FpuMath(Mv),
   reg |-> On((\hC0 .. \hCF) \cup {\hD9} \cup (\hE0 .. \hFF), Fpu(<<Reg, Reg>>))]
X86_ESC_7 ==
  [mem |-> On({0, 4, 5}, Fpu(<<Mv>>)) ++ On({1, 2, 3, 6, 7}, FpuStore(<<Mv, Reg>>)),
   reg |-> On({\hE0} \cup (\hE8 .. \hF7), Fpu(<<Reg, Reg>>))]
Esc(table) == [kind |-> "fpu", table |-> table]

----------------------------------------------------------------------------
(* The one-byte opcodes.                                                   *)

X86_Opcode_63 == [x86 |-> Row("SYSTEM", <<Ev, Gv>>),
                  x64 |-> Amd64(Store(<<Gv, Ev>>))]

Arithmetic ==                  (* add or adc sbb and sub xor, then cmp     *)
  On({8 * n + k : n \in 0 .. 6, k \in {0, 1}}, Store(<<Ev, Gv>>))
    ++ On({8 * n + k : n \in 0 .. 6, k \in {2, 3}}, Store(<<Gv, Ev>>))
    ++ On({8 * n + 4 : n \in 0 .. 6}, Store(<<Reg, Ib>>))
    ++ On({8 * n + 5 : n \in 0 .. 6}, Store(<<Reg, Iz>>))
    ++ On({\h38, \h39}, Data(<<Ev, Gv>>)) ++ On({\h3A, \h3B}, Data(<<Gv, Ev>>))
    ++ On({\h3C}, Data(<<Reg, Ib>>)) ++ On({\h3D}, Data(<<Reg, Iz>>))
    ++ On({\h06, \h0E, \h16, \h1E}, Row("PUSH", <<Reg>>))
    ++ On({\h07, \h17, \h1F}, Row("POP", <<Reg>>))
    ++ On({\h26, \h2E, \h36, \h3E}, PrefixRow)
    ++ On({\h27, \h2F, \h37, \h3F}, Data(<<Reg>>))

Opcodes_1_40_5F ==
  On(\h40 .. \h4F, Data(<<Reg>>))
    ++ On(\h50 .. \h57, Row("PUSH", <<Reg>>)) ++ On(\h58 .. \h5F, Row("POP", <<Reg>>))

Opcodes_1_60_7F ==
  On({\h60, \h61}, Data(<< >>))
    ++ On({\h62}, Data(<<Gv, Mv>>))
    ++ On({\h63}, [kind |-> "ext64", table |-> X86_Opcode_63])
    ++ On(\h64 .. \h67, PrefixRow)
    ++ On({\h68}, Row("PUSH", <<Iz>>)) ++ On({\h6A}, Row("PUSH", <<Ib>>))
    ++ On({\h69}, Store(<<Gv, Ev, Iz>>)) ++ On({\h6B}, Store(<<Gv, Ev, Ib>>))
    ++ On({\h6C, \h6D}, Wr("STRING", <<Yv, Reg>>))
    ++ On({\h6E, \h6F}, Wr("STRING", <<Reg, Xv>>))
    ++ On(\h70 .. \h7F, Row("BRANCHCC", <<Jb>>))

Opcodes_1_80_9F ==
  On({\h80, \h82, \h83}, Group(Group_1(Ib))) ++ On({\h81}, Group(Group_1(Iz)))
    ++ On({\h84, \h85}, Data(<<Ev, Gv>>))
    ++ On(\h86 .. \h89, Store(<<Ev, Gv>>)) ++ On({\h8A, \h8B}, Store(<<Gv, Ev>>))
    ++ On({\h8C}, Store(<<Ev, Gv>>)) ++ On({\h8D}, Store(<<Gv, Mv>>))
    ++ On({\h8E}, Store(<<Gv, Ev>>)) ++ On({\h8F}, Group(Group_10))
    ++ On({\h90}, Data(<< >>)) ++ On(\h91 .. \h99, Store(<<Reg, Reg>>))
    ++ On({\h9A}, Row("CALL", <<Ap>>)) ++ On({\h9B}, Row("SYSTEM", << >>))
    ++ On({\h9C}, Row("PUSHF", <<Reg>>)) ++ On({\h9D}, Row("POPF", <<Reg>>))
    ++ On({\h9E, \h9F}, Store(<<Reg, Reg>>))

Opcodes_1_A0_BF ==
  On({\hA0, \hA1}, Store(<<Reg, Ov>>)) ++ On({\hA2, \hA3}, Store(<<Ov, Reg>>))
    ++ On({\hA4, \hA5}, Wr("STRING", <<Yv, Xv>>))
    ++ On({\hA6, \hA7}, Row("STRCMP", <<Xv, Yv>>))
    ++ On({\hA8}, Data(<<Reg, Ib>>)) ++ On({\hA9}, Data(<<Reg, Iz>>))
    ++ On({\hAA, \hAB}, Wr("STRING", <<Yv, Reg>>))
    ++ On({\hAC, \hAD}, Wr("STRING", <<Reg, Xv>>))
    ++ On({\hAE, \hAF}, Row("STRCMP", <<Reg, Yv>>))
    ++ On(\hB0 .. \hB7, Store(<<Reg, Ib>>)) ++ On(\hB8 .. \hBF, Store(<<Reg, Iv>>))

Opcodes_1_C0_D7 ==
  On({\hC0, \hC1}, Group(Group_2(Ib))) ++ On(\hD0 .. \hD3, Group(Group_2(Reg)))
    ++ On({\hC2, \hCA}, Row("RET", <<Iw>>)) ++ On({\hC3, \hCB}, Row("RET", << >>))
    ++ On({\hC4, \hC5}, Store(<<Gv, Mv>>))
    ++ On({\hC6}, Group(Group_12(Ib))) ++ On({\hC7}, Group(Group_12(Iz)))
    ++ On({\hC8}, Row("ENTER", <<Reg, Iw, Ib>>)) ++ On({\hC9}, Row("LEAVE", <<Reg>>))
    ++ On({\hCC, \hCE, \hCF, \hF1}, Row("TRAP", << >>)) ++ On({\hCD}, Row("TRAP", <<Ib>>))
    ++ On({\hD4, \hD5}, Store(<<Reg, Ib>>)) ++ On({\hD6}, Store(<<Reg, Reg, Reg>>))
    ++ On({\hD7}, Store(<<Reg, Xv>>))

Opcodes_1_D8_DF ==
  On({\hD8}, Esc(X86_ESC_0)) ++ On({\hD9}, Esc(X86_ESC_1)) ++ On({\hDA}, Esc(X86_ESC_2))
    ++ On({\hDB}, Esc(X86_ESC_3)) ++ On({\hDC}, Esc(X86_ESC_4)) ++ On({\hDD}, Esc(X86_ESC_5))
    ++ On({\hDE}, Esc(X86_ESC_6)) ++ On({\hDF}, Esc(X86_ESC_7))

Opcodes_1_E0_EF ==
  On(\hE0 .. \hE3, Row("LOOPCC", <<Jb>>))
    ++ On({\hE4, \hE5}, Wr("STRING", <<Reg, Ib>>))
    ++ On({\hE6, \hE7}, Wr("STRING", <<Ib, Reg>>))
    ++ On({\hE8}, Row("CALL", <<Jz>>)) ++ On({\hE9}, Row("BRANCH", <<Jz>>))
    ++ On({\hEA}, Row("BRANCH", <<Ap>>)) ++ On({\hEB}, Row("BRANCH", <<Jb>>))
    ++ On(\hEC .. \hEF, Wr("STRING", <<Reg, Reg>>))

Opcodes_1_F0_FF ==
  On({\hF0, \hF2, \hF3}, PrefixRow) ++ On({\hF4}, Data(<< >>))
    ++ On({\hF5} \cup (\hF8 .. \hFD), Store(<<Reg>>))
    ++ On({\hF6}, Group(Group_3(Ib))) ++ On({\hF7}, Group(Group_3(Iz)))
    ++ On({\hFE}, Group(Group_4)) ++ On({\hFF}, Group(Group_5))

X86_Opcodes_1 ==
  Arithmetic ++ On({\h0F}, [kind |-> "twobyte"])
    ++ Opcodes_1_40_5F ++ Opcodes_1_60_7F ++ Opcodes_1_80_9F ++ Opcodes_1_A0_BF
    ++ Opcodes_1_C0_D7 ++ Opcodes_1_D8_DF ++ Opcodes_1_E0_EF ++ Opcodes_1_F0_FF

----------------------------------------------------------------------------
(* Groups of the two-byte opcodes.                                         *)

X86_Group_6 == On({0, 1}, Wr("SYSTEM", <<Ev>>)) ++ On(2 .. 5, Row("SYSTEM", <<Ev>>))
                 ++ On({6}, Amd64(Row("BRANCH", <<Ev>>)))
X86_Group_7 == On({0, 1}, Wr("SYSTEM", <<Mv>>)) ++ On({2, 3, 7}, Row("SYSTEM", <<Mv>>))
                 ++ On({4}, Wr("SYSTEM", <<Ev, Reg>>)) ++ On({6}, Row("SYSTEM", <<Reg, Ev>>))
X86_Group_8 == On(4 .. 7, Store(<<Ev, Ib>>))
X86_Group_9 == On({1}, Store(<<Mv, Reg, Reg>>))
X86_Group_11 == On(0 .. 7, Data(<< >>))
Group_13_14(type, rm) == On({2, 4, 6}, Row(type, <<rm, Ib>>))
Group_15(type, rm)    == On({2, 3, 6, 7}, Row(type, <<rm, Ib>>))
X86_Group_16 == On({0}, Wr("FPU", <<Mfst2>>)) ++ On({1}, Row("FPU", <<Mfst2>>))
                  ++ On({2}, Row("SSE", <<Mv>>)) ++ On({3}, Wr("SSE", <<Mv>>))
                  ++ On(5 .. 7, Row("SYSTEM", << >>))
X86_Group_17 == On(0 .. 7, Row("SYSTEM", <<Ev>>))
X86_Group_P  == On({0, 1}, Data(<<Ev>>))

(* 0F 01: monitor, mwait and swapgs by the whole ModRM byte, else group 7. *)
X86_0F01_Memory == On(\h00 .. \hBF, Group(X86_Group_7))
X86_0F01_Register ==
  On({\hC8, \hC9}, Row("SYSTEM", << >>)) ++ On({\hF8}, Amd64(Row("SYSTEM", <<Reg>>)))
    ++ On(\hC0 .. \hFF, Group(X86_Group_7))

(* 3DNow: the byte behind the operands selects the row.                    *)
Now3D_Convert == On({\h0C, \h0D, \h1C, \h1D}, Data(<<Pq, Qq>>))
Now3D_Arithmetic ==
  On({\h8A, \h8E, \h90, \h94, \h96, \h97, \h9A, \h9E, \hA0, \hA4, \hA6, \hA7,
      \hAA, \hAE, \hB0, \hB4, \hB6, \hB7, \hBB, \hBF}, Data(<<Pq, Qq>>))

----------------------------------------------------------------------------
(* The two-byte opcodes.                                                   *)

Mmx(ops) == Row("MMX", ops)
Sse(ops) == Row("SSE", ops)
SseStore(ops) == Wr("SSE", ops)

Opcodes_2_00_07 ==
  On({\h00}, Group(X86_Group_6))
    ++ On({\h01}, [kind |-> "modrm", table |-> X86_0F01_Register ++ X86_0F01_Memory])
    ++ On({\h02, \h03}, Wr("SYSTEM", <<Gv, Ev>>))
    ++ On({\h05}, [kind |-> "ext64", table |-> [x86 |-> Data(<<Reg, Reg, Reg>>),
                                             x64 |-> Amd64(Data(<<Reg, Reg, Reg>>))]])
    ++ On({\h06}, Row("SYSTEM", <<Reg>>)) ++ On({\h07}, Data(<<Reg>>))

Opcodes_2_08_1F ==
  On({\h08, \h09}, Row("SYSTEM", << >>)) ++ On({\h0B}, Data(<< >>))
    ++ On({\h0D}, Group(X86_Group_P)) ++ On({\h0E}, Store(<<Reg>>))
    ++ On({\h0F}, [kind |-> "suffix", ops |-> <<Pq, Qq>>,
               table |-> Now3D_Convert ++ Now3D_Arithmetic])
    ++ On({\h10, \h12, \h14, \h15, \h16, \h28}, Sse(<<Vo, Wo>>))
    ++ On({\h11, \h29}, SseStore(<<Wo, Vo>>))
    ++ On({\h13, \h17, \h2B}, SseStore(<<Mv, Vo>>))
    ++ On({\h18}, Group(X86_Group_17))

Opcodes_2_20_3F ==
  On({\h20, \h21}, Store(<<Rd, Cd>>)) ++ On({\h22, \h23}, Store(<<Cd, Rd>>))
    ++ On({\h2A}, Sse(<<Vo, Qq>>)) ++ On({\h2C, \h2D}, Sse(<<Pq, Wo>>))
    ++ On({\h2E, \h2F}, Sse(<<Vo, Wo>>))
    ++ On(\h30 .. \h32, Row("SYSTEM", <<Reg, Reg>>))
    ++ On({\h33}, Store(<<Reg, Reg>>)) ++ On({\h34, \h35}, Data(<<Reg, Reg, Reg>>))

Opcodes_2_40_5F ==
  On(\h40 .. \h4F, Store(<<Gv, Ev>>))
    ++ On({\h50}, Sse(<<Gv, VRo>>)) ++ On(\h51 .. \h5F, Sse(<<Vo, Wo>>))

Opcodes_2_60_7F ==
  On((\h60 .. \h6B) \cup {\h6F} \cup (\h74 .. \h76), Mmx(<<Pq, Qq>>))
    ++ On({\h6E}, Mmx(<<Pq, Ev>>)) ++ On({\h70}, Mmx(<<Pq, Qq, Ib>>))
    ++ On({\h71, \h72}, Group(Group_13_14("MMX", PRq)))
    ++ On({\h73}, Group(Group_15("MMX", PRq))) ++ On({\h77}, Mmx(<<Reg>>))
    ++ On({\h7E}, Wr("MMX", <<Ev, Pq>>)) ++ On({\h7F}, Wr("MMX", <<Qq, Pq>>))

Opcodes_2_80_AF ==
  On(\h80 .. \h8F, Row("BRANCHCC", <<Jz>>))
    ++ On(\h90 .. \h9F, Store(<<Ev, Reg, Reg>>))
    ++ On({\hA0, \hA8}, Row("PUSH", <<Reg>>)) ++ On({\hA1, \hA9}, Row("POP", <<Reg>>))
    ++ On({\hA2}, Store(<<Reg, Reg>>)) ++ On({\hAA}, Row("SYSTEM", << >>))
    ++ On({\hA3, \hAB, \hB3, \hBB}, Data(<<Ev, Gv>>))
    ++ On({\hA4, \hAC}, Store(<<Ev, Gv, Ib>>))
    ++ On({\hA5, \hAD}, Store(<<Ev, Gv, Reg>>))
    ++ On({\hAE}, Group(X86_Group_16)) ++ On({\hAF}, Store(<<Gv, Ev>>))

Opcodes_2_B0_BF ==
  On({\hB0, \hB1}, Store(<<Ev, Reg, Gv>>))
    ++ On({\hB2, \hB4, \hB5}, Store(<<Gv, Mv>>))
    ++ On({\hB6, \hB7, \hBE, \hBF}, Store(<<Gv, Ev>>))
    ++ On({\hB9}, Group(X86_Group_11)) ++ On({\hBA}, Group(X86_Group_8))
    ++ On({\hBC, \hBD}, Data(<<Gv, Ev>>))

Opcodes_2_C0_FF ==
  On({\hC0, \hC1}, Store(<<Ev, Gv>>)) ++ On({\hC2, \hC6}, Sse(<<Vo, Wo, Ib>>))
    ++ On({\hC3}, SseStore(<<Mv, Gv>>)) ++ On({\hC4}, Sse(<<Pq, Ev, Ib>>))
    ++ On({\hC5}, Sse(<<Gv, PRq, Ib>>)) ++ On({\hC7}, Group(X86_Group_9))
    ++ On(\hC8 .. \hCF, Store(<<Reg>>))
    ++ On({\hD7}, Sse(<<Gv, PRq>>)) ++ On({\hE7}, SseStore(<<Mv, Pq>>))
    ++ On({\hF7}, Sse(<<Pq, PRq>>))
    ++ On({\hD4, \hDA, \hDE, \hE0, \hE3, \hE4, \hEA, \hEE, \hF4, \hF6, \hFB},
          Sse(<<Pq, Qq>>))
    ++ On({\hD1, \hD2, \hD3, \hD5, \hD8, \hD9, \hDB, \hDC, \hDD, \hDF, \hE1, \hE2,
           \hE5, \hE8, \hE9, \hEB, \hEC, \hED, \hEF, \hF1, \hF2, \hF3, \hF5, \hF8,
           \hF9, \hFA, \hFC, \hFD, \hFE}, Mmx(<<Pq, Qq>>))

X86_Opcodes_2 ==
  Opcodes_2_00_07 ++ Opcodes_2_08_1F ++ Opcodes_2_20_3F ++ Opcodes_2_40_5F
    ++ Opcodes_2_60_7F ++ Opcodes_2_80_AF ++ Opcodes_2_B0_BF ++ Opcodes_2_C0_FF

----------------------------------------------------------------------------
(* X86_SSE: two-byte opcodes behind 66, F2 or F3.                          *)

SSE_66_00_2F ==
  On({\h10, \h14, \h15, \h28, \h2E, \h2F}, Sse(<<Vo, Wo>>))
    ++ On({\h11, \h29}, SseStore(<<Wo, Vo>>))
    ++ On({\h12, \h16}, Sse(<<Vo, Mv>>)) ++ On({\h13, \h17, \h2B}, SseStore(<<Mv, Vo>>))
    ++ On({\h2A}, Sse(<<Vo, Qq>>)) ++ On({\h2C, \h2D}, Sse(<<Pq, Wo>>))
SSE_66_50_7F ==
  On({\h51, \h6F, \h7C, \h7D, \h7F} \cup (\h54 .. \h6D) \cup (\h74 .. \h76), Sse(<<Vo, Wo>>))
    ++ On({\h50}, Sse(<<Gv, VRo>>)) ++ On({\h6E}, Sse(<<Vo, Ev>>)) ++ On({\h7E}, SseStore(<<Ev, Vo>>))
    ++ On({\h70}, Sse(<<Vo, Wo, Ib>>))
    ++ On({\h71, \h72}, Group(Group_13_14("SSE", VRo)))
    ++ On({\h73}, Group(Group_15("SSE", VRo)))
SSE_66_80_FF ==
  On({\hC2, \hC6}, Sse(<<Vo, Wo, Ib>>)) ++ On({\hC4}, Sse(<<Vo, Ev, Ib>>))
    ++ On({\hC5}, Sse(<<Gv, VRo, Ib>>)) ++ On({\hD6}, SseStore(<<Wo, Vo>>))
    ++ On({\hD7}, Sse(<<Gv, VRo>>)) ++ On({\hE7}, SseStore(<<Mv, Vo>>))
    ++ On({\hF7}, Sse(<<Vo, VRo>>))
    ++ On((\hD0 .. \hFE) \ {\hF0}, Sse(<<Vo, Wo>>))

SSE_F2_00_7F ==
  On({\h10, \h12, \h51, \h58, \h59, \h5A, \h5C, \h5D, \h5E, \h5F, \h6F, \h7C, \h7D},
     Sse(<<Vo, Wo>>))
    ++ On({\h11}, SseStore(<<Wo, Vo>>)) ++ On({\h2A}, Sse(<<Vo, Ev>>))
    ++ On({\h2C, \h2D}, Sse(<<Gv, Wo>>)) ++ On({\h70}, Sse(<<Vo, Wo, Ib>>))
SSE_F2_80_FF ==
  On({\hC2}, Sse(<<Vo, Wo, Ib>>)) ++ On({\hD0, \hE6}, Sse(<<Vo, Wo>>))
    ++ On({\hD6}, Sse(<<Pq, VRo>>)) ++ On({\hF0}, Sse(<<Vo, Mv>>))

SSE_F3_00_7F ==
  On({\h10, \h12, \h16, \h51, \h52, \h53, \h6F, \h7E} \cup (\h58 .. \h5F), Sse(<<Vo, Wo>>))
    ++ On({\h11, \h7F}, SseStore(<<Wo, Vo>>)) ++ On({\h2A}, Sse(<<Vo, Ev>>))
    ++ On({\h2C, \h2D}, Sse(<<Gv, Wo>>)) ++ On({\h70}, Sse(<<Vo, Wo, Ib>>))
SSE_F3_80_FF ==
  On({\hC2}, Sse(<<Vo, Wo, Ib>>)) ++ On({\hD6}, Sse(<<Vo, PRq>>)) ++ On({\hE6}, Sse(<<Vo, Wo>>))

X86_SSE == On({\h66}, SSE_66_00_2F ++ SSE_66_50_7F ++ SSE_66_80_FF)
             ++ On({\hF2}, SSE_F2_00_7F ++ SSE_F2_80_FF)
             ++ On({\hF3}, SSE_F3_00_7F ++ SSE_F3_80_FF)

----------------------------------------------------------------------------
(* Tables indexed by an opcode.                                            *)

X86_ModRM_1 ==
  {8 * n + k : n \in 0 .. 7, k \in 0 .. 3} \cup {\h62, \h63, \h69, \h6B}
    \cup (\h80 .. \h8F) \cup {\hC0, \hC1, \hC4, \hC5, \hC6, \hC7}
    \cup (\hD0 .. \hD3) \cup (\hD8 .. \hDF) \cup {\hF6, \hF7, \hFE, \hFF}
X86_ModRM_2 ==
  (\h00 .. \h03) \cup {\h0D, \h0F} \cup (\h10 .. \h18) \cup (\h20 .. \h24) \cup {\h26}
    \cup (\h28 .. \h2F) \cup (\h40 .. \h76) \cup (\h7C .. \h7F) \cup (\h90 .. \h9F)
    \cup {\hA3, \hA4, \hA5, \hA7} \cup (\hAB .. \hB7) \cup (\hBA .. \hC7)
    \cup (\hD0 .. \hFE)

(* Opcodes a lock prefix may stand before, and the rows of a group where   *)
(* it may (GR in the source).                                              *)
X86_LockPrefix_1 ==
  {8 * n + k : n \in 0 .. 5, k \in 0 .. 3} \cup (\h30 .. \h33) \cup {\h86, \h87}
X86_LockPrefix_2 == {\hAB, \hB0, \hB1, \hB3, \hBB, \hC0, \hC1}
LockPrefix_GR_1 == (\h80 .. \h83) \cup {\hF6, \hF7, \hFE, \hFF}
LockPrefix_GR_2 == {\hBA, \hC7}
X86_LockPrefix_Groups ==
  On({1}, 0 .. 6) ++ On({3}, {2, 3}) ++ On({4}, {0, 1}) ++ On({5}, {0, 1})
    ++ On({8}, 4 .. 7) ++ On({9}, {1})

(* Numbers of the groups that occur in the tables above (0 elsewhere).     *)
X86_Groups_1 ==
  On(\h80 .. \h83, 1) ++ On({\hF6, \hF7}, 3) ++ On({\hFE}, 4) ++ On({\hFF}, 5)
X86_Groups_2 == On({\hBA}, 8) ++ On({\hC7}, 9)

X86_Invalid_Op16_2   == \hC8 .. \hCF
X86_Invalid_Addr64_1 == {\h06, \h07, \h0E, \h16, \h1E, \h27, \h2F, \h37, \h3F, \h60,
                         \h61, \h62, \h9A, \hC4, \hC5, \hCE, \hD4, \hD5, \hEA}
X86_Invalid_Addr64_2 == {\h34, \h35}
============================================================================
