---------------------------- MODULE MCX86Decode ----------------------------
(***************************************************************************)
(* X86Decode on every opcode of one or two bytes behind no more than one   *)
(* prefix, on one opcode of every kind behind two, on a few behind three,  *)
(* and behind a prefix repeated until the instruction is too long.         *)
(***************************************************************************)
EXTENDS X86Decode

MCPrefixBytes == {\h2E, \h64, \h66, \h67, \hF0, \hF2, \hF3, \h41, \h4A}

(* Every addressing form with reg = 0 (04, 44 and 84 with a SIB byte),     *)
(* every reg in memory and in a register, and three more with a            *)
(* displacement.                                                           *)
MCModRMBytes == {\h00, \h04, \h05, \h06, \h44, \h84, \h85}
                  \cup {8 * r : r \in 1 .. 7} \cup {\hC0 + 8 * r : r \in 0 .. 7}
                  \cup {\h14, \h94, \hB5, \h3D}
MCSIBBytes    == {\h00, \h05, \h25, \h45}
MCSuffixBytes == {\h00, \h0D, \h9E}

Representatives_1 == {\h00, \h0F, \h50, \h63, \h6B, \h81, \h82, \h8F, \h90, \h9A, \hA1, \hA4,
                      \hB8, \hC3, \hC4, \hC8, \hD9, \hDD, \hE8, \hF7, \hFF}
Representatives_2 == {\h01, \h05, \h0F, \h10, \h12, \h2A, \h6F, \h70, \h77, \h80, \hA4, \hAE,
                      \hB1, \hBA, \hC7}
Few == {<<\h81>>, <<\hE8>>, <<\h0F, \h10>>, <<\h0F, \h6F>>}

Scope ==
  LET n == Len(code.prefixes)
  IN /\ n >= 2 /\ code.opcode # << >> =>
          /\ code.opcode[1] \in Representatives_1
          /\ Len(code.opcode) = 2 => code.opcode[2] \in Representatives_2
     /\ n >= 3 /\ code.opcode \notin {<< >>, <<\h0F>>} =>
          code.opcode \in Few /\ code.modrm \in {None, \h05, \h84}
     /\ n > 3 => Cardinality({code.prefixes[k] : k \in 1 .. n}) = 1
     /\ code.modrm # None =>
          \/ Entry.kind # "row"
          \/ Reg3(code.modrm) = 0
=============================================================================
