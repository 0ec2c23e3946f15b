----------------------------- MODULE RtcpWalk -----------------------------
(***************************************************************************)
(* RTCP_Parser: parse_udp_packet walks the blocks of a compound packet by  *)
(* their length fields.  What lies at an offset is chosen when the walk    *)
(* comes to it: the bytes read from the file, behind them zeros up to the  *)
(* end of udp_packet, and behind that anything.                            *)
(***************************************************************************)
EXTENDS Naturals

CONSTANTS
  BufferSize,   (* sizeof udp_packet: 2048 in the source                   *)
  PacketSizes,  (* nPackSize: what fread can return, 0 when it reads none  *)
  BlockTypes,   (* payload types                                           *)
  BlockLengths  (* length fields                                           *)

SR == 200

ASSUME RtcpAssumption ==
  /\ BufferSize \in Nat /\ 0 \in PacketSizes /\ PacketSizes \subseteq 0 .. BufferSize
  /\ BlockTypes \subseteq 0 .. 2 ^ 8 - 1 /\ BlockLengths \subseteq 0 .. 2 ^ 16 - 1

VARIABLES
  packet_length,
  offset,
  pHeader,      (* the payload type and the length field at offset         *)
  overread,     (* bytes behind the packet were taken for a block's        *)
  malformed     (* a block was too short or reached behind the packet      *)

rtcp == <<packet_length, offset, pHeader, overread, malformed>>

(* The type and the length field that can lie at an offset.                *)
HeadersAt(o) ==
  CASE o + 4 <= packet_length -> BlockTypes \X BlockLengths
    [] o + 4 <= BufferSize    -> (BlockTypes \cup {0}) \X {n \in BlockLengths : n % 256 = 0}
    [] OTHER                  -> (BlockTypes \cup {0}) \X (BlockLengths \cup {0})

RtcpInit ==
  /\ packet_length \in PacketSizes
  /\ offset = 0 /\ pHeader \in HeadersAt(0)
  /\ overread = FALSE /\ malformed = FALSE

(* Slip: the sender report is looked for behind a header of 12 bytes.      *)
ReadUpToFar(type) == IF type = SR THEN 12 + 20 ELSE 8
(* Bytes of a block that are read.                                         *)
ReadUpTo(type) == IF type = SR THEN 8 + 20 ELSE 8

(* Slip: the length field is taken for the whole length.                   *)
AdvanceShort(length) == 4 * length
Advance(length) == 4 * length + 4

ParseBlock ==
  LET type == pHeader[1]  length == pHeader[2]
  IN /\ offset < packet_length
     /\ overread' = (overread \/ offset + ReadUpTo(type) > packet_length)
     /\ malformed' = \/ malformed
                     \/ offset + 4 * length + 4 > packet_length
                     \/ length < (IF type = SR THEN 6 ELSE 1)
     /\ offset' = offset + Advance(length)
     /\ pHeader' \in IF offset' = offset THEN {pHeader} ELSE HeadersAt(offset')
     /\ UNCHANGED packet_length

RtcpEnded == offset >= packet_length
---------------------------------------------------------------------------
(***************************************************************************)
(* OverreadsOnlyMalformed: a packet whose blocks fill it exactly, each as  *)
(* long as its type needs, is read to its end and no further.  (Nothing    *)
(* else is checked, so any other packet can be read past its end, and past *)
(* udp_packet when it fills it.)                                           *)
(***************************************************************************)
OverreadsOnlyMalformed == overread => malformed
===========================================================================
