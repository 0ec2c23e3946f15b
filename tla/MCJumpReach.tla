--------------------------- MODULE MCJumpReach ---------------------------
(***************************************************************************)
(* The distances of the code with a granularity of 128 bytes, below which  *)
(* the real structure of 120 bytes still fits, and the values that lie on  *)
(* either side of every comparison.                                        *)
(***************************************************************************)
EXTENDS JumpReach

MCHalf == 16 * 128
MCTop  == 5 * MCHalf

MCFunction == {300, MCHalf - 1, MCHalf + 77, 2 * MCHalf + 130,
               MCTop - MCHalf - 1, MCTop - MCHalf + 1, MCTop - 200}

AllHooks == {f + d : f \in {2 * MCHalf + 130},
                     d \in {-Near - 1, -Near, -Near + 4, -Near + 5, 5,
                             Near - 1, Near, Near + 5, Near + 6}}

MCTarget == {130, MCHalf + 1, 2 * MCHalf, 3 * MCHalf, 4 * MCHalf, MCTop - 130}

(* Free memory comes in pieces between modules.                            *)
Bounds(n) == n * 3 * 128
MCRegion == {<<Bounds(n), Bounds(n + 1), n % 2 = 0>> : n \in 0 .. 26}
MCLengths == {1, 4, 15}
(* mov or lea; movzx, or mov behind a prefix; mov of an immediate, alone   *)
(* and behind four prefixes.                                               *)
MCRipForms == {<<7, 3>>, <<8, 4>>, <<11, 3>>, <<15, 7>>}
==========================================================================
