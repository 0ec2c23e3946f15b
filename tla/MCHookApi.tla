---------------------------- MODULE MCHookApi ----------------------------
(***************************************************************************)
(* Two functions.  f is reached by two pointers, one of them through an    *)
(* import thunk; g by one pointer that is hooked again while hooked.  h1   *)
(* and h4 are loaded far from the functions.  s is too short to hook.      *)
(***************************************************************************)
EXTENDS HookApi, TLC

CONSTANTS f, g, s, t, h1, h2, h3, h4, h5, p1, p2, p3, p4, b1, b2, b3, b4

MCRoutine == {f, g, s, t, h1, h2, h3, h4, h5}
MCBlock   == {b1, b2, b3, b4}
MCThunk   == t :> f
MCShort   == {s}
MCRegion  == [r \in MCRoutine |-> IF r \in {h1, h4} THEN 1 ELSE 0]
MCPtr     == {p1, p2, p3, p4}
MCPtrInit == (p1 :> f) @@ (p2 :> t) @@ (p3 :> g) @@ (p4 :> s)
MCHooksOf == (p1 :> {h1}) @@ (p2 :> {h2}) @@ (p3 :> {h3, h4}) @@ (p4 :> {h5})
MCSymmetry == Permutations(MCBlock)
==========================================================================
