----------------------------- MODULE MCMhook -----------------------------
(***************************************************************************)
(* Two threads hook the same function, the second through an import       *)
(* thunk, one with a far and one with a near hook; the second also tries a *)
(* function that is too short.                                             *)
(***************************************************************************)
EXTENDS Mhook, TLC

CONSTANTS fun, tiny, thk, h1, h2, h3, c1, c2, p1, p2, p3, b1, b2, b3

MCRoutine == {fun, tiny, thk, h1, h2, h3}
MCBlock   == {b1, b2, b3}
MCThunk   == thk :> fun
MCShort   == {tiny}
MCRegion  == [r \in MCRoutine |-> IF r = h1 THEN 1 ELSE 0]
MCCaller  == {c1, c2}
MCPtr     == {p1, p2, p3}
MCPtrsOf  == (c1 :> {p1}) @@ (c2 :> {p2, p3})
MCPtrInit == (p1 :> fun) @@ (p2 :> thk) @@ (p3 :> tiny)
MCHooksOf == (p1 :> {h1}) @@ (p2 :> {h2}) @@ (p3 :> {h3})
==========================================================================
