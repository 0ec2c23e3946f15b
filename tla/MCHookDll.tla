---------------------------- MODULE MCHookDll ----------------------------
(***************************************************************************)
(* Three threads; the DLL is far from StartDocW and near StartDocA, and is *)
(* mapped up to twice.                                                     *)
(***************************************************************************)
EXTENDS HookDll, TLC

CONSTANTS StartDocA, StartDocW, GefStartDocA, GefStartDocW, pA, pW, b1, b2, b3, b4, t1, t2, t3

MCRoutine == {StartDocA, StartDocW, GefStartDocA, GefStartDocW}
MCThread  == {t1, t2, t3}
MCBlock   == {b1, b2, b3, b4}
MCThunk   == [r \in {} |-> r]
MCRegion  == [r \in MCRoutine |-> IF r = StartDocW THEN 1 ELSE 0]
MCPtr     == {pA, pW}
MCPtrInit == (pA :> StartDocA) @@ (pW :> StartDocW)
MCGef     == (pA :> GefStartDocA) @@ (pW :> GefStartDocW)
MCHooksOf == [p \in MCPtr |-> {MCGef[p]}]
MCOrder   == <<pA, pW>>
MCSymmetry == Permutations(MCBlock) \cup Permutations(MCThread)
==========================================================================
