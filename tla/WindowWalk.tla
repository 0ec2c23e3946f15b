---------------------------- MODULE WindowWalk ----------------------------
(***************************************************************************)
(* DealAllWindows: three programs that note every top-level window while   *)
(* other programs open and close windows and move them up and down the     *)
(* z-order: raise, lower and minimise them.  GetWindow walks from sibling  *)
(* to sibling on the living list; EnumWindow and GetOwnerWnd get           *)
(* the windows from EnumWindows, which goes by a list it makes at its      *)
(* beginning.  GetOwnerWnd also looks the process of every window up in a  *)
(* snapshot of the processes, and does everything several times.           *)
(***************************************************************************)
EXTENDS Naturals, FiniteSets, SequencesExt

CONSTANTS
  Windows,      (* windows there can be                                    *)
  MaxChanges,   (* bound: changes of the list by other programs            *)
  Rounds        (* rounds of GetOwnerWnd: 10 in the source                 *)

NoWindow == "no window"

ASSUME WindowAssumption ==
  /\ IsFiniteSet(Windows) /\ NoWindow \notin Windows
  /\ MaxChanges \in Nat /\ Rounds \in Nat \ {0}

VARIABLES
  method,     (* "GetWindow", "EnumWindow", "GetOwnerWnd"                  *)
  zorder,     (* the top-level windows, topmost first                      *)
  listed,     (* what EnumWindows has yet to hand out                      *)
  hWnd,       (* the window in hand                                        *)
  doing,      (* "start", "check", "name", "next", "ended"                 *)
  visits,     (* window -> how often it was noted in this round            *)
  snapshot,   (* the handle of the process snapshot is open                *)
  round,
  changes,
  stayed,     (* windows there since the round began (history)             *)
  lost,       (* the window in hand was closed (history)                   *)
  passed      (* a window passed the one in hand, up or down (history)     *)

windows == <<method, zorder, listed, hWnd, doing, visits, snapshot, round,
             changes, stayed, lost, passed>>

(* Windows are interchangeable: which are there first makes no difference. *)
WindowInit ==
  /\ method \in {"GetWindow", "EnumWindow", "GetOwnerWnd"}
  /\ zorder \in {SubSeq(SetToSeq(Windows), 1, n) : n \in 0 .. Cardinality(Windows)}
  /\ listed = << >> /\ hWnd = NoWindow /\ doing = "start"
  /\ visits = [w \in Windows |-> 0] /\ snapshot = FALSE
  /\ round = 1 /\ changes = 0
  /\ stayed = {} /\ lost = FALSE /\ passed = FALSE

(* GW_HWNDNEXT: nothing behind the last window or a closed one.            *)
After(w) ==
  LET behind == {k \in 2 .. Len(zorder) : zorder[k - 1] = w}
  IN IF behind = {} THEN NoWindow ELSE zorder[CHOOSE k \in behind : TRUE]

(* GW_CHILD of the desktop, or the call of EnumWindows.                    *)
StartWalk ==
  /\ doing = "start"
  /\ IF method = "GetWindow"
     THEN hWnd' = (IF zorder = << >> THEN NoWindow ELSE Head(zorder)) /\ UNCHANGED listed
     ELSE hWnd' = NoWindow /\ listed' = zorder
  /\ doing' = IF method = "GetWindow" THEN "check" ELSE "next"
  /\ visits' = [w \in Windows |-> 0]
  /\ stayed' = ToSet(zorder) /\ lost' = FALSE /\ passed' = FALSE
  /\ UNCHANGED <<method, zorder, snapshot, round, changes>>

IsWindow(w) == \E k \in DOMAIN zorder : zorder[k] = w
NextWindow ==
  /\ doing = "next"
  /\ IF method = "GetWindow"
     THEN hWnd' = After(hWnd) /\ doing' = "check" /\ UNCHANGED listed
     ELSE IF listed = << >>
          THEN doing' = "ended" /\ UNCHANGED <<hWnd, listed>>
          ELSE hWnd' = Head(listed) /\ listed' = Tail(listed) /\ doing' = "check"
  /\ UNCHANGED <<method, zorder, visits, snapshot, round, changes, stayed,
                 lost, passed>>

(* Slip: the enumeration is stopped as well.                               *)
WhenGoneStop == "ended"
(* A window that is gone ends the walk; EnumWindowProc passes it over.     *)
WhenGone == IF method = "GetWindow" THEN "ended" ELSE "next"

(* IsWindow and DealTheWndHandle.                                          *)
CheckWindow ==
  /\ doing = "check"
  /\ IF IsWindow(hWnd)
     THEN /\ visits' = [visits EXCEPT ![hWnd] = @ + 1]
          /\ doing' = IF method = "GetOwnerWnd" THEN "name" ELSE "next"
     ELSE /\ UNCHANGED visits
          /\ doing' = WhenGone
  /\ UNCHANGED <<method, zorder, listed, hWnd, snapshot, round, changes,
                 stayed, lost, passed>>

(* GetProcessName closes the snapshot in every way out; whether it found   *)
(* a name makes no difference to the walk.                                 *)
TakeSnapshot ==
  /\ doing = "name" /\ ~snapshot
  /\ \/ snapshot' = TRUE /\ UNCHANGED doing
     \/ doing' = "next" /\ UNCHANGED snapshot
  /\ UNCHANGED <<method, zorder, listed, hWnd, visits, round, changes, stayed, lost,
                 passed>>

SearchSnapshot ==
  /\ doing = "name" /\ snapshot
  /\ snapshot' = FALSE
  /\ doing' = "next"
  /\ UNCHANGED <<method, zorder, listed, hWnd, visits, round, changes, stayed, lost,
                 passed>>

NextRound ==
  /\ doing = "ended" /\ method = "GetOwnerWnd" /\ round < Rounds
  /\ round' = round + 1 /\ doing' = "start"
  /\ UNCHANGED <<method, zorder, listed, hWnd, visits, snapshot, changes,
                 stayed, lost, passed>>

WindowWalkStep ==
  \/ StartWalk \/ NextWindow \/ CheckWindow \/ TakeSnapshot \/ SearchSnapshot \/ NextRound
---------------------------------------------------------------------------
(* The other programs.                                                     *)

Without(w) == RemoveAt(zorder, CHOOSE k \in DOMAIN zorder : zorder[k] = w)
Change(s) ==
  /\ changes < MaxChanges /\ doing # "ended"
  /\ changes' = changes + 1
  /\ zorder' = s
  /\ UNCHANGED <<method, listed, hWnd, doing, visits, snapshot, round>>

(* The windows above another one.                                          *)
Above(w) ==
  {v \in Windows : \E j, k \in DOMAIN zorder :
                     j < k /\ zorder[j] = v /\ zorder[k] = w}

(* A window is opened at any place, a topmost one for instance above the   *)
(* others.                                                                 *)
Open(w) ==
  /\ ~IsWindow(w)
  /\ \E n \in 1 .. Len(zorder) + 1 : Change(InsertAt(zorder, n, w))
  /\ UNCHANGED <<stayed, lost, passed>>
Shut(w) ==
  /\ IsWindow(w) /\ Change(Without(w))
  /\ stayed' = stayed \ {w} /\ lost' = (lost \/ w = hWnd) /\ UNCHANGED passed

(* SetWindowPos: to the top, to the bottom, or behind any other window.    *)
SetWindowPos(w) ==
  /\ IsWindow(w)
  /\ \E n \in DOMAIN zorder : Change(InsertAt(Without(w), n, w))
  /\ passed' = (passed \/ Above(hWnd)' # Above(hWnd))
  /\ UNCHANGED <<stayed, lost>>

OtherPrograms == \E w \in Windows : Open(w) \/ Shut(w) \/ SetWindowPos(w)
WindowsEnded == doing = "ended" /\ (method = "GetOwnerWnd" => round = Rounds)
---------------------------------------------------------------------------
(***************************************************************************)
(* StayingVisitedOnce: a window that is there from the beginning to the    *)
(* end of a round is noted exactly once in it, whatever else is opened,    *)
(* closed and moved.  The walk from sibling to sibling keeps this only if  *)
(* the window it has in hand is not closed and no window passes that one,  *)
(* as when another is raised over it or it is itself lowered or minimised. *)
(***************************************************************************)
StayingVisitedOnce ==
  doing = "ended" /\ (method = "GetWindow" => ~lost /\ ~passed) =>
    \A w \in stayed : visits[w] = 1
===========================================================================
