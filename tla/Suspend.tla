----------------------------- MODULE Suspend -----------------------------
(***************************************************************************)
(* The moment of overwriting in mhook.cpp.  One thread, inside g_cs, runs  *)
(* Mhook_SetHook and Mhook_Unhook on one function: it suspends the other   *)
(* threads, looks where their instruction pointers are, overwrites the     *)
(* function's first bytes, moves the application's pointer and resumes     *)
(* them.  The other threads call that function, allocate memory, start     *)
(* threads, end, and may have been suspended by the application before.    *)
(***************************************************************************)
EXTENDS Integers, FiniteSets

CONSTANTS
  Worker,        (* the other threads of the process                       *)
  Late,          (* those not created yet                                  *)
  AppSuspended,  (* those the application holds suspended                  *)
  Failures,      (* the calls that can fail                                *)
  MaxTries,      (* attempts to get a thread out of the way: 3             *)
  MaxMisses,     (* bound: worker -> failures to suspend it again          *)
  NULL

ASSUME SuspendAssumption ==
  /\ IsFiniteSet(Worker) /\ Late \subseteq Worker
  /\ AppSuspended \subseteq Worker \ Late
  /\ Failures \subseteq {"snapshot", "malloc", "open", "suspend", "context", "protect"}
  /\ MaxTries \in Nat /\ MaxMisses \in [Worker -> Nat]
  /\ NULL \notin Worker

VARIABLES
  code,    (* the function's first bytes: "orig", "torn" or "jump"         *)
  ptr,     (* the application's pointer: "sys" or "tramp"                  *)
  life,    (* worker -> "unborn", "alive", "dead" or "crashed"             *)
  ip,      (* worker -> where its instruction pointer is                   *)
  susp,    (* worker -> its suspend count                                  *)
  app,     (* worker -> how often the application suspended it             *)
  missed,  (* worker -> how often it could not be suspended again (history)*)
  heap,    (* the worker inside the heap's lock, or NULL                   *)
  pc,      (* where the patching thread is                                 *)
  todo,    (* threads of the snapshot not visited yet                      *)
  cur,     (* dwThreadId of SuspendOneThread, or NULL                      *)
  tries,   (* nTries                                                       *)
  held,    (* g_hThreadHandles[0 .. g_nThreadHandles - 1]                  *)
  buffer,  (* g_hThreadHandles is allocated                                *)
  clean    (* history: no call failed, no thread appeared or was given up  *)

text    == <<code, ptr>>
threads == <<life, ip, app, missed>>
walk    == <<todo, cur, tries, held>>
vars    == <<text, threads, susp, heap, pc, walk, buffer, clean>>

Init ==
  /\ code = "orig"
  /\ ptr = "sys"
  /\ life = [w \in Worker |-> IF w \in Late THEN "unborn" ELSE "alive"]
  /\ ip \in [Worker -> {"out", "mid"}]
  /\ \A w \in Worker \ AppSuspended : ip[w] = "out"
  /\ app = [w \in Worker |-> IF w \in AppSuspended THEN 1 ELSE 0]
  /\ susp = app
  /\ missed = [w \in Worker |-> 0]
  /\ heap = NULL
  /\ pc = "idle"
  /\ todo = {} /\ cur = NULL /\ tries = 0 /\ held = {}
  /\ buffer = FALSE
  /\ clean = TRUE

Alive(w)   == life[w] = "alive"
Running(w) == Alive(w) /\ susp[w] = 0

InRangeFirstByte(w) == ip[w] = "entry"       (* slip: looks at one byte only *)

(* The code about to be overwritten: its first byte, or one further on.    *)
InRange(w) == ip[w] \in {"entry", "mid"}
--------------------------------------------------------------------------
(* The other threads.                                                      *)
MoveTo(w, place) == ip' = [ip EXCEPT ![w] = place] /\ UNCHANGED life
Crash(w) == life' = [life EXCEPT ![w] = "crashed"] /\ UNCHANGED ip

(* A call of the function, and the return from it.                         *)
CallFunction(w) == ip[w] = "out" /\ heap # w /\ MoveTo(w, "entry")
Return(w)       == ip[w] = "tramp" /\ MoveTo(w, "out")

(* The processor fetches at the function's first byte.                     *)
Fetch(w) ==
  /\ ip[w] = "entry"
  /\ \/ code = "orig" /\ MoveTo(w, "mid")
     \/ code = "jump" /\ MoveTo(w, "hook")
     \/ code = "torn" /\ Crash(w)

(* It goes on behind the first instruction, where a jump's operand may be. *)
FetchMid(w) ==
  /\ ip[w] = "mid"
  /\ IF code = "orig" THEN MoveTo(w, "out") ELSE Crash(w)

(* The hook function calls the original through the pointer.               *)
HookCalls(w) ==
  /\ ip[w] = "hook"
  /\ MoveTo(w, IF ptr = "tramp" THEN "tramp" ELSE "entry")

Exit(w) ==
  /\ ip[w] = "out" /\ heap # w
  /\ life' = [life EXCEPT ![w] = "dead"]
  /\ UNCHANGED ip

Execute(w) ==
  /\ \/ CallFunction(w) \/ Return(w) \/ Fetch(w) \/ FetchMid(w)
     \/ HookCalls(w) \/ Exit(w)
  /\ UNCHANGED <<text, susp, app, missed, heap, pc, walk, buffer, clean>>

UseHeap(w) ==
  /\ ip[w] = "out"
  /\ \/ heap = NULL /\ heap' = w
     \/ heap = w /\ heap' = NULL
  /\ UNCHANGED <<text, threads, susp, pc, walk, buffer, clean>>

(* A thread created while a call is under way is in no snapshot.           *)
Spawn(w, n) ==
  /\ ip[w] = "out" /\ life[n] = "unborn"
  /\ life' = [life EXCEPT ![n] = "alive"]
  /\ clean' = (clean /\ pc \in {"idle", "snapshot"})
  /\ UNCHANGED <<text, ip, susp, app, missed, heap, pc, walk, buffer>>

(* ResumeThread, of the application or of mhook: nothing happens to a      *)
(* thread that runs or is gone.                                            *)
Resumed(w) == [susp EXCEPT ![w] = IF Alive(w) /\ @ > 0 THEN @ - 1 ELSE @]

AppResume(n) ==
  /\ app[n] > 0
  /\ app' = [app EXCEPT ![n] = @ - 1]
  /\ susp' = Resumed(n)
  /\ UNCHANGED <<text, life, ip, missed, heap, pc, walk, buffer, clean>>

Work(w) ==
  /\ Running(w)
  /\ \/ Execute(w)
     \/ UseHeap(w)
     \/ \E n \in Worker : Spawn(w, n) \/ AppResume(n)
--------------------------------------------------------------------------
(* The patching thread.  A failing call is noted in clean.                 *)
Goto(from, to) == pc = from /\ pc' = to
Fails(call)    == call \in Failures
Suspended(w)   == [susp EXCEPT ![w] = @ + 1]

Start ==
  /\ Goto("idle", "snapshot")
  /\ UNCHANGED <<text, threads, susp, heap, walk, buffer, clean>>

(* SuspendOtherThreads: CreateToolhelp32Snapshot and the counting pass.    *)
(* Where it answers FALSE the caller goes on all the same.                 *)
Snapshot ==
  /\ \/ /\ todo' = {w \in Worker : Alive(w)}
        /\ Goto("snapshot", IF todo' = {} THEN "patch" ELSE "malloc")
        /\ UNCHANGED clean
     \/ /\ Fails("snapshot")
        /\ Goto("snapshot", "patch")
        /\ clean' = FALSE
        /\ UNCHANGED todo
  /\ UNCHANGED <<text, threads, susp, heap, cur, tries, held, buffer>>

Malloc ==
  /\ \/ Goto("malloc", "walk") /\ buffer' = TRUE /\ UNCHANGED <<clean, todo>>
     \/ /\ Fails("malloc")
        /\ Goto("malloc", "patch")
        /\ clean' = FALSE /\ todo' = {}
        /\ UNCHANGED buffer
  /\ UNCHANGED <<text, threads, susp, heap, cur, tries, held>>

(* SuspendOneThread, from OpenThread to the handle it returns.             *)
Open(w) ==
  /\ \/ /\ Alive(w)
        /\ Goto("walk", "suspend")
        /\ cur' = w /\ tries' = 0
        /\ UNCHANGED <<clean, todo>>
     \/ /\ Alive(w) => Fails("open")
        /\ Goto("walk", "walk")
        /\ todo' = todo \ {w}
        /\ clean' = (clean /\ ~Alive(w))
        /\ UNCHANGED <<cur, tries>>
  /\ UNCHANGED <<text, threads, susp, heap, held, buffer>>

SuspendIt ==
  /\ \/ /\ Goto("suspend", "look")
        /\ Alive(cur)
        /\ susp' = Suspended(cur)
        /\ UNCHANGED <<clean, todo, cur>>
     \/ /\ Goto("suspend", "walk")
        /\ Alive(cur) => Fails("suspend")
        /\ todo' = todo \ {cur} /\ cur' = NULL
        /\ clean' = (clean /\ ~Alive(cur))
        /\ UNCHANGED susp
  /\ UNCHANGED <<text, threads, heap, tries, held, buffer>>

(* GetThreadContext and what follows from it.  nTries ends with the call.  *)
Leave == /\ todo' = todo \ {cur} /\ cur' = NULL /\ tries' = 0
         /\ Goto("look", "walk")

Keep            == Leave /\ held' = held \cup {cur} /\ UNCHANGED susp
GiveUpSuspended == Leave /\ UNCHANGED <<held, susp>>    (* slip: no resume *)
GiveUp          == Leave /\ susp' = Resumed(cur) /\ UNCHANGED held

Retry == /\ susp' = Resumed(cur)
         /\ Goto("look", "sleep")
         /\ UNCHANGED <<held, todo, cur, tries>>

(* The context of a thread that runs after all says nothing.               *)
SeenIn  == Alive(cur) /\ (InRange(cur) \/ Running(cur))
SeenOut == Alive(cur) /\ (~InRange(cur) \/ Running(cur))

Look ==
  /\ pc = "look"
  /\ \/ SeenOut /\ Keep /\ UNCHANGED clean
     \/ SeenIn /\ tries < MaxTries /\ Retry /\ UNCHANGED clean
     \/ SeenIn /\ tries = MaxTries /\ GiveUp /\ clean' = FALSE
     \/ /\ Alive(cur) => Fails("context")
        /\ Keep
        /\ clean' = (clean /\ ~Alive(cur))
  /\ UNCHANGED <<text, threads, heap, buffer>>

(* After Sleep(100).  Nobody asks whether the thread could be suspended    *)
(* again: whether it ended meanwhile or the call failed, it is looked at.  *)
Resuspend ==
  /\ Goto("sleep", "look")
  /\ tries' = tries + 1
  /\ \/ /\ Alive(cur)
        /\ susp' = Suspended(cur)
        /\ UNCHANGED <<missed, clean>>
     \/ /\ Alive(cur) /\ Fails("suspend") /\ missed[cur] < MaxMisses[cur]
        /\ missed' = [missed EXCEPT ![cur] = @ + 1] /\ clean' = FALSE
        /\ UNCHANGED susp
     \/ ~Alive(cur) /\ UNCHANGED <<susp, missed, clean>>
  /\ UNCHANGED <<text, life, ip, app, heap, todo, cur, held, buffer>>

WalkDoneEarly ==                  (* slip: the last thread is not visited     *)
  /\ Cardinality(todo) <= 1
  /\ Goto("walk", "patch")
  /\ UNCHANGED <<text, threads, susp, heap, walk, buffer, clean>>

WalkDone ==
  /\ todo = {}
  /\ Goto("walk", "patch")
  /\ UNCHANGED <<text, threads, susp, heap, walk, buffer, clean>>

(* Nothing is overwritten if VirtualAlloc or VirtualProtect fails.         *)
Patch ==
  /\ \/ Goto("patch", "patching") /\ code' = "torn"
     \/ Fails("protect") /\ Goto("patch", "resume") /\ UNCHANGED code
  /\ UNCHANGED <<ptr, threads, susp, heap, walk, buffer, clean>>

PatchWhenResumed ==               (* slip: resumes before the pointer moves    *)
  /\ Goto("patching", "publish")
  /\ code' = IF ptr = "sys" THEN "jump" ELSE "orig"
  /\ susp' = [w \in Worker |-> IF w \in held THEN susp[w] - 1 ELSE susp[w]]
  /\ held' = {}
  /\ UNCHANGED <<ptr, threads, heap, todo, cur, tries, buffer, clean>>

(* The pointer still tells what this call does: hook or unhook.            *)
PatchEnd ==
  /\ Goto("patching", "publish")
  /\ code' = IF ptr = "sys" THEN "jump" ELSE "orig"
  /\ UNCHANGED <<ptr, threads, susp, heap, walk, buffer, clean>>

Publish ==
  /\ Goto("publish", "resume")
  /\ ptr' = IF ptr = "sys" THEN "tramp" ELSE "sys"
  /\ UNCHANGED <<code, threads, susp, heap, walk, buffer, clean>>

(* ResumeOtherThreads: one thread after the other, then free.              *)
Resume(w) ==
  /\ Goto("resume", "resume")
  /\ susp' = Resumed(w)
  /\ held' = held \ {w}
  /\ UNCHANGED <<text, threads, heap, todo, cur, tries, buffer, clean>>

ResumeDone ==
  /\ held = {}
  /\ Goto("resume", IF buffer THEN "free" ELSE "idle")
  /\ UNCHANGED <<text, threads, susp, heap, walk, buffer, clean>>

FreeBuffer ==
  /\ Goto("free", "idle")
  /\ buffer' = FALSE
  /\ UNCHANGED <<text, threads, susp, heap, walk, clean>>

HeapStepsDebug == {"malloc", "free", "walk", "publish"}  (* slip: ODPRINTF left in *)

(* malloc and free wait for the heap's lock.  In a release build nothing   *)
(* else does: ODPRINTF, which allocates, is compiled out.                  *)
HeapSteps == {"malloc", "free"}

Patcher ==
  /\ pc \in HeapSteps => heap = NULL
  /\ \/ Snapshot \/ Malloc \/ SuspendIt \/ Look \/ Resuspend \/ WalkDone
     \/ Patch \/ PatchEnd \/ Publish \/ ResumeDone \/ FreeBuffer
     \/ \E w \in todo : Open(w)
     \/ \E w \in held : Resume(w)

Next ==
  \/ Start
  \/ Patcher
  \/ \E w \in Worker : Work(w)

Spec == Init /\ [][Next]_vars /\ WF_vars(Patcher)
--------------------------------------------------------------------------
(* A thread's suspend count is what the application asked for, and one     *)
(* more exactly while mhook has it in its list or is looking at it: no     *)
(* path, not even the one that gives a thread up, leaves a thread          *)
(* suspended, and the only thing that undoes a suspension of the           *)
(* application's is the second SuspendThread (mhook.cpp 399), whose answer *)
(* nobody reads: the ResumeThread that follows takes away what it did not  *)
(* give.  Each of its failures costs the thread at most one suspension.    *)
SuspendBalance ==
  \A w \in Worker : Alive(w) =>
    LET asked == app[w] + (IF w \in held \/ (pc = "look" /\ cur = w) THEN 1 ELSE 0)
    IN  susp[w] \in (asked - missed[w]) .. asked

(* If every call succeeded and no thread appeared meanwhile, then while    *)
(* the bytes and the pointer are inconsistent every other thread stands    *)
(* still, outside the bytes being overwritten (mhook.cpp 680-682, 784-785).*)
QuietWhilePatching ==
  clean /\ pc \in {"patch", "patching", "publish"} =>
    \A w \in Worker : Alive(w) => ~Running(w) /\ ~InRange(w)

(* Under the same condition no thread ever fetches half-written or         *)
(* displaced bytes, in any number of hooks and unhooks.                    *)
NoCrashWhenClean == clean => \A w \in Worker : life[w] # "crashed"

(* Under the same condition a thread that runs in the hook function finds  *)
(* the original behind the pointer, never the function that leads back     *)
(* into the hook.                                                          *)
HookFindsOriginal ==
  clean => \A w \in Worker :
    Running(w) /\ ip[w] = "hook" /\ code = "jump" => ptr = "tramp"

(* Every thread that mhook suspended is resumed.                           *)
SuspendedIsResumed == \A w \in Worker : w \in held ~> w \notin held

(* What the comment at the call promises, without any condition: no other  *)
(* thread's instruction pointer is in the code about to be overwritten,    *)
(* and none can get there (mhook.cpp 680-681).                             *)
NobodyInTheWay ==
  pc = "patching" => \A w \in Worker : Alive(w) => ~Running(w) /\ ~InRange(w)
==========================================================================
