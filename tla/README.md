# WinMiniTools: a verification project

TLA+ models of the programs in this repository, TLC runs that check them on
small instances, and TLAPS proofs of what matters most. All paths are relative
to the repository's root; `mhook.cpp` is
`src/mhook_demo/mhook-lib/mhook.cpp`, `LocalAreaNetworkScan.cpp` is
`src/LocalAreaNetworkScan/LocalAreaNetworkScan.cpp`.

## 1. The system

The repository is a collection of small Windows tools. One of them carries real
logic, a library for hooking functions at run time, and one is concurrent, an
ARP scanner. The rest are short sequential programs, but for the disassembler the library uses,
which is the largest part of the code.

| Component | State it keeps | Operations | What is hard | What makes it correct |
|---|---|---|---|---|
| **mhook, hooking service** (`mhook.cpp` 135-141, 167-228, 274-368, 665-813) | the lock `g_cs` and its flag, the table `g_pHooks` and its count, trampoline blocks, code bytes, the caller's function pointer | `Mhook_SetHook`, `Mhook_Unhook` | several callers; every system call can fail half way; hooks on hooks; removal in any order; first use | a hook stays in place until removed, the original stays reachable, unhooking restores the bytes, table, memory and answers agree |
| **mhook, suspension** (376-528) | `g_hThreadHandles`, suspend counts of all threads | `SuspendOtherThreads`, `SuspendOneThread`, `ResumeOtherThreads` | threads that run, start and end meanwhile; threads already suspended; retries; the heap's lock | nobody executes bytes being overwritten; suspend counts balance; no deadlock; everybody is resumed |
| **mhook, placement** (237-331, 533-662, 697-737) | limits from rip-relative operands, the search position, the block | `DisassembleAndSkip`, `TrampolineAlloc`, `EmitJump`, `FixupIPRelativeAddressing` | edges of 2 GB windows and of the address space, rounding, truncation to 32 bits | jumps reach, fit their space, and moved operands keep their targets where the code knows their place |
| **disasm-lib** (`src/mhook_demo/disasm-lib`) | `INSTRUCTION`: prefixes, sizes, opcode row, length, operands | `X86_GetInstruction`, `SetOperands`, `SetModRM16/32`, `SetSIB` | prefixes that change meaning with the opcode, tables within tables, operands whose size depends on both, immediates behind rip-relative operands | the length is the processor's, relative operands count from the end, illegal forms are refused, assertions hold |
| **mhook_demo_dll** (`dllmain.cpp`, `mhook_demo_dll.cpp`) | `bHooked`, two function pointers | attach, CBT callback, detach, two hooks | callbacks on several threads, detach while a hook runs, ignored results | functions are hooked once, by the attaching thread; a crash after unmapping has a known cause |
| **mhook_demo** (`mhook_demo.cpp`) | the CBT hook handle | `SetHook` | order of `SetWindowsHookEx` and `FreeLibrary` | the DLL stays loaded while it is needed |
| **LocalAreaNetworkScan** | the device list, adapter and capture handles, `g_bFlag` | `main`, `GetSelfAddr`, `get_mac_from_pcap_dev_name`, thread `SendArpPacket` | two threads and the network, a grace period against a read timeout | answers that come early are printed, the handle outlives the thread, the program ends |
| **RTCP_Parser** | an offset | `parse_udp_packet` | lengths from the packet | a well-formed packet is read to its end and no further, the loop ends |
| **DealAllWindows** | a window handle, a counter | three window walks, `GetProcessName` | the list and its order change during the walk | every window that stays is noted once, as far as the walk allows it |
| **GetOriginalFileName** | version data | `DosPathToNtPath`, `CFileVersion` | device names that begin alike, protocol of the class | the device's own drive unless an earlier one shadows it, everything closed but what the code never closes |
| **IpForwardTool** | a table in memory | two-call protocol | the table grows between the calls | the buffer is large enough and freed once |
| pcap headers and libraries | | | vendored | |

How they interact: `mhook_demo` loads `mhook_demo_dll` and installs it in every
process with a GUI; the DLL calls mhook from `DllMain` and from the CBT callback;
mhook calls disasm-lib for the instructions at a function's entry, and its parts
share the function's bytes: placement decides where the trampoline is,
suspension keeps other threads away, the hooking service writes. The scanner's
two threads share the capture handle, `g_bFlag` and `main`'s locals.

## 2. Modules

| Module | Models | Kind |
|---|---|---|
| `CodeSpace` | code of a process: routines, import thunks, trampoline buffers, `SkipJumps` | operators, extended by the next two |
| `CodeSpaceProofs` | what `SkipJumps` computes and when it ends | proofs, extended by the next two `...Proofs` |
| `HookApi` | what `Mhook_SetHook` and `Mhook_Unhook` promise, as single steps | abstract specification |
| `HookApiProofs` | theorems about `HookApi` | proofs |
| `Mhook` | the same two functions statement group by statement group, on several threads | detailed specification, refines `HookApi` |
| `MhookProofs` | theorems about `Mhook`, and that it implements `HookApi` | proofs |
| `Suspend` | the time between `SuspendOtherThreads` and `ResumeOtherThreads` | detailed specification |
| `JumpReach` | addresses and distances of one hook | detailed specification |
| `PatchProofs` | theorems about `Suspend` and `JumpReach` | proofs |
| `LanScan` | the ARP scan from the creation of its thread on | detailed specification |
| `LanScanProofs` | theorems about `LanScan` | proofs |
| `X86Tables` | the opcode tables of disasm-lib | operators |
| `X86Decode` | `X86_GetInstruction` | detailed specification, one action per stage |
| `X86Reference` | the length and kind of an instruction without the tables | reference definitions |
| `X86DecodeProofs` | theorems about `X86Decode` and its tables | proofs |
| `HookDll` | the hook DLL in one process, on top of `HookApi` | composition, extends `HookApi` |
| `HookDllProofs` | theorems about `HookDll` | proofs, extend those of `HookApi` |
| `RtcpWalk`, `WindowWalk`, `FileNames`, `RouteTable`, `ScanSetup` | one sequential tool each; `ScanSetup` is the scan before `LanScan` | detailed specifications |
| `Tools` | any one of the five with its surroundings | composition |
| `ToolsProofs` | theorems about the five | proofs |
| `MC...` | the instances that TLC checks | |

Definitions marked `slip` are deliberately wrong variants of the definition
they precede, none of them is used by a specification. They stand for plausible
programming errors, and each property has one that TLC finds when it replaces
the right definition: the property does depend on the code.

### CodeSpace, HookApi
A location is a routine's entry (`Fn`) or one of a block's two code buffers
(`Entry` for `codeTrampoline`, `Stub` for `codeJumpToHookFunction`). Its content
is a jump, the first instructions of some routine (`Body`), or nothing yet.
That is the abstraction of code bytes: whether they are a jump, to where, and
whose they are otherwise. `Short` are the routines that `DisassembleAndSkip`
refuses, `Region` says which pairs are out of reach of a 5-byte jump.
`SkipJumps` is recursive in the code without a limit. In the model it makes at
most as many hops as there are locations, a recursive function of the hops left;
`Lands` is false where jumps form a cycle, and calls do not return then.

`HookApi.SetHook` and `Unhook` are whole calls. A call that returns FALSE
changes nothing and is a stuttering step. `leaked` are blocks that
`TrampolineFree` leaves mapped on purpose (357-361).

### Mhook
`pc[c]` is where caller `c` is; `frame[c]` are its arguments and locals:
`sys` is `pSystemFunction`, `blk` is `pTrampoline`, `ret` the answer.
`EnterCritSec` is four steps (`CheckInit`, `InitCs`, `ZeroHooks`, `SetFlag`)
and `Lock`, because its check is not synchronised. `Resolve` is `SkipJumps` and
the test of the length, `Alloc`/`AllocFails` are `TrampolineAlloc`, `Protect`
the two `VirtualProtect` calls, `Build` and `Patch` the writing, `Publish`
the pointer or the clean-up, `Lookup` ... `Free` are `Mhook_Unhook`.
Each system call that can fail may fail.

Refinement: `ImplementsHookApi` is `HookApi!Spec` under a mapping in which
`SetHook` happens when the jump is written and `Unhook` when the bytes are put
back. The pointer moves later in the code, but under the lock; `abstractPtr`
looks ahead for the one caller that is between the two. `abstractCode` leaves out
what was written to a block that nothing leads to yet, `abstractTramp` are the
trampolines registered, completed and not being removed (`installed`), and
`abstractLeaked` the other completed ones.

### Suspend
One thread hooks and unhooks one function over and over; the other threads are
the adversary. `ip[w]` is the place of a thread: outside, at the function's
first byte (`entry`), further inside the bytes overwritten (`mid`), in the hook,
or in the trampoline. Overwriting is two steps, between which the bytes are
`torn`. `app[w]` counts what the application itself suspended, so a thread
can stand at `mid` and not move, the case in which `SuspendOneThread` gives up.
`heap` is the C run-time heap's lock. `clean` is a history variable: no system
call failed, no thread appeared during a call, none was given up. Properties
that the code promises only then have it as a condition.

Every call may fail but `ResumeThread`. `SuspendOneThread` drops the answer of the second
`SuspendThread`, after the retry's `Sleep` (399): `Resuspend` lets it fail on a living thread, so that a running thread is looked at, whose context says nothing (`SeenIn`,
`SeenOut`); kept or given up, the thread is then resumed once more than it was
suspended. `missed[w]` counts that.

Thread priorities are left out. `Sleep(100)` is any stretch of time.

### JumpReach
Addresses are numbers. The four distances of the code are expressed in the
allocation granularity `Gran` = 64K and `Half` = 0x80000000, and the proofs hold
for all values with `Gran >= 64`, `Half >= 16*Gran`, `Top >= 2*Half`; TLC
uses `Gran = 128`, `Page = 8`, `Half = 16*Gran`, `Top = 5*Half`. `Plain` and `Rip` choose
the next instruction (any length up to 15; a rip-relative `mov`/`lea` has at
least 7 bytes, so a five-byte prefix holds at most one and `MHOOKS_MAX_RIPS`
is never reached). A rip-relative one also has a place for its displacement
(`RipForms`): behind three bytes, or behind more with a prefix before REX or an
opcode of two bytes. `Rip` records in `rips` what the code records, always the place
behind three bytes (`OperandAt`, line 644), and in the history `operands` what is
really there; `Emit` writes where the code writes. `Take` is a successful `VirtualAlloc`; `Skip` goes on.
Operands name addresses inside the address space, above the first granule,
which Windows never maps.

### LanScan
One tick is the 1000 ms read timeout of the handle (`pcap_open_live`, 304), so
`Grace` is 3. Captured packets wait in `driver` until a timeout hands them to
`queue`, which is how WinPcap delivers small amounts of packets. `delay[d]`,
any number of ticks up to `MaxDelay`, is how long a device takes; `due[d]` counts
it down from the request on. Time passes only when
`main` waits for packets and the sender sleeps or has ended: computing takes no
time compared to a second. `Failures` says which calls may fail;
`CreateThread`'s result is not looked at by the code and not here.

### X86Tables, X86Decode, X86Reference
One behaviour of `X86Decode` decodes one instruction. The bytes are not there
beforehand: an action that looks at a byte takes any byte of a set, so a run
covers all combinations of its sets. `stage` follows `X86_GetInstruction`:
`Prefix`, `MisplacedRex` and `Rex` are the prefix loop; `ReadOpcode`, `ReadSecond` and
`PeekModRM` fetch; `SelectRow`, `SelectSSE`, `SelectModRM`, `SelectFPU`,
`SelectSuffix` and `SelectExt64` are the ways the code picks a row of its tables;
`CheckPrefixes` is the checking of prefixes against the row; `SetOperands`
measures; `Finish` is the lock test, the maximal length and the assertions of
the last part. `ins` is `INSTRUCTION` as far as these read it.

`X86Tables` has every row of the tables, with the addressing modes of its
operands and their sizes as far as a size makes a difference, the type where a
later stage looks at it, and whether the first operand is written. Rows that are
alike in all that are written as one set of bytes. The pieces of a table are put
together by `++` (`Merged`), which says of each entry what it is, as a proof about the
entries needs it.

`X86Reference` says from the manuals' rules what the length must be, with no
reference to the tables: which opcodes have a ModRM byte, how long the immediate
is. Comparing the two finds wrong rows and wrong reckoning alike.

### HookDll
`at[t]` is where a thread is: idle, updating `bHooked`, in `HookApi`, at one of its
calls of mhook, storing the answer, or inside `GefStartDocA/W` (the module's own state
machine is `DllInit`, `DllNext`, `DllSpec`). The calls of mhook are `SetHook` and `Unhook`
of `HookApi`, or failures that change nothing. `Load`
maps the DLL with fresh data and runs `DLL_PROCESS_ATTACH`; `Detach`, `UnsetNext`
and `Unmap` are the way out; `StartDoc` is an application that prints, which runs
whatever the code bytes now lead to. A jump into an unmapped DLL, or a return into it,
sets `crashed`.
Assumed of Windows, in one place (`Unoccupied`): the loader lock, and that a
callback under way keeps the DLL mapped; a thread inside a hook function does not.

### The tools
`RtcpWalk` chooses the header at an offset when the loop arrives there, out of
what can lie there: data inside the packet, zeros behind it, anything behind the
buffer. `WindowWalk` has the windows in their z-order, which other programs change between
any two steps: they open windows at any place, close them, and move them to the top, to the bottom or
anywhere between (`SetWindowPos`, which is also what raising and minimising does to the
order); `EnumWindows` works on a list made at its beginning. `FileNames` is
the loop over the processes with `OpenProcess`, the drive search and
`CFileVersion`; device names are sequences of characters, because the code compares
prefixes, and an image may lie on a device without a drive letter (`Volumes`).
`RouteTable` has both tools with a route table that changes between the
calls. `FreeTable2` hands the system's table to `HeapFree`, which does not release it.
`ScanSetup` is `main` of the scan up to `CreateThread`, with the compiled filter, the
thread's handle and an adapter object without a file among what it holds. In each, a call into
Windows that can fail may fail. `Tools` runs one of them; its state variables are
those of all five, of which four stay as they are.

## 3. Runs

| Run | Instance | Shows |
|---|---|---|
| `hook_api` | functions `f`, `g`, thunk `t` to `f`, `s` too short; hooks near and far; four pointers, 4 blocks, `MaxHooks` 3 | `HookInPlace`, `OneTrampolinePerFunction`, `Conservation`, `OriginalReachable`, `HookedExactly`, `NoJumpCycle` |
| `mhook` | two callers, `f` reached directly and through a thunk, a near and a far hook, a function too short, 3 blocks, `MaxHooks` 2 | `MutualExclusion`, `SlotAccounting`, `NothingHalfDone`, `NothingFreedIsReachable`, `AnswerIsTrue`, `LockIsReleased`, `ImplementsHookApi` |
| `mhook_first_use` | the same, with first calls that may overlap | `MutualExclusion` is violated |
| `suspend` | three threads: one ordinary, one suspended by the application, one created late; all calls but `ResumeThread` may fail; `MaxTries` 1, `MaxMisses` 1 for the suspended thread | `SuspendBalance`, `QuietWhilePatching`, `NoCrashWhenClean`, `HookFindsOriginal`, `SuspendedIsResumed` |
| `suspend_ignored` | two ordinary threads, only `malloc` may fail | `NobodyInTheWay` is violated |
| `jump_reach` | 7 functions at the edges of the address space and of a window, 9 hooks around the near limit, 6 operand targets, 4 forms of rip-relative instructions, 27 memory regions | `JumpBackFits`, `StubInReach`, `SameTargets`, `DirectJumpFits` |
| `jump_gap` | the same | `EntryJumpIsShort` is violated |
| `lan_scan` | subnets of 1, 2, 4 and 8 addresses, two devices, a stranger, failing sends and thread creation | `EarlyAnswersPrinted`, `OnlyAnswersPrinted`, `ThreadOutlivedByMain`, `Terminates` |
| `lan_all_hosts` | the same without failures | `AllHostsAsked` is violated |
| `x86_decode` | 32-bit and 64-bit code; all 256 first and second opcode bytes; nine prefixes; every addressing form, every `reg`; four SIB bytes | `LengthIsReference`, `RelativeToEnd`, `LockOnlyWhereLegal`, `SseTakesItsPrefix`, `AssertionsHold` |
| `hook_dll` | three threads, `StartDocA` near and `StartDocW` far, the DLL mapped up to twice | `CallbacksNeverHook`, `BlockedWhileHooked`, `CrashCause` |
| `tools` | a 48-byte receive buffer, three windows and changes, four drives in two pairs that begin alike and two devices without a drive, up to three routes, five device lists | `OverreadsOnlyMalformed`, `StayingVisitedOnce`, `OwnDriveUnlessShadowed`, `TableFitsOrGrew`, `EverythingReleased`, `ToolsEnd` |

What some of the properties say: `LengthIsReference`, an accepted instruction is as long as
the processor takes it; `RelativeToEnd`, it is known to be relative exactly when it is and
counts from its end; `SseTakesItsPrefix`, an SSE instruction accepted without an
anomaly has just the prefix that selected it; `CallbacksNeverHook`, only the attaching
thread is ever in the hooking part, so the unprotected `bHooked` does no harm;
`CrashCause`, a crash means that an `Unhook` failed or that a thread was inside a hook
when the DLL went; `SuspendBalance`, a thread's suspend count is what the application asked for
and one more exactly while mhook has it, less at most one for each second `SuspendThread`
that failed; `SameTargets`, of the moved rip-relative operands exactly those behind three bytes of
their instruction keep their targets, and no other instruction is touched;
`StayingVisitedOnce`, a window present during a whole round is noted exactly once, by the sibling walk
provided that the window in hand is not closed and no other window passes it, up or down;
`OwnDriveUnlessShadowed`, if no call failed an image gets a path on the first drive whose device is its own
or the beginning of its own, so on its own one unless an earlier one comes in between, and keeps
its device name only if there is none;
`EverythingReleased` gives, for each tool and each of its ends, exactly the handles and blocks
of the model that are left over.

**Bounds.** Blocks are never reused once hooked, so their number bounds the
successful `SetHook` calls of a behaviour; in `hook_api` that allows a hook on
a hook with both removed in either order and a third function hooked meanwhile,
in `mhook` a full table and a hook after an unhook. `MaxHooks` is 64 in the
code; the table's logic does not depend on it and 2 or 3 are reached. `MaxTries`
is 3 in the code; 1 gives both a retry and giving up. `MaxMisses` lets the second
`SuspendThread` fail once, and only on the thread that the application suspended, for
it is the one that loses a suspension by it; the proof has any number on any thread. In `jump_reach` the
functions, hooks and targets lie on either side of every comparison. In `lan_scan`
`MaxDelay` 3 is longer than what the grace period covers, the last device sits at
the last address asked. `MaxChatter` and `MaxErrors` are 1: one is enough to get between
any two other events. In `x86_decode` every opcode occurs behind no more than one
prefix, one opcode of every kind behind two, a few behind three, and each prefix
repeated up to the limit of 15 (`Scope`); prefixes interact in pairs only (66 with REX.w, 66
with F2 or F3, one repeated), and three are needed to have one removed from between two
others. `reg` other than 0 is looked at with two addressing forms and not with
all, because the code does not relate the two. In `hook_dll` four blocks are two mappings' worth,
`MaxLoads` 2 shows what the first mapping leaves behind, and three threads are one
that detaches, one in a hook and one that prints. In `tools` three windows are one in hand, one that goes
and one that stays; in each pair of drives one device's name is the beginning of the other's, once on the
earlier drive and once on the later, and of the two devices without a drive one begins like the
first drive and one like none; the lengths include 0,
one too short, one right, and one far too long for the packet.

**Deadlock** is checked in `mhook` and `suspend`, where a stuck state would be
an error. It is off in `hook_api` (blocks run out), `jump_reach`, `lan_scan`,
`x86_decode` and `tools` (the procedure ends) and in `hook_dll` (a crashed process or one that has used up its
mappings and blocks may stop).

**Fairness.** `Mhook`: weak fairness of each caller's work; a thread that holds
a critical section is scheduled, and callers need not call. `Suspend`: weak
fairness of the patching thread only; nothing is asked of the others, and a
thread that keeps the heap's lock for ever may block a later call at
`malloc`, where it holds nobody suspended. `LanScan`: the two threads and time
go on; nothing is assumed about other hosts. `Tools`: weak fairness of the tool's
own steps, a program that is given the processor; other programs owe nothing, and how
often they change something is bounded.

**Assumptions.** `SerialFirstUse` in the run `mhook`: the first call ever
returns before another is made. `PtrsOf` gives callers pointer variables of
their own (`OwnPtrs`): the code reads `*ppSystemFunction` before it takes the lock
(667). Where two threads share the variable, TLC finds a behaviour of `Mhook` that is
none of `HookApi`: the second thread's value is stale, its jumps lead to the hook that
the first thread has just installed, the hook's code is made to jump to itself, and
`SkipJumps` hangs on it. The five safety invariants hold there too. Different pointers get different
hooks: the same hook routine installed through two pointers to one function would
make the hook's code jump to itself. `Loads` and `OwnHooks` of `HookApi` say that for a
pointer that stands alone, and the instance of `hook_api` meets both.
`OriginalReachable` and `HookedExactly` are stated for a pointer that is alone
on its function: with two, the one hooked second is given the first one's hook
when it is unhooked last.

### Disagreements between comments and code
- `mhook_first_use`: "ensure thread-safety" (`mhook.cpp` 668). The flag is set
  after the lock was initialised, so two first callers both initialise it, the
  second while the first is inside, and clear the table.
- `suspend_ignored`: "suspend every other thread in this process, and make sure
  their IP is not in the code" (680-681). The answer of `SuspendOtherThreads` is
  not looked at.
- `jump_gap`: "the jump will be at most 5 bytes" (733). `EmitJump` measures from
  the end of the jump; a hook below the function in the last five bytes of the
  near distance gets the long jump, 14 bytes.
- `lan_all_hosts`: requests go to all possible addresses (`LocalAreaNetworkScan.cpp`
  177). The loop starts at the network address and stops one host early.


### Further observations
Met while modelling; the models do what the code does, and properties that would not hold
otherwise name the exception.

disasm-lib:
- The fences (`0F AE /5` to `/7`) are measured one byte short: their rows have no operands,
  and only the ModRM and FPU extensions count the ModRM byte then (1543, 1571).
- 3DNow instructions have their operands set twice (1592, 1828), so the bytes are
  counted twice, and one with a memory operand fails the assertion `!HasSrcAddressing`.
- An SSE opcode removes the first prefix and not the one that selected it (1333-1339; the
  comment at 1331 says that one). `64 66 0F 6F` is refused as a consequence.
- SSE rows are looked for only where the 66 table has a row (1325): `F3 0F 52` and
  `F3 0F 53` are refused. SSE rows under opcodes without an unprefixed one (`0F 6C`, `6D`,
  `7C`, `7D`, `D0`, `D6`, `E6`, `F0`) are never reached.
- `lock bts`, `btr` and `btc` with a register are refused, though the comment at
  `disasm_x86_tables.h` 3452-3455 lists them; `lock bt` (`0F BA /4`) is accepted.
- `X86_Invalid_Addr64_1/2` are asked when the address size is 8, so behind 67
  opcodes that 64-bit code does not have are accepted; a second REX prefix is
  decoded as `inc`/`dec`.
- The assertions are live in release builds too, for line 2 undefines `NDEBUG`: where one fails it stops
  the program that hooks. Those at 2216 and 2313 fail for a call through a table without base
  register at scale 1 and for `fxsave`, `fsave`, `fldenv` and the like relative to one register.
  The loops at 2315 and 2325 reuse the outer loop's `i`.
- 66 is refused before `fstenv`, which line 1668 means to allow (its type is another).
- The `nop` of two bytes, `0F 1F`, is refused, so a function that begins with it cannot be hooked.

mhook:
- The new displacement of a rip-relative operand is written behind the third byte of its instruction,
  whatever the instruction (`mhook.cpp` 644, 544). A `mov` or `lea` with a prefix before REX, or a
  `movzx`/`movsx`, has it further on: the code overwrites other bytes, and the moved instruction
  does something else. The comment at 531-532, that the offset is fixed to point to the original
  location, does not hold then; `SameTargets` says for which operands it does.
- When the second `SuspendThread` fails (399) nobody notices: the thread runs on, its context is
  read all the same, and the later `ResumeThread` takes back a suspension of the application's, if there was one.
- A failing `GetThreadContext` (387) keeps a thread suspended without knowing where it stands.

Tools:
- `IpForwardTool` gives up if the table grew between its two calls (53).
  `IpForwardTool2` loses its first block, hands the system's table to `HeapFree` (228), which
  is not where it is from (`FreeMibTable` would release it), and prints
  the age where it says origin (203).
- `Source.cpp` never closes its snapshot and opens an empty path against the assertion in
  `CFileVersion::Open` (in debug builds); `DosPathToNtPath` returns FALSE though it has filled the path.
  Device names are compared as beginnings (38): with `HarddiskVolume1` an earlier drive,
  an image on `HarddiskVolume10` gets a path on the wrong drive.
- The sibling walk of `GetWindow` (25-30) notes windows twice or skips them when the one in hand is
  lowered or minimised or another is raised or lowered past it, and ends early when it is closed.
- `RTCP_Parser` never closes its file.
- `GetProcessName` never compares the first process of the snapshot.
- The scan frees its list of devices only when the number typed is wrong. It never gives the filter
  that `pcap_compile` allocates (316) to `pcap_freecode`, never closes the handle that `CreateThread`
  returns (345), and does not close an adapter object that came without a file (115).
- `mhook_demo`'s `SetHook` keeps no handle of the CBT hook, so it is never removed by hand.

## 4. Proofs

Every safety invariant that a run checks is proved for all values of the
constants; so is the refinement. Each proof module
has an invariant `Inv` that is inductive: a lemma per action shows that the action keeps
it, `Invariance` draws `Spec => []Inv`, and the theorems that a reader looks
for follow from `Inv`. Assumptions are the modules' named `ASSUME`s; whatever else a
theorem relies on is in its statement.

### CodeSpaceProofs
`SkipJumps` is a recursive function, so nothing is known of it until it is shown that
there is a function that satisfies its equation. `RoundsExist` and `RoundsAgree` show
that for every number of hops, `HopsExist` puts the hops together and `SkipJumpsRounds`
draws the equation. The inductions are arguments about the least element of a set of
numbers (`LeastNumber`, `Induction`), which the library's well-founded `<` gives. What
the other proofs use: `SkipJumpsStays`, a set closed under jumps is not left;
`SkipJumpsAgree`, only the bytes met on the way matter; `AcyclicLands` and `LandsAcyclic`,
the recursion ends from every location exactly if no set of locations jumps into itself
for ever. Routines and blocks are finite sets.

### HookApiProofs
Without further assumptions, for any routines, blocks, pointers, hooks and limit:
`TypeCorrect`, `HooksStayInPlace` (`HookInPlace` and `OneTrampolinePerFunction`) and
`RoutinesAreRestored` (`Conservation`). None of these is inductive. Unhooking puts back
the bytes a trampoline saved, so one has to know that they are those of the function
(`SavedOK`); hooking must not overwrite a stub or a function that another trampoline
relies on, so stubs in use hold jumps (`StubsJump`), and `SkipJumps` cannot end on them;
a new block must be one nobody refers to (`FreshBlank`); and patched locations are
routines or entries (`SysKnown`).

`OriginalIsReachable` and `CallsAreHooked` are about what the jumps compute. `Stack`
says that the hooks put on through one pointer are a stack: a pointer is a routine or the
trampoline put on last, on which no other is built, and what is on the stack
has no ring (`NoRing`) and carries the function's bytes unchanged to its top (`SameBytes`,
`TopClean`). `Apart(p)` says that a pointer that stands alone has this stack to itself:
its trampolines are those on its function or on one another, its hooks are patched by
nobody, and every other jump and pointer leads away from them (`OthersAway`). Then a call
through the pointer meets the copy on top of the stack, everybody else's meets the jump at
the bottom. Hypotheses: `Loads`, the loader's own jumps come to an end; `OwnHooks`, the
hooks of such a pointer are no thunks, no target of a pointer and used through no other.
`JumpsComeToAnEnd` (`NoJumpCycle`) assumes besides that every pointer stands alone
(`AllAlone`, true of the hook DLL). In the run `hook_api` two pointers share a function
and TLC finds no cycle either; there a hook may itself be hooked, and the proof does not
cover that.

### MhookProofs
The invariant has three layers. `FirstUse`: until the flag is set there is one
caller, nothing is registered and nobody holds the lock; this is where the hypothesis
`SerialFirstUse` is needed, and without it `MutualExclusion` fails (`mhook_first_use`).
`Good` locations: a routine, or a buffer of a block that was completed and is not
blank; pointers, jumps and saved functions are good (`PtrsGood`, `JumpsGood`, `UsedGood`).
Stages: what each place of the two functions relies on (`SetHookStage`, `UnhookStage`),
which holds because all others are outside the lock (`OnlyBusy`). With them come the five
invariants of the run: `LockExcludes`, `TableIsAccounted`, `FailureLeavesNothing`,
`NoDanglingCode` and `AnswersAreTrue`. Threads may share pointer variables here.

`ImplementsService` proves `ImplementsHookApi`, for callers that do not share a variable
(`OwnPtrs`). A call knows things that it found some steps ago: its pointer was read ahead
of the lock, the jumps were followed before the block was allocated, and the abstract
`SetHook` does all that at once. `Knows(c)` says that what was found is still so; it lasts
because good locations keep their bytes while a block is being prepared (`GoodAgree`,
`KnowledgeLasts`). `PatchRefines` then is the abstract `SetHook` (there is room for it, since
the block is registered already, `RoomForOne`), `RestoreRefines` the abstract `Unhook`, and
all other steps change nothing that shows (`LookingIsQuiet`, `PreparingIsQuiet`,
`PublishIsQuiet`, `GiveBackIsQuiet`).

`ServiceIsDelivered` joins the two levels: under the hypotheses of both, whenever no
thread is at work in mhook, a pointer that stands alone calls the original function, and
everybody else's calls run one of its hooks exactly while it leads to a registered
trampoline, in the concrete code with its failures and its threads. `Service` is an
`INSTANCE` of `HookApiProofs` under the refinement mapping, through which
`OriginalIsReachable` and `CallsAreHooked` are carried over.

### PatchProofs
What `Mhook_SetHook` relies on while it overwrites a function, in two parts.

*Suspension.* For any threads, tries and failures, with no hypothesis: `SuspendCountsBalance`,
`OthersStandStill`, `NobodyCrashes` and `HookReachesOriginal`. The invariant `Inv` has the
balance between its two bounds, with the thread in hand counted, also for threads that are
still to come (`Balance`, `ToCome`), that nothing was missed while nothing went wrong (`NoMiss`),
who is covered by the walk at each of its
steps (`Walk`, `Covered`), what the bytes are at each place (`Text`), and, while nothing
went wrong, that nobody held stands in the range (`HeldOut`) and nobody is inside it once it
is overwritten (`NobodyBehind`).

*Reach.* For all addresses, maps and scales: `TheJumpBackFits`, `TheStubIsInReach`,
`OperandsKeepTargets` and `TheDirectJumpFits`. `ReachInv` says that the limits cover every
recorded operand, that there is at most one and where it is recorded (`OneOperand`),
that the search never leaves its window and that a block lies in it up
to one granule. The lemma `BlockIsNear` draws the arithmetic from that: every distance
between block and function stays within the near distance, also after an operand's own
displacement, because the window is narrower than 2 GB by 64K below and 512K above.
Assumed: the structure fits a granule, functions and targets lie in the address space
above the first granule, instructions are 1 to 15 bytes, and a displacement lies inside its
instruction behind at least three of them.

### X86DecodeProofs
For whatever bytes come, with any number of prefixes, in 32-bit and 64-bit code:
`LengthsAreRight`, `RelativeOnesAreKnown`, `LocksAreLegal`, `SsePrefixesAgree` and
`AssertionsFailOnlyThere`. The constants of `X86Decode` are sets of bytes that an instance
may choose, and all that is assumed of them is that they are.

*The tables.* `TablesFit`: every row of the one-byte, two-byte, FPU, SSE and 3DNow tables
suits its opcode (`Fits`, `SseFits`). `Suits` is what a row has to be like: an operand told of by
a ModRM byte exactly where the reference has one, the bytes of its own operands those the
reference wants for every size of operands and addresses (`Placed`), at most one operand in memory and
behind it only immediates (`Shape`), and the types that later stages ask for where they may be
(`Typed`). A table is proved row by row. What operands are like is said once for each kind
(`Operands_...`) and what an opcode wants as a set of opcodes (`Class`, `GroupClass`), so that one
lemma (`RowsFit` and its like) joins the two; `BothFit` puts the pieces together.

*The stages.* `Inv` says at each stage what has been read and counted: the opcode bytes and where
they are (`OpcodeInv`), the bytes that are there only when they are asked for (`HeadInv`, `ReadInv`), the
sizes that prefixes and REX make (`PrefixInv`), a row that suits the opcode (`RowInv`, which is where
`TablesFit` comes in), the same again after the prefixes are checked (`CheckInv`), the prefix
that an SSE row took (`SseInv`), the length and the end that displacements count from (`LengthInv`), and
what is noted of an operand in memory (`MemoryInv`). None of the five properties is inductive:
they speak of an accepted instruction, and whether they hold there is decided some stages before.
One lemma for each action (`PrefixStep` ... `FinishStep`) shows that it keeps `Inv`; `AllBytesIs` and
`ReferenceIs` bring the two ways of counting to one form, `RelativeIs` does that for the end
of the instruction.

Two things came out of the proof. A fence with a memory operand of displacement only (`0F AE 3D`)
is measured one byte short, so that what is relative there does not count from the end:
`RelativeToEnd` held in the run only because no such byte was among its ModRM bytes. The
property now excepts fences by name, as `LengthIsReference` does, and the run has the byte. And
`LengthIsReference` excepted opcodes that 64-bit code does not have; the proof showed that
they are measured as in 32-bit code, and the exception is gone.

### LanScanProofs
For every subnet, set of devices, delay and grace period: `OnlyAnswersArePrinted`,
`HandleOutlivesThread` and `EarlyAnswersArePrinted`. The last needs, for a device that
answers early, a place for its answer at every moment (`InTime`): not due yet with enough ticks
left, in the driver with one read timeout left, in the queue, or printed. That time stands
still while requests are sent (`DueWhileSending`) makes the ticks count from the end of sending.

### HookDllProofs
`CallbacksFindItHooked` has no hypothesis: once `DllMain` is through, a mapped DLL
that is not excluded has `bHooked` set (`Attached`), so that callbacks, on however many
threads, find nothing to do (`Ctl`). `PrintingIsBlocked` and `CrashesHaveACause` build
on the proofs of `HookApi`, under the same hypotheses `Loads`, `OwnHooks` and `AllAlone`, which the run's
instance meets: while no `Unhook` has failed, the hooked functions are those `DllMain` has come to in its
order, and only while the DLL is mapped (`HookedWhere`, `Progress`, `Clean`).

### ToolsProofs
For packets, window lists, devices and tables of any size: `OnlyMalformedIsOverread`,
`StayingWindowIsVisitedOnce`, `OwnDriveIsFound`, `TableFits` and `ToolsRelease`. For the
handles the invariant has exactly what is held at every step (`HeldAt`, `BlocksAt`, `KeptAt`), for the
drives that none before the one in hand matched (`NoneOf`, `Found`); a device name with the separator
behind it begins with another just if that one is its own or shorter, as no name ends in a separator. For the
windows it has that the list has no window twice, that `EnumWindows` has the unnoted ones still listed
(`Listing`), and that in the sibling walk those above the one in hand are noted and those below are not
(`Walking`). A change of the order keeps that if nothing passes the window in hand
(`SidesKept`); what removing and inserting do to a sequence and to who is above whom are lemmas
(`RemoveFacts`, `InsertFacts`, `AboveFacts`).

### Only model-checked
- liveness under fairness, which is out of the prover's reach: `LockIsReleased`,
  `SuspendedIsResumed`, `Terminates`, `ToolsEnd`;
- `NoJumpCycle` where pointers share a function.

## 5. Not modelled, and the plan

Planned proofs:
1. `NoJumpCycle` without `AllAlone`: a rank of the hooks that are on each other.
2. Type correctness of the abstract state in `Mhook` from `ImplementsService`, and the
   limit `MaxHooks` on blocks in use.

Left out, and why:
- disasm-lib: 16-bit code (`ARCH_X86_16`, which mhook never asks for), the text of
  operands, what is noted about code and data references and the stack beyond its
  assertions, `disasm.c`'s wrappers, `cpu.c` and `misc.c` (descriptors and dumps);
- `mhook_demo`: window boilerplate, and `SetHook`'s calls in a row, of which
  `HookDll` has the effect on other processes;
- `LogWriteEx` and all formatting and printing;
- the vendored pcap headers and libraries: declarations only;
- the version numbers of `CFileVersion` (`FileVersion.cpp` 80-120) and `EnumChildWindowProc`,
  which the programs never call;
- in `Suspend`, thread priorities and a `ResumeThread` that fails on a living thread; in
  `LanScan`, a netmask of 0.0.0.0; in `RtcpWalk`, a file that cannot be opened.
