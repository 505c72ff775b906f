# RESim: models and proofs of reverse execution, system calls, contexts, fuzzing and data watches

RESim runs a whole target system under the Simics simulator and lets an analyst
go back in time: to the instruction that wrote a value, to the call that led
here, to a bookmark.  It debugs one program among all that the target runs,
traces its system calls, and fuzzes it with AFL.  Its Python modules live in
`src/simics/monitorCore`, run inside the simulator and are driven by it: almost
every method is a *hap* (callback) or an *event* handler, may not change the
simulation from where it is called, and so queues the rest of its work with
`SIM_run_alone`.  State is spread over Python attributes, which a restored
snapshot does not reset, the simulator's event queue, its breakpoints and haps,
and the snapshots.  That is where mistakes hide, and what these modules are
about.

## Inventory

| part | state it keeps | operations | hard behaviour | what makes it correct |
|---|---|---|---|---|
| reverse execution (`reverseMgr.py`) - *modelled in part* | origin, latest snapshot, recording flags, breakpoints and their haps, the span being scanned, pending events | enable and disable, skip to a cycle, reverse, reverse to a cycle, one back, set and delete breakpoints, the handlers of four event classes, stop and continuation haps | SIM_continue inside methods, stops by the user or another breakpoint at any cycle, events that restoring drops or keeps, work queued for later | snapshots on the span's grid; a skip lands; a reverse ends at the latest hit before it began; nothing stays armed; recording goes on |
| system call managers (`syscallManager.py`) - *in part* | instances per context, which parameter needs which call | watch, trace all, remove a parameter, rebuild an instance, remove all dmods | requests that overlap in part, Python lists held in several places, removals by name | every request is served, and only those; a parameter is in one Syscall of a context |
| system call tracing (`syscall.py`, `sharedSyscall.py`) - *in part* | per thread what is known of its call, per context and address who waits there, one shared hap each, pending execs | entry of a call, return from it, ask for a return, remove by thread, by name, or all | threads and Syscalls that share haps, requests that go while calls are under way, calls inside an exec | each return that is waited for is seen, and taken for the call it is of |
| task contexts (`genContextMgr.py`) - *in part* | watched and saved thread records, debug thread, cache, breakpoints on task records, contexts | watch, stop, restore, thread switch, clone, exec, exit, suspend, back to the origin | removal queued while the kernel switches threads and reuses records | the debug context is current exactly while a watched thread runs; no break waits for a thread that is not watched |
| back stop (`backStop.py`) - *in part* | one cycle event, a hang event, callbacks | set, delay, clear, hang limit | queued posting against a clear | a run ends at most the given cycles after its last event, and none ends by another run's event |
| fuzzing session (`afl.py`, `coverage.py`) - *in part* | status, trace bits, breakpoints of blocks, the input under way | start, inject, stop, report, restart, quit | stops of several kinds, queued work across the restored snapshot, AFL going away | one result per input, in order, with what was collected in that input's run |
| page faults (`pageFaultGen.py`) - *in part* | pending fault, pages that faulted, mode hap | fault, resolution, exit of kernel mode | a hap removed by queued work | an unresolved fault is a crash |
| run-to commands (`runTo.py`, `stopFunction.py`, `hapCleaner.py`) | haps to be deleted, functions to run when stopped | run to text, call, process | the stop of another cause | the haps set are deleted at the stop |
| skip and bookmarks (`skipToMgr.py`, `bookmarkMgr.py`, `disableAndRun.py`) | marks with cycles | set, go to | clients of reverse execution | a mark is the cycle it was set at |
| reverse to call, data origin (`reverseToCall.py`, `findKernelWrite.py`, `reverseTrack.py`) | what is being looked for | search steps chained by callbacks | each step a reverse of its own | the value's source is found or the search is given up |
| data watch and input marks (`dataWatch.py`, `watchMarks.py`) - *in part* | watched ranges, their haps, marks | watch, receive, copy, overwrite, free, map, retrack, go to a mark, modify memory, read and write haps | parallel lists of ranges and haps that are merged, split and cut; breakpoints set by queued work; the conclusions drawn from instructions and library calls | a hap watches its range, every range has one, what is received or copied is watched until it is written |
| shared objects, stack traces, dmods, monitor, replay drivers | tables, haps | many | decoding for four architectures and three systems | mostly data |
| fleet scripts, IDA and Ghidra plug-ins, target images, documents | | | | not program logic of the simulator side |

The parts meet in few places.  The monitor (`genMonitor.py`) creates them and
passes commands on.  The callers of reverse execution (bookmarks, reverse to
call, data origin) use it through its methods and a callback.  A request for
system calls goes to the manager, which makes or changes a `Syscall`; that one
asks the `SharedSyscall` for returns; execs, clones and exits it tells to the
context manager, which switches contexts at every thread switch and so decides
which breakpoints can trip at all.  A fuzzing session drives the coverage, the
back stop, the page faults and the exit callback of the context manager through
one run after the other.  All of them use the simulator through haps, events,
breakpoints, snapshots and the queue of `SIM_run_alone`.  `PROJECT.json` lists
every part with its status and, under `hazards`, the lines where this code is
hard to test.

## Modules

* `SpanRecorder` - the recording half of `ReverseMgr`: one operator per method
  (`setNextCycle`, `cycle_handler`, `setRecordingEndCycle`, ...), each a
  function from the recorder's fields and pending events to the new ones.
* `ReverseMgr` - the whole class: user commands, `skipToCycle`, the backward
  scan, haps, events, and the simulator that executes instructions.
* `SnapshotLog` - the abstract specification of the recorder: a log of recorded
  moments that grows at its far end, and time that moves by one instruction or
  to a moment of the log.
* `SyscallManager` - requests for system calls and the `Syscall` objects that
  serve them, with the Python lists that several objects hold.
* `SyscallExits` - what becomes of one watched call: its entry, the return that
  is waited for, the haps that threads share, and requests that go meanwhile.
* `TaskContexts` - which threads are watched and which context is current.
* `BackStop` - the back stop and the hang limit, one operator per method.
* `FuzzSession` - a session with AFL; composes `BackStop` (EXTENDS) with the
  coverage, the page faults, the exit callback, the queue, the clock and AFL.
* `FuzzRounds` - the abstract specification of a session: inputs and results
  take turns, and nothing is taken after a restart was announced.
* `DataWatch` - the ranges that data tracking watches, and their haps.
* `MCReverseMgr`, `MCSyscallManager`, `MCSyscallExits`, `MCTaskContexts`,
  `MCFuzzSession`, `MCDataWatch` with the `.cfg` files - small instances for TLC.
* `SpanRecorderProofs`, `ReverseMgrProofs`, `ReverseReportProofs`,
  `SyscallManagerProofs`, `FuzzSessionProofs`, `SyscallExitsProofs`,
  `TaskContextsProofs`, `DataWatchProofs` - theorems.

Each model takes its neighbours as they are used, not as they are modelled
elsewhere: `SyscallExits` has a Syscall as a name with calls, which
`SyscallManager` shows to be what is left of a request, and `TaskContexts` has
only those calls that tell it of clones, execs and exits.

### How ReverseMgr corresponds to the code

A cycle is a number; `Tick` executes the instruction at `cycles`, and an event
posted for cycle c runs before the instruction at c.  The events of the four
classes (`reverse cycle event`, `recording end cycle`, `span cycle`, `delta
cycle`) are sets of absolute cycles.  Methods that call `SIM_continue` are cut
at the call: `pc` names the `SIM_continue` that the simulator is in (`running`:
the user's; `toCycle`: `runToCycle`; `toReverse`: the run to the `reverse_to`
point; `scan`: the run over a span with breakpoint haps) or the code that runs
when it returns.  Everything between two calls is one action, with the work
that it queues for itself with `SIM_run_alone` where that work runs before the
next instruction; `stopHap`'s work is an action of its own (`assess`).

| code | model |
|---|---|
| `enableReverse`, `disableReverse`, `reverse`, `skipToCycle`, `revOne`, `skipToOrigin`, `SIM_breakpoint`, `SIM_delete_breakpoint` | actions of the same names, taken when the simulation is stopped |
| `skipToCycle` after its early returns, `runToCycle` | `SkipRestore`, then `RanToCycle`, `SkipReturn` or `skipAndCallback` |
| `skipBackAndRunForward` | `skipBackAndRunForward`, `AtReverseTo`, `ReverseToTooLate`, `ArmNothingToRun`, `ArmScan`; `BackStart` and `BackEnd` are the window |
| `breakCallback` | in `Tick`: the cycle of an instruction that trips a breakpoint with a hap is noted, one without a hap stops the simulation |
| `cycle_handler`, `recording_end_cycle_handler`, `delta_cycle_handler`, `span_end_cycle_handler` | actions, enabled at the cycle the event was posted for |
| a stop by the user or by a breakpoint | `Stopped`: where `SIM_continue` returns to |
| the list `break_haps` and the haps themselves | `break_haps` are the breakpoints with an entry in the list, `live_haps` those of them whose hap is live, `lost_haps` those with a live hap that `reset` dropped from the list; of several haps of one breakpoint in the list, which come and go together, only that there is one |

### How SyscallManager corresponds to the code

Every method of the manager is an operator from the manager's state to the new
one, of the method's name; an action is one call by a client, with all that it
does.  Lists are objects with a number (`call_lists`, `call_params`), because
the code hands lists on and later changes them: the list a parameter is
recorded with is often the very list `call_names` of its instance, the list of
parameters of a `Syscall` is its caller's, and the default value of
`watchAllSyscalls`' parameter is one list for ever (`DefaultParams`).  Objects
that nothing refers to vanish and the others are numbered anew, in the order in
which the dicts lead to them (`Collected`, `Numbered`); a `Syscall` with
breakpoints set stays, referred to or not.  Loops over a list that change the
manager (`AddBack`, `WatchInTurn`, `rmSyscallEverywhere`) are functions from the
number of passes to the manager, so that theorems can speak of each pass.

| code | model |
|---|---|
| `runTo` for one context or for all, and other callers of `watchSyscall` | `Watch`, `runTo`, `WatchInTurn` |
| `watchSyscall`: join a trace of all calls, make an instance, join one, or merge several | `watchSyscall`, `NewInstance`, `addCallParams`, `Consolidate` |
| `rmSyscall` (one context), `rmCallParam` and its results `LAST_PARAM`, `REMOVED_OK`, `REDO_SYSCALLS` | `Unwatch`, `rmSyscall`, `rmCallParam`, `Redo` |
| `stopTrackIO` with `rm_all` | `StopTrackIO` |
| the last operation of a dmod (`sharedSyscall.py`) | `DmodDone` |
| `runToSyscall` without a number | `runToSyscall`, `watchAllSyscalls` |
| `stopTrace`, `rmAllDmods` of the monitor | `StopTrace`, `RmAllDmods` |

`wanted` is not in the code: it is what clients asked for and did not take
back, and only properties read it.  `got__one` in `rmCallParam` (129) is
modelled as it is written: `got_one` is never true.

### How SyscallExits corresponds to the code

`shared` is the `SharedSyscall`; its methods are operators from it to the new
one, of the method's name.  `exit_info[t]` are the values of
`exit_info[tid]`, an ExitInfo being who asked, for which call, and whether a
parameter may match; `exit_tids[t][e]` is how often the thread stands in the
list of address `e` of its context; `exit_hap` is `none` where no hap was made.
`live` are the Syscalls whose haps are set, `in_call` is the target.

| code | model |
|---|---|
| `syscallHap` that returns early: pending exec, pending call, nobody watches | `CallIgnored` |
| `syscallHap`, `syscallParse`, `addExitHap` | `CallSeen`; what the parameters say is the choice `may_match` |
| the same for `runToCall`, with `rmSyscall`, `stopAlone`, `stopHap` | `CallStops` |
| `exitHap`, `handleExit`, `rmExitHap`, and `stopHap` if the simulation stops | `Return`, `exitHap`, `handleExit`; which ExitInfos match is a choice |
| `rmExitHap(None)` | `rmExitHaps` |
| `rmExitBySyscallName`, which compares the ends of names | `rmExitBySyscallName`; `EndsIn` are the calls whose names a Syscall's name ends, `ExitName` is what a return is kept under |
| `watchSyscall` with a new instance, or joining one; `setExits` of `runTo` | `watchSyscall`, `addCallParams`, `setExits` |
| `rmSyscall` and its rebuilding of an instance; `stopTrace` of a `Syscall` | `rmSyscall`, `Redo`, `SyscallStopTrace` |
| `traceAll` and `stopTrace` of the monitor | `traceAll`, `rmAllSyscalls` |

Once an ExitInfo of a thread makes the others vanish, the loop of `exitHap`
goes over a dict that is no longer the one in `exit_info`, and finds nothing:
hence `Handled`.  Assumed: Linux; debugging is on, so that `runTo`, `traceAll`
and `runToCall` watch the debug context; at most one Syscall of a context
watches a call, which `SyscallManager` is about; a thread keeps its context
while it is in a call.  Left out: what `handleExit` reports and fixes up,
`preserve_exit`, the callback of `dataWatch`, calls that end a thread,
reversing.

### How TaskContexts corresponds to the code

`k` is the kernel (its live threads, the current one, those in their exit, those
that execed); `cm` is the `GenContextMgr`, and its methods are operators from
`cm` to the new one.  `cm.queue` is what it handed to `SIM_run_alone`; the
simulator runs that before the program goes on, so `Idle` guards the program's
steps and the properties.

| code | model |
|---|---|
| `debug` of the monitor with `watchTasks`, `watchGroupTids` | `Debug` |
| `changedThread`, `alterWatches`, `amWatching` at a write of the current task | `Schedule` |
| `exitHap` of a clone (`sharedSyscall.py`), `IsClone` of `changedThread` | `Clone`, and in `Schedule` |
| `execveHap` (`trackThreads.py`), `parseExecve` (`syscall.py`) | `Exec` |
| `syscallHap` and `handleExit` for exits | `Syscall`, `ExitSyscall` |
| `taskRecHap`, `deadParrot`, `resetAlone` at a write of the link to a record | `LinkWritten`, and `RunAlone` |
| `watchTaskHapAlone`, `clearExitBreaksAlone`, `stopWatchTasksAlone`, the three `restore...Context` | `RunAlone` |
| `addSuspendWatch`, `rmSuspendWatch`, `goToOrigin`, `stopDebug` | actions of these names |

Assumed: Linux; one program with threads, one process that it forks and that
may exec, one unrelated task; page faults are watched, as `debug` has it by
default, so that `killGroup` is not called.  Left out: ignore and only lists,
`catch_tid`, the list of threads not to watch, VxWorks and Windows, the match
of a thread id's beginning (near 726), and the `GenBreakpoint` and `GenHap`
objects, which set the debugger's own breakpoints anew.

### How FuzzSession corresponds to the code

The target's clock is `cycle`, the snapshot is at 0.  `alone` is the queue of
`SIM_run_alone`, in order: handlers append to it, and its head runs between any
two other steps.  A run goes from `goN` to a stop.  Inputs are numbered, and
everything collected (`cov.hits`, `cov.blame`, `pf.by`) carries the numbers of
the inputs it came from, which only properties read.

| code | model |
|---|---|
| `goN`, `SIM_continue` queued by it | `goN` (the operator), `GoN`, `SIM_continue` |
| `stopHap`, `finishUp`, `getMsg` | `StopHap`; `GetFirst`, `GetNext` when the input arrives |
| `bbHap` of the coverage, its edges, saturation and `doCoverage`, `disableAll`, `enableAll` | `BlockHit`, `SuspendHit`, `suspendEndHap`, `doCoverage`, `disableAll`, `enableAll` |
| the count of reads for `commence_after_exits` | `counterHap`, `rmCounterHap` |
| `setFutureCycle`, `clearCycle`, `cycle_handler`, hang limit and callback | `BackStop`'s operators; `BackStopEvent`, `HangEvent`, `HangCallback`, `Deferred...` |
| exits, functions with a back stop, a closed FD | `TargetExits`, `functionBackstopHap`, `closeHap` |
| page faults, their resolution, the mode hap | `pageFaultHap`, `pageFaultHapAlone`, `ptableWriteHap`, `modeChanged`, `rmModeHapAlone` |
| AFL at the other end, the socket | `AflSends`, `AflLeaves` |

Assumed: a restored snapshot drops the events of class `Sim_EC_Notsaved`; the
target has one thread; messages of AFL are whole.  An edge is a pair of blocks,
its count stops at `Saturated`.  Left out: packets and kernel buffers of
`writeData.py`, `injectIO.py`, dead zones, test files, `one_done`, and the event
that ends a run after a double fault: a page that is still not mapped when the
program goes on is kept pending, or taken for a growing stack.  `PendingFault`, the status it makes, and the choice of who closes
the socket are as in `finishUp`.

### How DataWatch corresponds to the code

`dw` is the `DataWatch`, and its methods are operators from `dw` to the new one
(or to the set of those possible).  `ranges` stands for the parallel lists
`start`, `length` and `cycle`; `read_hap[i]` is the memory that the breakpoint of
hap i covers, {} for `None`; `alone` says that `watch` has queued
`setBreakRange`.  `left` is a history variable: the indexes whose hap the code
has left behind, on purpose or not, until it is deleted or made anew.

| code | model |
|---|---|
| `setRange` with its loop over related ranges, `resetIndexHap`, `setBreakRange` | `setRange`, `Relate` (one pass of the loop), operators of these names |
| `rmRange`, `rmSubRange`, `rmFree`, `clearWatches`, `resetOrigin`, `stopWatch`, `watch` | operators of these names; `Drop`, `SplitRange`, `KeepRanges` |
| `readHap` for a write: `cheapReuse`, `isReuse`, `checkFree`, `lookForMemStuff`, `finishReadHap` | `UserWrite`, `KernelWrite`, by `Seen`, `Taken`, `Change` |
| `readHap` for a read: frees, ad-hoc copies, kernel reads | `UserRead`, `AdHocCopy`, `KernelRead` |
| too many marks, too many hits of a small range | `EnoughHits` |
| `kernelReturn` and `kernelReturnHap`, called by `SharedSyscall` | `kernelReturn`, `kernelReturnHap`; with `Unrecorded`, a thread may return from a call that it made before its entries were recorded, and then the breakpoints stay for the next return |
| `handleMemStuff`, `returnHap`, `handleMemCpyReturn` | `returnHap` |
| `handleExit`, `checkCount` (`sharedSyscall.py`) for read, recv, recvmsg; `mmap` | `Receive`, by `Renewed`, `Filled`, `Received`; `mmap` |
| `trackIO`, `stopTrackIO`, `retrack`, `goToDataMark`, `writeBytes`, `addDataWatch` of the monitor | actions of these names |

What an access means to `readHap` depends on its instruction, the stack frames
and the marks made so far, and is a choice among the code's outcomes; so is
whether the writes before it have cleared the range (`hack_reuse`), whether the
range was copied to a moment ago (`recent_reused_index`), and what the marks
name when the ranges are rebuilt (`Marks`).  A memory function is one step, at
its return: its own hits are ignored, and `stopWatch` calls it off.

What a read call fills need not be what `setRange` watches (481-550): it returns
at once in a library function that reads, or while it waits for data that begin
as told (`commence_with`), and it moves or cuts the range by a limit on what is
read, by an offset given (`buffer_offset`), or to the length that the call asked
for.  `Received` therefore has a choice of adding nothing, and its `start` and
`length` are those of the range after all that.  The other callers of `setRange`
give no descriptor, and of the above only `commence_with` concerns them: that
they add nothing while it waits is left out, and so are `read_limit_callback` and
what a kernel buffer does when the wait is over.

Assumed: Linux, one process, reversing enabled, no breakpoint inside a buffer
that stops the simulation (`break_simulation`).  Left out: physical addresses,
other processes, stack buffers, strings, ring buffers, sub-buffers.

### What ReverseMgr assumes

* The simulator is one without native reversing (Simics 7): `nativeReverse()`
  is false.  The Simics 6 paths (`oldSimics`, `VT_*`) are not modelled.
* Restoring a snapshot sets the time back.  Events of class `Sim_EC_Notsaved`
  that are still ahead are either kept or dropped (`KeepsPosts`); those of the
  past are gone.  Restoring a name that does not exist changes nothing.
* Posting an event in the past raises in the Python caller, whose remaining
  statements do not run.
* The half of a handler that it queues for itself runs at the same cycle, as
  `cycleHandlerAlone` expects (it logs an error otherwise), and the work queued
  by `stopHap` runs after the interrupted `SIM_continue` has returned.
* A breakpoint with a hap calls it and does not stop; one without a hap stops
  the simulation after the instruction.
* `list-snapshots` lists in the order of recording, which is by cycle.
* Targets of a skip have been executed before, and `reverse_to` lies at or
  before the current cycle.
* Not modelled: breakpoints of `bp.manager` (`bp_cli_list`, `cliStopHap`),
  breakpoints on other cells (`use_cell`), and the log texts.

### What SyscallManager assumes

* Linux targets.  The other systems build other classes of `Syscall` and add
  calls to the lists.
* A client does not ask twice for a parameter without taking it back.
* A list of calls has no call twice.  The order in which a merged list gets the
  calls of the instances it replaces is arbitrary but fixed, as is the order in which the
  lists of an instance are numbered.
* Of the callers of `watchAllSyscalls`, `runToSyscall` is modelled: it may come
  at any time and leaves the default list to the callee.  `traceAll` is called
  once only and has a default list of its own.
* Parameters that are queued for removal at the next stop
  (`appendRmParam`) are not modelled, nor what is only handed on (callbacks,
  flists, kbuffers).

## Runs

### Passing

| run | bounds | shows |
|---|---|---|
| `reverse_breaks` | span 3, 6 cycles (two snapshots and the origin's span), one breakpoint hit at cycles 1, 3 (a boundary) and 4, four commands besides continue and stop | `TypeOK`, `SnapshotGrid`, `SkipLands`, `ReverseExact`, `HitIsLatest`, `FinishedReverseDisarmed`; `ImplementsLog`: the refinement to `SnapshotLog`; under fairness, `SkipTerminates` |
| `syscall_requests` | one context, up to three `Syscall` objects, three calls, one request of `runToIO` (read, recv) and two dmods of one operation (open, read); the dmods are symmetric | `TypeOK`, `ParamInOneSyscall`, `RecordedCallsHooked`, `TraceAllAlone` |
| `exits` | one debugged thread, two threads of other programs, one of which leaves the kernel by one address only; reads and execs; `runTo`, `runToCall`, a lingering request, a watch on execs elsewhere, a trace of all calls; a thread is at most twice in a list | `TypeOK`, `PendingIsSeen`, `PendingIsCurrent`, `AskerLives`, `ExecveKnown` |
| `contexts` | a leader, a thread that may be suspended and a process that it forks, another task; back to the origin once; execs are seen by `trackThreads` | `TypeOK`, `WatchedInDebugContext`, `OthersNotInDebug`, `BreaksWatched`, `CachedWatched`, `NothingRaised` |
| `fuzz_rounds` | one block, one page, two inputs, three cycles, back stop after 2, two queued functions before the program goes on | `TypeOK`, `ResultsAreOwn`, `BackStopOfThisRun`, `ImplementsRounds`: the refinement to `FuzzRounds`; under fairness, `ArmedRunEnds`, `QuitObeyed` |
| `fuzz_commence` | two blocks, one of which starts a function with suspended coverage; a delay of the back stop, blocks tracked after one read, another target than the reader, a hang limit of 2 | `ResultsAreOwn`, `BackStopOfThisRun`, `NoFalseHang` |
| `data_watch` | three bytes of memory, two ranges, one hap left behind at a time, one cycle; writes of up to two bytes are scalars | `TypeOK`, `HapsMatch`, `RangesHooked`, `ReceivedIsWatched`, `UntouchedKept` |

`reverse_breaks`: `MaxCycle` bounds how far the user runs, `MaxCommands` the
commands; `Horizon` (two spans more) bounds the runs that end by themselves,
which the type proof shows to be no restriction.  Four commands are enough for
enable, set a breakpoint, a skip or reverse, and one more; continue and stop are
free.  Two spans past the origin make every branch of `skipToCycle` and of
`skipBackAndRunForward` reachable: before the first snapshot, at it, between
two, past the last.  The restoring of events is left open.  A reverse after a stopped
scan and a `disableReverse` needs more commands than this run gives (seven): what
`FinishedReverseDisarmed` says of haps forgotten that way rests on the theorem.

`syscall_requests`: two lists that share one call, and two requests with the
same list and the same instance name, give every case of `watchSyscall` (no
instance, all calls, some calls, a trace of all) and every result of
`rmCallParam`; three objects let two instances be merged into a third while
nothing bounds how often requests come and go.  The symmetry is sound because
the two dmods have equal constants and steps do not depend on how objects are
numbered.

`exits`: two threads of the default context share its haps, two Syscalls may
ask for one return of the debugged thread (`execs`, `runTo`), and the list of an
address can hold it twice.  Nothing bounds calls and requests.  With two
debugged threads, and no `runToCall`, the same invariants hold too
(`Debugged = {t1, t2}`, `AtCall = {}`); with `runToCall` they do not, which is
what `exits_entry` shows.  The watch on execs elsewhere is named like the call, as
a dmod's `Syscall` may be, so that its removal takes back what the trace of all
calls asked for.

`contexts`: three threads are a leader to die first or last, a thread that
dies, and a process that may leave by exec; every order of thread switches,
writes of links and removals is open.  Going back once restores a saved watch
list with threads that are not yet born.

`fuzz_rounds` and `fuzz_commence`: two inputs are what one needs to see what a
run leaves to the next; with two queued functions a deferred post can meet a
clear.  `BackStopCycles <= MaxCycle` and `HangCycles` just past the clock's
bound, or just within it, decide whether hangs happen; `fuzz_commence` has them.

`data_watch`: in three bytes two ranges can be apart, adjoin, overlap, contain
each other and be split in two, and an access can touch both; one cycle is enough
for a range that is younger than where the user goes back to.  With one hap left
behind at a time (`MaxLeft`) each of the ways to leave one is there, without those
states in which it happens to both.  `ReceivedIsWatched` and `UntouchedKept` speak
of what the next read or write would make of a state.  "Watched" is said of
breakpoints there, not of the list of ranges: `HookedBytes` are the bytes whose
access calls `readHap` with the index of a range that is in the list.
The run takes every kernel entry of the thread to be recorded (`Unrecorded` is
`FALSE`); the theorems of `DataWatchProofs` hold for either value, and TLC finds
the same for `TRUE` in half again as many states.

### Fairness

`SkipTerminates` assumes weak fairness of `Step` only: the simulator goes on
executing while it is in a `SIM_continue`, and Python code that has been called
goes on.  No fairness is assumed of the user (commands, continue, stop).

`FairSpec` of `FuzzSession` assumes that Simics runs what is queued, advances
the clock and calls the stop hap, and that AFL sends its next input or leaves.
Nothing is assumed of the program: it may loop over one block, block in a call
or fault for ever.  `ArmedRunEnds` holds because a loop saturates its edges and
then no longer moves the back stop.

### Where the code and its comments disagree

Each of these runs checks one sentence of the code's comments or documents and
ends in a counterexample; `PROJECT.json` has the quotations.

| run | sentence | what happens |
|---|---|---|
| `reverse_missed` (`HitIsMostRecent`) | a reverse is set at the most recent hit | the last instruction of every span but the first is not scanned (`reverseMgr.py:613`) |
| `syscall_lost` (`RequestsTraced`) | otherwise, remove the call parameter (and see if others need its calls) | `got__one` (`syscallManager.py:129`): two dmods on the same calls, one is removed, the other is no longer served |
| `exits_entry` (`RunToCallStops`) | `runToCall` continues until the call is invoked | the stop at a call's entry empties the lists of the context but keeps `exit_info` (`sharedSyscall.py:174-187`): a thread blocked in another watched call returns unseen, and its next call is taken for one inside the old one |
| `contexts_exec` (`ExecedNotWatched`) | assume execve and stop watching | `stopWatchTid` (`genContextMgr.py:1056`) removes the record of whichever thread runs, and keeps the one it was called for |
| `fuzz_repeat` (`UnresolvedFaultIsCrash`) | a SEGV is an unresolved page fault at the end of a run | `faulted_pages` is kept from run to run (`pageFaultGen.py:328`): the second run that faults at an address is reported OK |

More sentences that TLC refutes are stated in the modules, without a run of
their own.  Take the cfg named, with the property alone:

| property | cfg | what happens |
|---|---|---|
| `SkipLandsOnTarget` | `reverse_missed` | from a snapshot's own cycle to a later one of its span: `True`, without moving |
| `ReverseGoesBack` | `reverse_missed` | in the origin's span the window reaches past the start: a hit in the future is reported |
| `ReverseDoesSomething` | `reverse_missed` | called on a snapshot's cycle: returns, nothing runs, no callback |
| `ReverseTerminates` | `reverse_missed`, FairSpec | at the origin the scan starts over for ever |
| `RecordingResumes` | `reverse_missed` | recording past the end of a skip works once |
| `HapsOnlyWhileReversing` | `reverse_missed` with `Bps = {b1}`, `MaxCommands = 5` | `disableReverse` after a stopped scan empties the list of haps and deletes none (`reverseMgr.py:126`): the haps go on catching hits, so that the breakpoint never stops the simulation again; a later scan sets others beside them, and `stopHap` deletes only those (680-682) (against 797, "invoked when breakpoints are hit while reversing") |
| `ParamInOneSyscall` | `syscall_lost` with `Contexts <- MCTwo`, `MaxSyscalls = 5` | `runTo` hands one list of parameters to every context (`genMonitor.py:3568-3571`), and `addCallParams` appends to it in place (`syscall.py:3212`): what the second context adds is in the first one's `Syscall` too, beside the one it was asked for with (against `syscallManager.py:473`, "assumes only one") |
| `NoUnrequestedParam` | `syscall_lost` with `Contexts <- MCTwo` | `runTo` hands one list to both contexts, and a request in the first is served by the second's Syscall |
| `PendingExecveIsCurrent` | `exits` | a match of `runTo`, or the rebuilding of another instance, while a thread is in its exec forgets the return but not `pending_execve` (`sharedSyscall.py:113-123`; 742 would drop it, but is not reached, as `exit_info` keeps the thread's key): the thread's later calls are ignored, or stop with "fix this, syscall within exec?" |
| `ContextFollowsTask` | `contexts` with `Suspendable = {lead}`, `MaxBacks = 0` | after a suspended thread another program runs in the suspend context (`genContextMgr.py:588`, against 28-29) |
| `CommencesOnTime` | `fuzz_commence` | after the first run the blocks are tracked before the reads were counted: the old breakpoint counts as well, and saturated blocks are enabled again |
| `CoverageResumes` | `fuzz_commence` | at the end of a function with suspended coverage `suspendAddrFromBreakNum` (`coverage.py:1410`) returns the number it was given, not the address found: coverage stays off, in later runs too (against `RESim.tex:2505`) |
| `ReceivedIsHooked` | `data_watch`, as a PROPERTY | a read call that fills more than an earlier one at the same address: `setRange` replaces the range and leaves its hap (`dataWatch.py:593-596`), and `setBreakRange` sets none where there is one, so that the rest of the data has no breakpoint until the watch is renewed (against 5012, "set breakpoints for each range defined in self.start and self.length") |
| `RetrackWatches` | `data_watch` with `MaxRanges = 1` | `goToDataMark` disables the data watch (`genMonitor.py:4869`) and `retrack` does not enable it, so that `watch` returns at once (`dataWatch.py:893`): after going to a mark and modifying the input buffer, as `RESim.tex:2012-2027` has it, nothing is watched |
| `RunsWithinHangLimit` | `fuzz_rounds` with `HangCycles = 3`, `MaxCycle = 6` | without `BACK_STOP_DELAY` the limit is never set, as `setHangCallback` returns at once (`backStop.py:153`, against `RESim.tex:881`) |

Others were met while modelling.  In `reverseMgr.py`: a reverse to a cycle that
finds no hit ends at the end of the window (692-701) and not at the cycle
(1017); a stop exactly on a boundary, before its event, and a skip leave that
boundary without a snapshot (177-180, against 44); `disableAll` goes over
`bp_list`, which is empty until the first reverse (915, against 493);
`disableReverse` leaves `recording_end_cycle_event` posted (353, against 347).

In `syscallManager.py` and its callers: `rmSyscall` and `rmAllDmods` look at
instances only, so a parameter that a trace of all calls took over cannot be
taken back, and the default list of `watchAllSyscalls` brings it back later; an
instance replaces another one of the same name in the dict (284), whose
`Syscall` goes on, known to nobody; a dmod that is done while another one is
left is taken from the `Syscall` but not from `param_call_list`
(`sharedSyscall.py:1799`), after which no removal sees the last parameter;
`rmAllDmods` fails on a `Syscall` that was built for an empty list (621).
With two contexts that share lists `RecordedCallsHooked` fails too
(`syscall_lost` with `Contexts <- MCTwo`).  With two that share none
(`Contexts <- MCTwo`, `AllContexts = {}`, `MaxSyscalls = 5`), `ParamInOneSyscall`
still fails: a dmod that both contexts watch, in one of them in a `Syscall` with
another dmod, is taken from that one alone when it is done and forgotten
(`sharedSyscall.py:1799`); the other context still has it, and when it is asked
for again it is in two.

In `sharedSyscall.py` and its callers: a match of one Syscall's `runTo` forgets
the calls under way of all others (`stopTrace`), and so does the rebuilding of
an instance when it is the only one; `setExits` lists a thread again that is
listed already, so that its hap stays enabled after it has returned;
`trace_all` of the monitor is never taken back, so that `traceAll` after
`stopTrace` does nothing (`genMonitor.py:2986`); stopping a Syscall of the
default context while the debug context has none clears everything.

In `genContextMgr.py`: `clearExitBreaks`, called when a thread is found dead,
takes the breakpoints of all threads, and the `rmTask` that follows does
nothing if the record is gone already, which leaves the record watched; only
the latest exiting thread is remembered (`exit_tid`); a clone's parent gets the
child's number as an int where thread ids are strings, so that it may be the
debugged thread's id, or in the cache, and equal nothing; `restoreDebug` doubles
the cache; `resetWatchTasks` makes the current thread the debugged one; the last
thread's removal leaves `debugging_tid`.  With no exec hook (`afl.py:205`,
`injectIO.py`), `NothingRaised` fails as well: `rmTask` asks an empty cache for
its first thread (919).

In the fuzzing session: exits are reported OK until the first crash or hang
switches the callback to `recordExit`; a jumper's block is never disabled, so
that it moves the back stop for ever; `BACK_STOP_DELAY` 0 never arms the back
stop; a run that hits no block does not end by itself; `finishUp` goes on after
it called for a quit; the mode hap may be lost if its removal is still queued;
`ptable_break` and `pdir_break` are never reset.

In `dataWatch.py`: a hap is left behind not only when `setRange` replaces a range
(`ReceivedIsHooked`), but also when a memory function covers one (1297 and 1433 look the index up
among the numbers of the haps), and when the list of ranges is cut (5345-5383,
5397) but that of the haps is not, after which a new range of that index keeps
the old hap; a range that overlaps the end of another one is a byte short (614),
and a last byte that is left by a write is dropped (5131); at the origin
`retrack` fails when the first range was removed, or `modifyMemory` has emptied
the list while the watch is disabled (5360); what `watch` has queued sets
breakpoints although the watch was stopped meanwhile.

The passing properties are stated so that they hold beside these: `SkipLands`
allows the start of the span, `HitIsLatest` speaks of the window scanned,
`ReverseExact` of hits in the span that the reverse began in, `PendingIsSeen` of
programs of one thread where there is a `runToCall`, `ArmedRunEnds` has no
jumper, `ParamInOneSyscall` is checked with one context, `HapsMatch` excepts the haps in
`left`, `FinishedReverseDisarmed` those that `disableReverse` forgot, and
`ReceivedIsWatched` speaks of the haps after the next renewal of the watch, and
excepts the last byte.

## Proofs

TLC checks small instances; the theorems hold for every value of the constants,
from the assumptions named in the modules.

| module | theorem | says |
|---|---|---|
| `ReverseMgrProofs` | `TypeCorrect`, `GridCorrect` | `TypeOK`, `SnapshotGrid` |
| | `LogImplemented` | every step of `ReverseMgr` is a step of `SnapshotLog` or a stutter |
| `ReverseReportProofs` | `SkipsLand`, `ReverseDisarms`, `HitsAreLatest`, `ReverseIsExact` | `SkipLands`, `FinishedReverseDisarmed`, `HitIsLatest`, `ReverseExact` |
| | `ReverseFollows` | the invariant that these four follow from |
| `SpanRecorderProofs` | `NextSpanAhead` | the snapshot that is posted next is due on a multiple, ahead |
| `SyscallManagerProofs` | `TypeCorrect`, `TraceAllIsAlone` | `TypeOK`, `TraceAllAlone`, for any number of contexts and however they share lists |
| | `RecordedAlwaysHooked` | `RecordedCallsHooked`, if contexts share no lists |
| | `ParamsInOneOfOneDmod` | `ParamInOneSyscall`, if contexts share no lists and there is one dmod at most |
| `FuzzSessionProofs` | `TypeCorrect`, `ResultsOwn`, `BackStopOwn` | `TypeOK`, `ResultsAreOwn`, `BackStopOfThisRun` |
| | `RoundsImplemented` | every step of a session is a step of `FuzzRounds` or a stutter |
| | `HangsAreReal` | `NoFalseHang`, if the hang limit is within the clock's bound |
| `SyscallExitsProofs` | `TypeCorrect`, `ReturnsSeen`, `ReturnsCurrent`, `AskersLive`, `ExecvesKnown` | the five invariants of `exits`, if no Syscall stops at the entry of a call or the debugged program has one thread |
| `TaskContextsProofs` | `TypeCorrect`, `WatchedInContext`, `OthersLeftAlone`, `BreaksOfWatched`, `CacheOfWatched`, `NeverRaises` | the six invariants of `contexts`, if execs are seen and no forked process is suspended |
| | `Invariant` | the invariant that these six follow from |
| `DataWatchProofs` | `TypeCorrect`, `HapsAlwaysMatch`, `RangesAlwaysHooked`, `ReceivedIsRewatched`, `UntouchedAlwaysKept` | the five invariants of `data_watch` |
| | `Invariant` | the invariant that these five follow from |

### Reverse execution

`TypeOK`, `SnapshotGrid` and the refinement are not inductive.  `IInv` adds:

* `RecorderSound`, which says of every *pending* snapshot event what
  `SnapshotGrid` says of the snapshots: due on a multiple, after the origin and
  after the latest one.  Without it `cycle_handler` could record anywhere.  It
  also ties `latest_span_end` to a snapshot, and both to reversing being on.
* `RestoresWhenEnabled`: restoring by name happens only while there is an
  origin.  Without it a window's start could be computed from `None`.
* `WithinHorizon`: the sets that a latest element is taken of are bounded, so
  that there is one (`LargestOfBounded`, by well-foundedness of `<`).

`SpanRecorderProofs` proves that every method of the recorder keeps
`RecorderSound`; the arithmetic is `MaskedStart`, `NextMultiple` and
`NextSpanAhead`.  `ReverseMgrProofs` has one lemma per action and puts them
together in `NextKeeps`.

What a command *reports* needs more: `report` is set steps after the state it
speaks of, and the haps, the events and the snapshots have changed meanwhile.
`RInv` in `ReverseReportProofs` is `IInv` and `Followed`, which follows one skip
or one reverse, through the runs it starts, for as long as nothing else stopped
it (`~disturbed`):

* `Unreported`, `BreaksSet`, `OwnStop`: what is under way has not reported; only
  breakpoints that are set have haps (forgotten ones included) or are enabled; `stopHap` is called for the
  end of a scan, or after a disturbance.
* `RanThere`, `Landed`: a run to a cycle stops there, and the skip around it is
  at its target or at the start of its span.
* `GoingBack`, `Approaching`, `Scanning`, `ScanEnded`: the window begins at or
  after the origin, and the first one ends at `reverse_from`; the haps of all
  breakpoints set are there while it is run; what is noted is every hit so far.
  After the first window (`~first_skip`), the span that the reverse began in has
  no hit at or after the origin: this is why an earlier hit is the right answer.
* `Returning`: the skip back to the latest hit has it as its target.  A scan can
  not be the skip's own run, as it starts before that target.
* `Reported`: the properties themselves, once all is stopped.

There is one lemma per action, on the frame lemmas `NothingUnderWay`, `Spoiled`,
`UserSkips`, `SkipsToHit` and `Searches`, which say for each phase that all the
parts of the other phases hold for want of a premise.

### System call managers

The code hands lists from one object to another, so that a change to one list
is a change to several instances.  What can be said depends on who shares what,
and `Inv(m, n, w)` has three levels, `m` being the manager and `w` what is
wanted:

* level 0, `Refs`, holds however lists are shared: every number is one of an
  object in use; an instance's `Syscall` is one of its context and of no other
  instance; a context that traces all calls has no instance.  `TypeOK` and
  `TraceAllAlone` follow.
* level 1 adds `Owned` and `Served`.  `Owned`: no two instances have a list of
  calls in common, and no two `Syscall`s a list of parameters, but for the
  default one, which is not an instance's.  `Served`: every parameter of a
  `Syscall` is recorded by its instance, with calls that are all among those of
  the instance, which are all hooked.  So `rmCallParam` and the rebuilding raise
  no exception, and what a list loses, no other instance loses.
  `RecordedCallsHooked` follows.
* level 2 adds `Asked`: an instance has only parameters that are wanted, and no
  two of a context have one in common.  That a parameter is wanted is what
  keeps a second `Watch` of it out.  `ParamInOneSyscall` follows.

Level 0 has no hypothesis.  Levels 1 and 2 need `NoSharing` (one context, or no
request for all of them): `runTo` with `all_contexts` hands one list to every
context, against `Owned`.  Level 2 needs `OneDmod` besides, at one place:
`checkReadParams` takes a dmod that is done from one `Syscall` when another dmod
uses it, and forgets the dmod.  Neither hypothesis is true of every use of the
program, and without them `ParamInOneSyscall` fails (the table above, and what
follows it): the theorem says where the line runs, for one context or several.

A method calls others, on a manager that is in no state of the specification;
hence the lemmas are about managers and not about `mgr`, and follow the calls:
`NewInstanceKeeps`, `AddKeeps`, `AddBackKeeps`, `ConsolidateKeeps`, `WatchKeeps`;
`RmCallParamKeeps`, `RedoKeeps`, `RmKeeps`.

* `Vacant` and `Room` say what a new instance, and one that parameters are added
  to, need: the lists are held by nobody else, their calls are among the
  instance's, and nobody else in the context has the parameters.
* `Less` says what a removal leaves: fewer instances and `Syscall`s, as they
  were.  It keeps every level (`LessKeeps`).
* Loops are handled by `Upward`, from the least pass that is not good; the
  installed provers cannot use an induction theorem.
* `Renumbered` says of `Collected` that each object has another number but the
  same contents.  `CollectedKeeps` shows that all that is referred to is listed,
  so that no reference changes its object.

### Fuzzing session

`IInv` is the conjunction of

* `Shape`, the types, with those of the queue;
* `QueueInv`: whatever starts a run is last in the queue and none is queued
  while one is under way, no quit is queued while AFL is served, a deferred post
  has the cycles that it was called with.  Without it a handler of one run could
  come after the next run's beginning;
* `CountInv`: one removal of the counting breakpoint at most is queued;
* `RoundInv`: inputs and results take turns, one input is under way.  This is
  what the refinement rests on;
* `OwnInv`: what a run has collected is of its input;
* `StopInv`: the back stop is set only after a hit of this run, and the event's
  remaining cycles and the clock together are at least `BackStopCycles`.

`HangsAreReal` needs `HangInv` besides: a posted hang and the clock together are
at least `HangCycles`, and a queued callback or the status HANG is there only
after the limit.  There is one lemma per action, and frame lemmas for what
many actions have in common (`RunStep`, `DeferredStep`, `QuietStep`,
`QueueingStep`, `StopStep`, `CountStep`).  TLC checked the parts as invariants
first.

### Returns from system calls

`PendingIsSeen` is not inductive: that a hap is enabled depends on who else is
listed.  `Tracked` says it of every thread that is listed (`ListedEnabled`),
pending or not, and that who is pending is listed at all its ways out
(`PendingListed`); `Of` and `Asked` are the other invariants with the state as
a parameter, and the trace of all calls is live only when `tracing` is.
Removals of all kinds are shown to be `Less`: what they leave of a thread is as
it was.  `Less` is transitive, so that the operators' lemmas compose as the
code's calls do, and it keeps `Of` and `Asked`.  The one removal that is not
harmless, `rmExitHap(None)`, must be shown to come when nothing is pending in
the context (`IdleIn`): after a match everything was forgotten; at the entry of
a call it is so if the thread is alone (`StopsAlone`), and that is the very
condition that `exits_entry` breaks.

### Task contexts

The theorems have two hypotheses besides `TaskAssumption`, both about how the
session is set up.  `Seen`: `trackThreads` has its hap on exec, as it has unless
a caller of `debugProc` or `traceAll` declines (`track_threads=False`).
`Unsuspended`: no process that may exec has its watching suspended (`exitMaze`
and `runTo` suspend threads of the program that is debugged).  Without the first
`NothingRaised` fails, without the second `BreaksWatched`: a suspended process
runs outside the debug context, so that nobody sees its exec, and its name is
noticed while another thread runs, whose record `stopWatchTid` then removes.
TLC found both counterexamples when the invariant was tried without them; the
run `contexts` satisfies both hypotheses.

None of the six properties is inductive.  They speak of the states in which the
program runs; what is in between is a queue of calls, whose order decides.
`IInv` says in *every* state, for the current kernel (`Right`):

* `Breaks`: a breakpoint that is set has its hap, or `watchTaskHapAlone` is
  queued to set it, and belongs to a watched thread; a hap is never without it;
* `CacheOK`: records and cache have the same threads, except that a process may
  be watched alone and uncached after a late notice of its exec;
* `DebugOK`: without a debugged thread nothing is watched, without the task hap
  there is no debugged thread, and no return to the debug context is queued;
* `QueueOK`: `resetAlone`, `clearExitBreaksAlone` and `restoreDebugContext` are
  queued by themselves.  This is what makes the handlers of one call harmless to
  the next; a suspected thread's entry is queued, and its breakpoint is set;
* `ContextOK`: if a watched thread runs, no call that leaves the debug context is
  queued, and it is in that context or about to return; if another program's
  task runs, it is not, and nothing will take it there;
* `ClonesOK`: a clone that has execed and is still watched is the only one.
  `trackThreads` removes it otherwise, and an empty cache would be the result;
* `ExitOK`: the latest exiting thread is not watched while it is alive.

Before the session starts the manager is `Fresh`, and the kernel of the origin
is one that debugging can start in (`CanDebug`), which going back needs.  Inside
an exit or exec the invariant does not hold, as a handler calls `stopClone`,
`rmTask` and `stopWatchTid` in turn: `Handled` is what does, and
`HandledStopClone`, `HandledRemove`, `AskedFacts` and `HandledLast` follow those
calls.  `goToOrigin` sets all up twice.  After the first time (`resetWatchTasks`,
which may add a saved thread that does not exist at the origin) the invariant
need not hold; all that the second needs of it is which calls are queued
(`GoBackFacts`).  `addGroup` is a recursion over the threads in any order;
`AddInOrderGrows` shows what it keeps (`Grown`) by taking the least length for
which there is no table of partial results.

### Data watch

`IInv` is the conjunction of

* `Shaped`, the types, and that a hap watches its range (`Matched`) or is in
  `left`; a removed range has none;
* `Parallel`: the list of haps is never shorter than the list of ranges.  It may
  be longer, as `resetOrigin` cuts one and not the other, and then what is behind
  the end watches nothing or is in `left`;
* `Hooked`: every range has a hap, or `watch` has queued the setting; unlike
  `RangesHooked` this is said of a disabled watch too, which `enable` takes for
  granted;
* while `runToIO` tracks, the watch is not disabled.  `ReceivedIsWatched` is
  about that state only, as `setRange` does nothing otherwise.

`setRange` is a loop over all ranges, of which several may be related to the new
one.  `Passed` says what holds after each pass: the haps are right, nothing that
was watched is lost, and once a related range was found it covers the new one
but for its last byte at most.  The loop is a function over the numbers of the
ranges, and the lemma for all passes goes by the least pass without the property
(`LeastNumber`), which needs well-foundedness of `<` and no induction theorem.
That is about ranges; `ReceivedIsWatched` is about haps, and needs
`RenewedFacts` as well: stopping the watch takes all haps, also those left
behind, and watching again gives each range in the list one of its own.
`rmSubRange`, `cheapReuse` and `rmRange` look ranges up by different rules;
`UntouchedKept` follows from `Kept`, which says of each of them that what is gone
was near the ranges touched.  What the marks say when ranges are rebuilt is
`Marks`, any set of lists of buffers in the memory.

### Only model-checked

Liveness (`SkipTerminates`, `ArmedRunEnds`, `QuitObeyed`) is out of this
prover's reach.  `ParamInOneSyscall` is checked with two dmods on one context
(`syscall_requests`), where the theorem speaks of one dmod.

## Not modelled

Most of the repository is decoding and tables: system calls of Linux, Windows
and VxWorks by architecture, status codes, structures of several kernels,
disassembly for stack traces, library functions whose effect on data is
recognised, shared objects, the plug-ins for IDA and Ghidra, scripts that start
fleets of fuzzers.  What is right there is a matter of data, not of control, and
a model would repeat the tables.  The share of lines that the modules stand for
is therefore small; they stand for the parts where order, queues, sharing and
restored state decide.

Of these parts the following could still be modelled:

* `GenBreakpoint`, `GenHap` and `setAllHap` of `genContextMgr.py`: the
  debugger's own breakpoints, set and cleared at context switches and looked up
  by handle;
* the run-to commands with `hapCleaner.py` and `stopFunction.py`;
* the queue of parameters to be removed at a stop (`syscall.py`), between
  `SyscallManager` and `SyscallExits`, and a composition of the two;
* stack buffers, strings and ring buffers of `dataWatch.py`, and its watch marks
  across a reset of the origin;
* packets of `writeData.py` in a session.
