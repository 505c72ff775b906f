---------------------------- MODULE TaskContexts ----------------------------
(***************************************************************************)
(* Which threads a debugging session watches, and in which Simics context  *)
(* the processor runs (genContextMgr.py).  A breakpoint on the kernel's    *)
(* pointer to the current task tells the manager of every thread switch;   *)
(* it then sets the context: breakpoints of the debugger are set in the    *)
(* debug context and must not trip while another process runs.  For each   *)
(* watched thread a breakpoint on the link that points to its task record  *)
(* tells of its death.                                                     *)
(*                                                                         *)
(* The target is Linux with one multi-threaded program, a process that it  *)
(* may fork and that may exec, and one unrelated task.  A thread stands    *)
(* for its task record too.  Page faults are watched while debugging, as   *)
(* genMonitor.debug has it, so killGroup is never called.  Ignore and only *)
(* lists, catch_tid, the maze's no-watch list and VxWorks are left out.    *)
(* What is handed to SIM_run_alone runs before the program goes on.        *)
(***************************************************************************)
EXTENDS Naturals, Sequences, SequencesExt, FiniteSets

CONSTANTS
    Thread,         \* the threads of the program, and what it forks
    Leader,         \* its group leader
    Forked,         \* those that are processes of their own, children of the leader
    Other,          \* a task of another program
    ExecHooks,      \* who sees an exec: "trackThreads", and "traceAll" if all calls are traced
    Suspendable,    \* the threads whose watching runTo or exitMaze may suspend
    MaxBacks,       \* how often the user may go back to the origin
    None

Task == Thread \cup {Other}

\* The thread id that a clone's parent gets is a number, which equals no thread id.
Number(t) == <<t>>

Kernel ==
    [alive : SUBSET Thread, cur : Task, exiting : SUBSET Thread, execed : SUBSET Forked,
     born : SUBSET Thread]

ASSUME TaskAssumption ==
    /\ IsFiniteSet(Thread) /\ Leader \in Thread /\ Other \notin Thread /\ None \notin Task
    /\ \A t \in Thread : Number(t) \notin Task \cup {None}
    /\ Forked \subseteq Thread \ {Leader}
    /\ ExecHooks \subseteq {"trackThreads", "traceAll"}
    /\ Suspendable \subseteq Thread /\ MaxBacks \in Nat /\ None \notin Kernel

VARIABLES
    k,        \* the kernel: its live threads, the current one, those that exit or have execed
    cm,       \* the context manager, with what it handed to SIM_run_alone
    origin,   \* the kernel at the origin of the debugging session, or None
    backs     \* how often the user went back

vars == <<k, cm, origin, backs>>

Alone(fn, arg) == [fn |-> fn, arg |-> arg]

\* getTaskStructs adds the current task to those it finds in the list.
HasRec(kernel, t) == t \in kernel.alive \cup {kernel.cur}

InCache(c, t) == t \in ToSet(c.cache)
Cached(c, t) == IF InCache(c, t) THEN c ELSE [c EXCEPT !.cache = Append(@, t)]
Uncached(c, t) == [c EXCEPT !.cache = RemoveFirst(@, t)]

Queued(c, fn, arg) == [c EXCEPT !.queue = Append(@, Alone(fn, arg))]

\* A Python dict is asked for a key that it does not have, or a list for its first element.
Raise(c, why) == [c EXCEPT !.raised = IF @ = None THEN why ELSE @]

(***************************************************************************)
(* Watching for the death of a thread.                                     *)
(***************************************************************************)
CanWatchExit(kernel, t) == HasRec(kernel, t) /\ t \in kernel.alive

watchExit(c, kernel, t) ==
    IF CanWatchExit(kernel, t) /\ c.bp[t] # "set"
    THEN Queued([c EXCEPT !.bp[t] = "set"], "watchTaskHapAlone", t)
    ELSE c

watchTaskHapAlone(c, t) ==
    IF c.bp[t] = "set" THEN [c EXCEPT !.hap[t] = "set"] ELSE c

\* Mutant: the haps are kept.
MutClearKeepsHaps(c) == [c EXCEPT !.bp = [t \in Thread |-> IF @[t] = "set" THEN "None" ELSE @[t]]]

clearExitBreaksAlone(c) ==
    [c EXCEPT !.bp = [t \in Thread |-> IF @[t] = "set" THEN "None" ELSE @[t]],
              !.hap = [t \in Thread |-> IF @[t] = "set" THEN "None" ELSE @[t]]]

delTidRecAlone(c, t) ==
    LET gone == [c EXCEPT !.bp[t] = "absent", !.hap[t] = "absent"]
    IN IF c.hap[t] = "absent" THEN Raise(gone, "delTidRecAlone") ELSE gone

(***************************************************************************)
(* Adding and removing watched threads.                                    *)
(***************************************************************************)
addTask(c, kernel, t, watch_exit) ==
    IF t \in c.watch THEN c
    ELSE LET added == IF ~HasRec(kernel, t) THEN [c EXCEPT !.pending = Append(@, t)]
                      ELSE LET w == [c EXCEPT !.watch = @ \cup {t}]
                           IN IF watch_exit THEN watchExit(w, kernel, t) ELSE w
         IN Cached(added, t)

\* The threads that run under the name of the debugged program.
TidsForComm(kernel) == (kernel.alive \cup {kernel.cur}) \ (kernel.execed \cup {Other})

\* The last record is removed: a thread still waiting becomes the debugged one, or another
\* thread of that name does, if the SO map knows it (swap), or nothing is left to debug.
LastRecord(c, kernel, t, swap) ==
    LET rest == TidsForComm(kernel) \ {t} IN
    IF c.pending # <<>> THEN {[c EXCEPT !.dbg = Head(c.pending)]}
    ELSE IF rest = {} THEN {Queued(c, "restoreDefaultContext", None)}
    ELSE IF swap THEN {[addTask(c, kernel, r, TRUE) EXCEPT !.dbg = r] : r \in rest}
    ELSE {Queued(Queued(c, "restoreDefaultContext", None), "stopWatchTasksAlone", None)}

\* Mutants: the breakpoint is kept, its record is deleted unchecked, or the cache is kept.
MutUnwatchedKeepsBreak(c, t) == Uncached([c EXCEPT !.watch = @ \ {t}], t)
MutUnwatchedUnchecked(c, t) == delTidRecAlone(Uncached([c EXCEPT !.watch = @ \ {t}], t), t)
MutUnwatchedCached(c, t) ==
    LET w == [c EXCEPT !.watch = @ \ {t}] IN IF c.bp[t] = "set" THEN delTidRecAlone(w, t) ELSE w

Unwatched(c, t) ==
    LET w == Uncached([c EXCEPT !.watch = @ \ {t}], t)
    IN IF c.bp[t] = "set" THEN delTidRecAlone(w, t) ELSE w

rmTask(c, kernel, t, killed, swap) ==
    IF t \notin c.watch \/ ~(HasRec(kernel, t) \/ killed) THEN {c}
    ELSE LET d == Unwatched(c, t)
         IN IF d.watch = {} THEN LastRecord(d, kernel, t, swap)
            ELSE IF t # d.dbg THEN {d}
            ELSE IF d.cache = <<>> THEN {Raise(d, "rmTask")}
            ELSE {[d EXCEPT !.dbg = Head(d.cache)]}

\* stopWatchTid takes the record of the current thread out of the list, whoever t is.
stopWatchTid(c, kernel, t, force) ==
    LET b == IF c.bp[t] = "absent" THEN c
             ELSE LET gone == [c EXCEPT !.bp[t] = "absent", !.hap[t] = "absent"]
                  IN IF c.hap[t] = "absent" THEN Raise(gone, "stopWatchTid") ELSE gone
    IN IF force \/ (t = kernel.cur /\ c.dbg # None)
       THEN Uncached(Queued([b EXCEPT !.watch = @ \ {kernel.cur}], "restoreDefaultContext", None), t)
       ELSE b

CloneWrongComm(c, kernel, t) == t \in c.clones /\ t \in kernel.execed

stopClone(c, kernel, t) == stopWatchTid([c EXCEPT !.clones = @ \ {t}], kernel, t, TRUE)

amWatching(c, kernel, t) ==
    \/ t = kernel.cur /\ (t \in c.watch \/ (c.dbg # None /\ c.watch = {}))
    \/ InCache(c, t) \/ t = c.exit_tid

tidExit(c, t) == [c EXCEPT !.exit_tid = t]

(***************************************************************************)
(* Starting and stopping to watch.                                         *)
(***************************************************************************)
NoBreaks == [t \in Thread |-> "absent"]

stopWatchTasksAlone(c) ==
    IF ~c.task_hap THEN c
    ELSE [c EXCEPT !.task_hap = FALSE, !.watch = {}, !.bp = NoBreaks, !.hap = NoBreaks,
                   !.saved = IF c.watch # {} THEN c.watch ELSE @,
                   !.dbg_saved = IF c.dbg # None THEN c.dbg ELSE @,
                   !.clones = {}, !.cache = <<>>, !.dbg = None, !.context = "default"]

\* The thread ids of the records come in the order of the dict; any order is allowed.
restoreDebug(c) ==
    LET watched == IF c.saved # {} THEN c.saved ELSE c.watch IN
    {[c EXCEPT !.dbg = IF @ # None THEN c.dbg_saved ELSE @, !.watch = watched,
               !.cache = @ \o ids, !.context = "debug"] : ids \in SetToSeqs(watched)}

setDebugTid(c, kernel, force) ==
    IF c.dbg # None /\ ~force THEN c
    ELSE Cached([c EXCEPT !.context = "debug", !.dbg = kernel.cur, !.dbg_saved = kernel.cur],
                kernel.cur)

watchTasks(c, kernel, t, set_debug_tid) ==
    {LET s == IF set_debug_tid THEN setDebugTid(r, kernel, TRUE) ELSE r
         e == watchExit(s, kernel, t)
     IN IF CanWatchExit(kernel, t) /\ t \in e.watch THEN e
        ELSE Cached(IF CanWatchExit(kernel, t) THEN [e EXCEPT !.watch = @ \cup {t}] ELSE e, t)
     : r \in IF c.watch = {} THEN restoreDebug([c EXCEPT !.task_hap = TRUE])
             ELSE {[c EXCEPT !.task_hap = TRUE]}}

\* addTask for every thread of the leader's group.
GroupTids(kernel) == (kernel.alive \cup {kernel.cur}) \ (Forked \cup {Other})

AddInOrder(c, kernel, order) ==
    LET added[i \in 0 .. Len(order)] ==
            IF i = 0 THEN c ELSE addTask(added[i - 1], kernel, order[i], TRUE)
    IN  added[Len(order)]

addGroup(c, kernel) == {AddInOrder(c, kernel, order) : order \in SetToSeqs(GroupTids(kernel))}

resetWatchTasks(c, kernel) ==
    LET t == IF c.dbg # None THEN c.dbg ELSE IF c.dbg_saved # None THEN c.dbg_saved ELSE kernel.cur
    IN UNION {addGroup(w, kernel) : w \in watchTasks(stopWatchTasksAlone(c), kernel, t, TRUE)}

stopDebug(c) ==
    [c EXCEPT !.dbg = None, !.dbg_saved = None, !.watch = {}, !.saved = {}, !.cache = <<>>,
              !.context = "default"]

-----------------------------------------------------------------------------
(***************************************************************************)
(* A thread switch: changedThread, called before the kernel's write.       *)
(***************************************************************************)
isSuspended(c, n) == n \in c.susp

\* Mutants: a watched thread is left where it is, or the debug context is.
MutAlterNeverDebug(c, n) ==
    IF isSuspended(c, n) THEN Queued(c, "restoreSuspendContext", None)
    ELSE IF n \notin c.watch THEN [c EXCEPT !.context = "default"] ELSE c

MutAlterKeepsDebug(c, n) ==
    IF isSuspended(c, n) THEN Queued(c, "restoreSuspendContext", None)
    ELSE IF n \in c.watch /\ c.dbg # None THEN [c EXCEPT !.context = "debug"] ELSE c

alterWatches(c, n) ==
    IF isSuspended(c, n) THEN Queued(c, "restoreSuspendContext", None)
    ELSE IF n \in c.watch THEN IF c.dbg # None THEN [c EXCEPT !.context = "debug"] ELSE c
    ELSE IF c.context = "debug" \/ c.dbg = None THEN [c EXCEPT !.context = "default"] ELSE c

\* Threads whose record was not there yet when they were added.
PendingAdded(c, kernel, n) ==
    IF n \in ToSet(c.pending)
    THEN watchExit([c EXCEPT !.watch = @ \cup {n}, !.pending = RemoveFirst(@, n)], kernel, n)
    ELSE c

\* A new thread of a cached leader, or a process whose parent's record is watched.
IsClone(c, kernel, n) ==
    /\ ~InCache(c, n) /\ n \in Thread \ kernel.execed
    /\ IF n \in Forked \cup {Leader} THEN n # Leader /\ Leader \in c.watch ELSE InCache(c, Leader)

changedThread(c, kernel, n) ==
    IF n = c.exit_tid THEN c
    ELSE LET p == PendingAdded(c, kernel, n)
         IN IF IsClone(p, kernel, n)
            THEN LET a == addTask(p, kernel, n, FALSE)
                 IN watchExit(alterWatches([a EXCEPT !.clones = @ \cup {n}], n), kernel, n)
            ELSE alterWatches(p, n)

(***************************************************************************)
(* The link to a thread's record is written: taskRecHap, before the write. *)
(***************************************************************************)
taskRecHap(c, kernel, t, swap) ==
    IF c.hap[t] # "set" \/ t \in c.demise THEN {c}
    ELSE IF CloneWrongComm(c, kernel, t) THEN {stopClone(c, kernel, t)}
    ELSE IF ~HasRec(kernel, t) THEN {tidExit(r, t) : r \in rmTask(c, kernel, t, FALSE, swap)}
    ELSE IF t = kernel.cur THEN {c}
    ELSE {Queued([c EXCEPT !.demise = @ \cup {t}], "resetAlone", t)}

\* Without killed, rmTask finds no record for a thread that is gone and does nothing.
deadParrot(c, kernel, t, swap) ==
    IF t = c.exit_tid THEN rmTask(c, kernel, t, TRUE, swap)
    ELSE {tidExit(Queued(r, "clearExitBreaksAlone", None), t)
            : r \in rmTask(c, kernel, t, FALSE, swap)}

resetAlone(c, kernel, t, swap) ==
    LET gone == [c EXCEPT !.bp[t] = "absent", !.hap[t] = "absent"]
        done == IF ~HasRec(kernel, t) \/ t \notin kernel.alive THEN deadParrot(c, kernel, t, swap)
                ELSE IF c.bp[t] # "set" THEN {Raise(gone, "resetAlone")}
                ELSE {watchExit(gone, kernel, t)}
    IN {[d EXCEPT !.demise = @ \ {t}] : d \in done}

-----------------------------------------------------------------------------
(***************************************************************************)
(* The program, the kernel and the user.                                   *)
(***************************************************************************)
Init ==
    /\ k = [alive |-> {Leader}, cur |-> Leader, exiting |-> {}, execed |-> {}, born |-> {Leader}]
    /\ cm = [task_hap |-> FALSE, watch |-> {}, saved |-> {}, cache |-> <<>>, dbg |-> None,
             dbg_saved |-> None, context |-> "default", bp |-> NoBreaks, hap |-> NoBreaks,
             demise |-> {}, susp |-> {}, pending |-> <<>>, clones |-> {}, exit_tid |-> None,
             queue |-> <<>>, raised |-> None]
    /\ origin = None /\ backs = 0

\* The program and the user go on when what was handed to SIM_run_alone is done.
Idle == cm.queue = <<>>

Kept == UNCHANGED <<origin, backs>>

\* genMonitor.debug, once, of the current thread alone or of its group.
Debug ==
    /\ Idle /\ origin = None /\ k.cur \in Thread \ (k.exiting \cup k.execed \cup Forked)
    /\ \E w \in watchTasks(cm, k, k.cur, FALSE) :
         LET d == setDebugTid(w, k, FALSE) IN cm' \in {d} \cup addGroup(d, k)
    /\ origin' = k
    /\ UNCHANGED <<k, backs>>

\* Breakpoints on system calls are in the debug context.
Hooked == cm.dbg # None /\ cm.context = "debug"

\* The new thread's id is added when the call returns in its parent.
Clone(n) ==
    /\ Idle /\ k.cur \in Thread \ (k.exiting \cup k.execed \cup Forked)
    /\ n \in Thread \ k.born
    /\ k' = [k EXCEPT !.alive = @ \cup {n}, !.born = @ \cup {n}]
    /\ cm' = IF Hooked THEN addTask(cm, k, Number(n), TRUE) ELSE cm
    /\ Kept

\* trackThreads' hap on execve; the name of the program has not changed yet.
execveHap(c, kernel, t, swap) ==
    IF "trackThreads" \in ExecHooks /\ amWatching(c, kernel, t) /\ Cardinality(c.watch) # 1
    THEN rmTask(c, kernel, t, FALSE, swap) ELSE {c}

parseExecve(c, kernel, t) ==
    IF "traceAll" \in ExecHooks /\ t \in c.watch /\ t # c.dbg
    THEN stopWatchTid(c, kernel, t, FALSE) ELSE c

Exec ==
    LET t == k.cur IN
    /\ Idle /\ t \in Forked \ (k.exiting \cup k.execed)
    /\ k' = [k EXCEPT !.execed = @ \cup {t}]
    /\ IF Hooked
       THEN \E swap \in BOOLEAN : \E c \in execveHap(cm, k, t, swap) : cm' = parseExecve(c, k, t)
       ELSE UNCHANGED cm
    /\ Kept

\* Every system call that is watched asks amWatching.
Syscall ==
    /\ Idle /\ k.cur \in Thread \ k.exiting /\ Hooked
    /\ CloneWrongComm(cm, k, k.cur)
    /\ cm' = stopClone(cm, k, k.cur)
    /\ UNCHANGED k /\ Kept

\* exit or exit_group: handleExit, tidExit and stopWatchTid.
handleExit(c, kernel, t, swap) ==
    rmTask(IF CloneWrongComm(c, kernel, t) THEN stopClone(c, kernel, t) ELSE c, kernel, t, FALSE, swap)

ExitSyscall ==
    LET t == k.cur IN
    /\ Idle /\ t \in Thread \ k.exiting
    /\ k' = [k EXCEPT !.exiting = @ \cup {t}]
    /\ IF Hooked
       THEN \E swap \in BOOLEAN : \E h \in handleExit(cm, k, t, swap) :
                cm' = stopWatchTid(tidExit(h, t), k, t, FALSE)
       ELSE UNCHANGED cm
    /\ Kept

Schedule(n) ==
    /\ Idle /\ n \in (k.alive \cup {Other}) \ {k.cur}
    /\ cm' = IF cm.task_hap THEN changedThread(cm, k, n) ELSE cm
    /\ k' = [k EXCEPT !.cur = n]
    /\ Kept

\* The kernel unlinks a thread that exits, or that another one kills, or writes a link anew.
LinkWritten(t) ==
    /\ Idle
    /\ k' \in {k} \cup (IF t \in k.alive /\ (t # k.cur \/ t \in k.exiting)
                       THEN {[k EXCEPT !.alive = @ \ {t}]} ELSE {})
    /\ \E swap \in BOOLEAN : cm' \in taskRecHap(cm, k, t, swap)
    /\ Kept

addSuspendWatch ==
    /\ Idle /\ cm.dbg # None /\ k.cur \in (cm.watch \cap Suspendable) \ (cm.susp \cup k.exiting)
    /\ cm' = [cm EXCEPT !.susp = @ \cup {k.cur}, !.context = "suspend"]
    /\ UNCHANGED k /\ Kept

rmSuspendWatch ==
    /\ Idle /\ k.cur \in cm.susp \ k.exiting
    /\ cm' = Queued([cm EXCEPT !.susp = @ \ {k.cur}],
                    IF cm.dbg # None THEN "restoreDebugContext" ELSE "restoreDefaultContext", None)
    /\ UNCHANGED k /\ Kept

\* goToOrigin: nothing is watched while the target goes back; then all is set up again, twice.
\* The note of the last exit holds from its cycle on.
goToOrigin ==
    /\ Idle /\ origin # None /\ backs < MaxBacks
    /\ LET stopped == clearExitBreaksAlone(stopWatchTasksAlone(cm))
       IN \E r \in resetWatchTasks([stopped EXCEPT !.exit_tid = None], origin) :
            cm' \in watchTasks(stopWatchTasksAlone(r), origin, origin.cur, TRUE)
    /\ k' = origin /\ backs' = backs + 1
    /\ UNCHANGED origin

stopDebugging ==
    /\ Idle /\ origin # None
    /\ cm' = stopDebug(clearExitBreaksAlone(stopWatchTasksAlone(cm)))
    /\ UNCHANGED k /\ Kept

RunAlone ==
    /\ cm.queue # <<>>
    /\ LET f == Head(cm.queue)
           c == [cm EXCEPT !.queue = Tail(@)]
       IN \/ f.fn = "watchTaskHapAlone" /\ cm' = watchTaskHapAlone(c, f.arg)
          \/ f.fn = "restoreDefaultContext" /\ cm' = [c EXCEPT !.context = "default"]
          \/ f.fn = "restoreDebugContext" /\ cm' = [c EXCEPT !.context = "debug"]
          \/ f.fn = "restoreSuspendContext" /\ cm' = [c EXCEPT !.context = "suspend"]
          \/ f.fn = "stopWatchTasksAlone" /\ cm' = stopWatchTasksAlone(c)
          \/ f.fn = "clearExitBreaksAlone" /\ cm' = clearExitBreaksAlone(c)
          \/ f.fn = "resetAlone" /\ \E swap \in BOOLEAN : cm' \in resetAlone(c, k, f.arg, swap)
    /\ UNCHANGED k /\ Kept

Next ==
    \/ Debug \/ Exec \/ Syscall \/ ExitSyscall
    \/ \E t \in Thread : Clone(t) \/ LinkWritten(t)
    \/ \E n \in Task : Schedule(n)
    \/ addSuspendWatch \/ rmSuspendWatch \/ goToOrigin \/ stopDebugging
    \/ RunAlone

Spec == Init /\ [][Next]_vars

-----------------------------------------------------------------------------
(***************************************************************************)
(* Properties.                                                             *)
(***************************************************************************)
Queueable ==
    [fn : {"watchTaskHapAlone", "resetAlone"}, arg : Thread] \cup
    [fn : {"restoreDefaultContext", "restoreDebugContext", "restoreSuspendContext",
           "stopWatchTasksAlone", "clearExitBreaksAlone"}, arg : {None}]

\* A hap of setTaskHap's kind is never without its breakpoint, and a thread whose demise is
\* suspected is about to be looked at (task_rec_bp, task_rec_hap, demise_cache).
TypeOK ==
    /\ k.cur \in Task /\ k.alive \cup k.exiting \cup k.execed \subseteq k.born
    /\ cm.watch \cup cm.saved \subseteq Task /\ cm.susp \cup cm.clones \subseteq Thread
    /\ cm.context \in {"default", "debug", "suspend"}
    /\ \A t \in Thread : /\ cm.bp[t] = "absent" => cm.hap[t] = "absent"
                         /\ cm.hap[t] = "set" => cm.bp[t] = "set"
    /\ \A t \in cm.demise : Alone("resetAlone", t) \in ToSet(cm.queue)
    /\ ToSet(cm.queue) \subseteq Queueable
    /\ backs \in 0..MaxBacks

\* While there is a thread to debug, a watched thread whose watching is not suspended runs in
\* the debug context, however its record came into the list and whatever returns to the
\* default context were queued by removals (rmTask, stopWatchTid, alterWatches).
WatchedInDebugContext ==
    Idle /\ cm.dbg # None /\ k.cur \in cm.watch \ cm.susp => cm.context = "debug"

\* Another program's task never runs in the debug context, where the debugger's breakpoints
\* would stop it (alterWatches, goToOrigin, and the returns queued by removals).
OthersNotInDebug == Idle /\ k.cur = Other => cm.context # "debug"

\* No breakpoint waits for the death of a thread that is no longer watched, across exits, execs,
\* kills and going back to the origin (rmTask, stopWatchTid, stopWatchTasksAlone).
BreaksWatched == Idle => \A t \in Thread : cm.hap[t] = "set" => t \in cm.watch

\* The cache, which amWatching believes, has no thread whose record is not watched.
CachedWatched == Idle => ToSet(cm.cache) \cap Task \subseteq cm.watch

\* No handler asks a dict for a thread that is not there or an empty cache for its first one
\* (delTidRecAlone, stopWatchTid, resetAlone, rmTask).
NothingRaised == cm.raised = None

\* A process that has execed is watched only until its changed name is noticed, or if it is the
\* debugged one: "assume execve and stop watching" (isCloneWrongComm, stopWatchTid).
ExecedNotWatched ==
    cm.task_hap => \A t \in k.execed \cap cm.watch : t \in cm.clones \/ t = cm.dbg

\* Another program's task runs in the default context: "When unscheduled, new context depends
\* on new process" (alterWatches, with the suspend context too).
ContextFollowsTask ==
    Idle /\ cm.task_hap /\ cm.dbg # None /\ k.cur = Other => cm.context = "default"
=============================================================================
