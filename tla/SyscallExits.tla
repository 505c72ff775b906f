---------------------------- MODULE SyscallExits ----------------------------
(***************************************************************************)
(* Returns from system calls (sharedSyscall.py), on Linux targets.  When a *)
(* thread enters a call that a Syscall watches, the Syscall parses it and  *)
(* asks the SharedSyscall for the thread's return: the ExitInfo is kept    *)
(* under the thread, and the thread is listed at each address by which     *)
(* that call may leave the kernel.  All threads of a context share one hap *)
(* per address, which is disabled while nobody is listed there.            *)
(*                                                                         *)
(* An ExitInfo is abstracted to the Syscall that asked, the call, and      *)
(* whether a call parameter may match.  What handleExit reports, and its   *)
(* fixing up of return values, are left out, and so are preserve_exit, the *)
(* callback of dataWatch, calls that end a thread, reversing, and a thread *)
(* that changes its context inside a call.  Which requests one Syscall     *)
(* serves is in SyscallManager; here a Syscall is one of few names, and    *)
(* one that is watched again has its name again.                           *)
(***************************************************************************)
EXTENDS Naturals, FiniteSets

CONSTANTS
    Thread,      \* threads of the target
    Debugged,    \* those that run in the debug context, watched all the time
    Call,        \* system calls
    Execve,      \* those of them that execute another program
    Eip,         \* addresses by which calls leave the kernel
    Exits,       \* the addresses by which the calls of a thread may leave it
    Sys,         \* names of Syscalls
    EndsIn,      \* the calls whose names a Syscall's name ends, as a dmod's may be a call's
    Cell,        \* the context a Syscall watches
    Serves,      \* the calls that it watches
    TraceAll,    \* the Syscalls that trace all calls
    Linger,      \* those that go on after a match
    AtCall,      \* those that stop at the entry of a call, as runToCall may
    SetsExits,   \* those that runTo sets, which also ask for calls under way
    MaxListed,   \* bound on how often a thread is listed at an address
    None

Context == {"default", "resim"}

ContextOf(t) == IF t \in Debugged THEN "resim" ELSE "default"

ASSUME ExitAssumption ==
    /\ Debugged \subseteq Thread /\ Debugged # {}
    /\ None \notin Call \cup Sys /\ Call \cap Sys = {}
    /\ Exits \in [Thread -> (SUBSET Eip) \ {{}}]
    /\ EndsIn \in [Sys -> SUBSET Call]
    /\ Cell \in [Sys -> Context] /\ Serves \in [Sys -> SUBSET Call]
    /\ TraceAll \subseteq Sys /\ Linger \subseteq Sys
    /\ AtCall \subseteq Sys \ (Linger \cup TraceAll)
    /\ SetsExits \subseteq Sys \ TraceAll
    /\ \A s \in TraceAll \cup SetsExits \cup AtCall : Cell[s] = "resim"
    /\ MaxListed \in Nat

VARIABLES
    in_call,     \* the call each thread is in
    shared,      \* the SharedSyscall
    live,        \* the Syscalls whose haps are set
    tracing      \* genMonitor.trace_all has the target

vars == <<in_call, shared, live, tracing>>

ExitInfo == [sys : Sys, call : Call, may_match : BOOLEAN]

Init ==
    /\ in_call = [t \in Thread |-> None]
    /\ shared = [exit_info |-> [t \in Thread |-> {}],
                 exit_tids |-> [t \in Thread |-> [e \in Eip |-> 0]],
                 exit_hap |-> [c \in Context |-> [e \in Eip |-> "none"]],
                 exit_names |-> [t \in Thread |-> None],
                 pending_execve |-> {}]
    /\ live = {}
    /\ tracing = FALSE

-----------------------------------------------------------------------------
(* SharedSyscall *)

ListedAt(h, c, e) == {t \in Thread : ContextOf(t) = c /\ h.exit_tids[t][e] > 0}

\* Mutant: the haps are disabled although others are listed.
MutDisableListed(h) ==
    [h EXCEPT !.exit_hap = [c \in Context |-> [e \in Eip |->
        IF @[c][e] = "enabled" THEN "disabled" ELSE @[c][e]]]]

\* Whoever leaves a list empty disables its hap.
DisableUnlisted(h) ==
    [h EXCEPT !.exit_hap = [c \in Context |-> [e \in Eip |->
        IF @[c][e] = "enabled" /\ ListedAt(h, c, e) = {} THEN "disabled" ELSE @[c][e]]]]

\* Mutant: a thread that is not listed is taken off the list.
MutUnlistedUnchecked(times) == times - 1

UnlistedOnce(times) == IF times > 0 THEN times - 1 ELSE 0

\* Threads are forgotten, and unlisted once at each address of their context, which is the
\* current one or that of the Syscall at every caller.
rmExitHap(h, tids) ==
    DisableUnlisted(
        [h EXCEPT !.exit_info = [t \in Thread |-> IF t \in tids THEN {} ELSE @[t]],
                  !.exit_tids = [t \in Thread |-> IF t \notin tids THEN @[t]
                                     ELSE [e \in Eip |-> UnlistedOnce(@[t][e])]]])

\* With no thread given, the lists of the current context are emptied; exit_info stays.
rmExitHaps(h, c) ==
    DisableUnlisted(
        [h EXCEPT !.exit_tids = [t \in Thread |->
            IF ContextOf(t) = c THEN [e \in Eip |-> 0] ELSE @[t]]])

stopTrace(h) ==
    [h EXCEPT !.exit_info = [t \in Thread |-> {}],
              !.exit_tids = [t \in Thread |-> [e \in Eip |-> 0]],
              !.exit_hap = [c \in Context |-> [e \in Eip |-> "none"]]]

\* One Syscall asks under a name for the returns of threads from the calls they are in.
addExitHap(h, tids, s, name, calls, may_match) ==
    [h EXCEPT
        !.exit_info = [t \in Thread |-> IF t \notin tids THEN @[t]
            ELSE {i \in @[t] : i.sys # s \/ i.call # calls[t]}
                     \cup {[sys |-> s, call |-> calls[t], may_match |-> may_match]}],
        !.exit_names = [t \in Thread |-> IF t \in tids THEN name ELSE @[t]],
        !.exit_hap = [c \in Context |-> [e \in Eip |->
            IF ListedAt(h, c, e) = {} /\ \E t \in tids : ContextOf(t) = c /\ e \in Exits[t]
            THEN "enabled" ELSE @[c][e]]],
        !.exit_tids = [t \in Thread |-> [e \in Eip |->
            IF t \in tids /\ e \in Exits[t] THEN @[t][e] + 1 ELSE @[t][e]]],
        !.pending_execve = @ \cup {t \in tids : calls[t] \in Execve}]

\* Mutant: all execs that are pending are forgotten.
MutRmPendingAll(h, t) ==
    IF t \in h.pending_execve THEN rmExitHap([h EXCEPT !.pending_execve = {}], {t}) ELSE h

rmPendingExecve(h, t) ==
    IF t \in h.pending_execve
    THEN rmExitHap([h EXCEPT !.pending_execve = @ \ {t}], {t})
    ELSE h

\* Mutant: a Syscall that goes leaves the returns that it waits for.
MutRmByNameNothing(h, syscalls) == h

\* By the ends of names, with which what a trace of all calls asked for may be taken along.  In
\* another context than the Syscall's a thread is forgotten and stays listed.
rmExitBySyscallName(h, syscalls) ==
    LET ExitsOf(s) == {t \in Thread : h.exit_names[t] \in {s} \cup EndsIn[s]}
        tids == UNION {ExitsOf(s) : s \in syscalls \ TraceAll}
        here == {t \in tids : \E s \in syscalls \ TraceAll :
                                  t \in ExitsOf(s) /\ Cell[s] = ContextOf(t)}
    IN  [rmExitHap(h, here) EXCEPT
            !.exit_info = [t \in Thread |-> IF t \in tids THEN {} ELSE @[t]],
            !.exit_names = [t \in Thread |-> IF t \in tids THEN None ELSE @[t]]]

-----------------------------------------------------------------------------
(* Syscalls *)

Instances == live \ TraceAll

\* Has the manager's dict an instance in the debug context, one being stopped among them?
remainingCallTraces == \E s \in Instances : Cell[s] = "resim"

StoppedIfLast(h) == IF remainingCallTraces THEN h ELSE stopTrace(h)

SyscallStopTrace(h, s) == StoppedIfLast(rmExitBySyscallName(h, {s}))

\* Syscall.stopHap of a Syscall that does not linger, in thread t, up to its stop action.
stopHap(h, t) == rmPendingExecve(rmExitHaps(h, ContextOf(t)), t)

isPendingExecve(t) == t \in shared.pending_execve

getPendingCall(t) == shared.exit_info[t] # {}

\* The Syscalls whose haps see thread t enter call c: at most one, as SyscallManager has it.
Watching(t, c) == {s \in live : Cell[s] = ContextOf(t) /\ c \in Serves[s]}

Enters(t, c) ==
    /\ in_call[t] = None
    /\ in_call' = [in_call EXCEPT ![t] = c]

\* A call that nobody watches, or that syscallHap takes for one inside a call.
CallIgnored(t, c) ==
    /\ Enters(t, c)
    /\ Watching(t, c) = {} \/ isPendingExecve(t) \/ getPendingCall(t)
    /\ UNCHANGED <<shared, live, tracing>>

\* Is the return wanted?  It is if a parameter may match, or everything is traced.
WantsReturn(s, t, may_match) ==
    s \in TraceAll \/ may_match \/ (tracing /\ t \in Debugged)

\* A return is asked for under the Syscall's name, that of a trace under the call's.
ExitName(s, c) == IF s \in TraceAll THEN c ELSE s

CallSeen(t, c, s, may_match) ==
    /\ Enters(t, c)
    /\ s \in Watching(t, c) \ AtCall
    /\ ~isPendingExecve(t) /\ ~getPendingCall(t)
    /\ s \in TraceAll => ~may_match
    /\ shared' = IF WantsReturn(s, t, may_match)
                 THEN addExitHap(shared, {t}, s, ExitName(s, c), in_call', may_match) ELSE shared
    /\ UNCHANGED <<live, tracing>>

\* runToCall: the request is removed, the return asked for all the same, then what was
\* handed to SIM_run_alone is done: the removal by name, and the stop.
CallStops(t, c, s) ==
    /\ Enters(t, c)
    /\ s \in Watching(t, c) \cap AtCall
    /\ ~isPendingExecve(t) /\ ~getPendingCall(t)
    /\ shared' = LET asked == addExitHap(StoppedIfLast(shared), {t}, s, s, in_call', TRUE)
                 IN  stopHap(rmExitBySyscallName(asked, {s}), t)
    /\ live' = live \ {s}
    /\ UNCHANGED tracing

-----------------------------------------------------------------------------
(* exitHap *)

\* Once info is handled no other of the thread is looked at: exit_info has a new dict.
Clears(t, info, stops) ==
    \/ info.call \in Execve /\ isPendingExecve(t)
    \/ info \in stops /\ info.sys \notin Linger

\* What is handled is all there is, or what comes up to the first that clears it.
Handled(t, handled, stops) ==
    LET clearing == {i \in handled : Clears(t, i, stops)}
    IN  \/ clearing = {} /\ handled = shared.exit_info[t]
        \/ \E i \in clearing : clearing = {i}

\* The Syscalls that stop the simulation for good.
Stopping(stops) == {i.sys : i \in stops} \ Linger

\* Mutant: the thread stays listed and pending.
MutHandleExitKeeps(h, t, handled, stops) == h

\* handleExit for what is handled, then rmExitHap.
handleExit(h, t, handled, stops) ==
    LET g == IF \E i \in handled : i.call \in Execve THEN rmPendingExecve(h, t) ELSE h
    IN  rmExitHap(IF Stopping(stops) = {} THEN g ELSE stopTrace(g), {t})

\* A return to user space trips the exit hap, if it is enabled.
exitHap(t, handled, stops) ==
    LET h == IF handled = {} THEN shared ELSE handleExit(shared, t, handled, stops)
    IN  /\ Handled(t, handled, stops)
        /\ live' = live \ Stopping(stops)
        /\ shared' = IF Stopping(stops) = {} THEN h
                     ELSE IF Stopping(stops) \cap live = {} THEN stopHap(h, t)
                     ELSE StoppedIfLast(rmExitBySyscallName(stopHap(h, t), Stopping(stops)))

Return(t, e) ==
    /\ in_call[t] # None /\ e \in Exits[t]
    /\ in_call' = [in_call EXCEPT ![t] = None]
    /\ UNCHANGED tracing
    /\ IF shared.exit_hap[ContextOf(t)][e] = "enabled"
       THEN \E handled \in SUBSET shared.exit_info[t] :
              \E stops \in SUBSET {i \in handled : i.may_match} : exitHap(t, handled, stops)
       ELSE UNCHANGED <<shared, live>>

-----------------------------------------------------------------------------
(* Commands, while the simulation is stopped *)

\* The threads that runTo finds in a call that s watches.
Waiting(s) == {t \in Debugged : in_call[t] \in Serves[s]}

\* setExits asks for some of them, those that a parameter may match; whether a return is
\* pending already it does not ask.
setExits(s, tids) ==
    /\ tids \subseteq {t \in Waiting(s) : \A e \in Eip : shared.exit_tids[t][e] < MaxListed}
    /\ shared' = IF tids = {} THEN shared ELSE addExitHap(shared, tids, s, s, in_call, TRUE)

\* A request that no Syscall of its context serves gets one of its own.
watchSyscall(s) ==
    /\ s \notin live \cup TraceAll
    /\ ~\E o \in live : Cell[o] = Cell[s] /\ (o \in TraceAll \/ Serves[o] \cap Serves[s] # {})
    /\ live' = live \cup {s}
    /\ \E tids \in SUBSET (IF s \in SetsExits THEN Debugged ELSE {}) : setExits(s, tids)
    /\ UNCHANGED <<in_call, tracing>>

\* A request whose calls a Syscall serves already joins it, and runTo asks for returns again.
addCallParams(s) ==
    /\ s \in live \cap (SetsExits \cup TraceAll)
    /\ \E tids \in SUBSET Debugged \ {{}} : setExits(s, tids)
    /\ UNCHANGED <<in_call, live, tracing>>

\* Other requests come and go, and the Syscall is stopped and made again.
Redo(s) ==
    /\ s \in Instances
    /\ shared' = SyscallStopTrace(shared, s)
    /\ UNCHANGED <<in_call, live, tracing>>

rmSyscall(s) ==
    /\ s \in Instances
    /\ shared' = SyscallStopTrace(shared, s)
    /\ live' = live \ {s}
    /\ UNCHANGED <<in_call, tracing>>

\* The Syscalls of the debug context make way; once done, it is not done again.
traceAll(s) ==
    /\ s \in TraceAll /\ ~tracing
    /\ LET gone == {o \in live : Cell[o] = Cell[s]}
       IN  /\ shared' = rmExitBySyscallName(shared, gone)
           /\ live' = (live \ gone) \cup {s}
    /\ tracing' = TRUE
    /\ UNCHANGED in_call

\* stopTrace of the monitor: the instances, then the trace, which finds the dict empty.
rmAllSyscalls ==
    /\ live # {}
    /\ shared' = LET h == rmExitBySyscallName(shared, Instances)
                 IN  IF live \cap TraceAll # {} THEN stopTrace(h) ELSE StoppedIfLast(h)
    /\ live' = {}
    /\ UNCHANGED <<in_call, tracing>>

-----------------------------------------------------------------------------
Next ==
    \/ \E t \in Thread, c \in Call : CallIgnored(t, c)
    \/ \E t \in Thread, c \in Call, s \in Sys, may_match \in BOOLEAN : CallSeen(t, c, s, may_match)
    \/ \E t \in Thread, c \in Call, s \in Sys : CallStops(t, c, s)
    \/ \E t \in Thread, e \in Eip : Return(t, e)
    \/ \E s \in Sys : watchSyscall(s) \/ addCallParams(s) \/ Redo(s) \/ rmSyscall(s) \/ traceAll(s)
    \/ rmAllSyscalls

Spec == Init /\ [][Next]_vars

-----------------------------------------------------------------------------
(* Properties *)

\* The state has its types: each thread is in at most one call, and is listed a number of
\* times at each address.
TypeOK ==
    /\ in_call \in [Thread -> Call \cup {None}]
    /\ shared \in [exit_info : [Thread -> SUBSET ExitInfo],
                   exit_tids : [Thread -> [Eip -> Nat]],
                   exit_hap : [Context -> [Eip -> {"none", "enabled", "disabled"}]],
                   exit_names : [Thread -> Sys \cup Call \cup {None}],
                   pending_execve : SUBSET Thread]
    /\ live \subseteq Sys
    /\ tracing \in BOOLEAN

\* A return that is waited for will be seen: whatever other threads that share the haps do,
\* and whichever requests come and go, the thread is listed at each address by which it may
\* leave the kernel, and the hap there is enabled.
PendingIsSeen ==
    \A t \in Thread : shared.exit_info[t] # {} =>
        \A e \in Exits[t] : /\ shared.exit_tids[t][e] > 0
                            /\ shared.exit_hap[ContextOf(t)][e] = "enabled"

\* What is reported at a return is the call that the thread made: what is kept of a thread
\* is of the call it is in, never of one that it left.
PendingIsCurrent ==
    \A t \in Thread : \A i \in shared.exit_info[t] : i.call = in_call[t]

\* Who asks for returns under a name.
AskersUnder(name) == IF name \in Call THEN TraceAll ELSE {name}

\* Whoever asked last for a thread's return has not gone: no simulation is stopped, and
\* nothing reported, for requests that were all taken back.
AskerLives ==
    \A t \in Thread : shared.exit_info[t] # {} => AskersUnder(shared.exit_names[t]) \cap live # {}

\* An exec that is traced is known to be pending until it returns, so that the calls the
\* kernel makes for it are not taken for the program's.
ExecveKnown ==
    \A t \in Thread : \A i \in shared.exit_info[t] :
        i.call \in Execve => t \in shared.pending_execve

\* syscall.py:2795: a call made while an exec is pending is one within the exec.  So the
\* thread is in its exec then.  It is not once stopTrace forgot the exec's return, and all
\* calls of the thread go unseen from then on.
PendingExecveIsCurrent ==
    \A t \in shared.pending_execve : in_call[t] \in Execve

\* docs/RESim.tex:464: runToCall continues "until the specified system call is invoked", so
\* a thread of its context that enters the call stops it.
RunToCallStops ==
    [][\A t \in Thread, s \in live \cap AtCall :
          (in_call[t] = None /\ in_call'[t] \in Serves[s] /\ ContextOf(t) = Cell[s])
              => s \notin live']_vars
=============================================================================
