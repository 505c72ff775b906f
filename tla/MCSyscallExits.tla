--------------------------- MODULE MCSyscallExits ---------------------------
(***************************************************************************)
(* Threads of the debugged program, of which t2 uses only one way out of   *)
(* the kernel, and threads of other programs.  runTo and runToCall watch   *)
(* reads, another request execs or opens, all in the debug context; an     *)
(* exec elsewhere is watched too, and all calls may be traced.             *)
(***************************************************************************)
EXTENDS SyscallExits

CONSTANTS
    t1, t2, other, read, open, execve, sysexit, iretd,
    runTo, execs, opens, toExec, runToCall, trace

MCExits == [t \in Thread |-> IF t = t2 THEN {iretd} ELSE {sysexit, iretd}]

\* The Syscall that watches execs elsewhere is named by the call.
MCEndsIn == [s \in Sys |-> IF s = toExec THEN Execve ELSE {}]

MCCell == [s \in Sys |-> IF s = toExec THEN "default" ELSE "resim"]

MCServes == [s \in Sys |-> CASE s = trace -> Call
                             [] s \in {runTo, runToCall} -> {read}
                             [] s = opens -> {open}
                             [] OTHER -> {execve}]
=============================================================================
