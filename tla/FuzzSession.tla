---------------------------- MODULE FuzzSession ----------------------------
(***************************************************************************)
(* A fuzzing session (afl.py): AFL sends an input over a socket, RESim     *)
(* restores the snapshot 'origin', writes the input into the target's      *)
(* memory and runs until something breaks the simulation: the back stop    *)
(* (no new basic block for a while), a hang, an exit of the program, a     *)
(* function named for it.  The stop hap then sends a status and the trace  *)
(* bits, waits for the next input and starts over.  All that RESim keeps   *)
(* in Python survives the restored snapshot and must be reset by hand.     *)
(*                                                                         *)
(* The parts that meet here: afl.py, coverage.py (the block breakpoints),  *)
(* backStop.py, pageFaultGen.py for a target of one thread, the exit       *)
(* callback of the context manager, the queue of SIM_run_alone, the        *)
(* simulator, AFL and the file resim_ctl.fifo.  Inputs are numbered as AFL *)
(* sends them; what is collected in a run carries the numbers of the       *)
(* inputs it came from.  The packets of writeData.py, dead zones, test     *)
(* files, one_done and the making of a commence_params file are left out.  *)
(***************************************************************************)
EXTENDS BackStop, FiniteSets

CONSTANTS
    Block,           \* basic blocks that have a breakpoint
    Jumper,          \* blocks with a jumper, whose breakpoints are never disabled
    Suspend,         \* blocks that start a function with suspended coverage
    Page,            \* pages that the target may fault on
    BackStopCycles,  \* AFL_BACK_STOP_CYCLES
    BackStopDelay,   \* BACK_STOP_DELAY, or None
    HangCycles,      \* HANG_CYCLES
    CommenceAfter,   \* commence_after_exits, or None
    OtherTarget,     \* TRUE if the target is not the process that reads the input
    Saturated,       \* the count at which an edge's trace bit stays (255)
    MaxCycle,        \* the clock stays at this cycle
    MaxInput,        \* AFL has no more than these inputs
    MaxAlone         \* the program goes on while fewer functions than this are queued

ASSUME FuzzAssumption ==
    /\ None \notin Block \cup {"first", "next"}
    /\ Jumper \subseteq Block /\ Suspend \subseteq Block
    /\ BackStopCycles \in Nat \ {0} /\ HangCycles \in Nat
    /\ BackStopDelay \in Int \cup {None} /\ CommenceAfter \in Nat \cup {None}
    /\ CommenceAfter # None => OtherTarget
    /\ OtherTarget \in BOOLEAN /\ Saturated \in Nat \ {0}
    /\ MaxCycle \in Nat /\ BackStopCycles <= MaxCycle
    /\ MaxInput \in Nat \ {0} /\ MaxAlone \in Nat

VARIABLES
    cycle,           \* the target's clock; the origin is cycle 0
    sim,             \* "run", "breaking" (SIM_break_simulation), "stopped", "quit"
    alone,           \* what is queued with SIM_run_alone
    bs,              \* the BackStop
    cov,             \* the Coverage
    pf,              \* the PageFaultGen
    exit_callback,   \* of the context manager
    afl,             \* the AFL object
    target,          \* the program: its fault, suspended functions, reads, closed FD
    peer,            \* AFL and its end of the socket
    results          \* the results sent so far

vars == <<cycle, sim, alone, bs, cov, pf, exit_callback, afl, target, peer, results>>

OK == 0   CRASH == 1   HANG == 2   CLOSED == 3
Status == {OK, CRASH, HANG, CLOSED}

Edge == (Block \cup {None}) \X Block
NoTrace == [e \in Edge |-> 0]
NoTarget == [fault |-> None, mapped |-> FALSE, inside |-> {}, reads |-> 0]
NoResult == [input |-> 0, status |-> OK, restart |-> FALSE, from |-> {}, faulted |-> FALSE]

(***************************************************************************)
(* Coverage.  doCoverage resets what a run collects; the breakpoints that  *)
(* were disabled because their edge is saturated are enabled again.        *)
(***************************************************************************)
MutDoCoverageKeepsStatus(c) ==
    [c EXCEPT !.trace = NoTrace, !.prev = None, !.hits = {}, !.hit_255 = {},
              !.bps = @ \cup (c.hit_255 \ Jumper)]

doCoverage(c) ==
    [c EXCEPT !.trace = NoTrace, !.prev = None, !.hits = {}, !.status = OK, !.blame = {},
              !.bps = @ \cup (c.hit_255 \ Jumper), !.hit_255 = {}]

disableAll(c) == [c EXCEPT !.bps = {}]

enableAll(c) == [c EXCEPT !.bps = Block]

MutCountEdgeNoLimit(c, b, input) ==
    LET e == <<c.prev, b>> IN
    IF c.trace[e] > Saturated
    THEN [c EXCEPT !.hit_255 = @ \cup {b}, !.bps = @ \ ({b} \ Jumper), !.prev = b]
    ELSE [c EXCEPT !.trace[e] = @ + 1, !.prev = b, !.hits = @ \cup {input}]

MutCountEdgeKeepsBreak(c, b, input) ==
    LET e == <<c.prev, b>> IN
    IF c.trace[e] = Saturated
    THEN [c EXCEPT !.hit_255 = @ \cup {b}, !.prev = b]
    ELSE [c EXCEPT !.trace[e] = @ + 1, !.prev = b, !.hits = @ \cup {input}]

\* The trace bits of AFL: an edge counts up; at its limit the block is taken out.
CountEdge(c, b, input) ==
    LET e == <<c.prev, b>> IN
    IF c.trace[e] = Saturated
    THEN [c EXCEPT !.hit_255 = @ \cup {b}, !.bps = @ \ ({b} \ Jumper), !.prev = b]
    ELSE [c EXCEPT !.trace[e] = @ + 1, !.prev = b, !.hits = @ \cup {input}]

\* recordExit and recordHang
Record(c, status, input) == [c EXCEPT !.status = status, !.blame = @ \cup {input}]

Break == sim' = "breaking"

-----------------------------------------------------------------------------
(***************************************************************************)
(* Init is the end of AFL.__init__, when genMonitor calls goN(0).  For the *)
(* process at hand, doCoverage has set recordExit and __init__ then sets   *)
(* didExit, and setHangCallback came before the WriteData that sets the    *)
(* delay.  For another target the first input was taken and written        *)
(* before, and finishInit ran in a callback after __init__.                *)
(***************************************************************************)
GotData == OtherTarget /\ CommenceAfter = None

Init ==
    /\ cycle = 0 /\ sim = "stopped" /\ alone = <<Alone("goN", OK)>>
    /\ bs = IF GotData
            THEN setHangCallback(setDelay(BackStopInit, BackStopDelay), 0, HangCycles)
            ELSE BackStopInit
    /\ cov = [bps |-> IF CommenceAfter = None THEN Block ELSE {}, trace |-> NoTrace,
              prev |-> None, hits |-> {}, hit_255 |-> {}, suspended |-> {},
              status |-> OK, blame |-> {}]
    /\ pf = [pending |-> None, by |-> {}, faulted |-> {}, mode_hap |-> FALSE,
             ptable_break |-> FALSE, ptable_hap |-> FALSE]
    /\ exit_callback = IF OtherTarget THEN "recordExit" ELSE "didExit"
    /\ afl = [data |-> IF GotData THEN 1 ELSE 0, already_got_data |-> GotData,
              stop_hap |-> FALSE, restart |-> FALSE, recv |-> None,
              status |-> OK, exit_counter |-> 0, counter_hap |-> FALSE, counter_bps |-> 0,
              closed_fd |-> {}]
    /\ target = NoTarget
    /\ peer = [up |-> TRUE, inbox |-> <<>>, sent |-> IF GotData THEN 1 ELSE 0]
    /\ results = <<>>

\* Python is not waiting in a recv, and Simics was not told to quit.
Awake == afl.recv = None /\ sim # "quit"

Running == Awake /\ sim = "run"

\* The program goes on; the bound on the queue is the model's.
Stepping == Running /\ Len(alone) < MaxAlone

\* One function leaves the queue of SIM_run_alone; it may hand over others.
RunAlone(fn) == Awake /\ alone # <<>> /\ Head(alone).fn = fn

Dequeue(more) == alone' = Tail(alone) \o more

-----------------------------------------------------------------------------
(***************************************************************************)
(* Between runs: goN, which waits for the first input, and what it does    *)
(* with an input: back to the origin, clean slate, write, continue.        *)
(***************************************************************************)
goN(status, input) ==
    LET covered == doCoverage(IF CommenceAfter = None THEN cov ELSE disableAll(cov)) IN
    /\ sim' = "run" /\ cycle' = 0
    /\ target' = NoTarget
    /\ bs' = LET b == LosePosts(bs)
             IN IF BackStopDelay = None THEN b ELSE setDelay(b, BackStopDelay)
    /\ cov' = covered
    /\ afl' = [afl EXCEPT !.data = input, !.already_got_data = FALSE, !.stop_hap = TRUE,
                          !.recv = None, !.closed_fd = {},
                          !.exit_counter = IF CommenceAfter = None THEN @ ELSE 0,
                          !.counter_hap = @ \/ CommenceAfter # None,
                          !.counter_bps = IF CommenceAfter = None THEN @ ELSE @ + 1]
    /\ exit_callback' = IF status \in {CRASH, HANG} THEN "recordExit" ELSE exit_callback
    /\ UNCHANGED pf

GoN ==
    /\ RunAlone("goN")
    /\ Dequeue(<<>>)
    /\ IF afl.stop_hap \/ afl.already_got_data
       THEN goN(Head(alone).arg, afl.data) /\ UNCHANGED <<peer, results>>
       ELSE /\ afl' = [afl EXCEPT !.recv = "first"]
            /\ UNCHANGED <<cycle, sim, bs, cov, pf, exit_callback, target, peer, results>>

GetFirst ==
    /\ afl.recv = "first" /\ sim # "quit"
    /\ \/ /\ peer.inbox # <<>>
          /\ peer' = [peer EXCEPT !.inbox = Tail(@)]
          /\ goN(OK, Head(peer.inbox))
       \/ /\ peer.inbox = <<>> /\ ~peer.up
          /\ afl' = [afl EXCEPT !.recv = None]
          /\ UNCHANGED <<cycle, sim, bs, cov, pf, exit_callback, target, peer>>
    /\ UNCHANGED <<alone, results>>

-----------------------------------------------------------------------------
(***************************************************************************)
(* The end of a run: stopHap and finishUp.                                 *)
(***************************************************************************)
PendingFault == pf.pending # None

RunStatus ==
    CASE cov.status # OK -> cov.status
      [] PendingFault -> CRASH
      [] afl.closed_fd # {} -> CLOSED
      [] OTHER -> OK

\* What a result was made from: trace bits, exits and hangs, page faults, closed FD.
ResultOf(restart) ==
    [input |-> afl.data, status |-> RunStatus, restart |-> restart,
     from |-> cov.hits \cup cov.blame \cup pf.by \cup afl.closed_fd,
     faulted |-> target.fault # None /\ ~target.mapped]

MutClearPendingForgotten(f) == f

clearPendingFaults(f) == [f EXCEPT !.pending = None, !.by = {}]

rmStopHap(a) == [a EXCEPT !.stop_hap = FALSE]

\* After a restart was announced nothing more is asked of AFL.
MutAwaitInputAlways(a, restart) == [a EXCEPT !.recv = "next", !.status = RunStatus]

AwaitInput(a, restart) ==
    IF restart THEN a ELSE [a EXCEPT !.recv = "next", !.status = RunStatus]

MutQuitsOnlyWhenTold(restart, fifo) ==
    IF fifo = "quit" THEN <<Alone("quitAlone", None)>> ELSE <<>>

Quits(restart, fifo) ==
    IF restart \/ fifo = "quit" THEN <<Alone("quitAlone", None)>> ELSE <<>>

finishUp ==
    \E fifo \in {None, "restart", "quit"} :
    LET restart == afl.restart \/ fifo = "restart"
        told == [afl EXCEPT !.restart = restart]
    IN /\ pf' = clearPendingFaults(pf)
       /\ \/ /\ results' = Append(results, ResultOf(restart))
             /\ alone' = alone \o Quits(restart, fifo)
             /\ afl' = AwaitInput(told, restart)
          \/ /\ ~peer.up
             /\ afl' = rmStopHap(told)
             /\ UNCHANGED <<alone, results>>

\* What resim_ctl.fifo holds is read here, and so is whatever AFL did meanwhile.
StopHap ==
    /\ Awake /\ sim = "breaking"
    /\ sim' = "stopped"
    /\ \/ /\ ~afl.stop_hap
          /\ UNCHANGED <<alone, pf, afl, results>>
       \/ /\ afl.stop_hap /\ cycle = 0
          /\ alone' = Append(alone, Alone("SIM_continue", None))
          /\ UNCHANGED <<pf, afl, results>>
       \/ afl.stop_hap /\ cycle # 0 /\ finishUp
    /\ UNCHANGED <<cycle, bs, cov, exit_callback, target, peer>>

MutGetNextGoesFirst ==
    /\ afl.recv = "next" /\ sim # "quit"
    /\ \/ /\ peer.inbox # <<>>
          /\ peer' = [peer EXCEPT !.inbox = Tail(@)]
          /\ afl' = [afl EXCEPT !.recv = None, !.data = Head(peer.inbox)]
          /\ alone' = <<Alone("goN", afl.status)>> \o alone
       \/ /\ peer.inbox = <<>> /\ ~peer.up
          /\ afl' = rmStopHap([afl EXCEPT !.recv = None])
          /\ alone' = Append(alone, Alone("quitAlone", None))
          /\ UNCHANGED peer
    /\ UNCHANGED <<cycle, sim, bs, cov, pf, exit_callback, target, results>>

\* The recv at the end of finishUp: an input, or the end of the connection.
GetNext ==
    /\ afl.recv = "next" /\ sim # "quit"
    /\ \/ /\ peer.inbox # <<>>
          /\ peer' = [peer EXCEPT !.inbox = Tail(@)]
          /\ afl' = [afl EXCEPT !.recv = None, !.data = Head(peer.inbox)]
          /\ alone' = Append(alone, Alone("goN", afl.status))
       \/ /\ peer.inbox = <<>> /\ ~peer.up
          /\ afl' = rmStopHap([afl EXCEPT !.recv = None])
          /\ alone' = Append(alone, Alone("quitAlone", None))
          /\ UNCHANGED peer
    /\ UNCHANGED <<cycle, sim, bs, cov, pf, exit_callback, target, results>>

quitAlone ==
    /\ RunAlone("quitAlone") /\ Dequeue(<<>>)
    /\ sim' = "quit"
    /\ UNCHANGED <<cycle, bs, cov, pf, exit_callback, afl, target, peer, results>>

SIM_continue ==
    /\ RunAlone("SIM_continue") /\ Dequeue(<<>>)
    /\ sim' = "run"
    /\ UNCHANGED <<cycle, bs, cov, pf, exit_callback, afl, target, peer, results>>

-----------------------------------------------------------------------------
(***************************************************************************)
(* The handlers of a run.  The target may hit a block, fault, exit, close  *)
(* its FD or call read at any cycle.                                       *)
(***************************************************************************)
CallFutureCycle(queued) ==
    /\ bs' = setFutureCycle(bs)
    /\ alone' = alone \o FutureCycleQueue(bs, cycle, BackStopCycles) \o queued

\* Saturated, but kept for its jumper: only the back stop moves.
AlreadySaturated(b) == CallFutureCycle(<<>>) /\ UNCHANGED <<cov, target>>

\* A suspend address takes all breakpoints out until the end of its function.
SuspendHit(b) ==
    /\ b \in Suspend
    /\ bs' = clearCycle(bs)
    /\ cov' = CountEdge([disableAll(cov) EXCEPT !.suspended = @ \cup {b}], b, afl.data)
    /\ target' = [target EXCEPT !.inside = @ \cup {b}]
    /\ UNCHANGED alone

BlockHit(b) ==
    /\ b \notin Suspend
    /\ CallFutureCycle(<<>>)
    /\ cov' = CountEdge(cov, b, afl.data)
    /\ UNCHANGED target

bbHap(b) ==
    /\ Stepping /\ b \in cov.bps
    /\ IF b \in cov.hit_255 THEN AlreadySaturated(b) ELSE SuspendHit(b) \/ BlockHit(b)
    /\ UNCHANGED <<cycle, sim, pf, exit_callback, afl, peer, results>>

\* suspendAddrFromBreakNum gives the number of the breakpoint, which is no address.
suspendAddrFromBreakNum(b) == None

suspendEndHap(b) ==
    /\ Stepping /\ b \in target.inside
    /\ target' = [target EXCEPT !.inside = @ \ {b}]
    /\ IF suspendAddrFromBreakNum(b) \in cov.suspended
       THEN /\ CallFutureCycle(<<>>)
            /\ cov' = [enableAll(cov) EXCEPT !.suspended = @ \ {b}]
       ELSE UNCHANGED <<bs, alone, cov>>
    /\ UNCHANGED <<cycle, sim, pf, exit_callback, afl, peer, results>>

\* Each breakpoint ever set at exit_eip and not removed calls the handler once.
counterHap ==
    LET count == afl.exit_counter + afl.counter_bps
        commence == afl.exit_counter < CommenceAfter /\ count >= CommenceAfter
    IN /\ Stepping /\ CommenceAfter # None /\ target.reads < CommenceAfter
       /\ target' = [target EXCEPT !.reads = @ + 1]
       /\ IF afl.counter_hap
          THEN /\ afl' = [afl EXCEPT !.exit_counter = IF commence THEN CommenceAfter ELSE count,
                                     !.counter_hap = ~commence]
               /\ cov' = IF commence THEN enableAll(cov) ELSE cov
               /\ alone' = alone \o (IF commence THEN <<Alone("setHangCallback", None),
                                                        Alone("rmCounterHap", None)>> ELSE <<>>)
          ELSE UNCHANGED <<afl, cov, alone>>
       /\ UNCHANGED <<cycle, sim, bs, pf, exit_callback, peer, results>>

rmCounterHap ==
    /\ RunAlone("rmCounterHap") /\ Dequeue(<<>>)
    /\ afl' = [afl EXCEPT !.counter_bps = @ - 1]
    /\ UNCHANGED <<cycle, sim, bs, cov, pf, exit_callback, target, peer, results>>

\* An exit that the context manager or the exit system calls report: didExit or recordExit.
TargetExits ==
    /\ Stepping /\ Break
    /\ cov' = IF exit_callback = "recordExit" THEN Record(cov, CRASH, afl.data) ELSE cov
    /\ UNCHANGED <<cycle, alone, bs, pf, exit_callback, afl, target, peer, results>>

functionBackstopHap ==
    /\ Stepping /\ Break
    /\ UNCHANGED <<cycle, alone, bs, cov, pf, exit_callback, afl, target, peer, results>>

\* Whether a close ends the run is the choice stop_on_close.
closeHap ==
    /\ Stepping
    /\ Break \/ UNCHANGED sim
    /\ afl' = [afl EXCEPT !.closed_fd = {afl.data}]
    /\ UNCHANGED <<cycle, alone, bs, cov, pf, exit_callback, target, peer, results>>

-----------------------------------------------------------------------------
(***************************************************************************)
(* Page faults of the one thread (pageFaultGen.py).  A fault is pending    *)
(* until its page is mapped, or it is taken for one of a growing stack; a  *)
(* page that faulted before is ignored.                                    *)
(***************************************************************************)
pageFaultHap(p) ==
    /\ Stepping /\ target.fault = None
    /\ target' = [target EXCEPT !.fault = p]
    /\ IF p \in pf.faulted THEN UNCHANGED <<pf, alone>>
       ELSE /\ pf' = [pf EXCEPT !.faulted = @ \cup {p}, !.pending = IF @ = None THEN p ELSE @,
                                !.by = IF pf.pending = None THEN {afl.data} ELSE @,
                                !.mode_hap = @ \/ pf.pending = None]
            /\ alone' = Append(alone, Alone("pageFaultHapAlone", None))
    /\ UNCHANGED <<cycle, sim, bs, cov, exit_callback, afl, peer, results>>

\* watchPtable: the number of the breakpoint stays when it is deleted, so one is ever set.
pageFaultHapAlone ==
    /\ RunAlone("pageFaultHapAlone") /\ Dequeue(<<>>)
    /\ pf' = [pf EXCEPT !.ptable_hap = @ \/ ~pf.ptable_break, !.ptable_break = TRUE]
    /\ UNCHANGED <<cycle, sim, bs, cov, exit_callback, afl, target, peer, results>>

ptableWriteHap ==
    /\ Stepping /\ target.fault # None /\ pf.ptable_hap
    /\ target' = [target EXCEPT !.mapped = TRUE]
    /\ pf' = [clearPendingFaults(pf) EXCEPT !.ptable_hap = FALSE]
    /\ UNCHANGED <<cycle, sim, alone, bs, cov, exit_callback, afl, peer, results>>

\* The program is back in user space.  The pending page is mapped then, or still is not, and
\* is taken for a growing stack or kept.
modeChanged ==
    /\ Stepping
    /\ target.fault # None \/ pf.mode_hap
    /\ target' = [target EXCEPT !.fault = None, !.mapped = FALSE]
    /\ IF pf.mode_hap
       THEN /\ pf' \in {[clearPendingFaults(pf) EXCEPT !.ptable_hap = @ /\ pf.pending = None],
                       clearPendingFaults(pf), pf}
            /\ alone' = IF pf'.pending = None
                        THEN Append(alone, Alone("rmModeHapAlone", None)) ELSE alone
       ELSE UNCHANGED <<pf, alone>>
    /\ UNCHANGED <<cycle, sim, bs, cov, exit_callback, afl, peer, results>>

rmModeHapAlone ==
    /\ RunAlone("rmModeHapAlone") /\ Dequeue(<<>>)
    /\ pf' = [pf EXCEPT !.mode_hap = FALSE]
    /\ UNCHANGED <<cycle, sim, bs, cov, exit_callback, afl, target, peer, results>>

-----------------------------------------------------------------------------
(***************************************************************************)
(* Time, the two events of the back stop, and its deferred calls.          *)
(***************************************************************************)
Tick ==
    /\ Running /\ ~BackStopDue(bs) /\ ~HangDue(bs)
    /\ cycle' = IF cycle < MaxCycle THEN cycle + 1 ELSE cycle
    /\ bs' = PassCycle(bs)
    /\ UNCHANGED <<sim, alone, cov, pf, exit_callback, afl, target, peer, results>>

BackStopEvent ==
    /\ Running /\ BackStopDue(bs)
    /\ bs' = cycle_handler(bs)
    /\ IF bs.back_stop_cycle THEN Break ELSE UNCHANGED sim
    /\ UNCHANGED <<cycle, alone, cov, pf, exit_callback, afl, target, peer, results>>

recordHang ==
    /\ cov' = Record(cov, HANG, afl.data)
    /\ sim' = IF sim = "run" THEN "breaking" ELSE sim

HangEvent ==
    /\ Running /\ HangDue(bs)
    /\ bs' = hang_handler(bs)
    /\ IF bs.delay = None THEN recordHang ELSE UNCHANGED <<cov, sim>>
    /\ UNCHANGED <<cycle, alone, pf, exit_callback, afl, target, peer, results>>

HangCallback ==
    /\ RunAlone("hang_callback") /\ Dequeue(<<>>)
    /\ recordHang
    /\ UNCHANGED <<cycle, bs, pf, exit_callback, afl, target, peer, results>>

DeferredFutureCycle ==
    /\ RunAlone("setFutureCycleAlone") /\ Dequeue(<<>>)
    /\ bs' = setFutureCycleAlone(bs, Head(alone).arg)
    /\ UNCHANGED <<cycle, sim, cov, pf, exit_callback, afl, target, peer, results>>

DeferredHangCallback ==
    /\ RunAlone("setHangCallback") /\ Dequeue(<<>>)
    /\ bs' = setHangCallback(bs, cycle, HangCycles)
    /\ UNCHANGED <<cycle, sim, cov, pf, exit_callback, afl, target, peer, results>>

-----------------------------------------------------------------------------
(***************************************************************************)
(* AFL sends an input when it has the result of the last one, and may go   *)
(* away.  Both are seen only where RESim sends or receives, so that is     *)
(* where they happen here.                                                 *)
(***************************************************************************)
AflSends ==
    /\ peer.up /\ afl.recv # None /\ peer.sent = Len(results) /\ peer.sent < MaxInput
    /\ peer' = [peer EXCEPT !.sent = @ + 1, !.inbox = Append(@, peer.sent + 1)]
    /\ UNCHANGED <<cycle, sim, alone, bs, cov, pf, exit_callback, afl, target, results>>

AflLeaves ==
    /\ peer.up /\ (sim = "breaking" \/ afl.recv # None)
    /\ peer' = [peer EXCEPT !.up = FALSE]
    /\ UNCHANGED <<cycle, sim, alone, bs, cov, pf, exit_callback, afl, target, results>>

RunDeferred ==
    \/ GoN \/ SIM_continue \/ quitAlone \/ rmCounterHap
    \/ pageFaultHapAlone \/ rmModeHapAlone
    \/ HangCallback \/ DeferredFutureCycle \/ DeferredHangCallback

Program ==
    \/ \E b \in Block : bbHap(b) \/ suspendEndHap(b)
    \/ \E p \in Page : pageFaultHap(p)
    \/ ptableWriteHap \/ modeChanged \/ counterHap \/ closeHap
    \/ TargetExits \/ functionBackstopHap

Clock == Tick \/ BackStopEvent \/ HangEvent

Session == StopHap \/ GetFirst \/ GetNext

Next == RunDeferred \/ Program \/ Clock \/ Session \/ AflSends \/ AflLeaves

Spec == Init /\ [][Next]_vars

(***************************************************************************)
(* Simics runs what is queued and calls its haps, the clock advances, and  *)
(* AFL sends its next input or goes away.                                  *)
(***************************************************************************)
FairSpec ==
    Spec /\ WF_vars(RunDeferred) /\ WF_vars(Clock) /\ WF_vars(Session)
         /\ WF_vars(AflSends \/ AflLeaves)

-----------------------------------------------------------------------------
(***************************************************************************)
(* Properties                                                              *)
(***************************************************************************)
Input == 0 .. MaxInput
BackStopType(b) ==
    /\ b.cycle_event \in BOOLEAN /\ b.back_stop_cycle \in BOOLEAN
    /\ b.hang_callback \in BOOLEAN
    /\ b.post \in Nat \cup {None} /\ b.delay \in Int \cup {None}
    /\ b.hang_cycles \in Nat \cup {None} /\ b.hang_delta \in Nat
    /\ b.hang_posts \subseteq Nat

\* The shape of the session's state (afl.py, coverage.py, pageFaultGen.py, backStop.py).
TypeOK ==
    /\ cycle \in 0 .. MaxCycle /\ sim \in {"run", "breaking", "stopped", "quit"}
    /\ BackStopType(bs)
    /\ cov.bps \subseteq Block /\ cov.hit_255 \subseteq Block /\ cov.suspended \subseteq Block
    /\ cov.trace \in [Edge -> 0 .. Saturated] /\ cov.prev \in Block \cup {None}
    /\ cov.hits \subseteq Input /\ cov.blame \subseteq Input /\ cov.status \in Status
    /\ pf.pending \in Page \cup {None} /\ pf.faulted \subseteq Page /\ pf.by \subseteq Input
    /\ exit_callback \in {"didExit", "recordExit"}
    /\ afl.data \in Input /\ afl.recv \in {None, "first", "next"} /\ afl.status \in Status
    /\ afl.counter_bps \in Nat /\ afl.exit_counter \in Nat
    /\ peer.up \in BOOLEAN /\ peer.sent \in Input

\* What AFL is told of an input was collected in the run of that input: no trace bit,
\* exit, hang, page fault or closed FD of an earlier run is in it, although the snapshot
\* does not reset any of them (goN, doCoverage, finishUp).
ResultsAreOwn ==
    \A i \in DOMAIN results : results[i].from \subseteq {results[i].input}

\* The session implements the rounds of AFL: one result for each input, in turn, none
\* taken after a restart was announced (finishUp, goN, getMsg).  The input that __init__
\* took before the snapshot counts as taken when goN begins with it.
Taken == IF afl.already_got_data THEN 0 ELSE afl.data
Reported(r) == [input |-> r.input, status |-> r.status, restart |-> r.restart]

Sent == [i \in DOMAIN results |-> Reported(results[i])]

Rounds == INSTANCE FuzzRounds WITH taken <- Taken, results <- Sent

ImplementsRounds == Rounds!Spec

\* The back stop only ends a run that hit a block itself and that many cycles later: an
\* event left by an earlier run ends none (backStop.py, goN).
BackStopOfThisRun ==
    [][BackStopEvent /\ sim' = "breaking" => afl.data \in cov.hits /\ cycle >= BackStopCycles]_vars

\* Once the back stop is posted the run comes to an end, whatever the program does: a
\* block that goes on hitting saturates and stops moving the back stop (coverage.bbHap).
ArmedRunEnds == (sim = "run" /\ bs.post # None) ~> (sim # "run")

\* No input is found to hang unless its run went on for HANG_CYCLES: neither a limit left
\* by an earlier run nor a queued callback makes a hang of a run that has only begun
\* (backStop.setFutureCycle, setHangCallback).
NoFalseHang ==
    [][results' # results /\ results'[Len(results')].status = HANG => cycle >= HangCycles]_vars

\* A restart that was announced to AFL, or a quit that was called for, takes effect,
\* although finishUp goes on to wait for the next input (afl.py finishUp, getMsg).
Leaving ==
    \/ results # <<>> /\ results[Len(results)].restart
    \/ \E i \in DOMAIN alone : alone[i].fn = "quitAlone"

QuitObeyed == Leaving ~> (sim = "quit")

\* docs/RESim.tex:2469: a run that ends with an unresolved page fault is a crash.
UnresolvedFaultIsCrash ==
    \A i \in DOMAIN results : results[i].faulted => results[i].status \in {CRASH, HANG}

\* docs/RESim.tex:881: no run goes on for more than HANG_CYCLES.
RunsWithinHangLimit == sim = "run" => cycle <= HangCycles

\* docs/RESim.tex:2505: coverage is suspended only until the function's end is hit.
CoverageResumes == sim = "run" => cov.suspended \subseteq target.inside

\* docs/RESim.tex:722: no block is tracked before the given number of reads of this run.
CommencesOnTime ==
    sim = "run" /\ CommenceAfter # None /\ target.reads < CommenceAfter => cov.bps = {}
=============================================================================
