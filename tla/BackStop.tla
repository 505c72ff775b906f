------------------------------ MODULE BackStop ------------------------------
(***************************************************************************)
(* The back stop (backStop.py): a cycle event that ends a run some cycles  *)
(* after the last thing that was worth running for, and a second event     *)
(* that ends a run which hangs.  A back stop is a record:                  *)
(*   cycle_event      the event is registered                              *)
(*   back_stop_cycle  a cycle is set; the handler asks for nothing else    *)
(*   post             cycles left until the posted event comes, or None    *)
(*   delay            calls of setFutureCycle left to ignore, or None      *)
(*   hang_cycles      the absolute cycle of a hang, or None                *)
(*   hang_delta       hang_cycles_delta, the cycles a run may take         *)
(*   hang_callback    a callback for hangs was given                       *)
(*   hang_posts       cycles left until each posted hang event             *)
(* What is handed to SIM_run_alone is appended to the caller's queue.      *)
(***************************************************************************)
EXTENDS Integers, Sequences

CONSTANT None   \* Python's None

ASSUME NoneAssumption == None \notin Int

\* A function handed to SIM_run_alone, with its argument.
Alone(fn, arg) == [fn |-> fn, arg |-> arg]

BackStopInit ==
    [cycle_event |-> FALSE, back_stop_cycle |-> FALSE, post |-> None, delay |-> None,
     hang_cycles |-> None, hang_delta |-> 0, hang_callback |-> FALSE, hang_posts |-> {}]

clearCycle(b) ==
    [b EXCEPT !.post = IF b.cycle_event THEN None ELSE @, !.back_stop_cycle = FALSE]

setFutureCycleAlone(b, cycles) ==
    [b EXCEPT !.cycle_event = TRUE, !.back_stop_cycle = TRUE, !.post = cycles]

\* The first calls, as many as the delay says, only count the delay down.
Deferred(b) == b.delay # None /\ b.delay # 1

setFutureCycle(b) ==
    [b EXCEPT !.delay = IF @ = None \/ @ = 1 THEN None ELSE @ - 1]

\* What a call of setFutureCycle (with now=False) hands to SIM_run_alone.
FutureCycleQueue(b, cycle, cycles) ==
    (IF b.hang_cycles # None /\ cycle >= b.hang_cycles
     THEN <<Alone("hang_callback", None)>> ELSE <<>>)
    \o (IF b.hang_cycles = None /\ b.hang_delta > 0
        THEN <<Alone("setHangCallback", None)>> ELSE <<>>)
    \o (IF Deferred(b) THEN <<>> ELSE <<Alone("setFutureCycleAlone", cycles)>>)

MutSetHangCallbackNow(b, cycle, cycles) ==
    IF b.delay = None THEN b
    ELSE [b EXCEPT !.hang_delta = cycles, !.hang_callback = TRUE,
                   !.hang_cycles = cycle, !.hang_posts = @ \cup {cycles}]

\* Without a delay the method returns before it does anything.
setHangCallback(b, cycle, cycles) ==
    IF b.delay = None THEN b
    ELSE [b EXCEPT !.hang_delta = cycles, !.hang_callback = TRUE,
                   !.hang_cycles = cycle + cycles, !.hang_posts = @ \cup {cycles}]

setDelay(b, delay) == [b EXCEPT !.delay = delay]

\* The posted event comes: the handler breaks the simulation if a cycle is set.
BackStopDue(b) == b.post = 0

cycle_handler(b) ==
    IF b.back_stop_cycle THEN clearCycle([b EXCEPT !.post = None]) ELSE [b EXCEPT !.post = None]

HangDue(b) == 0 \in b.hang_posts

\* The hang event is used up; a delay that still counts keeps it from calling back.
hang_handler(b) == [b EXCEPT !.hang_posts = @ \ {0}]

\* Both events are registered with Sim_EC_Notsaved: a snapshot does not hold them.
LosePosts(b) == [b EXCEPT !.post = None, !.hang_posts = {}]

\* One cycle passes; no event may be due.
PassCycle(b) ==
    [b EXCEPT !.post = IF @ = None THEN None ELSE @ - 1,
              !.hang_posts = {n - 1 : n \in @}]
=============================================================================
