----------------------------- MODULE ReverseMgr -----------------------------
(***************************************************************************)
(* Reverse execution by snapshots: class ReverseMgr of                     *)
(* simics/monitorCore/reverseMgr.py, on a simulator without native         *)
(* reversing (nativeReverse() is False).  Time is cpu.cycles; one Tick     *)
(* executes the instruction at the current cycle.  An event posted for     *)
(* cycle c runs before the instruction at c.                               *)
(*                                                                         *)
(* SIM_continue blocks its caller, so the methods that call it are cut     *)
(* there: pc says which SIM_continue the simulator is in (Running), or     *)
(* which code is next.  No user command is taken until pc is "stopped" and *)
(* the work queued with SIM_run_alone (assess) is done.                    *)
(***************************************************************************)
EXTENDS SpanRecorder, FiniteSets

CONSTANTS
  Bps,        \* breakpoints that can be set with SIM_breakpoint
  Hits,       \* Hits[b]: the cycles whose instruction accesses what b watches
  KeepsPosts, \* what restoring a snapshot may do to the events of class
              \* Sim_EC_Notsaved that lie ahead: keep them (TRUE), drop them
  MaxCycle,   \* bound: the user does not run the simulation past this cycle
  MaxCommands \* bound: commands given, continue and stop not counted

ASSUME HitsAssumption == Hits \in [Bps -> SUBSET Nat]
ASSUME KeepsPostsAssumption == KeepsPosts \subseteq BOOLEAN
ASSUME BoundsAssumption == MaxCycle \in Nat /\ MaxCommands \in Nat

VARIABLES
  cycles,               \* cpu.cycles
  frontier,             \* the furthest cycle executed since enableReverse
  pc, ret,              \* control; ret: who called skipToCycle
  target,               \* argument of the running skipToCycle, or its expect
  count,                \* retries of the run to the reverse_to point
  assess,               \* stopHap was called and its queued work is not done
  rec,                  \* recorder state, see SpanRecorder
  snaps,                \* cycles c for which the snapshot 'cycle_<c>' exists
  continuation_hap,     \* the Core_Continuation hap is set
  sim_breakpoints,      \* set with SIM_breakpoint
  aliased,              \* bp_list is the sim_breakpoints list (else empty)
  enabled,              \* breakpoints not disabled in the simulator
  break_haps,           \* breakpoints with an entry in break_haps, the list
  live_haps,            \* those of them whose Core_Breakpoint_Memop hap is live
  lost_haps,            \* breakpoints with a live hap that left the list undeleted
  break_cycles,         \* keys of break_cycles
  current_span_start, current_span_end,
  reverse_from, reverse_to, was_at_reverse_point,
  first_skip,           \* argument of the next skipBackAndRunForward
  callback,             \* a callback is set
  span_end_posts, delta_posts,  \* pending span_end_cycle and delta_cycle events
  disturbed,            \* the running skip or scan was stopped by something else
  report,               \* outcome of the last command, as its caller sees it
  commands              \* commands given so far

timeVars == <<cycles, frontier>>
ctlVars == <<pc, ret, target, count, assess>>
recVars == <<rec, snaps, continuation_hap>>
bpVars == <<sim_breakpoints, aliased, enabled>>
hapVars == <<break_haps, live_haps, lost_haps, break_cycles>>
revVars == <<current_span_start, current_span_end, reverse_from, reverse_to,
             was_at_reverse_point, first_skip, callback>>
evVars == <<span_end_posts, delta_posts>>
obsVars == <<disturbed, report>>
vars == <<timeVars, ctlVars, recVars, bpVars, hapVars, revVars, evVars, obsVars,
          commands>>

Running == {"running", "toCycle", "toReverse", "scan"}
Internal == {"skip", "ranTo", "skipRet", "back", "arm"}
Outcomes == {"none", "skipTrue", "skipFalse", "hit", "noHit", "origin",
             "stuck", "bail", "raised"}
Report == [kind : Outcomes, want : Cycle \cup {None}]

NoReport == [kind |-> "none", want |-> None]

\* The run to the reverse_to point is given up when count > 5, after the SIM_continue
\* that made it so has returned, wherever that ended.
MaxTries == 6

MutLargestFirst(S) == CHOOSE x \in S : \A y \in S : x <= y

Largest(S) == CHOOSE x \in S : \A y \in S : y <= x

bp_list == IF aliased THEN sim_breakpoints ELSE {}

\* The breakpoints with a hap.  setBreakHaps may add one where another is live;
\* those of one breakpoint in the list act as one, and stopHap deletes them all.
Hooked == live_haps \cup lost_haps

TypeTime ==
  /\ cycles \in Cycle /\ frontier \in Cycle
  /\ span_end_posts \in SUBSET Cycle /\ delta_posts \in SUBSET Cycle
  /\ break_cycles \in SUBSET Cycle

TypeControl ==
  /\ pc \in {"stopped"} \cup Running \cup Internal
  /\ ret \in {"user", "callback"}
  /\ target \in Cycle /\ count \in 0..MaxTries
  /\ assess \in BOOLEAN /\ disturbed \in BOOLEAN
  /\ report \in Report
  /\ commands \in 0..MaxCommands

TypeRecording ==
  /\ rec \in Recorder
  /\ snaps \in SUBSET Cycle
  /\ continuation_hap \in BOOLEAN

TypeBreaks ==
  /\ sim_breakpoints \in SUBSET Bps /\ enabled \in SUBSET Bps
  /\ break_haps \in SUBSET Bps /\ live_haps \in SUBSET Bps
  /\ lost_haps \in SUBSET Bps
  /\ aliased \in BOOLEAN

TypeReverse ==
  /\ current_span_start \in Cycle \cup {None}
  /\ current_span_end \in Cycle \cup {None}
  /\ reverse_from \in Cycle \cup {None} /\ reverse_to \in Cycle \cup {None}
  /\ was_at_reverse_point \in BOOLEAN /\ first_skip \in BOOLEAN
  /\ callback \in BOOLEAN

TypeOK == TypeTime /\ TypeControl /\ TypeRecording /\ TypeBreaks /\ TypeReverse

Init ==
  /\ cycles = 0 /\ frontier = 0
  /\ pc = "stopped" /\ ret = "user" /\ target = 0 /\ count = 0 /\ assess = FALSE
  /\ rec = InitRecorder /\ snaps = {} /\ continuation_hap = FALSE
  /\ sim_breakpoints = {} /\ aliased = FALSE /\ enabled = {}
  /\ break_haps = {} /\ live_haps = {} /\ lost_haps = {} /\ break_cycles = {}
  /\ current_span_start = None /\ current_span_end = None
  /\ reverse_from = None /\ reverse_to = None /\ was_at_reverse_point = FALSE
  /\ first_skip = FALSE /\ callback = FALSE
  /\ span_end_posts = {} /\ delta_posts = {}
  /\ disturbed = FALSE /\ report = NoReport /\ commands = 0

-----------------------------------------------------------------------------
(* Commands.  They are given when the simulation is stopped and nothing is *)
(* queued.                                                                 *)

Idle == pc = "stopped" /\ ~assess

Return(kind, want) == report' = [kind |-> kind, want |-> want]

\* restoreSnapshot of a snapshot that exists and holds cycle c.  The
\* breakpoints are disabled around it and all enabled after it.
RestoreTo(r, c, keep) ==
  /\ cycles' = c
  /\ rec' = RestoreRecorder(r, c, keep)
  /\ span_end_posts' = RestoredPosts(span_end_posts, c, keep)
  /\ delta_posts' = RestoredPosts(delta_posts, c, keep)
  /\ enabled' = enabled \cup sim_breakpoints

enableReverse(two_step, keep) ==
  /\ Idle /\ ~reverseEnabled(rec)
  /\ frontier' = cycles
  /\ continuation_hap' = TRUE
  /\ LET r == [rec EXCEPT !.origin_cycle = cycles] IN
     IF two_step
     THEN /\ rec' = setNextCycle(RestoreRecorder(r, cycles, keep), cycles)
          /\ span_end_posts' = RestoredPosts(span_end_posts, cycles, keep)
          /\ delta_posts' = RestoredPosts(delta_posts, cycles, keep)
          /\ enabled' = enabled \cup sim_breakpoints
     ELSE /\ rec' = setNextCycle(r, cycles)
          /\ UNCHANGED <<evVars, enabled>>
  /\ report' = NoReport
  /\ UNCHANGED <<cycles, ctlVars, snaps, sim_breakpoints, aliased, hapVars,
                 revVars, disturbed>>

\* reset drops the list of haps and deletes none of them.
disableReverse ==
  /\ Idle
  /\ rec' = ResetRecorder(cancelSpanCycle(rec))
  /\ snaps' = {}
  /\ continuation_hap' = FALSE
  /\ aliased' = FALSE
  /\ break_haps' = {} /\ break_cycles' = {}
  /\ live_haps' = {} /\ lost_haps' = Hooked
  /\ current_span_start' = None /\ current_span_end' = None
  /\ reverse_from' = None /\ reverse_to' = None
  /\ was_at_reverse_point' = FALSE /\ callback' = FALSE
  /\ report' = NoReport
  /\ UNCHANGED <<timeVars, ctlVars, sim_breakpoints, enabled, first_skip,
                 evVars, disturbed>>

SIM_breakpoint(b) ==
  /\ Idle /\ b \notin sim_breakpoints
  /\ sim_breakpoints' = sim_breakpoints \cup {b}
  /\ enabled' = enabled \cup {b}
  /\ report' = NoReport
  /\ UNCHANGED <<timeVars, ctlVars, recVars, aliased, hapVars, revVars, evVars,
                 disturbed>>

\* The simulator numbers breakpoints afresh: no hap is left for the number.
SIM_delete_breakpoint(b) ==
  /\ Idle /\ b \in sim_breakpoints
  /\ sim_breakpoints' = sim_breakpoints \ {b}
  /\ enabled' = enabled \ {b}
  /\ live_haps' = live_haps \ {b} /\ lost_haps' = lost_haps \ {b}
  /\ report' = NoReport
  /\ UNCHANGED <<timeVars, ctlVars, recVars, aliased, break_haps, break_cycles,
                 revVars, evVars, disturbed>>

\* The user's continue, with the Core_Continuation hap if it is set.
Continue ==
  /\ Idle
  /\ pc' = "running"
  /\ rec' = IF continuation_hap THEN continuationHap(rec, cycles) ELSE rec
  /\ report' = NoReport
  /\ UNCHANGED <<timeVars, ret, target, count, assess, snaps, continuation_hap, bpVars,
                 hapVars, revVars, evVars, disturbed>>

\* The early returns of skipToCycle.
SkipRefused(t) == ~reverseEnabled(rec) \/ t < rec.origin_cycle
SkipDone(t) == SkipRefused(t) \/ t = cycles

\* Entry of skipToCycle for caller who.
EnterSkip(t, who) ==
  /\ target' = t
  /\ ret' = who
  /\ disturbed' = (disturbed /\ who # "user")
  /\ pc' = IF SkipDone(t) THEN "skipRet" ELSE "skip"

skipToCycle(t) ==
  /\ Idle
  /\ EnterSkip(t, "user")
  /\ report' = NoReport
  /\ UNCHANGED <<timeVars, count, assess, recVars, bpVars, hapVars, revVars,
                 evVars>>

revOne == cycles > 0 /\ skipToCycle(cycles - 1)

skipToOrigin(keep) ==
  /\ Idle /\ reverseEnabled(rec)
  /\ RestoreTo(rec, rec.origin_cycle, keep)
  /\ Return("origin", rec.origin_cycle)
  /\ UNCHANGED <<frontier, ctlVars, snaps, continuation_hap, sim_breakpoints,
                 aliased, hapVars, revVars, disturbed>>

reverse(to, cb, keep) ==
  /\ Idle /\ reverseEnabled(rec)
  /\ reverse_to' = to
  /\ callback' = (callback \/ cb)
  /\ break_cycles' = {}
  /\ reverse_from' = cycles
  /\ aliased' = TRUE
  /\ IF sim_breakpoints = {}
     THEN /\ RestoreTo(cancelSpanCycle(rec), rec.origin_cycle, keep)
          /\ Return("origin", to)
          /\ UNCHANGED <<pc, first_skip, disturbed>>
     ELSE /\ rec' = cancelSpanCycle(rec)
          /\ pc' = "back" /\ first_skip' = TRUE
          /\ disturbed' = FALSE /\ report' = NoReport
          /\ UNCHANGED <<cycles, evVars, enabled>>
  /\ UNCHANGED <<frontier, ret, target, count, assess, snaps, continuation_hap,
                 sim_breakpoints, break_haps, live_haps, lost_haps,
                 current_span_start, current_span_end, was_at_reverse_point>>

-----------------------------------------------------------------------------
(* skipToCycle past its early returns, and runToCycle.                     *)

\* skipToCycle restores 'origin' ...
FromOrigin(t) ==
  \/ rec.latest_span_end = None
  \/ t <= rec.latest_span_end /\ getMasked(t) < rec.origin_cycle

MutSkipMarkLatest(t) ==
  IF rec.latest_span_end \in snaps THEN rec.latest_span_end ELSE getMasked(t)

\* ... or 'cycle_<n>' with this n.
SkipMark(t) ==
  IF t <= rec.latest_span_end THEN getMasked(t)
  ELSE IF rec.latest_span_end \in snaps \/ snaps = {} THEN rec.latest_span_end
  ELSE Largest(snaps)

\* The last branch does not run forward when the skip began on the mark itself.
SkipStays(t) ==
  ~FromOrigin(t) /\ t <= rec.latest_span_end /\ SkipMark(t) = cycles

SkipRestore(keep) ==
  /\ pc = "skip"
  /\ LET known == FromOrigin(target) \/ SkipMark(target) \in snaps
         c == IF FromOrigin(target) THEN rec.origin_cycle
              ELSE IF known THEN SkipMark(target) ELSE cycles
         runs == ~SkipStays(target) /\ c < target
         r == cancelSpanCycle(rec)
         breaks == enabled \cup sim_breakpoints
     IN /\ cycles' = c
        /\ rec' = IF known THEN RestoreRecorder(r, c, keep) ELSE r
        /\ span_end_posts' = IF known THEN RestoredPosts(span_end_posts, c, keep)
                             ELSE span_end_posts
        /\ delta_posts' = IF runs THEN {target}
                          ELSE IF known THEN RestoredPosts(delta_posts, c, keep)
                          ELSE delta_posts
        /\ enabled' = IF runs THEN breaks \ bp_list ELSE breaks
        /\ continuation_hap' = (continuation_hap /\ ~runs)
        /\ pc' = IF runs THEN "toCycle" ELSE "skipRet"
  /\ UNCHANGED <<frontier, ret, target, count, assess, snaps, sim_breakpoints,
                 aliased, hapVars, revVars, obsVars>>

\* runToCycle after its SIM_continue: setNextCycle, then enableAll.
RanToCycle ==
  /\ pc = "ranTo"
  /\ rec' = setNextCycle(rec, cycles)
  /\ IF SetNextRaises(rec, cycles)
     THEN /\ pc' = "stopped"
          /\ Return("raised", target)
          /\ UNCHANGED <<continuation_hap, enabled>>
     ELSE /\ pc' = "skipRet"
          /\ continuation_hap' = TRUE
          /\ enabled' = enabled \cup bp_list
          /\ UNCHANGED report
  /\ UNCHANGED <<timeVars, ret, target, count, assess, snaps, sim_breakpoints,
                 aliased, hapVars, revVars, evVars, disturbed>>

\* skipToCycle returns to the user ...
SkipReturn ==
  /\ pc = "skipRet" /\ ret = "user"
  /\ pc' = "stopped"
  /\ Return(IF SkipRefused(target) THEN "skipFalse" ELSE "skipTrue", target)
  /\ target' = 0
  /\ UNCHANGED <<timeVars, ret, count, assess, recVars, bpVars, hapVars,
                 revVars, evVars, disturbed>>

\* ... or to skipAndCallback, which posts the next span and calls back.
skipAndCallback ==
  /\ pc = "skipRet" /\ ret = "callback"
  /\ pc' = "stopped"
  /\ rec' = setNextCycle(rec, cycles)
  /\ IF SetNextRaises(rec, cycles)
     THEN Return("raised", target) /\ UNCHANGED callback
     ELSE Return("hit", target) /\ callback' = FALSE
  /\ target' = 0 /\ ret' = "user"
  /\ UNCHANGED <<timeVars, count, assess, snaps, continuation_hap,
                 bpVars, hapVars, current_span_start, current_span_end,
                 reverse_from, reverse_to, was_at_reverse_point, first_skip,
                 evVars, disturbed>>

-----------------------------------------------------------------------------
(* skipBackAndRunForward: restore the start of a span and run it forward   *)
(* with haps on the breakpoints.                                           *)

\* first_skip, and the snapshot of the CPU's own span does not exist.
BackMissing == first_skip /\ getMasked(cycles) \notin snaps

BackWanted ==
  IF BackMissing
  THEN IF snaps = {} THEN rec.origin_cycle ELSE Largest(snaps)
  ELSE IF first_skip THEN getMasked(cycles)
  ELSE getMasked(cycles) - Span

\* The span to run lies at or before the origin.
MutBackAtOriginNever == FALSE

BackAtOrigin == ~BackMissing /\ BackWanted <= rec.origin_cycle

BackStart == IF BackAtOrigin THEN rec.origin_cycle ELSE BackWanted

MutBackEndWholeSpan == BackStart + Span

BackEnd ==
  IF BackAtOrigin THEN rec.origin_cycle + Span
  ELSE IF first_skip THEN cycles
  ELSE BackWanted + Span - 1

skipBackAndRunForward(keep) ==
  /\ pc = "back"
  /\ current_span_start' = BackStart /\ current_span_end' = BackEnd
  /\ IF BackStart = rec.origin_cycle \/ BackStart \in snaps
     THEN /\ cycles' = BackStart
          /\ rec' = RestoreRecorder(rec, BackStart, keep)
          /\ span_end_posts' = RestoredPosts(span_end_posts, BackStart, keep)
          /\ delta_posts' = RestoredPosts(delta_posts, BackStart, keep)
          /\ \/ \* no reverse_to point ahead: set the breaks and run
                /\ reverse_to = None \/ reverse_to <= BackStart
                /\ pc' = "arm"
                /\ enabled' = enabled \cup sim_breakpoints
                /\ UNCHANGED <<target, ret, count, continuation_hap, reverse_to,
                               disturbed>>
             \/ \* it is more than a span ahead: go there, without breaks
                /\ reverse_to > BackStart
                /\ reverse_to - BackStart > Span /\ ~BackMissing
                /\ pc' = "skip" /\ target' = reverse_to /\ ret' = "user"
                /\ disturbed' = FALSE
                /\ enabled' = enabled \cup sim_breakpoints
                /\ UNCHANGED <<count, continuation_hap, reverse_to>>
             \/ \* run to it with the breakpoints disabled
                /\ reverse_to > BackStart
                /\ reverse_to - BackStart <= Span \/ BackMissing
                /\ pc' = "toReverse" /\ target' = reverse_to /\ count' = 0
                /\ reverse_to' = None
                /\ continuation_hap' = FALSE
                /\ enabled' = enabled \ sim_breakpoints
                /\ UNCHANGED <<ret, disturbed>>
          /\ UNCHANGED report
     ELSE /\ pc' = "stopped"
          /\ enabled' = enabled \cup sim_breakpoints
          /\ UNCHANGED <<cycles, rec, evVars, target, ret, count,
                         continuation_hap, reverse_to, disturbed>>
          /\ Return("bail", None)
  /\ UNCHANGED <<frontier, assess, snaps, sim_breakpoints, aliased, hapVars,
                 reverse_from, was_at_reverse_point, first_skip, callback>>

\* The run to the reverse_to point has got there.
AtReverseTo ==
  /\ pc = "toReverse" /\ cycles = target /\ count < MaxTries
  /\ enabled' = enabled \cup sim_breakpoints
  /\ was_at_reverse_point' = TRUE
  /\ pc' = "arm"
  /\ UNCHANGED <<timeVars, ret, target, count, assess, recVars, sim_breakpoints,
                 aliased, hapVars, current_span_start, current_span_end,
                 reverse_from, reverse_to, first_skip, callback, evVars, obsVars>>

\* The last try got there, but count > 5: "too much, bail".
ReverseToTooLate ==
  /\ pc = "toReverse" /\ cycles = target /\ count = MaxTries
  /\ pc' = "stopped"
  /\ Return("bail", None)
  /\ UNCHANGED <<timeVars, ret, target, count, assess, recVars, bpVars, hapVars,
                 revVars, evVars, disturbed>>

\* "already at current_span_end, now what?": returns with nothing running.
ArmNothingToRun ==
  /\ pc = "arm" /\ current_span_end = cycles
  /\ pc' = "stopped"
  /\ Return("stuck", None)
  /\ UNCHANGED <<timeVars, ret, target, count, assess, recVars, bpVars, hapVars,
                 revVars, evVars, disturbed>>

\* setBreakHaps, setSpanEndCycle, and continue without the continuation hap.
\* Posting the span end in the past raises, after the haps are set.
ArmScan ==
  /\ pc = "arm" /\ current_span_end # cycles
  /\ break_haps' = break_haps \cup bp_list
  /\ live_haps' = live_haps \cup bp_list
  /\ IF current_span_end > cycles
     THEN /\ pc' = "scan"
          /\ span_end_posts' = {current_span_end}
          /\ continuation_hap' = FALSE
          /\ UNCHANGED report
     ELSE /\ pc' = "stopped"
          /\ span_end_posts' = {}
          /\ Return("raised", None)
          /\ UNCHANGED continuation_hap
  /\ UNCHANGED <<timeVars, ret, target, count, assess, rec, snaps, bpVars,
                 lost_haps, break_cycles, revVars, delta_posts, disturbed>>

\* stopHap and the work it queues.
stopHap ==
  /\ pc = "stopped" /\ assess
  /\ assess' = FALSE
  /\ break_haps' = {} /\ live_haps' = {}
  /\ span_end_posts' = {}
  /\ was_at_reverse_point' = FALSE
  /\ \/ /\ break_cycles # {}
        /\ EnterSkip(Largest(break_cycles), "callback")
        /\ report' = NoReport
        /\ UNCHANGED <<first_skip, callback>>
     \/ /\ break_cycles = {} /\ ~was_at_reverse_point /\ reverseEnabled(rec)
        /\ pc' = "back" /\ first_skip' = FALSE
        /\ report' = NoReport
        /\ UNCHANGED <<ret, target, callback, disturbed>>
     \/ /\ break_cycles = {} /\ ~was_at_reverse_point /\ ~reverseEnabled(rec)
        /\ Return("raised", None)
        /\ UNCHANGED <<pc, ret, target, first_skip, callback, disturbed>>
     \/ /\ break_cycles = {} /\ was_at_reverse_point
        /\ callback' = FALSE
        /\ Return("noHit", target)
        /\ UNCHANGED <<pc, ret, target, first_skip, disturbed>>
  /\ UNCHANGED <<timeVars, count, recVars, bpVars, lost_haps, break_cycles,
                 current_span_start, current_span_end, reverse_from, reverse_to,
                 delta_posts>>

-----------------------------------------------------------------------------
(* The simulator: it executes instructions and cycle events inside one of  *)
(* the SIM_continue calls.                                                 *)

CanRun == pc \in Running /\ ~(pc = "toReverse" /\ cycles = target)

\* Bound on the runs that end by themselves; they end before it.
Horizon == MaxCycle + 2 * Span

Due == cycles \in rec.cycle_posts \cup rec.recording_end_posts
                  \cup span_end_posts \cup delta_posts

\* The enabled breakpoints that the instruction at this cycle trips.
Tripped == {b \in enabled : cycles \in Hits[b]}

MutStoppedNoHap(own) ==
  /\ pc' = CASE pc = "toCycle" -> "ranTo" [] OTHER -> "stopped"
  /\ disturbed' = (disturbed \/ ~own)
  /\ UNCHANGED <<count, continuation_hap, report>>

\* The simulation stops and SIM_continue returns to the code that called it;
\* own: the event that the run was waiting for.
Stopped(own) ==
  /\ pc' = CASE pc = "toCycle" -> "ranTo"
              [] pc = "toReverse" /\ count < MaxTries -> "toReverse"
              [] OTHER -> "stopped"
  /\ count' = IF pc = "toReverse" /\ count < MaxTries THEN count + 1 ELSE count
  /\ continuation_hap' = (continuation_hap \/ pc = "scan")
  /\ disturbed' = (disturbed \/ ~own)
  /\ report' = IF pc = "toReverse" /\ count = MaxTries
               THEN [kind |-> "bail", want |-> None] ELSE report

\* One instruction.  A breakpoint with a hap calls breakCallback, one without
\* stops the simulation after the instruction.
Tick ==
  /\ CanRun /\ ~Due
  /\ cycles < IF pc = "running" THEN MaxCycle ELSE Horizon
  /\ cycles' = cycles + 1
  /\ frontier' = IF cycles + 1 > frontier THEN cycles + 1 ELSE frontier
  /\ break_cycles' = IF Tripped \cap Hooked # {} /\ break_haps # {}
                     THEN break_cycles \cup {cycles} ELSE break_cycles
  /\ \/ /\ Tripped \subseteq Hooked
        /\ UNCHANGED <<pc, count, continuation_hap, obsVars>>
     \/ /\ ~(Tripped \subseteq Hooked)
        /\ Stopped(FALSE)
  /\ UNCHANGED <<ret, target, assess, rec, snaps, bpVars, break_haps, live_haps,
                 lost_haps, revVars, evVars>>

cycle_handler ==
  /\ CanRun /\ cycles \in rec.cycle_posts
  /\ rec' = CycleHandler(rec, cycles)
  /\ snaps' = snaps \cup {cycles}
  /\ UNCHANGED <<timeVars, ctlVars, continuation_hap, bpVars, hapVars, revVars,
                 evVars, obsVars>>

recording_end_cycle_handler ==
  /\ CanRun /\ cycles \in rec.recording_end_posts
  /\ rec' = RecordingEndHandler(rec, cycles)
  /\ UNCHANGED <<timeVars, ctlVars, snaps, continuation_hap, bpVars, hapVars,
                 revVars, evVars, obsVars>>

MutDeltaNoBreak ==
  /\ CanRun /\ cycles \in delta_posts
  /\ delta_posts' = delta_posts \ {cycles}
  /\ UNCHANGED <<timeVars, ctlVars, rec, snaps, continuation_hap, bpVars, hapVars,
                 revVars, span_end_posts, obsVars>>

delta_cycle_handler ==
  /\ CanRun /\ cycles \in delta_posts
  /\ delta_posts' = delta_posts \ {cycles}
  /\ Stopped(pc = "toCycle" /\ cycles = target)
  /\ UNCHANGED <<timeVars, ret, target, assess, rec, snaps, bpVars, hapVars,
                 revVars, span_end_posts>>

span_end_cycle_handler ==
  /\ CanRun /\ cycles \in span_end_posts
  /\ span_end_posts' = span_end_posts \ {cycles}
  /\ assess' = TRUE
  /\ Stopped(pc = "scan")
  /\ UNCHANGED <<timeVars, ret, target, rec, snaps, bpVars, hapVars, revVars,
                 delta_posts>>

\* The user stops the simulation.
UserStop ==
  /\ CanRun
  /\ Stopped(FALSE)
  /\ UNCHANGED <<timeVars, ret, target, assess, rec, snaps, bpVars, hapVars,
                 revVars, evVars>>

-----------------------------------------------------------------------------
Command ==
  /\ commands < MaxCommands
  /\ commands' = commands + 1
  /\ \/ \E two_step \in BOOLEAN, keep \in KeepsPosts : enableReverse(two_step, keep)
     \/ disableReverse
     \/ \E b \in Bps : SIM_breakpoint(b) \/ SIM_delete_breakpoint(b)
     \/ \E t \in 0..frontier : skipToCycle(t)
     \/ revOne
     \/ \E keep \in KeepsPosts : skipToOrigin(keep)
     \/ \E cb \in BOOLEAN, keep \in KeepsPosts, to \in {None} \cup 0..cycles :
          reverse(to, cb, keep)
     \/ pc \in {"toCycle", "scan"} /\ UserStop

\* What happens by itself once a command is given.
Step ==
  /\ UNCHANGED commands
  /\ \/ Tick
     \/ cycle_handler \/ recording_end_cycle_handler
     \/ delta_cycle_handler \/ span_end_cycle_handler
     \/ \E keep \in KeepsPosts : SkipRestore(keep) \/ skipBackAndRunForward(keep)
     \/ RanToCycle \/ SkipReturn \/ skipAndCallback
     \/ AtReverseTo \/ ReverseToTooLate \/ ArmNothingToRun \/ ArmScan \/ stopHap

\* The user's continue and stop, which are not counted.
Resume ==
  /\ UNCHANGED commands
  /\ \/ Continue
     \/ pc \in {"running", "toReverse"} /\ UserStop

Next == Command \/ Resume \/ Step

Spec == Init /\ [][Next]_vars

\* The simulator and the Python code it calls do not stop by themselves.
FairSpec == Spec /\ WF_vars(Step)

-----------------------------------------------------------------------------
(* Properties.                                                             *)

\* No cycle is executed, recorded or noted past the horizon.
WithinHorizon ==
  /\ cycles <= Horizon /\ rec.origin_cycle <= Horizon
  /\ \A c \in snaps \cup break_cycles : c <= Horizon

\* Code that restores a snapshot by its name runs only while reversing is
\* enabled, so 'origin' exists.
RestoresWhenEnabled == pc \in {"skip", "back"} => reverseEnabled(rec)

\* The inductive invariant behind TypeOK, SnapshotGrid and ImplementsLog.
IInv == /\ TypeOK
        /\ RecorderSound(rec, snaps)
        /\ RestoresWhenEnabled
        /\ WithinHorizon

\* Snapshots lie after the origin, on multiples of the span, and no later than
\* latest_span_end, which is itself recorded: what skipToCycle and
\* skipBackAndRunForward rely on when they compute a snapshot's name.
SnapshotGrid ==
  /\ \A c \in snaps : /\ c % Span = 0
                      /\ reverseEnabled(rec) /\ rec.origin_cycle < c
                      /\ c <= rec.latest_span_end
  /\ rec.latest_span_end # None => rec.latest_span_end \in snaps

\* ReverseMgr implements the snapshot log: whatever is skipped to, reversed or
\* stopped, time moves by one instruction or to a recorded cycle, and the
\* recording only grows, at its far end, while reversing stays enabled.
Log == INSTANCE SnapshotLog WITH
  Period <- Span, NoCycle <- None,
  now <- cycles, origin <- rec.origin_cycle, log <- snaps

ImplementsLog == Log!Spec

\* The snapshot that skipToCycle names for t exists.
Restorable(t) == FromOrigin(t) \/ SkipMark(t) \in snaps

\* A skip that reports success, ran undisturbed and had its snapshot leaves
\* the CPU at the requested cycle, or at the start of that cycle's span (the
\* branch that does not run forward), and never past the request.
SkipLands ==
  report.kind = "skipTrue" /\ ~disturbed /\ Restorable(report.want)
  => cycles \in {report.want, getMasked(report.want)}

\* The cycles at which a breakpoint that is set is hit.
HitCycles == UNION {Hits[b] : b \in sim_breakpoints}

\* reverse stops at the most recent hit: exactly, when a hit lies in the
\* span that the reverse began in and that span's snapshot exists.
HitsInOwnSpan ==
  {h \in HitCycles : getMasked(reverse_from) <= h /\ h < reverse_from}

ReverseExact ==
  /\ report.kind = "hit" /\ ~disturbed
  /\ getMasked(reverse_from) \in snaps /\ HitsInOwnSpan # {}
  => cycles \in HitsInOwnSpan /\ \A h \in HitsInOwnSpan : h <= cycles

\* Whatever span a reported hit was found in, it is a hit of a breakpoint that
\* is set, the CPU is at it, and no later one lies in the span that was run.
HitIsLatest ==
  report.kind = "hit" /\ ~disturbed /\ Restorable(report.want)
  => /\ cycles = report.want /\ cycles \in HitCycles
     /\ current_span_start <= cycles /\ cycles < current_span_end
     /\ \A h \in HitCycles : h <= cycles \/ h >= current_span_end

\* A reverse that calls back leaves nothing armed: no span end event, and of the
\* breakpoint haps, those of scans that were stopped before it included, only
\* the ones that a disableReverse had forgotten.  What it switched off is on again.
FinishedReverseDisarmed ==
  report.kind \in {"hit", "noHit"} /\ ~disturbed
  => /\ live_haps = {} /\ span_end_posts = {}
     /\ continuation_hap /\ ~callback
     /\ sim_breakpoints \subseteq enabled

\* A skip comes back to its caller, with or without a stop on the way.
SkipTerminates ==
  pc \in {"skip", "toCycle", "ranTo", "skipRet"} ~> pc = "stopped"

(* What comments of the code say, and the code does not do. *)

\* "skip to any cycle within the recording span": a skip that was not disturbed
\* and reports success leaves the CPU at the cycle asked for.
SkipLandsOnTarget ==
  report.kind = "skipTrue" /\ ~disturbed => cycles = report.want

\* "Reverse until either a breakpoint is hit, or we hit the origin": a hit that
\* reverse reports lies before the cycle it began at.
ReverseGoesBack == report.kind = "hit" /\ ~disturbed => cycles < reverse_from

\* The same comment: reverse does not return with nothing found, nothing
\* running and no callback made.
ReverseDoesSomething == report.kind # "stuck"

\* The same comment: the backward scan comes to an end.
ReverseTerminates == pc = "back" ~> pc = "stopped" /\ ~assess

\* "If multiple breakpoionts are set, execution is set at the most recent": no
\* hit lies between the one that reverse reports and the cycle it began at.
HitIsMostRecent ==
  report.kind = "hit" /\ ~disturbed
  => \A h \in HitCycles : h <= cycles \/ h >= reverse_from

\* "HAP invoked when breakpoints are hit while reversing": with reversing
\* disabled, no instruction of the user's run invokes a breakpoint hap.
HapsOnlyWhileReversing ==
  pc = "running" /\ ~reverseEnabled(rec) => Tripped \cap Hooked = {}

\* "Catch a continue so that we can record snapshots as we move past the
\* latest span": while the user runs on, some event that leads to the next
\* snapshot is pending.
RecordingResumes ==
  pc = "running" /\ reverseEnabled(rec)
  => rec.cycle_posts \cup rec.recording_end_posts # {}
=============================================================================
