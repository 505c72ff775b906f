-------------------------- MODULE ReverseReportProofs --------------------------
(***************************************************************************)
(* What ReverseMgr's commands report is true, for every span, set of       *)
(* breakpoints, hits and bounds: SkipLands, FinishedReverseDisarmed,       *)
(* HitIsLatest and ReverseExact.  The invariant follows one skip or one    *)
(* reverse from its command to its report, through the runs it starts, as  *)
(* long as nothing else stops it.                                          *)
(***************************************************************************)
EXTENDS ReverseMgrProofs

SkipPcs == {"skip", "toCycle", "ranTo", "skipRet"}

\* What is under way has not reported.
Unreported ==
  pc # "stopped" => report.kind \notin {"skipTrue", "hit", "noHit"}

\* Haps are set, and breakpoints enabled, only of breakpoints that are set.
BreaksSet ==
  Hooked \subseteq sim_breakpoints /\ enabled \subseteq sim_breakpoints

\* stopHap is called by a scan that ended, or after a disturbance.
OwnStop == assess => pc # "back" /\ (disturbed \/ pc = "stopped")

\* runToCycle gets there, and skipToCycle to the cycle or its span's start.
RanThere == pc = "ranTo" /\ ~disturbed => cycles = target

Landed ==
  pc = "skipRet" /\ ~disturbed /\ ~SkipRefused(target) /\ Restorable(target)
  => cycles \in {target, getMasked(target)}

\* The span that is run in a reverse: the first one ends at reverse_from, and
\* when a later one is run, no hit lies in the span reverse began in.
SpanFound ==
  /\ reverseEnabled(rec) /\ rec.origin_cycle <= current_span_start
  /\ first_skip => /\ current_span_end = reverse_from
                   /\ \/ current_span_start = rec.origin_cycle
                      \/ current_span_start % Span = 0

Underway ==
  /\ aliased /\ reverse_from \in Nat
  /\ ~first_skip => \A h \in HitsInOwnSpan : h < rec.origin_cycle

\* skipBackAndRunForward is about to be called.
GoingBack ==
  pc = "back" /\ ~disturbed
  => Underway /\ break_cycles = {} /\ (first_skip => cycles = reverse_from)

\* It has restored the start of a span and may run on to reverse_to.
Approaching ==
  pc \in {"toReverse", "arm"} /\ ~disturbed
  => /\ Underway /\ SpanFound
     /\ break_cycles = {} /\ current_span_start <= cycles
     /\ pc = "toReverse" => enabled = {}
     /\ pc = "arm" => /\ sim_breakpoints \subseteq enabled
                      /\ was_at_reverse_point \/ cycles = current_span_start

\* The scan has noted every hit since its start that is not before all noted.
Scanned ==
  /\ Underway /\ SpanFound /\ current_span_start <= cycles
  /\ live_haps = sim_breakpoints /\ sim_breakpoints \subseteq break_haps
  /\ sim_breakpoints \subseteq enabled
  /\ \A c \in break_cycles :
       c \in HitCycles /\ current_span_start <= c /\ c < cycles
  /\ \A h \in HitCycles \ break_cycles :
       h < cycles => /\ \A c \in break_cycles : h < c
                     /\ was_at_reverse_point \/ h < current_span_start

Scanning ==
  pc = "scan" /\ ~disturbed
  => Scanned /\ span_end_posts = {current_span_end} /\ cycles <= current_span_end

ScanEnded ==
  pc = "stopped" /\ assess /\ ~disturbed
  => Scanned /\ continuation_hap /\ cycles = current_span_end

\* skipAndCallback skips to the latest hit.
Returning ==
  pc \in SkipPcs /\ ret = "callback" /\ ~disturbed
  => /\ Underway /\ SpanFound
     /\ live_haps = {} /\ span_end_posts = {}
     /\ target \in HitCycles
     /\ current_span_start <= target /\ target < current_span_end
     /\ \A h \in HitCycles : h <= target \/ h >= current_span_end
     /\ pc = "skip" => target < cycles
     /\ pc \in {"skip", "skipRet"} =>
          continuation_hap /\ sim_breakpoints \subseteq enabled
     /\ pc = "skipRet" /\ Restorable(target) => cycles = target

Reported == SkipLands /\ FinishedReverseDisarmed /\ HitIsLatest /\ ReverseExact

Followed == /\ Unreported /\ BreaksSet /\ OwnStop
            /\ RanThere /\ Landed
            /\ GoingBack /\ Approaching /\ Scanning /\ ScanEnded /\ Returning
            /\ Reported

RInv == IInv /\ Followed

-----------------------------------------------------------------------------
(* States in which most of the invariant says nothing.                     *)

\* Nothing is under way, and nothing was reported that must be true.
LEMMA NothingUnderWay ==
  ASSUME pc' \in {"stopped", "running"}, ~assess', BreaksSet',
         report'.kind \notin {"skipTrue", "hit", "noHit"}
  PROVE  Followed'
BY DEF Followed, Unreported, OwnStop, RanThere, Landed, GoingBack, Approaching,
   Scanning, ScanEnded, Returning, Reported, SkipPcs, SkipLands,
   FinishedReverseDisarmed, HitIsLatest, ReverseExact

\* Something else stopped what is under way.
LEMMA Spoiled ==
  ASSUME disturbed', BreaksSet', Unreported', pc' = "back" => ~assess'
  PROVE  Followed'
BY DEF Followed, OwnStop, RanThere, Landed, GoingBack, Approaching,
   Scanning, ScanEnded, Returning, Reported, SkipLands,
   FinishedReverseDisarmed, HitIsLatest, ReverseExact

\* What has not reported need not be true yet.
LEMMA NotYetReported ==
  ASSUME pc' # "stopped", Unreported'
  PROVE  Reported'
BY DEF Unreported, Reported, SkipLands, FinishedReverseDisarmed, HitIsLatest,
   ReverseExact

\* The user's skip is under way.
LEMMA UserSkips ==
  ASSUME pc' \in SkipPcs, ret' = "user", ~assess', Unreported', BreaksSet',
         RanThere', Landed'
  PROVE  Followed'
<1>1. pc' # "stopped"
  BY DEF SkipPcs
<1> QED
  BY <1>1, NotYetReported DEF Followed, OwnStop, GoingBack, Approaching, Scanning,
     ScanEnded, Returning, SkipPcs

\* A skip back to a hit is under way.
LEMMA SkipsToHit ==
  ASSUME pc' \in SkipPcs, ~assess', Unreported', BreaksSet', RanThere', Landed',
         Returning'
  PROVE  Followed'
<1>1. pc' # "stopped"
  BY DEF SkipPcs
<1> QED
  BY <1>1, NotYetReported DEF Followed, OwnStop, GoingBack, Approaching, Scanning,
     ScanEnded, SkipPcs

\* A reverse is looking for a hit.
LEMMA Searches ==
  ASSUME pc' \in {"back", "toReverse", "arm", "scan"}, ~assess', Unreported',
         BreaksSet', GoingBack', Approaching', Scanning'
  PROVE  Followed'
<1>1. pc' # "stopped"
  OBVIOUS
<1> QED
  BY <1>1, NotYetReported DEF Followed, OwnStop, RanThere, Landed, ScanEnded,
     Returning, SkipPcs

-----------------------------------------------------------------------------
(* Lemmas about cycles, hits and snapshots.                                *)

\* What the type invariant says of the fields used below.
LEMMA Types ==
  ASSUME IInv
  PROVE  /\ cycles \in Nat /\ target \in Nat
         /\ rec \in Recorder /\ snaps \in SUBSET Nat /\ RecorderSound(rec, snaps)
         /\ rec.origin_cycle \in Nat \cup {-1}
         /\ rec.latest_span_end \in Nat \cup {-1}
         /\ current_span_start \in Nat \cup {-1}
         /\ current_span_end \in Nat \cup {-1}
         /\ reverse_from \in Nat \cup {-1}
         /\ break_cycles \in SUBSET Nat /\ span_end_posts \in SUBSET Nat
         /\ sim_breakpoints \in SUBSET Bps
         /\ assess \in BOOLEAN /\ disturbed \in BOOLEAN
BY DEF IInv, TypeOK, TypeTime, TypeControl, TypeRecording, TypeBreaks,
   TypeReverse, Recorder, Cycle, None

\* Hits are at cycles, so that a window of them is bounded.
LEMMA HitsAreCycles ==
  ASSUME IInv
  PROVE  HitCycles \in SUBSET Nat
BY HitsAssumption DEF IInv, TypeOK, TypeBreaks, HitCycles

\* A breakpoint is tripped exactly at the cycles it is hit at.
LEMMA TrippedHits ==
  ASSUME enabled = sim_breakpoints
  PROVE  (Tripped # {}) <=> cycles \in HitCycles
BY DEF Tripped, HitCycles

\* The start of a cycle's span is the last multiple of the span up to it.
LEMMA MaskedIsLast ==
  ASSUME NEW c \in Nat, NEW m \in Nat, m % Span = 0, m <= c
  PROVE  m <= getMasked(c)
<1>1. SUFFICES ASSUME getMasked(c) < m PROVE FALSE
  BY MaskedStart
<1> DEFINE a == getMasked(c) \div Span
           b == m \div Span
<1>2. /\ getMasked(c) \in Nat /\ getMasked(c) % Span = 0
      /\ c < getMasked(c) + Span
  BY MaskedStart
<1>3. getMasked(c) = a * Span /\ m = b * Span /\ a \in Nat /\ b \in Nat
  BY <1>2, Quotient, SpanAssumption
<1> HIDE DEF a, b
<1>4. b <= a
  BY <1>1, <1>2, <1>3, SpanAssumption
<1>5. b * Span <= a * Span
  BY <1>3, <1>4, SpanAssumption
<1> QED
  BY <1>1, <1>2, <1>3, <1>5

\* A skip never restores a snapshot that lies after the cycle asked for; in
\* the span of a cycle that was recorded it restores the start of that span.
LEMMA MarkBefore ==
  ASSUME IInv, NEW t \in Nat, ~FromOrigin(t), SkipMark(t) \in snaps
  PROVE  SkipMark(t) \in Nat /\ SkipMark(t) <= t
         /\ (t <= rec.latest_span_end => SkipMark(t) = getMasked(t))
<1>1. /\ snaps \in SUBSET Nat /\ \A c \in snaps : c <= rec.latest_span_end
      /\ rec.latest_span_end \in Nat \cup {-1}
  BY Types DEF RecorderSound
<1>2. CASE t <= rec.latest_span_end
  BY <1>2, MaskedStart DEF SkipMark
<1>3. CASE ~(t <= rec.latest_span_end)
  <2>1. SkipMark(t) \in Nat /\ SkipMark(t) <= rec.latest_span_end
    BY <1>1
  <2> QED
    BY <1>1, <1>3, <2>1
<1> QED
  BY <1>2, <1>3

\* Methods of the recorder that skipToCycle calls leave latest_span_end alone.
LEMMA LatestKept ==
  ASSUME IInv
  PROVE  /\ \A keep \in BOOLEAN, c \in Nat :
              RestoreRecorder(cancelSpanCycle(rec), c, keep).latest_span_end
                = rec.latest_span_end
         /\ cancelSpanCycle(rec).latest_span_end = rec.latest_span_end
         /\ setNextCycle(rec, cycles).latest_span_end = rec.latest_span_end
<1>1. rec \in Recorder
  BY Types
<1>2. /\ cancelSpanCycle(rec) \in Recorder
      /\ cancelSpanCycle(rec).latest_span_end = rec.latest_span_end
  BY <1>1 DEF cancelSpanCycle, Recorder, Cycle
<1>3. setNextCycle(rec, cycles).latest_span_end = rec.latest_span_end
  BY <1>1 DEF setNextCycle, Recorder
<1>4. \A r \in Recorder, keep \in BOOLEAN, c \in Nat :
        RestoreRecorder(r, c, keep).latest_span_end = r.latest_span_end
  BY DEF RestoreRecorder, Recorder
<1> QED
  BY <1>2, <1>3, <1>4

\* What a skip relies on stays as it is while these two fields do.
LEMMA SameSnapshots ==
  ASSUME rec'.origin_cycle = rec.origin_cycle,
         rec'.latest_span_end = rec.latest_span_end, snaps' = snaps, NEW t
  PROVE  /\ SkipRefused(t)' <=> SkipRefused(t)
         /\ FromOrigin(t)' <=> FromOrigin(t)
         /\ Restorable(t)' <=> Restorable(t)
BY DEF SkipRefused, reverseEnabled, FromOrigin, Restorable, SkipMark

-----------------------------------------------------------------------------
(* Commands.                                                               *)

\* The driver of commands starts the next one, of any kind, when all is stopped.
LEMMA CommandFollowed ==
  ASSUME RInv,
         \/ \E two_step \in BOOLEAN, keep \in KeepsPosts : enableReverse(two_step, keep)
         \/ disableReverse
         \/ \E b \in Bps : SIM_breakpoint(b) \/ SIM_delete_breakpoint(b)
         \/ \E keep \in KeepsPosts : skipToOrigin(keep)
         \/ Continue
  PROVE  Followed'
<1>1. pc' \in {"stopped", "running"} /\ ~assess'
  BY DEF Idle, enableReverse, disableReverse, SIM_breakpoint,
     SIM_delete_breakpoint, skipToOrigin, Continue, ctlVars
<1>2. report'.kind \notin {"skipTrue", "hit", "noHit"}
  BY DEF enableReverse, disableReverse, SIM_breakpoint, NoReport, Return,
     SIM_delete_breakpoint, skipToOrigin, Continue
<1>3. BreaksSet'
  BY DEF RInv, Followed, BreaksSet, Hooked, enableReverse, disableReverse,
     SIM_breakpoint, SIM_delete_breakpoint, skipToOrigin, RestoreTo, Continue, hapVars, bpVars
<1> QED
  BY <1>1, <1>2, <1>3, NothingUnderWay

\* A skipToCycle of the user begins: nothing is promised of it yet.
LEMMA SkipToCycleFollowed ==
  ASSUME RInv, NEW t \in Nat, skipToCycle(t)
  PROVE  Followed'
<1>1. /\ ret' = "user" /\ target' = t /\ pc' \in {"skip", "skipRet"} /\ ~assess'
      /\ cycles' = cycles /\ rec' = rec /\ report' = NoReport
      /\ pc' = "skipRet" => SkipRefused(t) \/ t = cycles
  BY DEF skipToCycle, EnterSkip, Idle, timeVars, recVars, SkipDone
<1>2. BreaksSet'
  BY DEF RInv, Followed, BreaksSet, Hooked, skipToCycle, hapVars, bpVars
<1>3. Unreported' /\ RanThere' /\ pc' \in SkipPcs
  BY <1>1 DEF Unreported, RanThere, NoReport, SkipPcs
<1>4. Landed'
  BY <1>1 DEF Landed, SkipRefused, reverseEnabled
<1> QED
  BY <1>1, <1>2, <1>3, <1>4, UserSkips

\* reverse begins: it refuses, or starts with the span of the current cycle.
LEMMA ReverseFollowed ==
  ASSUME RInv, NEW to \in Nat \cup {None}, NEW cb \in BOOLEAN, NEW keep \in BOOLEAN,
         reverse(to, cb, keep)
  PROVE  Followed'
<1>1. BreaksSet'
  BY DEF RInv, Followed, BreaksSet, Hooked, reverse, RestoreTo
<1>2. ~assess'
  BY DEF reverse, Idle
<1>3. CASE sim_breakpoints = {}
  <2>1. pc' = "stopped" /\ report'.kind = "origin"
    BY <1>3 DEF reverse, Idle, Return
  <2> QED
    BY <1>1, <1>2, <2>1, NothingUnderWay
<1>4. CASE sim_breakpoints # {}
  <2>1. /\ pc' = "back" /\ first_skip' /\ cycles' = cycles /\ reverse_from' = cycles
        /\ aliased' /\ break_cycles' = {} /\ report' = NoReport
    BY <1>4 DEF reverse
  <2>2. Unreported' /\ GoingBack' /\ Approaching' /\ Scanning'
    BY <2>1, Types DEF RInv, Unreported, NoReport, GoingBack, Underway,
       Approaching, Scanning
  <2> QED
    BY <1>1, <1>2, <2>1, <2>2, Searches
<1> QED
  BY <1>3, <1>4

-----------------------------------------------------------------------------
(* skipToCycle past its early returns.                                     *)

\* What skipToCycle does of this, whoever called it.
LEMMA RestoreLands ==
  ASSUME RInv, NEW keep \in BOOLEAN, SkipRestore(keep), ~disturbed
  PROVE  /\ pc = "skip" /\ pc' \in {"toCycle", "skipRet"} /\ ~assess'
         /\ disturbed' = disturbed /\ report' = report /\ target' = target
         /\ ret' = ret /\ snaps' = snaps
         /\ rec'.origin_cycle = rec.origin_cycle
         /\ rec'.latest_span_end = rec.latest_span_end
         /\ Landed'
         /\ pc' = "skipRet" /\ target < cycles /\ ~SkipRefused(target)
              /\ Restorable(target)
            => cycles' = target
<1> DEFINE known == FromOrigin(target) \/ SkipMark(target) \in snaps
           c == IF FromOrigin(target) THEN rec.origin_cycle
                ELSE IF known THEN SkipMark(target) ELSE cycles
           runs == ~SkipStays(target) /\ c < target
           r == cancelSpanCycle(rec)
<1>1. /\ pc = "skip" /\ pc' = IF runs THEN "toCycle" ELSE "skipRet"
      /\ cycles' = c /\ rec' = IF known THEN RestoreRecorder(r, c, keep) ELSE r
  BY DEF SkipRestore
<1>2. /\ ret' = ret /\ target' = target /\ snaps' = snaps /\ report' = report
      /\ disturbed' = disturbed /\ assess' = assess
  BY DEF SkipRestore, obsVars
<1>3. /\ cycles \in Nat /\ target \in Nat /\ rec.origin_cycle \in Nat
      /\ rec.latest_span_end \in Nat \cup {-1} /\ snaps \in SUBSET Nat
  BY <1>1, Types DEF RInv, IInv, RestoresWhenEnabled, reverseEnabled, None
<1>4. c \in Nat
  BY <1>3
<1>5. /\ rec'.origin_cycle = rec.origin_cycle
      /\ rec'.latest_span_end = rec.latest_span_end
  BY <1>1, <1>4, OriginKept, LatestKept DEF RInv
<1> HIDE DEF c, runs
<1>6. ~assess
  BY <1>1, Types DEF RInv, Followed, OwnStop
<1>7. ASSUME ~SkipRefused(target), known PROVE c <= target
  <2>1. CASE FromOrigin(target)
    BY <1>3, <1>7, <2>1 DEF SkipRefused, c
  <2>2. CASE ~FromOrigin(target)
    BY <1>3, <1>7, <2>2, MarkBefore DEF RInv, c
  <2> QED
    BY <2>1, <2>2
<1>8. ASSUME ~SkipRefused(target), known, ~runs
      PROVE  \/ c = target
             \/ SkipStays(target) /\ c = cycles /\ cycles = getMasked(target)
  <2>1. CASE SkipStays(target)
    <3>1. ~FromOrigin(target) /\ SkipMark(target) = cycles
          /\ target <= rec.latest_span_end
      BY <2>1 DEF SkipStays
    <3> QED
      BY <1>3, <1>8, <2>1, <3>1, MarkBefore DEF RInv, c
  <2>2. CASE ~SkipStays(target)
    BY <1>3, <1>4, <1>7, <1>8, <2>2 DEF runs
  <2> QED
    BY <2>1, <2>2
<1>9. Restorable(target) => known
  BY DEF Restorable
<1>10. Landed'
  <2>1. SUFFICES ASSUME pc' = "skipRet", ~SkipRefused(target)', Restorable(target)'
                 PROVE  cycles' \in {target, getMasked(target)}
    BY <1>2 DEF Landed
  <2>2. ~SkipRefused(target) /\ Restorable(target) /\ ~runs
    BY <1>1, <1>2, <1>5, <2>1, SameSnapshots
  <2> QED
    BY <1>1, <1>8, <1>9, <2>2
<1>11. ASSUME pc' = "skipRet", target < cycles, ~SkipRefused(target),
              Restorable(target)
       PROVE  cycles' = target
  <2>1. getMasked(target) <= target /\ getMasked(target) \in Nat
    BY <1>3, MaskedStart
  <2> QED
    BY <1>1, <1>3, <1>8, <1>9, <1>11, <2>1
<1> QED
  BY <1>1, <1>2, <1>5, <1>6, <1>10, <1>11

\* skipToCycle restores its snapshot, and runs on if it is not there yet.
LEMMA SkipRestoreFollowed ==
  ASSUME RInv, NEW keep \in BOOLEAN, SkipRestore(keep)
  PROVE  Followed'
<1>1. BreaksSet'
  BY DEF RInv, Followed, BreaksSet, Hooked, SkipRestore, hapVars
<1>2. Unreported'
  BY DEF RInv, Followed, Unreported, SkipRestore, obsVars
<1>3. CASE disturbed
  <2>1. disturbed' /\ pc' # "back"
    BY <1>3 DEF SkipRestore, obsVars
  <2> QED
    BY <1>1, <1>2, <2>1, Spoiled
<1>4. CASE ~disturbed
  <2>1. /\ pc = "skip" /\ pc' \in {"toCycle", "skipRet"} /\ ~assess'
        /\ target' = target /\ ret' = ret /\ Landed' /\ snaps' = snaps
        /\ rec'.origin_cycle = rec.origin_cycle
        /\ rec'.latest_span_end = rec.latest_span_end
        /\ pc' = "skipRet" /\ target < cycles /\ ~SkipRefused(target)
             /\ Restorable(target)
           => cycles' = target
    BY <1>4, RestoreLands
  <2>2. pc' \in SkipPcs /\ RanThere'
    BY <2>1 DEF SkipPcs, RanThere
  <2>3. CASE ret = "callback"
    <3>1. /\ Underway /\ SpanFound
          /\ live_haps = {} /\ span_end_posts = {} /\ target \in HitCycles
          /\ current_span_start <= target /\ target < current_span_end
          /\ \A h \in HitCycles : h <= target \/ h >= current_span_end
          /\ target < cycles /\ continuation_hap
          /\ sim_breakpoints \subseteq enabled
      BY <1>4, <2>1, <2>3 DEF RInv, Followed, Returning, SkipPcs
    <3>2. /\ live_haps' = {} /\ span_end_posts' = {}
          /\ HitCycles' = HitCycles
          /\ current_span_start' = current_span_start
          /\ current_span_end' = current_span_end
          /\ pc' = "skipRet" => continuation_hap' /\ sim_breakpoints' \subseteq enabled'
      BY <3>1 DEF SkipRestore, hapVars, revVars, RestoredPosts, HitCycles
    <3>3. Underway' /\ SpanFound'
      BY <2>1, <3>1, <3>2 DEF Underway, SpanFound, SkipRestore, revVars,
         HitsInOwnSpan, getMasked, reverseEnabled
    <3>4. ~SkipRefused(target)
      BY <3>1, Types DEF RInv, SkipRefused, SpanFound
    <3>5. pc' = "skipRet" /\ Restorable(target)' => cycles' = target
      BY <2>1, <3>1, <3>4, SameSnapshots
    <3>6. Returning'
      BY <2>1, <3>1, <3>2, <3>3, <3>5 DEF Returning
    <3> QED
      BY <1>1, <1>2, <2>1, <2>2, <3>6, SkipsToHit
  <2>4. CASE ret = "user"
    BY <1>1, <1>2, <2>1, <2>2, <2>4, UserSkips
  <2> QED
    BY <2>3, <2>4 DEF RInv, IInv, TypeOK, TypeControl
<1> QED
  BY <1>3, <1>4

\* runToCycle has stopped at its target.
LEMMA RanToCycleFollowed ==
  ASSUME RInv, RanToCycle
  PROVE  Followed'
<1>1. BreaksSet'
  BY DEF RInv, Followed, BreaksSet, Hooked, RanToCycle, hapVars, bp_list
<1>2. Unreported'
  BY DEF RInv, Followed, Unreported, RanToCycle
<1>3. CASE disturbed
  <2>1. disturbed' /\ pc' # "back"
    BY <1>3 DEF RanToCycle
  <2> QED
    BY <1>1, <1>2, <2>1, Spoiled
<1>4. CASE ~disturbed
  <2>1. pc = "ranTo" /\ cycles = target /\ ~assess
    BY <1>4 DEF RInv, Followed, RanThere, OwnStop, RanToCycle
  <2>2. /\ rec'.origin_cycle = rec.origin_cycle /\ snaps' = snaps
        /\ cycles' = cycles /\ target' = target /\ ret' = ret /\ assess' = assess
        /\ disturbed' = disturbed
    BY OriginKept DEF RInv, RanToCycle, timeVars
  <2>3. CASE SetNextRaises(rec, cycles)
    <3>1. pc' = "stopped" /\ report'.kind = "raised"
      BY <2>3 DEF RanToCycle, Return
    <3> QED
      BY <1>1, <2>1, <2>2, <3>1, NothingUnderWay
  <2>4. CASE ~SetNextRaises(rec, cycles)
    <3>1. pc' = "skipRet" /\ continuation_hap' /\ enabled' = enabled \cup bp_list
      BY <2>4 DEF RanToCycle
    <3>2. RanThere' /\ Landed' /\ pc' \in SkipPcs
      BY <2>1, <2>2, <3>1 DEF RanThere, Landed, SkipPcs
    <3>3. CASE ret = "callback"
      <4>1. /\ Underway /\ SpanFound
            /\ live_haps = {} /\ span_end_posts = {} /\ target \in HitCycles
            /\ current_span_start <= target /\ target < current_span_end
            /\ \A h \in HitCycles : h <= target \/ h >= current_span_end
        BY <1>4, <2>1, <3>3 DEF RInv, Followed, Returning, SkipPcs
      <4>2. /\ live_haps' = {} /\ span_end_posts' = {}
            /\ HitCycles' = HitCycles
            /\ current_span_start' = current_span_start
            /\ current_span_end' = current_span_end
        BY <4>1 DEF RanToCycle, hapVars, revVars, evVars, HitCycles
      <4>3. Underway' /\ SpanFound'
        BY <2>2, <4>1, <4>2 DEF Underway, SpanFound, RanToCycle, revVars,
           HitsInOwnSpan, getMasked, reverseEnabled
      <4>4. sim_breakpoints' \subseteq enabled'
        BY <3>1, <4>1 DEF Underway, bp_list, RanToCycle
      <4>5. Returning'
        BY <2>1, <2>2, <3>1, <4>1, <4>2, <4>3, <4>4 DEF Returning
      <4> QED
        BY <1>1, <1>2, <2>1, <2>2, <3>2, <4>5, SkipsToHit
    <3>4. CASE ret = "user"
      BY <1>1, <1>2, <2>1, <2>2, <3>2, <3>4, UserSkips
    <3> QED
      BY <3>3, <3>4 DEF RInv, IInv, TypeOK, TypeControl
  <2> QED
    BY <2>3, <2>4
<1> QED
  BY <1>3, <1>4

\* skipToCycle returns to whoever called it.
LEMMA SkipReturnFollowed ==
  ASSUME RInv, SkipReturn
  PROVE  Followed'
<1>1. /\ pc = "skipRet" /\ pc' = "stopped" /\ disturbed' = disturbed
      /\ assess' = assess /\ cycles' = cycles /\ rec' = rec /\ snaps' = snaps
      /\ report' = [kind |-> IF SkipRefused(target) THEN "skipFalse" ELSE "skipTrue",
                    want |-> target]
  BY DEF SkipReturn, Return, timeVars, recVars
<1>2. BreaksSet'
  BY DEF RInv, Followed, BreaksSet, Hooked, SkipReturn, hapVars, bpVars
<1>3. CASE disturbed
  BY <1>1, <1>2, <1>3, Spoiled DEF Unreported
<1>4. CASE ~disturbed
  <2>1. ~assess
    BY <1>1, <1>4 DEF RInv, Followed, OwnStop
  <2>2. SkipLands'
    <3>1. SUFFICES ASSUME ~SkipRefused(target), Restorable(report.want)'
                   PROVE  cycles' \in {target, getMasked(target)}
      BY <1>1 DEF SkipLands
    <3>2. Restorable(target)
      BY <1>1, <3>1 DEF Restorable, FromOrigin, SkipMark
    <3> QED
      BY <1>1, <1>4, <3>1, <3>2 DEF RInv, Followed, Landed
  <2>3. Reported'
    BY <1>1, <2>2 DEF Reported, FinishedReverseDisarmed, HitIsLatest, ReverseExact
  <2> QED
    BY <1>1, <1>2, <2>1, <2>3 DEF Followed, Unreported, OwnStop, RanThere, Landed,
       GoingBack, Approaching, Scanning, ScanEnded, Returning, SkipPcs
<1> QED
  BY <1>3, <1>4

\* The hit that is reported is the latest of the span that was run, and when
\* that is not the span reverse began in, there was none in that span.
LEMMA SkipAndCallbackFollowed ==
  ASSUME RInv, skipAndCallback
  PROVE  Followed'
<1>1. /\ pc = "skipRet" /\ ret = "callback" /\ pc' = "stopped"
      /\ disturbed' = disturbed /\ assess' = assess /\ cycles' = cycles
      /\ snaps' = snaps /\ rec' = setNextCycle(rec, cycles)
      /\ first_skip' = first_skip /\ reverse_from' = reverse_from
      /\ current_span_start' = current_span_start
      /\ current_span_end' = current_span_end
  BY DEF skipAndCallback, timeVars
<1>2. BreaksSet'
  BY DEF RInv, Followed, BreaksSet, Hooked, skipAndCallback, hapVars, bpVars
<1>3. CASE disturbed
  BY <1>1, <1>2, <1>3, Spoiled DEF Unreported
<1>4. ASSUME ~disturbed, SetNextRaises(rec, cycles) PROVE Followed'
  <2>1. ~assess /\ report'.kind = "raised"
    BY <1>1, <1>4 DEF RInv, Followed, OwnStop, skipAndCallback, Return
  <2> QED
    BY <1>1, <1>2, <2>1, NothingUnderWay
<1>5. ASSUME ~disturbed, ~SetNextRaises(rec, cycles) PROVE Followed'
  <2>1. /\ Underway /\ SpanFound
        /\ live_haps = {} /\ span_end_posts = {} /\ target \in HitCycles
        /\ current_span_start <= target /\ target < current_span_end
        /\ \A h \in HitCycles : h <= target \/ h >= current_span_end
        /\ continuation_hap /\ sim_breakpoints \subseteq enabled
        /\ Restorable(target) => cycles = target
    BY <1>1, <1>5 DEF RInv, Followed, Returning, SkipPcs
  <2>2. ~assess
    BY <1>1, <1>5 DEF RInv, Followed, OwnStop
  <2>3. /\ report' = [kind |-> "hit", want |-> target] /\ ~callback'
        /\ HitCycles' = HitCycles /\ HitsInOwnSpan' = HitsInOwnSpan
    BY <1>5 DEF skipAndCallback, Return, HitCycles, HitsInOwnSpan, bpVars, getMasked
  <2>4. /\ rec'.origin_cycle = rec.origin_cycle
        /\ rec'.latest_span_end = rec.latest_span_end
    BY <1>1, OriginKept, LatestKept DEF RInv
  <2>5. Restorable(report.want)' => Restorable(target)
    BY <1>1, <2>3, <2>4 DEF Restorable, FromOrigin, SkipMark
  <2>6. FinishedReverseDisarmed'
    BY <2>1, <2>3 DEF FinishedReverseDisarmed, skipAndCallback, hapVars, evVars,
       bpVars
  <2>7. HitIsLatest'
    BY <1>1, <2>1, <2>3, <2>5 DEF HitIsLatest
  <2>8. ReverseExact'
    <3>1. SUFFICES ASSUME getMasked(reverse_from) \in snaps, HitsInOwnSpan # {}
                   PROVE  cycles' \in HitsInOwnSpan
                          /\ \A h \in HitsInOwnSpan : h <= cycles'
      BY <1>1, <2>3 DEF ReverseExact, getMasked
    <3>2. /\ HitCycles \in SUBSET Nat /\ reverse_from \in Nat /\ target \in Nat
          /\ getMasked(reverse_from) \in Nat /\ rec.origin_cycle < getMasked(reverse_from)
          /\ rec.origin_cycle \in Nat
      BY <2>1, <3>1, HitsAreCycles, Types, MaskedStart
      DEF RInv, Underway, SpanFound, RecorderSound, reverseEnabled, None
    <3>3. PICK h0 : h0 \in HitCycles /\ getMasked(reverse_from) <= h0
                    /\ h0 < reverse_from /\ h0 \in HitsInOwnSpan
      BY <3>1 DEF HitsInOwnSpan
    <3>4. current_span_end = reverse_from
      <4>1. ~(h0 < rec.origin_cycle) /\ h0 \in Nat
        BY <3>2, <3>3
      <4> QED
        BY <2>1, <3>3, <4>1 DEF Underway, SpanFound
    <3>5. target \in HitsInOwnSpan /\ \A h \in HitsInOwnSpan : h <= target
      <4>1. h0 <= target /\ h0 \in Nat
        BY <2>1, <3>2, <3>3, <3>4
      <4>2. getMasked(reverse_from) <= target /\ target < reverse_from
        BY <2>1, <3>2, <3>3, <3>4, <4>1
      <4>3. \A h \in HitsInOwnSpan : h \in HitCycles /\ h \in Nat /\ h < reverse_from
        BY <3>2 DEF HitsInOwnSpan
      <4>4. \A h \in HitsInOwnSpan : h <= target
        BY <2>1, <3>2, <3>4, <4>3
      <4> QED
        BY <2>1, <4>2, <4>4 DEF HitsInOwnSpan
    <3>6. Restorable(target)
      <4>1. getMasked(target) = getMasked(reverse_from)
        <5>1. getMasked(reverse_from) <= target /\ target < reverse_from
          BY <3>5 DEF HitsInOwnSpan
        <5>2. getMasked(reverse_from) % Span = 0 /\ getMasked(target) % Span = 0
              /\ getMasked(target) \in Nat /\ getMasked(target) <= target
          BY <3>2, MaskedStart
        <5>3. getMasked(reverse_from) <= getMasked(target)
          BY <3>2, <5>1, <5>2, MaskedIsLast
        <5>4. getMasked(target) <= getMasked(reverse_from)
          BY <3>2, <5>1, <5>2, MaskedIsLast
        <5> QED
          BY <3>2, <5>2, <5>3, <5>4
      <4>2. CASE target <= rec.latest_span_end
        BY <3>1, <4>1, <4>2 DEF Restorable, SkipMark
      <4>3. CASE ~(target <= rec.latest_span_end)
        BY <4>3, Types DEF RInv, RecorderSound, Restorable, FromOrigin, SkipMark
      <4> QED
        BY <4>2, <4>3
    <3> QED
      BY <1>1, <2>1, <3>5, <3>6
  <2>9. Reported'
    BY <2>3, <2>6, <2>7, <2>8 DEF Reported, SkipLands
  <2> QED
    BY <1>1, <1>2, <2>2, <2>9 DEF Followed, Unreported, OwnStop, RanThere, Landed,
       GoingBack, Approaching, Scanning, ScanEnded, Returning, SkipPcs
<1> QED
  BY <1>3, <1>4, <1>5

-----------------------------------------------------------------------------
(* The backward scan.                                                      *)

\* The span that skipBackAndRunForward is to run starts at or after the origin;
\* the first one ends at the cycle that reverse began at.
LEMMA BackFinds ==
  ASSUME IInv, pc = "back", BackStart = rec.origin_cycle \/ BackStart \in snaps
  PROVE  /\ reverseEnabled(rec) /\ rec.origin_cycle \in Nat /\ BackStart \in Nat
         /\ rec.origin_cycle <= BackStart
         /\ first_skip => /\ BackEnd = cycles
                          /\ BackStart = rec.origin_cycle \/ BackStart % Span = 0
<1>1. reverseEnabled(rec) /\ rec.origin_cycle \in Nat /\ BackStart \in Nat
  BY BackSpan DEF IInv, RestoresWhenEnabled
<1>2. \A c \in snaps : c % Span = 0 /\ rec.origin_cycle < c
  BY Types DEF RecorderSound
<1>3. first_skip => ~BackAtOrigin
  <2>1. SUFFICES ASSUME first_skip, BackAtOrigin PROVE FALSE
    OBVIOUS
  <2>2. getMasked(cycles) \in snaps /\ getMasked(cycles) <= rec.origin_cycle
    BY <2>1 DEF BackAtOrigin, BackMissing, BackWanted
  <2>3. getMasked(cycles) \in Nat
    BY Types, MaskedStart
  <2> QED
    BY <1>1, <1>2, <2>2, <2>3
<1>4. rec.origin_cycle <= BackStart
  BY <1>1, <1>2
<1>5. first_skip => BackEnd = cycles
  BY <1>3 DEF BackEnd
<1> QED
  BY <1>1, <1>2, <1>4, <1>5

\* reverse skips back to the start of a window.
LEMMA SkipBackFollowed ==
  ASSUME RInv, NEW keep \in BOOLEAN, skipBackAndRunForward(keep)
  PROVE  Followed'
<1>1. /\ pc = "back" /\ ~assess /\ assess' = assess
      /\ current_span_start' = BackStart /\ current_span_end' = BackEnd
      /\ snaps' = snaps /\ sim_breakpoints' = sim_breakpoints
      /\ aliased' = aliased /\ break_cycles' = break_cycles
      /\ live_haps' = live_haps /\ lost_haps' = lost_haps
      /\ reverse_from' = reverse_from
      /\ was_at_reverse_point' = was_at_reverse_point
      /\ first_skip' = first_skip
  BY DEF RInv, Followed, OwnStop, skipBackAndRunForward, hapVars
<1>2. BreaksSet'
  <2>1. enabled' = enabled \cup sim_breakpoints \/ enabled' = enabled \ sim_breakpoints
    BY DEF skipBackAndRunForward
  <2> QED
    BY <1>1, <2>1 DEF RInv, Followed, BreaksSet, Hooked
<1>3. CASE ~(BackStart = rec.origin_cycle \/ BackStart \in snaps)
  <2>1. pc' = "stopped" /\ report'.kind = "bail"
    BY <1>3 DEF skipBackAndRunForward, Return
  <2> QED
    BY <1>1, <1>2, <2>1, NothingUnderWay
<1>4. CASE BackStart = rec.origin_cycle \/ BackStart \in snaps
  <2>1. /\ cycles' = BackStart /\ report' = report
        /\ rec' = RestoreRecorder(rec, BackStart, keep)
    BY <1>4 DEF skipBackAndRunForward
  <2>2. /\ reverseEnabled(rec) /\ rec.origin_cycle \in Nat /\ BackStart \in Nat
        /\ rec.origin_cycle <= BackStart
        /\ first_skip => /\ BackEnd = cycles
                         /\ BackStart = rec.origin_cycle \/ BackStart % Span = 0
    BY <1>1, <1>4, BackFinds DEF RInv
  <2>3. rec'.origin_cycle = rec.origin_cycle
    BY <2>1, <2>2, OriginKept DEF RInv
  <2>4. Unreported'
    BY <1>1, <2>1 DEF RInv, Followed, Unreported
  <2>5. CASE pc' = "skip"
    <3>1. ret' = "user" \/ pc' # "skip"
      BY <1>4 DEF skipBackAndRunForward
    <3>2. pc' \in SkipPcs /\ RanThere' /\ Landed'
      BY <2>5 DEF SkipPcs, RanThere, Landed
    <3> QED
      BY <1>1, <1>2, <2>4, <2>5, <3>1, <3>2, UserSkips
  <2>6. CASE pc' # "skip"
    <3>1. /\ pc' \in {"arm", "toReverse"} /\ disturbed' = disturbed
          /\ pc' = "arm" => enabled' = enabled \cup sim_breakpoints
          /\ pc' = "toReverse" => enabled' = enabled \ sim_breakpoints
      BY <1>4, <2>6 DEF skipBackAndRunForward
    <3>2. CASE disturbed
      BY <1>2, <2>4, <3>1, <3>2, Spoiled
    <3>3. CASE ~disturbed
      <4>1. Underway /\ break_cycles = {} /\ (first_skip => cycles = reverse_from)
        BY <1>1, <3>3 DEF RInv, Followed, GoingBack
      <4>2. Underway'
        BY <1>1, <2>3, <4>1 DEF Underway, HitsInOwnSpan, HitCycles, getMasked
      <4>3. SpanFound'
        BY <1>1, <2>2, <2>3, <4>1 DEF SpanFound, reverseEnabled
      <4>4. enabled \subseteq sim_breakpoints
        BY DEF RInv, Followed, BreaksSet, Hooked
      <4>5. Approaching'
        BY <1>1, <2>1, <2>2, <3>1, <4>1, <4>2, <4>3, <4>4 DEF Approaching
      <4>6. GoingBack' /\ Scanning'
        BY <3>1 DEF GoingBack, Scanning
      <4> QED
        BY <1>1, <1>2, <2>4, <3>1, <4>5, <4>6, Searches
    <3> QED
      BY <3>2, <3>3
  <2> QED
    BY <2>5, <2>6
<1> QED
  BY <1>3, <1>4

\* The run to the reverse_to point is given up.
LEMMA TooLateFollowed ==
  ASSUME RInv, ReverseToTooLate
  PROVE  Followed'
<1>1. /\ pc = "toReverse" /\ pc' = "stopped" /\ report'.kind = "bail"
      /\ assess' = assess /\ disturbed' = disturbed
  BY DEF ReverseToTooLate, Return
<1>2. BreaksSet'
  BY DEF RInv, Followed, BreaksSet, Hooked, ReverseToTooLate, hapVars, bpVars
<1>3. CASE disturbed
  BY <1>1, <1>2, <1>3, Spoiled DEF Unreported
<1>4. CASE ~disturbed
  <2>1. ~assess
    BY <1>1, <1>4 DEF RInv, Followed, OwnStop
  <2> QED
    BY <1>1, <1>2, <2>1, NothingUnderWay
<1> QED
  BY <1>3, <1>4

\* The scan from the start of the window is prepared.
LEMMA AtReverseToFollowed ==
  ASSUME RInv, AtReverseTo
  PROVE  Followed'
<1>1. /\ pc = "toReverse" /\ pc' = "arm" /\ assess' = assess
      /\ disturbed' = disturbed /\ report' = report
      /\ enabled' = enabled \cup sim_breakpoints /\ sim_breakpoints' = sim_breakpoints
      /\ live_haps' = live_haps /\ lost_haps' = lost_haps
      /\ was_at_reverse_point' = TRUE
      /\ cycles' = cycles /\ rec' = rec /\ break_cycles' = break_cycles
      /\ aliased' = aliased /\ reverse_from' = reverse_from
      /\ first_skip' = first_skip /\ current_span_start' = current_span_start
      /\ current_span_end' = current_span_end
  BY DEF AtReverseTo, obsVars, timeVars, recVars, hapVars
<1>2. BreaksSet' /\ Unreported'
  BY <1>1 DEF RInv, Followed, BreaksSet, Hooked, Unreported
<1>3. CASE disturbed
  BY <1>1, <1>2, <1>3, Spoiled
<1>4. CASE ~disturbed
  <2>1. ~assess
    BY <1>1, <1>4 DEF RInv, Followed, OwnStop
  <2>2. /\ Underway /\ SpanFound
        /\ break_cycles = {} /\ current_span_start <= cycles
    BY <1>1, <1>4 DEF RInv, Followed, Approaching
  <2>3. Underway' /\ SpanFound'
    BY <1>1, <2>2 DEF Underway, SpanFound, HitsInOwnSpan, HitCycles, getMasked,
       reverseEnabled
  <2>4. Approaching' /\ GoingBack' /\ Scanning'
    BY <1>1, <2>2, <2>3 DEF Approaching, GoingBack, Scanning
  <2> QED
    BY <1>1, <1>2, <2>1, <2>4, Searches
<1> QED
  BY <1>3, <1>4

\* There is nothing to scan for: no breakpoint is set.
LEMMA ArmNothingFollowed ==
  ASSUME RInv, ArmNothingToRun
  PROVE  Followed'
<1>1. /\ pc = "arm" /\ pc' = "stopped" /\ assess' = assess
      /\ disturbed' = disturbed /\ report'.kind = "stuck"
  BY DEF ArmNothingToRun, Return
<1>2. BreaksSet'
  BY DEF RInv, Followed, BreaksSet, Hooked, ArmNothingToRun, hapVars, bpVars
<1>3. CASE disturbed
  BY <1>1, <1>2, <1>3, Spoiled DEF Unreported
<1>4. CASE ~disturbed
  <2>1. ~assess
    BY <1>1, <1>4 DEF RInv, Followed, OwnStop
  <2> QED
    BY <1>1, <1>2, <2>1, NothingUnderWay
<1> QED
  BY <1>3, <1>4

\* The haps are set on all breakpoints, and no hit lies between the start of the
\* span and the cycle that the scan begins at, unless the scan begins later on
\* purpose.
LEMMA ArmScanFollowed ==
  ASSUME RInv, ArmScan
  PROVE  Followed'
<1>1. /\ pc = "arm" /\ assess' = assess /\ disturbed' = disturbed
      /\ break_haps' = break_haps \cup bp_list /\ live_haps' = live_haps \cup bp_list
      /\ lost_haps' = lost_haps
      /\ cycles' = cycles /\ rec' = rec /\ break_cycles' = break_cycles
      /\ sim_breakpoints' = sim_breakpoints /\ enabled' = enabled
      /\ aliased' = aliased /\ reverse_from' = reverse_from
      /\ first_skip' = first_skip /\ current_span_start' = current_span_start
      /\ current_span_end' = current_span_end
      /\ was_at_reverse_point' = was_at_reverse_point
      /\ current_span_end # cycles
  BY DEF ArmScan, timeVars, bpVars, revVars
<1>2. BreaksSet'
  BY <1>1 DEF RInv, Followed, BreaksSet, Hooked, bp_list
<1>3. CASE ~(current_span_end > cycles)
  <2>1. pc' = "stopped" /\ report'.kind = "raised"
    BY <1>3 DEF ArmScan, Return
  <2>2. CASE disturbed
    BY <1>1, <1>2, <2>1, <2>2, Spoiled DEF Unreported
  <2>3. CASE ~disturbed
    <3>1. ~assess
      BY <1>1, <2>3 DEF RInv, Followed, OwnStop
    <3> QED
      BY <1>1, <1>2, <2>1, <3>1, NothingUnderWay
  <2> QED
    BY <2>2, <2>3
<1>4. CASE current_span_end > cycles
  <2>1. pc' = "scan" /\ report' = report /\ span_end_posts' = {current_span_end}
    BY <1>4 DEF ArmScan
  <2>2. Unreported'
    BY <1>1, <2>1 DEF RInv, Followed, Unreported
  <2>3. CASE disturbed
    BY <1>1, <1>2, <2>1, <2>2, <2>3, Spoiled
  <2>4. CASE ~disturbed
    <3>1. ~assess
      BY <1>1, <2>4 DEF RInv, Followed, OwnStop
    <3>2. /\ Underway /\ SpanFound
          /\ break_cycles = {} /\ current_span_start <= cycles
          /\ sim_breakpoints \subseteq enabled
          /\ was_at_reverse_point \/ cycles = current_span_start
      BY <1>1, <2>4 DEF RInv, Followed, Approaching
    <3>3. Underway' /\ SpanFound'
      BY <1>1, <3>2 DEF Underway, SpanFound, HitsInOwnSpan, HitCycles, getMasked,
         reverseEnabled
    <3>4. live_haps' = sim_breakpoints /\ sim_breakpoints \subseteq break_haps'
      BY <1>1, <3>2 DEF Underway, bp_list, RInv, Followed, BreaksSet, Hooked
    <3>5. Scanned'
      BY <1>1, <3>2, <3>3, <3>4 DEF Scanned
    <3>6. cycles' <= current_span_end'
      BY <1>1, <1>4, Types DEF RInv
    <3>7. Scanning' /\ GoingBack' /\ Approaching'
      BY <1>1, <2>1, <3>5, <3>6 DEF Scanning, GoingBack, Approaching
    <3> QED
      BY <1>1, <1>2, <2>1, <2>2, <3>1, <3>7, Searches
  <2> QED
    BY <2>3, <2>4
<1> QED
  BY <1>3, <1>4

\* After the scan: every hit in the span that was run has been noted, so the
\* latest one noted is the latest one; and when none was noted in the span that
\* reverse began in, there is none.
LEMMA StopHapFollowed ==
  ASSUME RInv, stopHap
  PROVE  Followed'
<1>1. /\ pc = "stopped" /\ assess /\ ~assess'
      /\ cycles' = cycles /\ rec' = rec /\ snaps' = snaps
      /\ sim_breakpoints' = sim_breakpoints /\ enabled' = enabled
      /\ aliased' = aliased /\ reverse_from' = reverse_from
      /\ current_span_start' = current_span_start
      /\ current_span_end' = current_span_end /\ break_cycles' = break_cycles
      /\ continuation_hap' = continuation_hap
      /\ live_haps' = {} /\ lost_haps' = lost_haps /\ span_end_posts' = {}
  BY DEF stopHap, timeVars, recVars, bpVars
<1>2. BreaksSet'
  BY <1>1 DEF RInv, Followed, BreaksSet, Hooked
<1>3. ASSUME ~disturbed
      PROVE  /\ Scanned /\ continuation_hap /\ cycles = current_span_end
             /\ live_haps' = {} /\ sim_breakpoints' \subseteq enabled'
  BY <1>1, <1>3 DEF RInv, Followed, ScanEnded, Scanned
<1>4. CASE break_cycles # {}
  <2>1. /\ target' = Largest(break_cycles) /\ ret' = "callback"
        /\ (disturbed' <=> disturbed) /\ report' = NoReport
        /\ first_skip' = first_skip
        /\ pc' = IF SkipDone(Largest(break_cycles)) THEN "skipRet" ELSE "skip"
    BY <1>4, Types DEF RInv, stopHap, EnterSkip
  <2>2. Unreported' /\ pc' \in SkipPcs /\ pc' # "back"
    BY <2>1 DEF Unreported, NoReport, SkipPcs
  <2>3. CASE disturbed
    BY <1>2, <2>1, <2>2, <2>3, Spoiled
  <2>4. CASE ~disturbed
    <3>1. /\ Underway /\ SpanFound
          /\ \A c \in break_cycles :
               c \in HitCycles /\ current_span_start <= c /\ c < cycles
          /\ \A h \in HitCycles \ break_cycles :
               h < cycles => \A c \in break_cycles : h < c
      BY <1>3, <2>4 DEF Scanned
    <3>2. /\ break_cycles \in SUBSET Nat /\ cycles \in Nat
          /\ HitCycles \in SUBSET Nat /\ cycles = current_span_end
      BY <1>3, <2>4, Types, HitsAreCycles DEF RInv
    <3>3. target' \in break_cycles /\ \A c \in break_cycles : c <= target'
      <4>1. \A c \in break_cycles : c <= cycles
        BY <3>1, <3>2
      <4> QED
        BY <1>4, <2>1, <3>2, <4>1, LargestOfBounded
    <3>4. /\ target' \in Nat /\ target' \in HitCycles
          /\ current_span_start <= target' /\ target' < cycles
      BY <3>1, <3>2, <3>3
    <3>5. \A h \in HitCycles : h <= target' \/ h >= cycles
      <4>1. TAKE h \in HitCycles
      <4>2. CASE h \in break_cycles
        BY <3>3, <4>2
      <4>3. CASE h \notin break_cycles /\ h < cycles
        <5>1. h < target' /\ h \in Nat
          BY <3>1, <3>2, <3>3, <4>3
        <5> QED
          BY <3>4, <5>1
      <4>4. CASE h \notin break_cycles /\ ~(h < cycles)
        BY <3>2, <4>4
      <4> QED
        BY <4>2, <4>3, <4>4
    <3>6. pc' = "skip"
      <4>1. target' # cycles /\ ~(target' < rec.origin_cycle)
        BY <3>1, <3>2, <3>4, Types DEF RInv, SpanFound
      <4> QED
        BY <2>1, <3>1, <4>1 DEF SkipDone, SkipRefused, SpanFound
    <3>7. Underway' /\ SpanFound' /\ HitCycles' = HitCycles
      BY <1>1, <2>1, <3>1 DEF Underway, SpanFound, HitsInOwnSpan, HitCycles,
         getMasked, reverseEnabled
    <3>8. Returning'
      BY <1>1, <1>3, <2>4, <3>2, <3>4, <3>5, <3>6, <3>7 DEF Returning
    <3>9. RanThere' /\ Landed'
      BY <3>6 DEF RanThere, Landed
    <3> QED
      BY <1>1, <1>2, <2>2, <3>8, <3>9, SkipsToHit
  <2> QED
    BY <2>3, <2>4
<1>5. CASE break_cycles = {} /\ ~was_at_reverse_point /\ reverseEnabled(rec)
  <2>1. /\ pc' = "back" /\ ~first_skip' /\ disturbed' = disturbed
        /\ report' = NoReport
    BY <1>5 DEF stopHap
  <2>2. Unreported'
    BY <2>1 DEF Unreported, NoReport
  <2>3. CASE disturbed
    BY <1>1, <1>2, <2>1, <2>2, <2>3, Spoiled
  <2>4. CASE ~disturbed
    <3>1. /\ Underway /\ SpanFound /\ current_span_start <= cycles
          /\ \A h \in HitCycles : h < cycles => h < current_span_start
      BY <1>3, <1>5, <2>4 DEF Scanned
    <3>2. /\ cycles \in Nat /\ HitCycles \in SUBSET Nat /\ cycles = current_span_end
          /\ rec.origin_cycle \in Nat /\ current_span_start \in Nat
          /\ reverse_from \in Nat
      BY <1>3, <1>5, <2>4, <3>1, Types, HitsAreCycles
      DEF RInv, reverseEnabled, None, Underway, SpanFound
    <3>3. \A h \in HitsInOwnSpan : h < rec.origin_cycle
      <4>1. CASE ~first_skip
        BY <3>1, <4>1 DEF Underway
      <4>2. CASE first_skip
        <5>1. TAKE h \in HitsInOwnSpan
        <5>2. /\ h \in Nat /\ h \in HitCycles /\ h < reverse_from
              /\ getMasked(reverse_from) <= h
          BY <3>2 DEF HitsInOwnSpan
        <5>3. /\ cycles = reverse_from
              /\ \/ current_span_start = rec.origin_cycle
                 \/ current_span_start % Span = 0
          BY <3>1, <3>2, <4>2 DEF SpanFound
        <5>4. h < current_span_start
          BY <3>1, <5>2, <5>3
        <5>5. CASE current_span_start = rec.origin_cycle
          BY <5>4, <5>5
        <5>6. CASE current_span_start % Span = 0
          <6>1. current_span_start <= getMasked(reverse_from)
            BY <3>1, <3>2, <5>3, <5>6, MaskedIsLast
          <6>2. getMasked(reverse_from) \in Nat
            BY <3>2, MaskedStart
          <6> QED
            BY <3>2, <5>2, <5>4, <6>1, <6>2
        <5> QED
          BY <5>3, <5>5, <5>6
      <4> QED
        BY <4>1, <4>2
    <3>4. Underway'
      BY <1>1, <3>1, <3>3 DEF Underway, HitsInOwnSpan, HitCycles, getMasked
    <3>5. GoingBack' /\ Approaching' /\ Scanning'
      BY <1>1, <1>5, <2>1, <3>4 DEF GoingBack, Approaching, Scanning
    <3> QED
      BY <1>1, <1>2, <2>1, <2>2, <3>5, Searches
  <2> QED
    BY <2>3, <2>4
<1>6. CASE break_cycles = {} /\ ~was_at_reverse_point /\ ~reverseEnabled(rec)
  <2>1. pc' = "stopped" /\ report'.kind = "raised"
    BY <1>1, <1>6 DEF stopHap, Return
  <2> QED
    BY <1>1, <1>2, <2>1, NothingUnderWay
<1>7. CASE break_cycles = {} /\ was_at_reverse_point
  <2>1. /\ pc' = "stopped" /\ report' = [kind |-> "noHit", want |-> target]
        /\ ~callback' /\ disturbed' = disturbed
    BY <1>1, <1>7 DEF stopHap, Return
  <2>2. CASE disturbed
    BY <1>1, <1>2, <2>1, <2>2, Spoiled DEF Unreported
  <2>3. CASE ~disturbed
    <3>1. FinishedReverseDisarmed'
      BY <1>1, <1>3, <2>1, <2>3 DEF FinishedReverseDisarmed
    <3>2. Reported'
      BY <2>1, <3>1 DEF Reported, SkipLands, HitIsLatest, ReverseExact
    <3> QED
      BY <1>1, <1>2, <2>1, <3>2 DEF Followed, Unreported, OwnStop, RanThere, Landed,
         GoingBack, Approaching, Scanning, ScanEnded, Returning, SkipPcs
  <2> QED
    BY <2>2, <2>3
<1> QED
  BY <1>4, <1>5, <1>6, <1>7

-----------------------------------------------------------------------------
(* The simulator.                                                          *)

\* A stop by anything but what the run was waiting for.
LEMMA OtherStop ==
  ASSUME RInv, CanRun, Stopped(FALSE), live_haps' = live_haps,
         lost_haps' = lost_haps, enabled' = enabled, sim_breakpoints' = sim_breakpoints
  PROVE  Followed'
<1>1. disturbed' /\ pc' # "back"
  BY DEF Stopped
<1>2. Unreported'
  BY DEF RInv, Followed, Unreported, Stopped, CanRun, Running, MaxTries, IInv,
     TypeOK, TypeControl
<1>3. BreaksSet'
  BY DEF RInv, Followed, BreaksSet, Hooked
<1> QED
  BY <1>1, <1>2, <1>3, Spoiled

\* The scan notes the cycle of an instruction that trips a breakpoint; no other
\* run of a reverse or a skip has its breakpoints on.
LEMMA TickFollowed ==
  ASSUME RInv, Tick
  PROVE  Followed'
<1>1. /\ CanRun /\ ~Due /\ cycles' = cycles + 1
      /\ break_cycles' = IF Tripped \cap Hooked # {} /\ break_haps # {}
                         THEN break_cycles \cup {cycles} ELSE break_cycles
      /\ live_haps' = live_haps /\ break_haps' = break_haps
      /\ lost_haps' = lost_haps
      /\ enabled' = enabled /\ sim_breakpoints' = sim_breakpoints
      /\ assess' = assess /\ rec' = rec /\ snaps' = snaps
      /\ target' = target /\ ret' = ret /\ aliased' = aliased
      /\ first_skip' = first_skip /\ reverse_from' = reverse_from
      /\ current_span_start' = current_span_start
      /\ current_span_end' = current_span_end
      /\ was_at_reverse_point' = was_at_reverse_point
      /\ span_end_posts' = span_end_posts
  BY DEF Tick, bpVars, revVars, evVars
<1>2. CASE ~(Tripped \subseteq Hooked)
  <2>1. Stopped(FALSE)
    BY <1>2 DEF Tick
  <2> QED
    BY <1>1, <2>1, OtherStop
<1>3. CASE Tripped \subseteq Hooked
  <2>1. pc' = pc /\ disturbed' = disturbed /\ report' = report
    BY <1>3 DEF Tick, obsVars, Stopped
  <2>2. BreaksSet' /\ Unreported' /\ pc \in Running
    BY <1>1, <2>1 DEF RInv, Followed, BreaksSet, Hooked, Unreported, CanRun
  <2>3. CASE disturbed
    BY <2>1, <2>2, <2>3, Spoiled DEF Running
  <2>4. CASE ~disturbed
    <3>1. ~assess /\ cycles \in Nat
      BY <2>2, <2>4, Types DEF RInv, Followed, OwnStop, Running
    <3>2. HitCycles' = HitCycles
      BY <1>1 DEF HitCycles
    <3>3. (Underway => Underway') /\ (SpanFound => SpanFound')
      BY <1>1, <3>2 DEF Underway, SpanFound, HitsInOwnSpan, getMasked, reverseEnabled
    <3>4. CASE pc = "running"
      BY <1>1, <2>1, <2>2, <3>1, <3>4, NothingUnderWay DEF RInv, Followed, Unreported
    <3>5. CASE pc = "toCycle"
      <4>1. pc' \in SkipPcs /\ RanThere' /\ Landed'
        BY <2>1, <3>5 DEF SkipPcs, RanThere, Landed
      <4>2. Returning'
        BY <1>1, <2>1, <2>4, <3>2, <3>3, <3>5 DEF RInv, Followed, Returning, SkipPcs
      <4> QED
        BY <1>1, <2>2, <3>1, <4>1, <4>2, SkipsToHit
    <3>6. CASE pc = "toReverse"
      <4>1. /\ Underway /\ SpanFound /\ break_cycles = {}
            /\ current_span_start <= cycles /\ enabled = {}
        BY <2>4, <3>6 DEF RInv, Followed, Approaching
      <4>2. break_cycles' = {}
        BY <1>1, <4>1 DEF Tripped
      <4>3. current_span_start <= cycles + 1
        BY <3>1, <4>1, Types DEF RInv
      <4>4. Approaching' /\ GoingBack' /\ Scanning'
        BY <1>1, <2>1, <3>3, <3>6, <4>1, <4>2, <4>3 DEF Approaching, GoingBack, Scanning
      <4> QED
        BY <1>1, <2>1, <2>2, <3>1, <3>6, <4>4, Searches
    <3>7. CASE pc = "scan"
      <4>1. Scanned /\ span_end_posts = {current_span_end} /\ cycles <= current_span_end
        BY <2>4, <3>7 DEF RInv, Followed, Scanning
      <4>2. enabled = sim_breakpoints
        BY <4>1 DEF RInv, Followed, BreaksSet, Hooked, Scanned
      <4>3. break_cycles' = IF cycles \in HitCycles THEN break_cycles \cup {cycles}
                            ELSE break_cycles
        <5>1. Tripped \cap Hooked = Tripped
          BY <1>3
        <5>2. Tripped # {} => break_haps # {}
          BY <4>1, <4>2 DEF Scanned, Tripped
        <5> QED
          BY <1>1, <4>2, <5>1, <5>2, TrippedHits
      <4>4. /\ current_span_start \in Nat \cup {-1}
            /\ current_span_end \in Nat \cup {-1}
            /\ break_cycles \in SUBSET Nat /\ HitCycles \in SUBSET Nat
        BY Types, HitsAreCycles DEF RInv
      <4>5. current_span_start <= cycles + 1
        BY <3>1, <4>1, <4>4 DEF Scanned
      <4>6. \A c \in break_cycles' :
              c \in HitCycles /\ current_span_start <= c /\ c < cycles + 1
        <5>1. TAKE c \in break_cycles'
        <5>2. CASE c \in break_cycles
          BY <3>1, <4>1, <4>4, <5>2 DEF Scanned
        <5>3. CASE c \notin break_cycles
          BY <3>1, <4>1, <4>3, <5>1, <5>3 DEF Scanned
        <5> QED
          BY <5>2, <5>3
      <4>7. ASSUME NEW h \in HitCycles \ break_cycles', h < cycles + 1
            PROVE  /\ \A c \in break_cycles' : h < c
                   /\ was_at_reverse_point \/ h < current_span_start
        <5>1. h \in HitCycles \ break_cycles /\ h # cycles /\ h \in Nat
          BY <4>3, <4>4, <4>7
        <5>2. h < cycles
          BY <3>1, <4>7, <5>1
        <5>3. /\ \A c \in break_cycles : h < c
              /\ was_at_reverse_point \/ h < current_span_start
          BY <4>1, <5>1, <5>2 DEF Scanned
        <5> QED
          BY <4>3, <5>2, <5>3
      <4>8. Scanned'
        BY <1>1, <3>2, <3>3, <4>1, <4>5, <4>6, <4>7 DEF Scanned
      <4>9. cycles + 1 <= current_span_end
        <5>1. cycles # current_span_end
          BY <1>1, <4>1 DEF Due
        <5> QED
          BY <3>1, <4>1, <4>4, <5>1
      <4>10. Scanning' /\ GoingBack' /\ Approaching'
        BY <1>1, <2>1, <3>7, <4>1, <4>8, <4>9 DEF Scanning, GoingBack, Approaching
      <4> QED
        BY <1>1, <2>1, <2>2, <3>1, <3>7, <4>10, Searches
    <3> QED
      BY <2>2, <3>4, <3>5, <3>6, <3>7 DEF Running
  <2> QED
    BY <2>3, <2>4
<1> QED
  BY <1>2, <1>3

\* cycle_handler and recording_end_cycle_handler run beside a skip or a reverse.
LEMMA RecordingFollowed ==
  ASSUME RInv, cycle_handler \/ recording_end_cycle_handler
  PROVE  Followed'
<1>1. rec'.origin_cycle = rec.origin_cycle
  <2>1. CASE cycle_handler
    BY <2>1, Types, CycleHandlerSound DEF RInv, cycle_handler
  <2>2. CASE recording_end_cycle_handler
    BY <2>2, OriginKept DEF RInv, recording_end_cycle_handler
  <2> QED
    BY <2>1, <2>2
<1>2. /\ pc \in Running /\ pc' = pc /\ ret' = ret /\ target' = target
      /\ assess' = assess /\ cycles' = cycles /\ disturbed' = disturbed
      /\ report' = report
      /\ UNCHANGED <<continuation_hap, bpVars, hapVars, revVars, evVars>>
  BY DEF cycle_handler, recording_end_cycle_handler, CanRun, ctlVars, timeVars, obsVars
<1>3. BreaksSet' /\ Unreported'
  BY <1>2 DEF RInv, Followed, BreaksSet, Hooked, Unreported, bpVars,
       hapVars
<1>4. CASE disturbed
  BY <1>2, <1>3, <1>4, Spoiled DEF Running
<1>5. CASE ~disturbed
  <2>1. ~assess
    BY <1>2, <1>5 DEF RInv, Followed, OwnStop, Running
  <2>2. HitCycles' = HitCycles
    BY <1>2 DEF HitCycles, bpVars
  <2>3. (Underway => Underway') /\ (SpanFound => SpanFound')
    BY <1>1, <1>2, <2>2 DEF Underway, SpanFound, HitsInOwnSpan, getMasked,
       reverseEnabled, bpVars, revVars
  <2>4. Scanned => Scanned'
    BY <1>2, <2>2, <2>3 DEF Scanned, bpVars, hapVars, revVars
  <2>5. CASE pc = "running"
    BY <1>2, <1>3, <2>1, <2>5, NothingUnderWay DEF RInv, Followed, Unreported
  <2>6. CASE pc = "toCycle"
    <3>1. pc' \in SkipPcs /\ RanThere' /\ Landed'
      BY <1>2, <2>6 DEF SkipPcs, RanThere, Landed
    <3>2. Returning'
      BY <1>2, <1>5, <2>2, <2>3, <2>6 DEF RInv, Followed, Returning, SkipPcs,
         hapVars, revVars, evVars
    <3> QED
      BY <1>2, <1>3, <2>1, <3>1, <3>2, SkipsToHit
  <2>7. CASE pc = "toReverse"
    <3>1. Approaching' /\ GoingBack' /\ Scanning'
      BY <1>2, <1>5, <2>3, <2>7 DEF RInv, Followed, Approaching, GoingBack, Scanning,
         bpVars, hapVars, revVars
    <3> QED
      BY <1>2, <1>3, <2>1, <2>7, <3>1, Searches
  <2>8. CASE pc = "scan"
    <3>1. Approaching' /\ GoingBack' /\ Scanning'
      BY <1>2, <1>5, <2>4, <2>8 DEF RInv, Followed, Approaching, GoingBack, Scanning,
         revVars, evVars
    <3> QED
      BY <1>2, <1>3, <2>1, <2>8, <3>1, Searches
  <2> QED
    BY <1>2, <2>5, <2>6, <2>7, <2>8 DEF Running
<1> QED
  BY <1>4, <1>5

\* The event that runToCycle posts stops the run at its target.
LEMMA DeltaFollowed ==
  ASSUME RInv, delta_cycle_handler
  PROVE  Followed'
<1>1. /\ CanRun /\ cycles' = cycles /\ rec' = rec /\ snaps' = snaps
      /\ ret' = ret /\ target' = target /\ assess' = assess
      /\ span_end_posts' = span_end_posts
      /\ UNCHANGED <<bpVars, hapVars, revVars>>
  BY DEF delta_cycle_handler, timeVars
<1>2. CASE ~(pc = "toCycle" /\ cycles = target)
  <2>1. Stopped(FALSE)
    BY <1>2 DEF delta_cycle_handler, Stopped
  <2> QED
    BY <1>1, <2>1, OtherStop DEF bpVars, hapVars
<1>3. CASE pc = "toCycle" /\ cycles = target
  <2>1. pc' = "ranTo" /\ report' = report /\ (disturbed' <=> disturbed)
    BY <1>3 DEF delta_cycle_handler, Stopped
  <2>2. BreaksSet' /\ Unreported'
    BY <1>1, <1>3, <2>1 DEF RInv, Followed, BreaksSet, Hooked, Unreported, bpVars,
       hapVars
  <2>3. CASE disturbed
    BY <2>1, <2>2, <2>3, Spoiled
  <2>4. CASE ~disturbed
    <3>1. ~assess
      BY <1>3, <2>4 DEF RInv, Followed, OwnStop
    <3>2. pc' \in SkipPcs /\ RanThere' /\ Landed'
      BY <1>1, <1>3, <2>1 DEF SkipPcs, RanThere, Landed
    <3>3. HitCycles' = HitCycles
      BY <1>1 DEF HitCycles, bpVars
    <3>4. (Underway => Underway') /\ (SpanFound => SpanFound')
      BY <1>1, <3>3 DEF Underway, SpanFound, HitsInOwnSpan, getMasked,
         reverseEnabled, bpVars, revVars
    <3>5. Returning'
      BY <1>1, <1>3, <2>1, <2>4, <3>3, <3>4 DEF RInv, Followed, Returning, SkipPcs,
         hapVars, revVars
    <3> QED
      BY <1>1, <2>2, <3>1, <3>2, <3>5, SkipsToHit
  <2> QED
    BY <2>3, <2>4
<1> QED
  BY <1>2, <1>3

\* The event at the end of the span stops the scan there.
LEMMA SpanEndFollowed ==
  ASSUME RInv, span_end_cycle_handler
  PROVE  Followed'
<1>1. /\ CanRun /\ cycles \in span_end_posts /\ cycles' = cycles
      /\ rec' = rec /\ snaps' = snaps
      /\ UNCHANGED <<bpVars, hapVars, revVars>>
  BY DEF span_end_cycle_handler, timeVars
<1>2. CASE pc # "scan"
  <2>1. Stopped(FALSE)
    BY <1>2 DEF span_end_cycle_handler, Stopped
  <2> QED
    BY <1>1, <2>1, OtherStop DEF bpVars, hapVars
<1>3. CASE pc = "scan"
  <2>1. /\ pc' = "stopped" /\ report' = report /\ (disturbed' <=> disturbed)
        /\ continuation_hap'
    BY <1>3 DEF span_end_cycle_handler, Stopped
  <2>2. BreaksSet' /\ Unreported' /\ report.kind \notin {"skipTrue", "hit", "noHit"}
    BY <1>1, <1>3, <2>1 DEF RInv, Followed, BreaksSet, Hooked, Unreported, bpVars,
       hapVars
  <2>3. CASE disturbed
    BY <2>1, <2>2, <2>3, Spoiled
  <2>4. CASE ~disturbed
    <3>1. Scanned /\ span_end_posts = {current_span_end}
      BY <1>3, <2>4 DEF RInv, Followed, Scanning
    <3>2. HitCycles' = HitCycles
      BY <1>1 DEF HitCycles, bpVars
    <3>3. Underway' /\ SpanFound'
      BY <1>1, <3>1, <3>2 DEF Scanned, Underway, SpanFound, HitsInOwnSpan, getMasked,
         reverseEnabled, bpVars, revVars
    <3>4. Scanned'
      BY <1>1, <3>1, <3>2, <3>3 DEF Scanned, bpVars, hapVars, revVars
    <3>5. ScanEnded'
      BY <1>1, <2>1, <3>1, <3>4 DEF ScanEnded, revVars
    <3>6. Reported'
      BY <2>1, <2>2 DEF Reported, SkipLands, FinishedReverseDisarmed, HitIsLatest,
         ReverseExact
    <3> QED
      BY <2>1, <2>2, <3>5, <3>6 DEF Followed, OwnStop, RanThere, Landed,
         GoingBack, Approaching, Scanning, Returning, SkipPcs
  <2> QED
    BY <2>3, <2>4
<1> QED
  BY <1>2, <1>3

\* The user stops what is under way.
LEMMA UserStopFollowed ==
  ASSUME RInv, UserStop
  PROVE  Followed'
BY OtherStop DEF UserStop, bpVars, hapVars

-----------------------------------------------------------------------------
\* Nothing is under way at first.
LEMMA InitFollowed == Init => Followed
BY DEF Init, Followed, Unreported, BreaksSet, Hooked, OwnStop, RanThere, Landed,
   GoingBack, Approaching, Scanning, ScanEnded, Returning, SkipPcs, Reported, SkipLands,
   FinishedReverseDisarmed, HitIsLatest, ReverseExact, NoReport

\* What is followed is said of the variables only.
LEMMA StutterFollowed ==
  ASSUME RInv, UNCHANGED vars
  PROVE  Followed'
<1>1. UNCHANGED <<timeVars, ctlVars, recVars, bpVars, hapVars, revVars, evVars, obsVars>>
  BY DEF vars
<1>2. /\ HitCycles' = HitCycles /\ HitsInOwnSpan' = HitsInOwnSpan
      /\ \A t : (Restorable(t)' <=> Restorable(t))
                /\ (SkipRefused(t)' <=> SkipRefused(t))
  BY <1>1 DEF HitCycles, HitsInOwnSpan, getMasked, Restorable, FromOrigin, SkipMark,
     SkipRefused, reverseEnabled, bpVars, revVars, recVars
<1>3. (Underway => Underway') /\ (SpanFound => SpanFound')
  BY <1>1, <1>2 DEF Underway, SpanFound, reverseEnabled, bpVars, revVars, recVars
<1>4. Scanned => Scanned'
  BY <1>1, <1>2, <1>3 DEF Scanned, bpVars, hapVars, revVars, timeVars
<1>5. BreaksSet' /\ Unreported' /\ OwnStop' /\ RanThere'
  BY <1>1 DEF RInv, Followed, BreaksSet, Hooked, Unreported, OwnStop, RanThere,
     bpVars, hapVars, obsVars, ctlVars, timeVars
<1>6. Landed'
  BY <1>1, <1>2 DEF RInv, Followed, Landed, obsVars, ctlVars, timeVars, getMasked
<1>7. GoingBack' /\ Approaching'
  BY <1>1, <1>3 DEF RInv, Followed, GoingBack, Approaching, obsVars, ctlVars,
     timeVars, bpVars, hapVars, revVars
<1>8. Scanning' /\ ScanEnded'
  BY <1>1, <1>4 DEF RInv, Followed, Scanning, ScanEnded, obsVars, ctlVars,
     timeVars, revVars, evVars, recVars
<1>9. Returning'
  BY <1>1, <1>2, <1>3 DEF RInv, Followed, Returning, obsVars, ctlVars,
     timeVars, bpVars, hapVars, revVars, evVars, recVars
<1>10. SkipLands' /\ FinishedReverseDisarmed'
  BY <1>1, <1>2 DEF RInv, Followed, Reported, SkipLands, FinishedReverseDisarmed,
     obsVars, timeVars, bpVars, hapVars, revVars, evVars, recVars, getMasked
<1>11. HitIsLatest' /\ ReverseExact'
  BY <1>1, <1>2 DEF RInv, Followed, Reported, HitIsLatest, ReverseExact,
     obsVars, timeVars, revVars, recVars, getMasked
<1> QED
  BY <1>5, <1>6, <1>7, <1>8, <1>9, <1>10, <1>11 DEF Followed, Reported

\* Every step keeps what is followed.
LEMMA NextFollowed == RInv /\ [Next]_vars => RInv'
<1> SUFFICES ASSUME RInv, [Next]_vars PROVE RInv'
  OBVIOUS
<1>1. IInv'
  BY NextKeeps DEF RInv
<1>2. KeepsPosts \subseteq BOOLEAN
  BY KeepsPostsAssumption
<1>3. Followed'
  <2>1. CASE UNCHANGED vars
    BY <2>1, StutterFollowed
  <2>2. CASE Command
    <3>1. ASSUME NEW t \in 0..frontier, skipToCycle(t) PROVE Followed'
      BY <3>1, SkipToCycleFollowed
    <3>2. CASE revOne
      <4>1. cycles - 1 \in Nat /\ skipToCycle(cycles - 1)
        BY <3>2, Types DEF RInv, revOne
      <4> QED
        BY <4>1, SkipToCycleFollowed
    <3>3. ASSUME NEW cb \in BOOLEAN, NEW keep \in KeepsPosts,
                 NEW to \in {None} \cup 0..cycles, reverse(to, cb, keep)
          PROVE  Followed'
      <4>1. keep \in BOOLEAN /\ to \in Nat \cup {None}
        BY <1>2, Types DEF RInv
      <4> QED
        BY <3>3, <4>1, ReverseFollowed
    <3>4. CASE UserStop
      BY <3>4, UserStopFollowed
    <3> QED
      BY <2>2, <3>1, <3>2, <3>3, <3>4, CommandFollowed DEF Command
  <2>3. CASE Resume
    BY <2>3, CommandFollowed, UserStopFollowed DEF Resume
  <2>4. CASE Step
    <3>1. ASSUME NEW keep \in KeepsPosts,
                 SkipRestore(keep) \/ skipBackAndRunForward(keep)
          PROVE  Followed'
      BY <1>2, <3>1, SkipRestoreFollowed, SkipBackFollowed
    <3> QED
      BY <2>4, <3>1, TickFollowed, RecordingFollowed, DeltaFollowed,
         SpanEndFollowed, RanToCycleFollowed, SkipReturnFollowed,
         SkipAndCallbackFollowed, AtReverseToFollowed, TooLateFollowed,
         ArmNothingFollowed,
         ArmScanFollowed, StopHapFollowed DEF Step
  <2> QED
    BY <2>1, <2>2, <2>3, <2>4 DEF Next
<1> QED
  BY <1>1, <1>3 DEF RInv

\* In every reachable state, what is followed of a skip or a reverse holds: the
\* inductive invariant of the theorems below.
THEOREM ReverseFollows == Spec => []RInv
<1>1. Init => RInv
  BY InitInvariant, InitFollowed DEF RInv
<1>2. RInv /\ [Next]_vars => RInv'
  BY NextFollowed
<1> QED
  BY <1>1, <1>2, PTL DEF Spec

\* skipToCycle: an undisturbed skip that reports success, and whose snapshot
\* exists, ends at the cycle asked for or at the start of its span.
THEOREM SkipsLand == Spec => []SkipLands
<1>1. RInv => SkipLands
  BY DEF RInv, Followed, Reported
<1> QED
  BY <1>1, ReverseFollows, PTL

\* A reverse that calls back has taken its span end event away, and the breakpoint
\* haps of its scans and of those stopped before it, but not the ones that an
\* earlier disableReverse forgot; it has set the continuation hap again and
\* enabled every breakpoint.
THEOREM ReverseDisarms == Spec => []FinishedReverseDisarmed
<1>1. RInv => FinishedReverseDisarmed
  BY DEF RInv, Followed, Reported
<1> QED
  BY <1>1, ReverseFollows, PTL

\* The hit that reverse reports is one of a breakpoint that is set, the CPU is at
\* it, and no later one lies in the span that was run.
THEOREM HitsAreLatest == Spec => []HitIsLatest
<1>1. RInv => HitIsLatest
  BY DEF RInv, Followed, Reported
<1> QED
  BY <1>1, ReverseFollows, PTL

\* reverse finds the latest hit in the span it began in, if that span's snapshot
\* exists and the reverse reports a hit at all: in spite of events of earlier
\* runs, of snapshots taken on the way, and of the run to reverse_to.
THEOREM ReverseIsExact == Spec => []ReverseExact
<1>1. RInv => ReverseExact
  BY DEF RInv, Followed, Reported
<1> QED
  BY <1>1, ReverseFollows, PTL
=============================================================================
