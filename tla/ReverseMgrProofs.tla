--------------------------- MODULE ReverseMgrProofs ---------------------------
(***************************************************************************)
(* What ReverseMgr keeps in every run, for every span, set of breakpoints, *)
(* hits and bounds: its types, the soundness of the recording, and that it *)
(* implements the snapshot log.                                            *)
(***************************************************************************)
EXTENDS ReverseMgr, SpanRecorderProofs, WellFoundedInduction

\* A set of cycles with a bound has a latest one: "sorted_list[-1]".
LEMMA LargestOfBounded ==
  ASSUME NEW S \in SUBSET Nat, S # {}, NEW h \in Int, \A x \in S : x <= h
  PROVE  Largest(S) \in S /\ \A x \in S : x <= Largest(S)
<1> DEFINE U == {n \in Nat : \A x \in S : x <= n}
<1>1. PICK y \in S : TRUE
  OBVIOUS
<1>0. h \in U
  BY <1>1
<1>2. PICK u \in U : \A n \in U : u <= n
  <2>1. U \subseteq Nat /\ U # {}
    BY <1>0
  <2> HIDE DEF U
  <2>2. PICK u \in U : \A n \in U : ~(<<n, u>> \in OpToRel(<, Nat))
    BY <2>1, WFMin, NatLessThanWellFounded
  <2>3. \A n \in U : ~(n < u)
    BY <2>1, <2>2 DEF OpToRel
  <2> QED
    BY <2>1, <2>3
<1>3. u \in S
  <2>1. SUFFICES ASSUME u \notin S PROVE FALSE
    OBVIOUS
  <2>2. \A x \in S : x <= u - 1
    BY <2>1
  <2>3. u - 1 \in U
    BY <1>1, <2>2
  <2> QED
    BY <1>2, <2>3
<1>4. \A x \in S : x <= u
  BY <1>2
<1> QED
  BY <1>3, <1>4 DEF Largest

\* Restoring a snapshot leaves no event that was not pending.
LEMMA RestoredType ==
  ASSUME NEW P \in SUBSET Nat, NEW c \in Nat, NEW keep \in BOOLEAN
  PROVE  RestoredPosts(P, c, keep) \in SUBSET Nat
BY DEF RestoredPosts

\* The initial state satisfies the invariant.
LEMMA InitInvariant == Init => IInv
<1> SUFFICES ASSUME Init PROVE IInv
  OBVIOUS
<1>1. rec \in Recorder /\ rec = InitRecorder
  BY DEF Init, InitRecorder, Recorder, Cycle, None
<1>2. Horizon \in Nat
  BY SpanAssumption, BoundsAssumption DEF Horizon
<1>3. TypeOK
  <2>1. NoReport \in Report
    BY DEF NoReport, Report, Outcomes
  <2>2. 0 \in 0..MaxTries /\ 0 \in 0..MaxCommands
    BY BoundsAssumption DEF MaxTries
  <2> QED
    BY <1>1, <2>1, <2>2 DEF Init, TypeOK, TypeTime, TypeControl,
       TypeRecording, TypeBreaks, TypeReverse, Cycle
<1>4. RecorderSound(rec, snaps)
  BY <1>1 DEF Init, InitRecorder, RecorderSound, reverseEnabled
<1>5. RestoresWhenEnabled /\ WithinHorizon
  BY <1>1, <1>2 DEF Init, InitRecorder, RestoresWhenEnabled, WithinHorizon, None
<1> QED
  BY <1>3, <1>4, <1>5 DEF IInv

-----------------------------------------------------------------------------
(* Each action keeps the invariant.                                        *)

LEMMA EnableKeeps ==
  ASSUME IInv, NEW two_step \in BOOLEAN, NEW keep \in BOOLEAN,
         enableReverse(two_step, keep), commands' \in 0..MaxCommands
  PROVE  IInv'
<1> DEFINE r == [rec EXCEPT !.origin_cycle = cycles]
           t == RestoreRecorder(r, cycles, keep)
<1> USE DEF Cycle
<1>1. /\ cycles \in Nat /\ rec \in Recorder /\ snaps \in SUBSET Nat
      /\ RecorderSound(rec, snaps) /\ ~reverseEnabled(rec)
  BY DEF IInv, TypeOK, TypeTime, TypeRecording, enableReverse
<1>2. r \in Recorder /\ RecorderSound(r, snaps) /\ r.origin_cycle = cycles
  BY <1>1, EnableSound
<1>3. t \in Recorder /\ RecorderSound(t, snaps) /\ t.origin_cycle = cycles
  BY <1>1, <1>2, RestoreSound
<1>4. rec' \in {setNextCycle(r, cycles), setNextCycle(t, cycles)} /\ snaps' = snaps
  BY DEF enableReverse, recVars
<1> HIDE DEF r, t
<1>5. rec' \in Recorder /\ RecorderSound(rec', snaps') /\ rec'.origin_cycle = cycles
  BY <1>1, <1>2, <1>3, <1>4, SetNextSound
<1>6. TypeOK'
  BY <1>1, <1>5 DEF IInv, TypeOK, TypeTime, TypeControl, TypeRecording,
     TypeBreaks, TypeReverse, enableReverse, timeVars, ctlVars, bpVars, hapVars,
     revVars, evVars, obsVars, RestoredPosts, NoReport, Report, Outcomes
<1>7. RestoresWhenEnabled' /\ WithinHorizon'
  BY <1>1, <1>5 DEF IInv, RestoresWhenEnabled, WithinHorizon, enableReverse, Idle,
     ctlVars, hapVars
<1> QED
  BY <1>5, <1>6, <1>7 DEF IInv

LEMMA DisableKeeps ==
  ASSUME IInv, disableReverse, commands' \in 0..MaxCommands
  PROVE  IInv'
<1> USE DEF Cycle
<1>1. /\ cycles \in Nat /\ rec \in Recorder /\ snaps \in SUBSET Nat
      /\ RecorderSound(rec, snaps)
  BY DEF IInv, TypeOK, TypeTime, TypeRecording
<1>2. rec' \in Recorder /\ RecorderSound(rec', snaps')
  <2>1. cancelSpanCycle(rec) \in Recorder /\ cancelSpanCycle(rec).cycle_posts = {}
    BY <1>1, CancelSound
  <2> QED
    BY <2>1, ResetSound DEF disableReverse
<1>a. rec'.origin_cycle = None /\ snaps' = {}
  BY <1>1, CancelSound, ResetSound DEF disableReverse
<1>3. TypeOK'
  BY <1>1, <1>2 DEF IInv, TypeOK, TypeTime, TypeControl, TypeRecording,
     TypeBreaks, TypeReverse, disableReverse, Hooked, Idle, timeVars, ctlVars,
     recVars, bpVars, hapVars, revVars, evVars, obsVars, NoReport, Report,
     Outcomes, Return
<1>4. RestoresWhenEnabled' /\ WithinHorizon'
  <2>1. Horizon \in Nat
    BY SpanAssumption, BoundsAssumption DEF Horizon
  <2>2. cycles' = cycles /\ pc' = "stopped" /\ break_cycles' = {}
    BY DEF disableReverse, Idle, timeVars, ctlVars
  <2> QED
    BY <1>a, <2>1, <2>2 DEF IInv, RestoresWhenEnabled, WithinHorizon, None
<1> QED
  BY <1>2, <1>3, <1>4 DEF IInv

LEMMA SetBreakKeeps ==
  ASSUME IInv, NEW b \in Bps, SIM_breakpoint(b), commands' \in 0..MaxCommands
  PROVE  IInv'
<1> USE DEF Cycle
<1>1. /\ cycles \in Nat /\ rec \in Recorder /\ snaps \in SUBSET Nat
      /\ RecorderSound(rec, snaps)
  BY DEF IInv, TypeOK, TypeTime, TypeRecording
<1>2. rec' \in Recorder /\ RecorderSound(rec', snaps')
  BY <1>1 DEF SIM_breakpoint, recVars
<1>3. TypeOK'
  BY <1>1, <1>2 DEF IInv, TypeOK, TypeTime, TypeControl, TypeRecording,
     TypeBreaks, TypeReverse, SIM_breakpoint, timeVars, ctlVars, recVars,
     bpVars, hapVars, revVars, evVars, obsVars, NoReport, Report, Outcomes,
     Return
<1>4. RestoresWhenEnabled' /\ WithinHorizon'
  BY <1>1, <1>2 DEF IInv, RestoresWhenEnabled, WithinHorizon, Horizon,
     SIM_breakpoint, timeVars, ctlVars, recVars, bpVars, hapVars, revVars,
     evVars, obsVars
<1> QED
  BY <1>2, <1>3, <1>4 DEF IInv

LEMMA DeleteBreakKeeps ==
  ASSUME IInv, NEW b \in Bps, SIM_delete_breakpoint(b), commands' \in 0..MaxCommands
  PROVE  IInv'
<1> USE DEF Cycle
<1>1. /\ cycles \in Nat /\ rec \in Recorder /\ snaps \in SUBSET Nat
      /\ RecorderSound(rec, snaps)
  BY DEF IInv, TypeOK, TypeTime, TypeRecording
<1>2. rec' \in Recorder /\ RecorderSound(rec', snaps')
  BY <1>1 DEF SIM_delete_breakpoint, recVars
<1>3. TypeOK'
  BY <1>1, <1>2 DEF IInv, TypeOK, TypeTime, TypeControl, TypeRecording,
     TypeBreaks, TypeReverse, SIM_delete_breakpoint, timeVars, ctlVars,
     recVars, bpVars, hapVars, revVars, evVars, obsVars, NoReport, Report,
     Outcomes, Return
<1>4. RestoresWhenEnabled' /\ WithinHorizon'
  BY <1>1, <1>2 DEF IInv, RestoresWhenEnabled, WithinHorizon, Horizon,
     SIM_delete_breakpoint, timeVars, ctlVars, recVars, bpVars, hapVars,
     revVars, evVars, obsVars
<1> QED
  BY <1>2, <1>3, <1>4 DEF IInv

LEMMA ContinueKeeps ==
  ASSUME IInv, Continue, commands' \in 0..MaxCommands
  PROVE  IInv'
<1> USE DEF Cycle
<1>1. /\ cycles \in Nat /\ rec \in Recorder /\ snaps \in SUBSET Nat
      /\ RecorderSound(rec, snaps)
  BY DEF IInv, TypeOK, TypeTime, TypeRecording
<1>a. rec'.origin_cycle = rec.origin_cycle
  BY <1>1, ContinuationSound DEF Continue
<1>2. rec' \in Recorder /\ RecorderSound(rec', snaps')
  BY <1>1, ContinuationSound DEF Continue
<1>3. TypeOK'
  BY <1>1, <1>2 DEF IInv, TypeOK, TypeTime, TypeControl, TypeRecording,
     TypeBreaks, TypeReverse, Continue, timeVars, ctlVars, recVars, bpVars,
     hapVars, revVars, evVars, obsVars, NoReport, Report, Outcomes, Return,
     Running
<1>4. RestoresWhenEnabled' /\ WithinHorizon'
  BY <1>1, <1>2, <1>a DEF IInv, RestoresWhenEnabled, WithinHorizon, Horizon,
     Continue, timeVars, ctlVars, recVars, bpVars, hapVars, revVars, evVars,
     obsVars
<1> QED
  BY <1>2, <1>3, <1>4 DEF IInv

LEMMA SkipToCycleKeeps ==
  ASSUME IInv, NEW t \in Nat, skipToCycle(t), commands' \in 0..MaxCommands
  PROVE  IInv'
<1> USE DEF Cycle
<1>1. /\ cycles \in Nat /\ rec \in Recorder /\ snaps \in SUBSET Nat
      /\ RecorderSound(rec, snaps)
  BY DEF IInv, TypeOK, TypeTime, TypeRecording
<1>2. rec' \in Recorder /\ RecorderSound(rec', snaps')
  BY <1>1 DEF skipToCycle, recVars
<1>3. TypeOK'
  BY <1>1, <1>2 DEF IInv, TypeOK, TypeTime, TypeControl, TypeRecording,
     TypeBreaks, TypeReverse, skipToCycle, EnterSkip, timeVars, ctlVars,
     recVars, bpVars, hapVars, revVars, evVars, obsVars, NoReport, Report,
     Outcomes, Return, Internal
<1>4. RestoresWhenEnabled' /\ WithinHorizon'
  BY <1>1, <1>2 DEF IInv, RestoresWhenEnabled, WithinHorizon, Horizon,
     skipToCycle, EnterSkip, timeVars, ctlVars, recVars, bpVars, hapVars,
     revVars, evVars, obsVars, SkipDone, SkipRefused
<1> QED
  BY <1>2, <1>3, <1>4 DEF IInv

LEMMA SkipToOriginKeeps ==
  ASSUME IInv, NEW keep \in BOOLEAN, skipToOrigin(keep), commands' \in 0..MaxCommands
  PROVE  IInv'
<1> USE DEF Cycle
<1>1. /\ cycles \in Nat /\ rec \in Recorder /\ snaps \in SUBSET Nat
      /\ RecorderSound(rec, snaps)
  BY DEF IInv, TypeOK, TypeTime, TypeRecording
<1>a. rec.origin_cycle \in Nat
  BY <1>1 DEF skipToOrigin, reverseEnabled, Recorder
<1>b. rec'.origin_cycle = rec.origin_cycle
  BY <1>1, <1>a, RestoreSound DEF skipToOrigin, RestoreTo
<1>2. rec' \in Recorder /\ RecorderSound(rec', snaps')
  BY <1>1, <1>a, RestoreSound DEF skipToOrigin, RestoreTo
<1>3. TypeOK'
  <2>1. /\ RestoredPosts(span_end_posts, rec.origin_cycle, keep) \in SUBSET Nat
        /\ RestoredPosts(delta_posts, rec.origin_cycle, keep) \in SUBSET Nat
    BY <1>a, RestoredType DEF IInv, TypeOK, TypeTime
  <2>2. TypeTime' /\ TypeRecording' /\ TypeBreaks' /\ TypeReverse'
    BY <1>a, <1>2, <2>1 DEF IInv, TypeOK, TypeTime, TypeRecording, TypeBreaks,
       TypeReverse, skipToOrigin, RestoreTo, hapVars, revVars, bpVars
  <2>3. report' \in Report
    BY <1>a DEF skipToOrigin, Return, Report, Outcomes
  <2>4. TypeControl'
    BY <2>3 DEF IInv, TypeOK, TypeControl, skipToOrigin, ctlVars
  <2> QED
    BY <2>2, <2>4 DEF TypeOK
<1>4. RestoresWhenEnabled' /\ WithinHorizon'
  BY <1>1, <1>2, <1>a, <1>b DEF IInv, RestoresWhenEnabled, WithinHorizon,
     Horizon, skipToOrigin, RestoreTo, Idle, timeVars, ctlVars, recVars,
     bpVars, hapVars, revVars, evVars, obsVars, reverseEnabled
<1> QED
  BY <1>2, <1>3, <1>4 DEF IInv

LEMMA ReverseKeeps ==
  ASSUME IInv, NEW to \in Nat \cup {None}, NEW cb \in BOOLEAN, NEW keep \in BOOLEAN, 
         reverse(to, cb, keep), commands' \in 0..MaxCommands
  PROVE  IInv'
<1> USE DEF Cycle
<1>1. /\ cycles \in Nat /\ rec \in Recorder /\ snaps \in SUBSET Nat
      /\ RecorderSound(rec, snaps)
  BY DEF IInv, TypeOK, TypeTime, TypeRecording
<1>a. /\ cancelSpanCycle(rec) \in Recorder
      /\ RecorderSound(cancelSpanCycle(rec), snaps) /\ snaps' = snaps
      /\ cancelSpanCycle(rec).origin_cycle = rec.origin_cycle
  BY <1>1, CancelSound DEF reverse
<1>b. rec.origin_cycle \in Nat
  BY <1>1 DEF reverse, reverseEnabled, Recorder
<1>c. rec'.origin_cycle = rec.origin_cycle
  <2>1. CASE sim_breakpoints = {}
    BY <1>1, <1>a, <1>b, <2>1, RestoreSound DEF reverse, RestoreTo
  <2>2. CASE sim_breakpoints # {}
    BY <1>a, <2>2 DEF reverse
  <2> QED
    BY <2>1, <2>2
<1>2. rec' \in Recorder /\ RecorderSound(rec', snaps')
  <2>1. CASE sim_breakpoints = {}
    BY <1>1, <1>a, <1>b, <2>1, RestoreSound DEF reverse, RestoreTo
  <2>2. CASE sim_breakpoints # {}
    BY <1>a, <2>2 DEF reverse
  <2> QED
    BY <2>1, <2>2
<1>3. TypeOK'
  <2>1. /\ RestoredPosts(span_end_posts, rec.origin_cycle, keep) \in SUBSET Nat
        /\ RestoredPosts(delta_posts, rec.origin_cycle, keep) \in SUBSET Nat
    BY <1>b, RestoredType DEF IInv, TypeOK, TypeTime
  <2>2. TypeTime' /\ TypeBreaks'
    <3>1. CASE sim_breakpoints = {}
      BY <1>b, <2>1, <3>1 DEF IInv, TypeOK, TypeTime, TypeBreaks, reverse,
         RestoreTo
    <3>2. CASE sim_breakpoints # {}
      BY <3>2 DEF IInv, TypeOK, TypeTime, TypeBreaks, reverse, evVars
    <3> QED
      BY <3>1, <3>2
  <2>3. TypeRecording' /\ TypeReverse'
    BY <1>1, <1>2 DEF IInv, TypeOK, TypeTime, TypeRecording, TypeReverse, reverse
  <2>4. report' \in Report
    BY DEF reverse, Return, NoReport, Report, Outcomes
  <2>5. TypeControl'
    BY <2>4 DEF IInv, TypeOK, TypeControl, reverse, Idle, Internal
  <2> QED
    BY <2>2, <2>3, <2>5 DEF TypeOK
<1>4. RestoresWhenEnabled' /\ WithinHorizon'
  BY <1>1, <1>2, <1>b, <1>c DEF IInv, RestoresWhenEnabled, WithinHorizon,
     Horizon, reverse, RestoreTo, Idle, timeVars, ctlVars, recVars, bpVars,
     hapVars, revVars, evVars, obsVars, reverseEnabled
<1> QED
  BY <1>2, <1>3, <1>4 DEF IInv

-----------------------------------------------------------------------------
(* skipToCycle and its callers.                                            *)

LEMMA SkipRestoreKeeps ==
  ASSUME IInv, NEW keep \in BOOLEAN, SkipRestore(keep), commands' \in 0..MaxCommands
  PROVE  IInv'
<1> DEFINE known == FromOrigin(target) \/ SkipMark(target) \in snaps
           c == IF FromOrigin(target) THEN rec.origin_cycle
                ELSE IF known THEN SkipMark(target) ELSE cycles
           r == cancelSpanCycle(rec)
<1> USE DEF Cycle
<1>1. /\ cycles \in Nat /\ rec \in Recorder /\ snaps \in SUBSET Nat
      /\ RecorderSound(rec, snaps) /\ target \in Nat
      /\ span_end_posts \in SUBSET Nat /\ delta_posts \in SUBSET Nat
  BY DEF IInv, TypeOK, TypeTime, TypeRecording, TypeControl
<1>2. rec.origin_cycle \in Nat
  BY <1>1 DEF IInv, RestoresWhenEnabled, SkipRestore, reverseEnabled, Recorder
<1>3. r \in Recorder /\ RecorderSound(r, snaps) /\ r.origin_cycle = rec.origin_cycle
  BY <1>1, CancelSound
<1>4. c \in Nat /\ c <= Horizon
  BY <1>1, <1>2 DEF IInv, WithinHorizon
<1>5. /\ cycles' = c /\ snaps' = snaps
      /\ rec' = IF known THEN RestoreRecorder(r, c, keep) ELSE r
  BY DEF SkipRestore
<1>6. /\ span_end_posts' \in SUBSET Nat /\ delta_posts' \in SUBSET Nat
  <2>1. /\ span_end_posts' \in {RestoredPosts(span_end_posts, c, keep), span_end_posts}
        /\ delta_posts' \in {RestoredPosts(delta_posts, c, keep), delta_posts, {target}}
    BY DEF SkipRestore
  <2> HIDE DEF c
  <2> QED
    BY <1>1, <1>4, <2>1, RestoredType
<1>7. /\ pc' \in {"toCycle", "skipRet"} /\ continuation_hap' \in BOOLEAN
      /\ enabled' \in SUBSET Bps
  BY DEF SkipRestore, IInv, TypeOK, TypeRecording, TypeBreaks
<1> HIDE DEF c, r, known
<1>8. /\ rec' \in Recorder /\ RecorderSound(rec', snaps')
      /\ rec'.origin_cycle = rec.origin_cycle
  BY <1>1, <1>3, <1>4, <1>5, RestoreSound
<1>9. TypeOK'
  <2>1. TypeTime' /\ TypeRecording'
    BY <1>1, <1>4, <1>5, <1>6, <1>7, <1>8 DEF IInv, TypeOK, TypeTime,
       TypeRecording, SkipRestore, hapVars
  <2>2. TypeControl' /\ TypeBreaks' /\ TypeReverse'
    BY <1>7 DEF IInv, TypeOK, TypeControl, TypeBreaks, TypeReverse,
       SkipRestore, hapVars, revVars, obsVars, Running, Internal
  <2> QED
    BY <2>1, <2>2 DEF TypeOK
<1>10. RestoresWhenEnabled' /\ WithinHorizon'
  BY <1>4, <1>5, <1>7, <1>8 DEF IInv, RestoresWhenEnabled, WithinHorizon,
     Horizon, SkipRestore, hapVars
<1> QED
  BY <1>8, <1>9, <1>10 DEF IInv

LEMMA RanToCycleKeeps ==
  ASSUME IInv, RanToCycle, commands' \in 0..MaxCommands
  PROVE  IInv'
<1> USE DEF Cycle
<1>1. /\ cycles \in Nat /\ rec \in Recorder /\ snaps \in SUBSET Nat
      /\ RecorderSound(rec, snaps)
  BY DEF IInv, TypeOK, TypeTime, TypeRecording
<1>2. /\ rec' \in Recorder /\ RecorderSound(rec', snaps')
      /\ rec'.origin_cycle = rec.origin_cycle
  BY <1>1, SetNextSound DEF RanToCycle
<1>3. TypeOK'
  <2>1. TypeTime' /\ TypeReverse' /\ TypeRecording'
    BY <1>1, <1>2 DEF IInv, TypeOK, TypeTime, TypeReverse, TypeRecording,
       RanToCycle, timeVars, hapVars, revVars, evVars
  <2>2. report' \in Report
    BY DEF IInv, TypeOK, TypeControl, RanToCycle, Return, Report, Outcomes
  <2>3. TypeControl' /\ TypeBreaks'
    BY <2>2 DEF IInv, TypeOK, TypeControl, TypeBreaks, RanToCycle, hapVars,
       Internal, bp_list
  <2> QED
    BY <2>1, <2>3 DEF TypeOK
<1>4. RestoresWhenEnabled' /\ WithinHorizon'
  BY <1>1, <1>2 DEF IInv, RestoresWhenEnabled, WithinHorizon, Horizon,
     RanToCycle, timeVars, hapVars
<1> QED
  BY <1>2, <1>3, <1>4 DEF IInv

LEMMA SkipReturnKeeps ==
  ASSUME IInv, SkipReturn, commands' \in 0..MaxCommands
  PROVE  IInv'
<1> USE DEF Cycle
<1>1. /\ cycles \in Nat /\ rec' = rec /\ snaps' = snaps
  BY DEF IInv, TypeOK, TypeTime, SkipReturn, recVars
<1>2. TypeOK'
  <2>1. TypeTime' /\ TypeReverse' /\ TypeRecording' /\ TypeBreaks'
    BY <1>1 DEF IInv, TypeOK, TypeTime, TypeReverse, TypeRecording, TypeBreaks,
       SkipReturn, timeVars, hapVars, revVars, evVars, recVars, bpVars
  <2>2. report' \in Report
    BY DEF IInv, TypeOK, TypeControl, SkipReturn, Return, Report, Outcomes
  <2>3. TypeControl'
    BY <2>2 DEF IInv, TypeOK, TypeControl, SkipReturn
  <2> QED
    BY <2>1, <2>3 DEF TypeOK
<1>3. RestoresWhenEnabled' /\ WithinHorizon'
  BY <1>1 DEF IInv, RestoresWhenEnabled, WithinHorizon, Horizon, SkipReturn,
     timeVars, hapVars
<1> QED
  BY <1>1, <1>2, <1>3 DEF IInv

LEMMA SkipAndCallbackKeeps ==
  ASSUME IInv, skipAndCallback, commands' \in 0..MaxCommands
  PROVE  IInv'
<1> USE DEF Cycle
<1>1. /\ cycles \in Nat /\ rec \in Recorder /\ snaps \in SUBSET Nat
      /\ RecorderSound(rec, snaps)
  BY DEF IInv, TypeOK, TypeTime, TypeRecording
<1>2. /\ rec' \in Recorder /\ RecorderSound(rec', snaps')
      /\ rec'.origin_cycle = rec.origin_cycle
  BY <1>1, SetNextSound DEF skipAndCallback
<1>3. TypeOK'
  <2>1. TypeTime' /\ TypeReverse' /\ TypeRecording' /\ TypeBreaks'
    BY <1>1, <1>2 DEF IInv, TypeOK, TypeTime, TypeReverse, TypeRecording,
       TypeBreaks, skipAndCallback, timeVars, hapVars, evVars, bpVars
  <2>2. report' \in Report
    BY DEF IInv, TypeOK, TypeControl, skipAndCallback, Return, Report, Outcomes
  <2>3. TypeControl'
    BY <2>2 DEF IInv, TypeOK, TypeControl, skipAndCallback
  <2> QED
    BY <2>1, <2>3 DEF TypeOK
<1>4. RestoresWhenEnabled' /\ WithinHorizon'
  BY <1>1, <1>2 DEF IInv, RestoresWhenEnabled, WithinHorizon, Horizon,
     skipAndCallback, timeVars, hapVars
<1> QED
  BY <1>2, <1>3, <1>4 DEF IInv

-----------------------------------------------------------------------------
(* The backward scan.                                                      *)

\* The span that skipBackAndRunForward goes to is one of cycles, within the
\* horizon.
LEMMA BackSpan ==
  ASSUME IInv, pc = "back"
  PROVE  /\ rec.origin_cycle \in Nat
         /\ BackStart \in Nat /\ BackEnd \in Nat
         /\ BackStart \in snaps => BackStart <= Horizon
<1> USE DEF Cycle
<1>1. /\ cycles \in Nat /\ rec \in Recorder /\ snaps \in SUBSET Nat
      /\ Horizon \in Nat /\ \A c \in snaps : c <= Horizon
  BY SpanAssumption, BoundsAssumption DEF IInv, TypeOK, TypeTime,
     TypeRecording, WithinHorizon, Horizon
<1>2. rec.origin_cycle \in Nat
  BY <1>1 DEF IInv, RestoresWhenEnabled, reverseEnabled, Recorder
<1>3. getMasked(cycles) \in Nat
  BY <1>1, MaskedStart
<1>4. snaps # {} => Largest(snaps) \in snaps
  BY <1>1, LargestOfBounded
<1>5. BackWanted \in Int
  <2>1. getMasked(cycles) - Span \in Int
    BY <1>3, SpanAssumption
  <2>2. snaps # {} => Largest(snaps) \in Nat
    BY <1>1, <1>4
  <2> QED
    BY <1>2, <1>3, <2>1, <2>2 DEF BackWanted
<1>6. BackStart \in Nat
  <2>1. CASE BackMissing
    BY <1>1, <1>2, <1>4, <2>1 DEF BackStart, BackAtOrigin, BackWanted
  <2>2. CASE ~BackMissing
    BY <1>2, <1>5, <2>2 DEF BackStart, BackAtOrigin
  <2> QED
    BY <2>1, <2>2
<1>7. BackEnd \in Nat
  BY <1>1, <1>2, <1>5, <1>6, SpanAssumption DEF BackEnd, BackStart
<1> QED
  BY <1>1, <1>2, <1>6, <1>7

LEMMA SkipBackKeeps ==
  ASSUME IInv, NEW keep \in BOOLEAN, skipBackAndRunForward(keep),
         commands' \in 0..MaxCommands
  PROVE  IInv'
<1> USE DEF Cycle
<1>1. /\ cycles \in Nat /\ rec \in Recorder /\ snaps \in SUBSET Nat
      /\ RecorderSound(rec, snaps) /\ pc = "back" /\ snaps' = snaps
      /\ span_end_posts \in SUBSET Nat /\ delta_posts \in SUBSET Nat
  BY DEF IInv, TypeOK, TypeTime, TypeRecording, skipBackAndRunForward
<1>2. /\ rec.origin_cycle \in Nat /\ BackStart \in Nat /\ BackEnd \in Nat
      /\ BackStart \in snaps => BackStart <= Horizon
  BY <1>1, BackSpan
<1>3. /\ rec' \in Recorder /\ RecorderSound(rec', snaps')
      /\ rec'.origin_cycle = rec.origin_cycle
  <2>1. rec' \in {rec, RestoreRecorder(rec, BackStart, keep)}
    BY DEF skipBackAndRunForward
  <2> QED
    BY <1>1, <1>2, <2>1, RestoreSound
<1>4. /\ cycles' \in Nat /\ cycles' <= Horizon
      /\ span_end_posts' \in SUBSET Nat /\ delta_posts' \in SUBSET Nat
  <2>1. \/ /\ BackStart = rec.origin_cycle \/ BackStart \in snaps
           /\ cycles' = BackStart
           /\ span_end_posts' = RestoredPosts(span_end_posts, BackStart, keep)
           /\ delta_posts' = RestoredPosts(delta_posts, BackStart, keep)
        \/ cycles' = cycles /\ UNCHANGED <<span_end_posts, delta_posts>>
    BY DEF skipBackAndRunForward, evVars
  <2> QED
    BY <1>1, <1>2, <2>1, RestoredType DEF IInv, WithinHorizon
<1>5. TypeOK'
  <2>1. TypeTime' /\ TypeRecording'
    BY <1>1, <1>3, <1>4 DEF IInv, TypeOK, TypeTime, TypeRecording,
       skipBackAndRunForward, hapVars
  <2>2. TypeReverse' /\ TypeBreaks'
    BY <1>2 DEF IInv, TypeOK, TypeBreaks, TypeReverse, skipBackAndRunForward,
       hapVars, None
  <2>3. report' \in Report
    BY DEF IInv, TypeOK, TypeControl, skipBackAndRunForward, Return, Report,
       Outcomes
  <2>4. /\ pc' \in {"arm", "skip", "toReverse", "stopped"}
        /\ target' \in Nat /\ count' \in 0..MaxTries
        /\ ret' \in {"user", "callback"} /\ disturbed' \in BOOLEAN
    <3>1. /\ target \in Nat /\ count \in 0..MaxTries /\ 0 \in 0..MaxTries
          /\ ret \in {"user", "callback"} /\ disturbed \in BOOLEAN
          /\ reverse_to \in Nat \cup {-1}
      BY DEF IInv, TypeOK, TypeControl, TypeReverse, None, MaxTries
    <3>2. reverse_to > BackStart => reverse_to \in Nat
      BY <1>2, <3>1
    <3> QED
      BY <3>1, <3>2 DEF skipBackAndRunForward
  <2>5. TypeControl'
    BY <2>3, <2>4 DEF IInv, TypeOK, TypeControl, skipBackAndRunForward,
       Running, Internal
  <2> QED
    BY <2>1, <2>2, <2>5 DEF TypeOK
<1>6. RestoresWhenEnabled'
  BY <1>2, <1>3 DEF RestoresWhenEnabled, reverseEnabled, None
<1>7. WithinHorizon'
  BY <1>1, <1>3, <1>4 DEF IInv, WithinHorizon, Horizon, skipBackAndRunForward,
     hapVars
<1> QED
  BY <1>3, <1>5, <1>6, <1>7 DEF IInv

LEMMA AtReverseToKeeps ==
  ASSUME IInv, AtReverseTo, commands' \in 0..MaxCommands
  PROVE  IInv'
<1> USE DEF Cycle
<1>1. rec' = rec /\ snaps' = snaps
  BY DEF AtReverseTo, recVars
<1>2. TypeOK'
  <2>1. TypeTime' /\ TypeRecording' /\ TypeControl'
    BY DEF IInv, TypeOK, TypeTime, TypeRecording, TypeControl, AtReverseTo,
       timeVars, recVars, hapVars, evVars, obsVars, Internal
  <2>2. TypeReverse' /\ TypeBreaks'
    BY DEF IInv, TypeOK, TypeReverse, TypeBreaks, AtReverseTo, hapVars
  <2> QED
    BY <2>1, <2>2 DEF TypeOK
<1>3. RestoresWhenEnabled' /\ WithinHorizon'
  BY <1>1 DEF IInv, RestoresWhenEnabled, WithinHorizon, Horizon, AtReverseTo,
     timeVars, hapVars
<1> QED
  BY <1>1, <1>2, <1>3 DEF IInv

LEMMA ArmNothingKeeps ==
  ASSUME IInv, ArmNothingToRun \/ ReverseToTooLate, commands' \in 0..MaxCommands
  PROVE  IInv'
<1> USE DEF Cycle
<1>1. rec' = rec /\ snaps' = snaps
  BY DEF ArmNothingToRun, ReverseToTooLate, recVars
<1>2. TypeOK'
  <2>1. TypeTime' /\ TypeRecording' /\ TypeReverse' /\ TypeBreaks'
    BY DEF IInv, TypeOK, TypeTime, TypeRecording, TypeReverse, TypeBreaks,
       ArmNothingToRun, ReverseToTooLate, timeVars, recVars, bpVars, hapVars, revVars, evVars
  <2>2. report' \in Report
    BY DEF ArmNothingToRun, ReverseToTooLate, Return, Report, Outcomes
  <2>3. TypeControl'
    BY <2>2 DEF IInv, TypeOK, TypeControl, ArmNothingToRun, ReverseToTooLate
  <2> QED
    BY <2>1, <2>3 DEF TypeOK
<1>3. RestoresWhenEnabled' /\ WithinHorizon'
  BY <1>1 DEF IInv, RestoresWhenEnabled, WithinHorizon, Horizon,
     ArmNothingToRun, ReverseToTooLate, timeVars, hapVars
<1> QED
  BY <1>1, <1>2, <1>3 DEF IInv

LEMMA ArmScanKeeps ==
  ASSUME IInv, ArmScan, commands' \in 0..MaxCommands
  PROVE  IInv'
<1> USE DEF Cycle
<1>1. rec' = rec /\ snaps' = snaps
  BY DEF ArmScan
<1>2. TypeOK'
  <2>1. TypeTime' /\ TypeRecording'
    <3>1. cycles \in Nat /\ current_span_end \in Nat \cup {-1}
      BY DEF IInv, TypeOK, TypeTime, TypeReverse, None
    <3>2. span_end_posts' \in SUBSET Nat
      BY <3>1 DEF ArmScan
    <3> QED
      BY <1>1, <3>2 DEF IInv, TypeOK, TypeTime, TypeRecording, ArmScan, timeVars
  <2>2. TypeReverse' /\ TypeBreaks'
    BY DEF IInv, TypeOK, TypeReverse, TypeBreaks, ArmScan, bpVars, revVars, bp_list
  <2>3. report' \in Report
    BY DEF IInv, TypeOK, TypeControl, ArmScan, Return, Report, Outcomes, None
  <2>4. TypeControl'
    BY <2>3 DEF IInv, TypeOK, TypeControl, ArmScan, Running
  <2> QED
    BY <2>1, <2>2, <2>4 DEF TypeOK
<1>3. RestoresWhenEnabled' /\ WithinHorizon'
  BY <1>1 DEF IInv, RestoresWhenEnabled, WithinHorizon, Horizon, ArmScan,
     timeVars
<1> QED
  BY <1>1, <1>2, <1>3 DEF IInv

LEMMA StopHapKeeps ==
  ASSUME IInv, stopHap, commands' \in 0..MaxCommands
  PROVE  IInv'
<1> USE DEF Cycle
<1>1. rec' = rec /\ snaps' = snaps
  BY DEF stopHap, recVars
<1>2. break_cycles # {} => Largest(break_cycles) \in break_cycles
  <2>1. /\ break_cycles \in SUBSET Nat /\ Horizon \in Int
        /\ \A c \in break_cycles : c <= Horizon
    BY SpanAssumption, BoundsAssumption DEF IInv, TypeOK, TypeTime,
       WithinHorizon, Horizon
  <2> QED
    BY <2>1, LargestOfBounded
<1>3. target' \in Nat
  BY <1>2 DEF IInv, TypeOK, TypeControl, TypeTime, stopHap, EnterSkip
<1>4. TypeOK'
  <2>1. TypeTime' /\ TypeRecording'
    BY DEF IInv, TypeOK, TypeTime, TypeRecording, stopHap, timeVars, recVars
  <2>2. TypeReverse' /\ TypeBreaks'
    BY DEF IInv, TypeOK, TypeReverse, TypeBreaks, stopHap, bpVars
  <2>3. report' \in Report
    BY <1>3 DEF IInv, TypeOK, TypeControl, stopHap, Return, Report, Outcomes, None,
       NoReport
  <2>4. TypeControl'
    BY <1>3, <2>3 DEF IInv, TypeOK, TypeControl, stopHap, EnterSkip, Running,
       Internal
  <2> QED
    BY <2>1, <2>2, <2>4 DEF TypeOK
<1>5. RestoresWhenEnabled'
  BY <1>1 DEF IInv, RestoresWhenEnabled, stopHap, EnterSkip, SkipDone,
     SkipRefused, TypeOK, TypeControl
<1>6. WithinHorizon'
  BY <1>1 DEF IInv, WithinHorizon, Horizon, stopHap, timeVars
<1> QED
  BY <1>1, <1>4, <1>5, <1>6 DEF IInv

-----------------------------------------------------------------------------
(* The simulator.                                                          *)

\* A stop of the simulation leads to code that restores no snapshot.
LEMMA StoppedControl ==
  ASSUME IInv, CanRun, NEW own \in BOOLEAN, Stopped(own)
  PROVE  /\ pc' \in {"ranTo", "toReverse", "stopped"} /\ count' \in 0..MaxTries
         /\ continuation_hap' \in BOOLEAN /\ disturbed' \in BOOLEAN
         /\ report' \in Report
<1>1. count' \in 0..MaxTries
  BY DEF IInv, TypeOK, TypeControl, Stopped, MaxTries
<1>2. report' \in Report
  BY DEF IInv, TypeOK, TypeControl, Stopped, Report, Outcomes
<1>3. pc' \in {"ranTo", "toReverse", "stopped"}
  BY DEF Stopped
<1> QED
  BY <1>1, <1>2, <1>3 DEF IInv, TypeOK, TypeControl, TypeRecording, Stopped

LEMMA TickKeeps ==
  ASSUME IInv, Tick, commands' \in 0..MaxCommands
  PROVE  IInv'
<1> USE DEF Cycle
<1>1. rec' = rec /\ snaps' = snaps
  BY DEF Tick
<1>2. cycles \in Nat /\ Horizon \in Nat /\ cycles < Horizon
  BY SpanAssumption, BoundsAssumption DEF IInv, TypeOK, TypeTime, Tick, Horizon
<1>3. /\ cycles' = cycles + 1 /\ frontier' \in Nat
      /\ break_cycles' \subseteq break_cycles \cup {cycles}
  BY <1>2 DEF IInv, TypeOK, TypeTime, Tick
<1>4. /\ \/ pc' = pc /\ pc \in Running
         \/ pc' \in {"ranTo", "toReverse", "stopped"}
      /\ count' \in 0..MaxTries
      /\ continuation_hap' \in BOOLEAN /\ disturbed' \in BOOLEAN
      /\ report' \in Report
  <2>1. CASE Tripped \subseteq Hooked
    BY <2>1 DEF IInv, TypeOK, TypeControl, TypeRecording, Tick, CanRun, obsVars
  <2>2. CASE ~(Tripped \subseteq Hooked)
    BY <2>2, StoppedControl DEF Tick
  <2> QED
    BY <2>1, <2>2
<1>5. TypeOK'
  <2>1. TypeTime'
    BY <1>2, <1>3 DEF IInv, TypeOK, TypeTime, Tick, evVars
  <2>2. TypeRecording' /\ TypeControl'
    BY <1>4 DEF IInv, TypeOK, TypeRecording, TypeControl, Tick, Running, Internal
  <2>3. TypeReverse' /\ TypeBreaks'
    BY DEF IInv, TypeOK, TypeReverse, TypeBreaks, Tick, bpVars, revVars
  <2> QED
    BY <2>1, <2>2, <2>3 DEF TypeOK
<1>6. RestoresWhenEnabled'
  BY <1>4 DEF RestoresWhenEnabled, Running
<1>7. WithinHorizon'
  BY <1>1, <1>2, <1>3 DEF IInv, WithinHorizon, Horizon
<1> QED
  BY <1>1, <1>5, <1>6, <1>7 DEF IInv

LEMMA CycleHandlerKeeps ==
  ASSUME IInv, cycle_handler, commands' \in 0..MaxCommands
  PROVE  IInv'
<1> USE DEF Cycle
<1>1. /\ cycles \in rec.cycle_posts /\ rec \in Recorder /\ snaps \in SUBSET Nat
      /\ RecorderSound(rec, snaps) /\ cycles \in Nat
  BY DEF IInv, TypeOK, TypeTime, TypeRecording, cycle_handler
<1>2. /\ rec' \in Recorder /\ RecorderSound(rec', snaps')
      /\ rec'.origin_cycle = rec.origin_cycle
  BY <1>1, CycleHandlerSound DEF cycle_handler
<1>3. TypeOK'
  <2>1. TypeTime' /\ TypeRecording'
    BY <1>1, <1>2 DEF IInv, TypeOK, TypeTime, TypeRecording, cycle_handler,
       timeVars, hapVars, evVars
  <2>2. TypeControl' /\ TypeReverse' /\ TypeBreaks'
    BY DEF IInv, TypeOK, TypeControl, TypeReverse, TypeBreaks, cycle_handler,
       ctlVars, bpVars, hapVars, revVars, obsVars
  <2> QED
    BY <2>1, <2>2 DEF TypeOK
<1>4. RestoresWhenEnabled' /\ WithinHorizon'
  BY <1>1, <1>2 DEF IInv, RestoresWhenEnabled, reverseEnabled, WithinHorizon,
     Horizon, cycle_handler, timeVars, ctlVars, hapVars
<1> QED
  BY <1>2, <1>3, <1>4 DEF IInv

LEMMA RecordingEndKeeps ==
  ASSUME IInv, recording_end_cycle_handler, commands' \in 0..MaxCommands
  PROVE  IInv'
<1> USE DEF Cycle
<1>1. /\ rec \in Recorder /\ snaps \in SUBSET Nat
      /\ RecorderSound(rec, snaps) /\ cycles \in Nat
  BY DEF IInv, TypeOK, TypeTime, TypeRecording
<1>2. /\ rec' \in Recorder /\ RecorderSound(rec', snaps')
      /\ rec'.origin_cycle = rec.origin_cycle
  BY <1>1, RecordingEndSound DEF recording_end_cycle_handler
<1>3. TypeOK'
  <2>1. TypeTime' /\ TypeRecording'
    BY <1>1, <1>2 DEF IInv, TypeOK, TypeTime, TypeRecording,
       recording_end_cycle_handler, timeVars, hapVars, evVars
  <2>2. TypeControl' /\ TypeReverse' /\ TypeBreaks'
    BY DEF IInv, TypeOK, TypeControl, TypeReverse, TypeBreaks,
       recording_end_cycle_handler, ctlVars, bpVars, hapVars, revVars, obsVars
  <2> QED
    BY <2>1, <2>2 DEF TypeOK
<1>4. RestoresWhenEnabled' /\ WithinHorizon'
  BY <1>1, <1>2 DEF IInv, RestoresWhenEnabled, reverseEnabled, WithinHorizon,
     Horizon, recording_end_cycle_handler, timeVars, ctlVars, hapVars
<1> QED
  BY <1>2, <1>3, <1>4 DEF IInv

\* The events that only stop the simulation, and the user's stop.
LEMMA StopsKeep ==
  ASSUME IInv, delta_cycle_handler \/ span_end_cycle_handler \/ UserStop,
         commands' \in 0..MaxCommands
  PROVE  IInv'
<1> USE DEF Cycle
<1>1. rec' = rec /\ snaps' = snaps /\ timeVars' = timeVars /\ hapVars' = hapVars
  BY DEF delta_cycle_handler, span_end_cycle_handler, UserStop
<1>2. /\ pc' \in {"ranTo", "toReverse", "stopped"} /\ count' \in 0..MaxTries
      /\ continuation_hap' \in BOOLEAN /\ disturbed' \in BOOLEAN
      /\ report' \in Report
  <2>1. (pc = "scan") \in BOOLEAN /\ (pc = "toCycle" /\ cycles = target) \in BOOLEAN
    OBVIOUS
  <2> QED
    BY <2>1, StoppedControl DEF delta_cycle_handler, span_end_cycle_handler, UserStop
<1>3. /\ span_end_posts' \in SUBSET Nat /\ delta_posts' \in SUBSET Nat
      /\ assess' \in BOOLEAN /\ ret' = ret /\ target' = target
      /\ bpVars' = bpVars /\ revVars' = revVars
  BY DEF IInv, TypeOK, TypeTime, TypeControl, delta_cycle_handler,
     span_end_cycle_handler, UserStop, evVars
<1>4. TypeOK'
  <2>1. TypeTime' /\ TypeRecording'
    BY <1>1, <1>2, <1>3 DEF IInv, TypeOK, TypeTime, TypeRecording, timeVars,
       hapVars
  <2>2. TypeControl' /\ TypeReverse' /\ TypeBreaks'
    BY <1>1, <1>2, <1>3 DEF IInv, TypeOK, TypeControl, TypeReverse, TypeBreaks,
       bpVars, hapVars, revVars, Running, Internal
  <2> QED
    BY <2>1, <2>2 DEF TypeOK
<1>5. RestoresWhenEnabled' /\ WithinHorizon'
  BY <1>1, <1>2 DEF IInv, RestoresWhenEnabled, WithinHorizon, Horizon,
     timeVars, hapVars
<1> QED
  BY <1>1, <1>4, <1>5 DEF IInv

-----------------------------------------------------------------------------
\* Every step keeps the invariant.
LEMMA NextKeeps == IInv /\ [Next]_vars => IInv'
<1> SUFFICES ASSUME IInv, [Next]_vars PROVE IInv'
  OBVIOUS
<1>1. CASE UNCHANGED vars
  BY <1>1 DEF vars, timeVars, ctlVars, recVars, bpVars, hapVars, revVars, evVars,
     obsVars, IInv, TypeOK, TypeTime, TypeControl, TypeRecording, TypeBreaks,
     TypeReverse, RestoresWhenEnabled, WithinHorizon, Horizon
<1>2. CASE Command
  <2>1. commands' \in 0..MaxCommands
    BY <1>2, BoundsAssumption DEF Command, IInv, TypeOK, TypeControl
  <2>2. frontier \in Nat /\ cycles \in Nat /\ KeepsPosts \subseteq BOOLEAN
    BY KeepsPostsAssumption DEF IInv, TypeOK, TypeTime, Cycle
  <2>3. ASSUME NEW two_step \in BOOLEAN, NEW keep \in KeepsPosts,
               enableReverse(two_step, keep)
        PROVE  IInv'
    BY <2>1, <2>2, <2>3, EnableKeeps
  <2>4. CASE disableReverse
    BY <2>1, <2>4, DisableKeeps
  <2>5. ASSUME NEW b \in Bps, SIM_breakpoint(b) \/ SIM_delete_breakpoint(b)
        PROVE  IInv'
    BY <2>1, <2>5, SetBreakKeeps, DeleteBreakKeeps
  <2>6. ASSUME NEW t \in 0..frontier, skipToCycle(t) PROVE IInv'
    BY <2>1, <2>2, <2>6, SkipToCycleKeeps
  <2>7. CASE revOne
    <3>1. cycles - 1 \in Nat
      BY <2>2, <2>7 DEF revOne
    <3> QED
      BY <2>1, <2>7, <3>1, SkipToCycleKeeps DEF revOne
  <2>8. ASSUME NEW keep \in KeepsPosts, skipToOrigin(keep) PROVE IInv'
    BY <2>1, <2>2, <2>8, SkipToOriginKeeps
  <2>9. ASSUME NEW cb \in BOOLEAN, NEW keep \in KeepsPosts,
               NEW to \in {None} \cup 0..cycles, reverse(to, cb, keep)
        PROVE  IInv'
    <3>1. to \in Nat \cup {None} /\ keep \in BOOLEAN
      BY <2>2
    <3> QED
      BY <2>1, <2>9, <3>1, ReverseKeeps
  <2>10. CASE UserStop
    BY <2>1, <2>10, StopsKeep
  <2>11. CASE \E cb \in BOOLEAN, keep \in KeepsPosts, to \in {None} \cup 0..cycles :
                  reverse(to, cb, keep)
    BY <2>9, <2>11
  <2>12. CASE \E two_step \in BOOLEAN, keep \in KeepsPosts :
                  enableReverse(two_step, keep)
    BY <2>3, <2>12
  <2> QED
    BY <1>2, <2>4, <2>5, <2>6, <2>7, <2>8, <2>10, <2>11, <2>12, Zenon DEF Command
<1>3. CASE Resume
  <2>1. commands' \in 0..MaxCommands
    BY <1>3 DEF Resume, IInv, TypeOK, TypeControl
  <2> QED
    BY <1>3, <2>1, ContinueKeeps, StopsKeep DEF Resume
<1>4. CASE Step
  <2>1. commands' \in 0..MaxCommands
    BY <1>4 DEF Step, IInv, TypeOK, TypeControl
  <2>2. ASSUME NEW keep \in KeepsPosts, SkipRestore(keep) \/ skipBackAndRunForward(keep)
        PROVE  IInv'
    BY <2>1, <2>2, KeepsPostsAssumption, SkipRestoreKeeps, SkipBackKeeps
  <2>3. CASE Tick \/ cycle_handler \/ recording_end_cycle_handler
             \/ delta_cycle_handler \/ span_end_cycle_handler
    BY <2>1, <2>3, TickKeeps, CycleHandlerKeeps, RecordingEndKeeps, StopsKeep
  <2>4. CASE RanToCycle \/ SkipReturn \/ skipAndCallback
    BY <2>1, <2>4, RanToCycleKeeps, SkipReturnKeeps, SkipAndCallbackKeeps
  <2>5. CASE \/ AtReverseTo \/ ArmNothingToRun \/ ReverseToTooLate
            \/ ArmScan \/ stopHap
    BY <2>1, <2>5, AtReverseToKeeps, ArmNothingKeeps, ArmScanKeeps, StopHapKeeps
  <2> QED
    BY <1>4, <2>2, <2>3, <2>4, <2>5 DEF Step
<1> QED
  BY <1>1, <1>2, <1>3, <1>4 DEF Next

\* The strengthening that the theorems below rest on holds in every state.
THEOREM Invariance == Spec => []IInv
<1>1. Init => IInv
  BY InitInvariant
<1>2. IInv /\ [Next]_vars => IInv'
  BY NextKeeps
<1> QED
  BY <1>1, <1>2, PTL DEF Spec

\* Type correctness: among others that every cycle kept (a span bound, a
\* posted event, a skip's target) is a cycle and not a negative number.
THEOREM TypeCorrect == Spec => []TypeOK
<1>1. IInv => TypeOK
  BY DEF IInv
<1> QED
  BY <1>1, Invariance, PTL

\* Snapshots always lie on the grid that skipToCycle and
\* skipBackAndRunForward compute their names from, after the origin, and up to
\* latest_span_end, which has one.
THEOREM GridCorrect == Spec => []SnapshotGrid
<1>1. IInv => SnapshotGrid
  BY DEF IInv, RecorderSound, SnapshotGrid
<1> QED
  BY <1>1, Invariance, PTL

-----------------------------------------------------------------------------
(* The recorder implements the snapshot log.                               *)

\* Restoring and recording leave the origin alone.
LEMMA OriginKept ==
  ASSUME IInv
  PROVE  /\ \A keep \in BOOLEAN, c \in Nat :
              /\ RestoreRecorder(rec, c, keep).origin_cycle = rec.origin_cycle
              /\ RestoreRecorder(cancelSpanCycle(rec), c, keep).origin_cycle
                   = rec.origin_cycle
         /\ cancelSpanCycle(rec).origin_cycle = rec.origin_cycle
         /\ setNextCycle(rec, cycles).origin_cycle = rec.origin_cycle
         /\ continuationHap(rec, cycles).origin_cycle = rec.origin_cycle
         /\ RecordingEndHandler(rec, cycles).origin_cycle = rec.origin_cycle
<1>1. /\ cycles \in Nat /\ rec \in Recorder /\ snaps \in SUBSET Nat
      /\ RecorderSound(rec, snaps)
  BY DEF IInv, TypeOK, TypeTime, TypeRecording, Cycle
<1>2. /\ cancelSpanCycle(rec) \in Recorder
      /\ RecorderSound(cancelSpanCycle(rec), snaps)
      /\ cancelSpanCycle(rec).origin_cycle = rec.origin_cycle
  BY <1>1, CancelSound
<1> QED
  BY <1>1, <1>2, RestoreSound, SetNextSound, ContinuationSound, RecordingEndSound

\* enableReverse begins a log, disableReverse discards it.
LEMMA EnableBegins ==
  ASSUME IInv, NEW two_step \in BOOLEAN, NEW keep \in BOOLEAN,
         enableReverse(two_step, keep)
  PROVE  Log!Begin
<1> DEFINE r == [rec EXCEPT !.origin_cycle = cycles]
           t == RestoreRecorder(r, cycles, keep)
<1>1. /\ cycles \in Nat /\ rec \in Recorder /\ snaps \in SUBSET Nat
      /\ RecorderSound(rec, snaps) /\ ~reverseEnabled(rec)
  BY DEF IInv, TypeOK, TypeTime, TypeRecording, enableReverse, Cycle
<1>2. /\ snaps = {} /\ r \in Recorder /\ RecorderSound(r, snaps)
      /\ r.origin_cycle = cycles
  BY <1>1, EnableSound
<1>3. t \in Recorder /\ RecorderSound(t, snaps) /\ t.origin_cycle = cycles
  BY <1>1, <1>2, RestoreSound
<1>4. /\ rec' \in {setNextCycle(r, cycles), setNextCycle(t, cycles)}
      /\ snaps' = snaps /\ cycles' = cycles
  BY DEF enableReverse
<1> HIDE DEF r, t
<1>5. rec'.origin_cycle = cycles
  BY <1>1, <1>2, <1>3, <1>4, SetNextSound
<1> QED
  BY <1>1, <1>2, <1>4, <1>5 DEF Log!Begin, Log!Recording, reverseEnabled

LEMMA DisableDiscards ==
  ASSUME IInv, disableReverse
  PROVE  Log!Discard
<1>1. /\ rec \in Recorder /\ snaps \in SUBSET Nat /\ RecorderSound(rec, snaps)
  BY DEF IInv, TypeOK, TypeRecording, Cycle
<1>2. rec'.origin_cycle = None
  BY <1>1, CancelSound, ResetSound DEF disableReverse
<1> QED
  BY <1>2 DEF Log!Discard, disableReverse, timeVars

\* A snapshot is recorded at the far end of the log, on a multiple of the span.
LEMMA CycleHandlerRecords ==
  ASSUME IInv, cycle_handler
  PROVE  Log!Record
<1>1. /\ rec \in Recorder /\ snaps \in SUBSET Nat /\ RecorderSound(rec, snaps)
      /\ cycles \in Nat /\ cycles \in rec.cycle_posts
  BY DEF IInv, TypeOK, TypeTime, TypeRecording, Cycle, cycle_handler
<1>2. rec'.origin_cycle = rec.origin_cycle
  BY <1>1, CycleHandlerSound DEF cycle_handler
<1>3. /\ reverseEnabled(rec) /\ cycles % Span = 0 /\ cycles > rec.origin_cycle
      /\ \A c \in snaps : c < cycles
  <2>1. rec.origin_cycle \in Nat \cup {-1} /\ rec.latest_span_end \in Nat \cup {-1}
    BY <1>1 DEF Recorder, Cycle, None
  <2>2. rec.cycle_posts # {} /\ snaps \subseteq Nat
    BY <1>1
  <2>3. reverseEnabled(rec)
    BY <1>1, <2>2 DEF RecorderSound
  <2>4. /\ cycles % Span = 0 /\ rec.origin_cycle < cycles
        /\ rec.latest_span_end < cycles
    BY <1>1 DEF RecorderSound
  <2>5. \A c \in snaps : c <= rec.latest_span_end
    BY <1>1 DEF RecorderSound
  <2> QED
    BY <1>1, <2>1, <2>2, <2>3, <2>4, <2>5
<1> QED
  BY <1>2, <1>3 DEF Log!Record, Log!Recording, reverseEnabled, cycle_handler, timeVars

\* skipToCycle goes to a recorded moment or stays.
LEMMA SkipGoesBack ==
  ASSUME IInv, NEW keep \in BOOLEAN, SkipRestore(keep)
  PROVE  [Log!Next]_(Log!vars)
<1> DEFINE known == FromOrigin(target) \/ SkipMark(target) \in snaps
           c == IF FromOrigin(target) THEN rec.origin_cycle
                ELSE IF known THEN SkipMark(target) ELSE cycles
           r == cancelSpanCycle(rec)
<1>1. /\ cycles' = c /\ snaps' = snaps
      /\ rec' = IF known THEN RestoreRecorder(r, c, keep) ELSE r
  BY DEF SkipRestore
<1>2. reverseEnabled(rec) /\ rec.origin_cycle \in Nat /\ snaps \in SUBSET Nat
  BY DEF IInv, TypeOK, TypeRecording, RestoresWhenEnabled, SkipRestore,
     reverseEnabled, Recorder, Cycle
<1>3. CASE ~known
  <2>1. c = cycles
    BY <1>3
  <2>2. rec'.origin_cycle = rec.origin_cycle
    BY <1>1, <1>3, OriginKept
  <2> QED
    BY <1>1, <2>1, <2>2 DEF Log!vars
<1>4. CASE known
  <2>1. c \in snaps \cup {rec.origin_cycle}
    BY <1>4
  <2> HIDE DEF c, known
  <2>2. rec'.origin_cycle = rec.origin_cycle
    BY <1>1, <1>2, <1>4, <2>1, OriginKept
  <2> QED
    BY <1>1, <1>2, <2>1, <2>2 DEF Log!Next, Log!GoBack, Log!Recording,
       reverseEnabled
<1> QED
  BY <1>3, <1>4

\* So does the backward scan.
LEMMA SkipBackGoesBack ==
  ASSUME IInv, NEW keep \in BOOLEAN, skipBackAndRunForward(keep)
  PROVE  [Log!Next]_(Log!vars)
<1>1. /\ reverseEnabled(rec) /\ pc = "back" /\ snaps' = snaps
  BY DEF IInv, RestoresWhenEnabled, skipBackAndRunForward
<1>2. BackStart \in Nat
  BY <1>1, BackSpan
<1>3. CASE BackStart = rec.origin_cycle \/ BackStart \in snaps
  <2>1. cycles' = BackStart /\ rec' = RestoreRecorder(rec, BackStart, keep)
    BY <1>3 DEF skipBackAndRunForward
  <2>2. rec'.origin_cycle = rec.origin_cycle
    BY <1>2, <2>1, OriginKept
  <2> QED
    BY <1>1, <1>3, <2>1, <2>2 DEF Log!Next, Log!GoBack, Log!Recording,
       reverseEnabled
<1>4. CASE ~(BackStart = rec.origin_cycle \/ BackStart \in snaps)
  BY <1>1, <1>4 DEF skipBackAndRunForward, Log!vars
<1> QED
  BY <1>3, <1>4

\* Going to the origin, and reverse with no breakpoint set, which does that.
LEMMA OriginGoesBack ==
  ASSUME IInv, NEW keep \in BOOLEAN,
         skipToOrigin(keep)
         \/ \E to \in {None} \cup 0..cycles, cb \in BOOLEAN : reverse(to, cb, keep)
  PROVE  [Log!Next]_(Log!vars)
<1>1. reverseEnabled(rec) /\ rec.origin_cycle \in Nat /\ snaps' = snaps
  BY DEF IInv, TypeOK, TypeRecording, skipToOrigin, reverse, reverseEnabled,
     Recorder, Cycle
<1>2. \/ /\ cycles' = rec.origin_cycle
         /\ rec' \in {RestoreRecorder(rec, rec.origin_cycle, keep),
                      RestoreRecorder(cancelSpanCycle(rec), rec.origin_cycle, keep)}
      \/ cycles' = cycles /\ rec' = cancelSpanCycle(rec)
  BY DEF skipToOrigin, reverse, RestoreTo
<1>3. rec'.origin_cycle = rec.origin_cycle
  BY <1>1, <1>2, OriginKept
<1> QED
  BY <1>1, <1>2, <1>3 DEF Log!Next, Log!GoBack, Log!Recording, Log!vars,
     reverseEnabled

\* Every step of ReverseMgr is a step of the log or changes nothing of it.
LEMMA LogStep ==
  ASSUME IInv, [Next]_vars
  PROVE  [Log!Next]_(Log!vars)
<1>0. KeepsPosts \subseteq BOOLEAN
  BY KeepsPostsAssumption
<1>1. CASE UNCHANGED vars
  BY <1>1 DEF vars, timeVars, recVars, Log!vars
<1>2. ASSUME NEW two_step \in BOOLEAN, NEW keep \in KeepsPosts,
             enableReverse(two_step, keep)
      PROVE  [Log!Next]_(Log!vars)
  BY <1>0, <1>2, EnableBegins DEF Log!Next
<1>3. CASE disableReverse
  BY <1>3, DisableDiscards DEF Log!Next
<1>4. CASE cycle_handler
  BY <1>4, CycleHandlerRecords DEF Log!Next
<1>5. CASE Tick
  BY <1>5 DEF Tick, Log!Next, Log!Execute
<1>6. ASSUME NEW keep \in KeepsPosts, SkipRestore(keep) \/ skipBackAndRunForward(keep)
      PROVE  [Log!Next]_(Log!vars)
  BY <1>0, <1>6, SkipGoesBack, SkipBackGoesBack
<1>7. ASSUME NEW keep \in KeepsPosts,
             skipToOrigin(keep)
             \/ \E to \in {None} \cup 0..cycles, cb \in BOOLEAN : reverse(to, cb, keep)
      PROVE  [Log!Next]_(Log!vars)
  BY <1>0, <1>7, OriginGoesBack
<1>8. ASSUME NEW t, skipToCycle(t) PROVE [Log!Next]_(Log!vars)
  BY <1>8 DEF skipToCycle, timeVars, recVars, Log!vars
<1>9. ASSUME NEW b, SIM_breakpoint(b) \/ SIM_delete_breakpoint(b)
      PROVE  [Log!Next]_(Log!vars)
  BY <1>9 DEF SIM_breakpoint, SIM_delete_breakpoint, timeVars, recVars, Log!vars
<1>10. CASE \/ Continue \/ RanToCycle \/ skipAndCallback
            \/ recording_end_cycle_handler
  BY <1>10, OriginKept DEF Continue, RanToCycle, skipAndCallback,
     recording_end_cycle_handler, timeVars, Log!vars
<1>11. CASE \/ delta_cycle_handler \/ span_end_cycle_handler \/ UserStop
            \/ SkipReturn \/ AtReverseTo \/ ReverseToTooLate
            \/ ArmNothingToRun \/ ArmScan \/ stopHap
  BY <1>11 DEF delta_cycle_handler, span_end_cycle_handler, UserStop, SkipReturn,
     AtReverseTo, ReverseToTooLate, ArmNothingToRun, ArmScan, stopHap, timeVars,
     recVars, Log!vars
<1>12. CASE Command
  BY <1>2, <1>3, <1>7, <1>8, <1>9, <1>11, <1>12 DEF Command, revOne
<1>13. CASE Resume
  BY <1>10, <1>11, <1>13 DEF Resume
<1>14. CASE Step
  BY <1>4, <1>5, <1>6, <1>10, <1>11, <1>14 DEF Step
<1> QED
  BY <1>1, <1>12, <1>13, <1>14 DEF Next

\* ReverseMgr implements the snapshot log: time moves by one instruction or to
\* a recorded cycle, and the recording grows at its far end only.
THEOREM LogImplemented == Spec => ImplementsLog
<1>1. Init => Log!Init
  BY DEF Init, Log!Init, InitRecorder
<1>2. IInv /\ [Next]_vars => [Log!Next]_(Log!vars)
  BY LogStep
<1> QED
  BY <1>1, <1>2, Invariance, PTL DEF Spec, ImplementsLog, Log!Spec
=============================================================================
