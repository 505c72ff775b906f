---------------------------- MODULE SpanRecorder ----------------------------
(***************************************************************************)
(* The recording half of ReverseMgr (simics/monitorCore/reverseMgr.py):    *)
(* which cycle the next in-memory snapshot is due at, and how recording is *)
(* suspended and resumed.  The fields of a recorder record r are           *)
(*   origin_cycle, latest_span_end   a cycle, or None                      *)
(*   recording, recording_end_event_set   as in the code                   *)
(*   cycle_event   the event class has been registered                     *)
(*   cycle_posts, recording_end_posts   absolute cycles at which events of *)
(*        the two classes are pending in the simulator's cycle queue       *)
(* Each operator maps the record before a method call to the one after it; *)
(* now is cpu.cycles.                                                      *)
(***************************************************************************)
EXTENDS Integers

CONSTANT Span          \* cycle_span

ASSUME SpanAssumption == Span \in Nat \ {0}

None == -1

Cycle == Nat

Recorder ==
  [ origin_cycle : Cycle \cup {None},
    latest_span_end : Cycle \cup {None},
    recording : BOOLEAN,
    recording_end_event_set : BOOLEAN,
    cycle_event : BOOLEAN,
    cycle_posts : SUBSET Cycle,
    recording_end_posts : SUBSET Cycle ]

getMasked(cycle) == cycle - (cycle % Span)

reverseEnabled(r) == r.origin_cycle # None

MutResetKeepsOrigin(r) ==
  [r EXCEPT !.latest_span_end = None, !.recording = FALSE,
            !.recording_end_event_set = FALSE]

\* What reset() assigns of the recorder; events already posted stay posted.
ResetRecorder(r) ==
  [r EXCEPT !.origin_cycle = None,
            !.latest_span_end = None,
            !.recording = FALSE,
            !.recording_end_event_set = FALSE]

InitRecorder ==
  [ origin_cycle |-> None, latest_span_end |-> None, recording |-> FALSE,
    recording_end_event_set |-> FALSE, cycle_event |-> FALSE,
    cycle_posts |-> {}, recording_end_posts |-> {} ]

cancelSpanCycle(r) ==
  [r EXCEPT !.cycle_posts = IF r.cycle_event THEN {} ELSE @,
            !.recording = FALSE]

\* No snapshot has been taken yet: the first one is due at the end of the
\* span that the origin lies in.
AwaitsFirstSpan(r) == ~r.cycle_event \/ r.latest_span_end = None

MutNextSpanUnmasked(r, now) == now + Span

\* The cycle setNextCycle posts the next snapshot for.
NextSpan(r, now) ==
  IF AwaitsFirstSpan(r) THEN getMasked(r.origin_cycle) + Span
  ELSE IF now = r.latest_span_end THEN now + Span
  ELSE IF now > r.latest_span_end THEN now + (Span - (now % Span))
  ELSE r.latest_span_end + Span

\* Python raises: the origin is None, or the event would lie in the past.
SetNextRaises(r, now) ==
  AwaitsFirstSpan(r) /\ (r.origin_cycle = None \/ NextSpan(r, now) < now)

\* cancelSpanCycle, in the branches that call it, also clears recording,
\* which setNextCycle has just set.
setNextCycle(r, now) ==
  IF SetNextRaises(r, now)
  THEN [r EXCEPT !.recording = TRUE, !.cycle_event = TRUE]
  ELSE [r EXCEPT !.recording = AwaitsFirstSpan(r),
                 !.cycle_event = TRUE,
                 !.cycle_posts = (IF AwaitsFirstSpan(r) THEN @ ELSE {})
                                 \cup {NextSpan(r, now)}]

\* cycle_handler, and cycleHandlerAlone run before the next instruction.
CycleHandler(r, now) ==
  setNextCycle([r EXCEPT !.latest_span_end = now,
                         !.cycle_posts = @ \ {now}], now)

setRecordingEndCycle(r, now) ==
  IF r.latest_span_end # None /\ r.latest_span_end > now
  THEN [r EXCEPT !.recording_end_posts = {r.latest_span_end},
                 !.recording_end_event_set = TRUE]
  ELSE setNextCycle(r, now)

RecordingEndHandler(r, now) ==
  setNextCycle([r EXCEPT !.recording_end_posts = @ \ {now}], now)

continuationHap(r, now) ==
  IF r.recording_end_event_set \/ r.recording
  THEN r
  ELSE setRecordingEndCycle(r, now)

\* Restoring a snapshot of cycle c: the events are registered Sim_EC_Notsaved,
\* and whether the simulator keeps those that still lie ahead is its choice.
RestoredPosts(posts, c, keep) == IF keep THEN {e \in posts : e >= c} ELSE {}

RestoreRecorder(r, c, keep) ==
  [r EXCEPT !.cycle_posts = RestoredPosts(@, c, keep),
            !.recording_end_posts = RestoredPosts(@, c, keep)]

-----------------------------------------------------------------------------
\* A recorder and the cycles S that snapshots exist for belong together: the
\* snapshots lie on multiples of the span, after the origin and up to
\* latest_span_end, which has one; the next ones are due on later multiples.
\* Nothing is held or due while reversing is not enabled.
RecorderSound(r, S) ==
  /\ ~reverseEnabled(r)
     => r.latest_span_end = None /\ S = {} /\ r.cycle_posts = {}
  /\ r.latest_span_end # None => r.cycle_event /\ r.latest_span_end \in S
  /\ ~r.cycle_event => r.cycle_posts = {}
  /\ \A c \in S : /\ c % Span = 0 /\ r.origin_cycle < c
                  /\ c <= r.latest_span_end
  /\ \A e \in r.cycle_posts : /\ e % Span = 0 /\ r.origin_cycle < e
                              /\ r.latest_span_end < e
=============================================================================
