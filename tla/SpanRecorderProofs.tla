-------------------------- MODULE SpanRecorderProofs --------------------------
(***************************************************************************)
(* Each method of the recorder keeps it sound with the snapshots it has    *)
(* taken, for every span.                                                  *)
(***************************************************************************)
EXTENDS SpanRecorder, TLAPS

\* Whole spans are multiples of the span, and conversely.
LEMMA MultipleOfSpan ==
  ASSUME NEW k \in Nat
  PROVE  (k * Span) % Span = 0
BY SpanAssumption

LEMMA Quotient ==
  ASSUME NEW c \in Nat
  PROVE  /\ c = (c \div Span) * Span + (c % Span)
         /\ c \div Span \in Nat
         /\ c % Span \in 0..(Span - 1)
BY SpanAssumption

\* getMasked gives the start of the span that a cycle lies in.
LEMMA MaskedStart ==
  ASSUME NEW c \in Nat
  PROVE  /\ getMasked(c) \in Nat /\ getMasked(c) % Span = 0
         /\ getMasked(c) <= c /\ c < getMasked(c) + Span
<1>1. getMasked(c) = (c \div Span) * Span
  BY Quotient, SpanAssumption DEF getMasked
<1>2. getMasked(c) % Span = 0
  BY <1>1, Quotient, MultipleOfSpan
<1> QED
  BY <1>2, Quotient, SpanAssumption DEF getMasked

\* The cycle after a multiple of the span by one span is one too.
LEMMA NextMultiple ==
  ASSUME NEW c \in Nat, c % Span = 0
  PROVE  c + Span \in Nat /\ (c + Span) % Span = 0
<1>1. c = (c \div Span) * Span /\ c \div Span \in Nat
  BY Quotient, SpanAssumption
<1>2. c + Span = ((c \div Span) + 1) * Span
  BY <1>1, SpanAssumption
<1>3. (c \div Span) + 1 \in Nat
  BY <1>1
<1>4. (((c \div Span) + 1) * Span) % Span = 0
  BY <1>3, MultipleOfSpan
<1> QED
  BY <1>2, <1>4, SpanAssumption

\* So is the end of the span that a cycle lies in, which is after the cycle.
LEMMA SpanEnd ==
  ASSUME NEW c \in Nat
  PROVE  /\ getMasked(c) + Span \in Nat /\ (getMasked(c) + Span) % Span = 0
         /\ c < getMasked(c) + Span
BY MaskedStart, NextMultiple

-----------------------------------------------------------------------------
\* When setNextCycle does not raise, the snapshot it posts is due on a multiple
\* of the span, after the origin and after the latest snapshot.
LEMMA NextSpanAhead ==
  ASSUME NEW r \in Recorder, NEW S \in SUBSET Nat, NEW now \in Nat,
         RecorderSound(r, S), ~SetNextRaises(r, now)
  PROVE  /\ NextSpan(r, now) \in Nat /\ NextSpan(r, now) % Span = 0
         /\ r.origin_cycle < NextSpan(r, now)
         /\ r.latest_span_end < NextSpan(r, now)
<1>0. /\ r.origin_cycle \in Nat \cup {-1} /\ r.latest_span_end \in Nat \cup {-1}
      /\ r.cycle_event \in BOOLEAN
  BY DEF Recorder, Cycle, None
<1>1. CASE AwaitsFirstSpan(r)
  <2>1. r.origin_cycle \in Nat
    BY <1>0, <1>1 DEF SetNextRaises, None
  <2>2. r.latest_span_end = -1
    BY <1>0, <1>1 DEF AwaitsFirstSpan, RecorderSound, None
  <2>3. NextSpan(r, now) = getMasked(r.origin_cycle) + Span
    BY <1>1 DEF NextSpan
  <2> QED
    BY <2>1, <2>2, <2>3, SpanEnd
<1>2. CASE ~AwaitsFirstSpan(r)
  <2>1. /\ r.latest_span_end \in Nat /\ r.latest_span_end % Span = 0
        /\ r.origin_cycle < r.latest_span_end
    BY <1>0, <1>2 DEF AwaitsFirstSpan, RecorderSound, None
  <2>2. r.latest_span_end + Span \in Nat /\ (r.latest_span_end + Span) % Span = 0
    BY <2>1, NextMultiple
  <2>3. CASE now = r.latest_span_end
    BY <1>0, <1>2, <2>1, <2>2, <2>3, SpanAssumption DEF NextSpan
  <2>4. CASE now > r.latest_span_end
    <3>1. NextSpan(r, now) = getMasked(now) + Span
      <4>1. now % Span \in Int
        BY Quotient
      <4> QED
        BY <1>2, <2>1, <2>4, <4>1, SpanAssumption DEF NextSpan, getMasked
    <3>2. /\ NextSpan(r, now) \in Nat /\ NextSpan(r, now) % Span = 0
          /\ now < NextSpan(r, now)
      BY <3>1, SpanEnd
    <3> QED
      BY <1>0, <2>1, <2>4, <3>2
  <2>5. CASE now < r.latest_span_end
    BY <1>0, <1>2, <2>1, <2>2, <2>5, SpanAssumption DEF NextSpan
  <2> QED
    BY <2>1, <2>3, <2>4, <2>5
<1> QED
  BY <1>1, <1>2

\* setNextCycle, whether it raises or posts, keeps the recorder sound.
LEMMA SetNextSound ==
  ASSUME NEW r \in Recorder, NEW S \in SUBSET Nat, NEW now \in Nat,
         RecorderSound(r, S)
  PROVE  /\ setNextCycle(r, now) \in Recorder
         /\ RecorderSound(setNextCycle(r, now), S)
         /\ setNextCycle(r, now).origin_cycle = r.origin_cycle
<1>1. CASE SetNextRaises(r, now)
  BY <1>1 DEF setNextCycle, Recorder, RecorderSound, reverseEnabled
<1>2. CASE ~SetNextRaises(r, now)
  <2>1. /\ NextSpan(r, now) \in Nat /\ NextSpan(r, now) % Span = 0
        /\ r.origin_cycle < NextSpan(r, now)
        /\ r.latest_span_end < NextSpan(r, now)
    BY <1>2, NextSpanAhead
  <2>2. reverseEnabled(r)
    BY <1>2 DEF SetNextRaises, AwaitsFirstSpan, RecorderSound, reverseEnabled
  <2> DEFINE s == setNextCycle(r, now)
             posts == (IF AwaitsFirstSpan(r) THEN r.cycle_posts ELSE {})
                      \cup {NextSpan(r, now)}
  <2>3. s = [r EXCEPT !.recording = AwaitsFirstSpan(r), !.cycle_event = TRUE,
                      !.cycle_posts = posts]
    BY <1>2 DEF setNextCycle
  <2>4. AwaitsFirstSpan(r) \in BOOLEAN
    BY DEF AwaitsFirstSpan
  <2>5. s \in Recorder
    <3>1. posts \in SUBSET Nat
      BY <2>1 DEF Recorder, Cycle
    <3> HIDE DEF posts, s
    <3> QED
      BY <2>3, <2>4, <3>1 DEF Recorder, Cycle
  <2>6. /\ s.origin_cycle = r.origin_cycle
        /\ s.latest_span_end = r.latest_span_end
        /\ s.cycle_event = TRUE
        /\ s.cycle_posts \subseteq r.cycle_posts \cup {NextSpan(r, now)}
    BY <2>3 DEF Recorder
  <2>7. RecorderSound(s, S)
    BY <2>1, <2>2, <2>6 DEF RecorderSound, reverseEnabled
  <2> QED
    BY <2>5, <2>6, <2>7
<1> QED
  BY <1>1, <1>2

\* So do the event handlers: cycle_handler, whose snapshot is added, ...
LEMMA CycleHandlerSound ==
  ASSUME NEW r \in Recorder, NEW S \in SUBSET Nat, NEW now \in r.cycle_posts,
         RecorderSound(r, S)
  PROVE  /\ CycleHandler(r, now) \in Recorder
         /\ RecorderSound(CycleHandler(r, now), S \cup {now})
         /\ CycleHandler(r, now).origin_cycle = r.origin_cycle
<1> DEFINE s == [r EXCEPT !.latest_span_end = now, !.cycle_posts = @ \ {now}]
           t == CycleHandler(r, now)
<1>1. /\ now \in Nat /\ now % Span = 0
      /\ r.origin_cycle < now /\ r.latest_span_end < now
  BY DEF Recorder, Cycle, RecorderSound
<1>2. reverseEnabled(r) /\ r.cycle_event
  BY DEF RecorderSound
<1>3. /\ s \in Recorder /\ s.origin_cycle = r.origin_cycle
      /\ s.latest_span_end = now /\ s.cycle_event
  BY <1>1, <1>2 DEF Recorder, Cycle
<1>4. ~AwaitsFirstSpan(s)
  BY <1>1, <1>3 DEF AwaitsFirstSpan, None
<1>5. NextSpan(s, now) = now + Span
  BY <1>3, <1>4 DEF NextSpan
<1>6. t = [s EXCEPT !.recording = FALSE, !.cycle_event = TRUE,
                    !.cycle_posts = {now + Span}]
  <2>1. t = setNextCycle(s, now)
    BY DEF CycleHandler
  <2>2. AwaitsFirstSpan(s) = FALSE
    BY <1>4 DEF AwaitsFirstSpan
  <2> HIDE DEF s, t
  <2> QED
    BY <1>5, <2>1, <2>2 DEF setNextCycle, SetNextRaises
<1>7. now + Span \in Nat /\ (now + Span) % Span = 0 /\ now < now + Span
  BY <1>1, NextMultiple, SpanAssumption
<1> HIDE DEF s, t
<1>8. /\ t \in Recorder /\ t.origin_cycle = r.origin_cycle
      /\ t.latest_span_end = now /\ t.cycle_event /\ t.cycle_posts = {now + Span}
  BY <1>3, <1>6, <1>7 DEF Recorder, Cycle
<1>9. RecorderSound(t, S \cup {now})
  <2>1. \A c \in S : c % Span = 0 /\ r.origin_cycle < c /\ c < now
    BY <1>1 DEF RecorderSound, Recorder, Cycle, None
  <2> QED
    BY <1>1, <1>2, <1>7, <1>8, <2>1
    DEF RecorderSound, reverseEnabled, Recorder, Cycle, None
<1> QED
  BY <1>8, <1>9 DEF t

\* ... and recording_end_cycle_handler.
LEMMA RecordingEndSound ==
  ASSUME NEW r \in Recorder, NEW S \in SUBSET Nat, NEW now \in Nat,
         RecorderSound(r, S)
  PROVE  /\ RecordingEndHandler(r, now) \in Recorder
         /\ RecorderSound(RecordingEndHandler(r, now), S)
         /\ RecordingEndHandler(r, now).origin_cycle = r.origin_cycle
<1> DEFINE s == [r EXCEPT !.recording_end_posts = @ \ {now}]
<1>1. s \in Recorder /\ s.origin_cycle = r.origin_cycle
  BY DEF Recorder
<1>2. RecorderSound(s, S)
  BY DEF RecorderSound, Recorder, reverseEnabled
<1> HIDE DEF s
<1>3. /\ setNextCycle(s, now) \in Recorder
      /\ RecorderSound(setNextCycle(s, now), S)
      /\ setNextCycle(s, now).origin_cycle = r.origin_cycle
  BY <1>1, <1>2, SetNextSound
<1> QED
  BY <1>3 DEF s, RecordingEndHandler

-----------------------------------------------------------------------------
\* Cancelling the next snapshot keeps the recorder sound, ...
LEMMA CancelSound ==
  ASSUME NEW r \in Recorder, NEW S \in SUBSET Nat, RecorderSound(r, S)
  PROVE  /\ cancelSpanCycle(r) \in Recorder
         /\ RecorderSound(cancelSpanCycle(r), S)
         /\ cancelSpanCycle(r).origin_cycle = r.origin_cycle
         /\ cancelSpanCycle(r).cycle_posts = {}
<1> DEFINE s == cancelSpanCycle(r)
<1>1. s.cycle_posts = {}
  BY DEF cancelSpanCycle, RecorderSound, Recorder
<1>2. /\ s \in Recorder
      /\ s.origin_cycle = r.origin_cycle /\ s.latest_span_end = r.latest_span_end
      /\ s.cycle_event = r.cycle_event
  BY DEF cancelSpanCycle, Recorder, Cycle
<1> HIDE DEF s
<1>3. RecorderSound(s, S)
  BY <1>1, <1>2 DEF RecorderSound, reverseEnabled
<1> QED
  BY <1>1, <1>2, <1>3 DEF s

\* ... as does the continuation hap, whichever event it posts, ...
LEMMA ContinuationSound ==
  ASSUME NEW r \in Recorder, NEW S \in SUBSET Nat, NEW now \in Nat,
         RecorderSound(r, S)
  PROVE  /\ continuationHap(r, now) \in Recorder
         /\ RecorderSound(continuationHap(r, now), S)
         /\ continuationHap(r, now).origin_cycle = r.origin_cycle
<1> DEFINE s == [r EXCEPT !.recording_end_posts = {r.latest_span_end},
                          !.recording_end_event_set = TRUE]
<1>1. ASSUME r.latest_span_end # None
      PROVE  s \in Recorder /\ RecorderSound(s, S)
             /\ s.origin_cycle = r.origin_cycle
  BY <1>1 DEF Recorder, RecorderSound, reverseEnabled, Cycle
<1> HIDE DEF s
<1>2. continuationHap(r, now) \in {r, s, setNextCycle(r, now)}
      /\ (continuationHap(r, now) = s => s = r \/ r.latest_span_end # None
                                         \/ s = setNextCycle(r, now))
  BY DEF continuationHap, setRecordingEndCycle, s
<1> QED
  BY <1>1, <1>2, SetNextSound

\* ... and restoring a snapshot, which keeps or drops what is pending.
LEMMA RestoreSound ==
  ASSUME NEW r \in Recorder, NEW S \in SUBSET Nat, NEW c \in Nat,
         NEW keep \in BOOLEAN, RecorderSound(r, S)
  PROVE  /\ RestoreRecorder(r, c, keep) \in Recorder
         /\ RecorderSound(RestoreRecorder(r, c, keep), S)
         /\ RestoreRecorder(r, c, keep).origin_cycle = r.origin_cycle
<1> DEFINE s == RestoreRecorder(r, c, keep)
<1>1. \A P \in SUBSET Nat : RestoredPosts(P, c, keep) \subseteq P
  BY DEF RestoredPosts
<1>2. /\ s \in Recorder
      /\ s.origin_cycle = r.origin_cycle /\ s.latest_span_end = r.latest_span_end
      /\ s.cycle_event = r.cycle_event /\ s.cycle_posts \subseteq r.cycle_posts
  BY <1>1 DEF RestoreRecorder, Recorder, Cycle
<1> HIDE DEF s
<1>3. RecorderSound(s, S)
  BY <1>2 DEF RecorderSound, reverseEnabled
<1> QED
  BY <1>2, <1>3 DEF s

\* Enabling sets the origin of a recorder that holds nothing; disabling leaves
\* one that holds nothing.
LEMMA EnableSound ==
  ASSUME NEW r \in Recorder, NEW S \in SUBSET Nat, NEW c \in Nat,
         RecorderSound(r, S), ~reverseEnabled(r)
  PROVE  /\ S = {} /\ [r EXCEPT !.origin_cycle = c] \in Recorder
         /\ RecorderSound([r EXCEPT !.origin_cycle = c], S)
         /\ [r EXCEPT !.origin_cycle = c].origin_cycle = c
BY DEF Recorder, Cycle, RecorderSound, reverseEnabled

LEMMA ResetSound ==
  ASSUME NEW r \in Recorder, r.cycle_posts = {}
  PROVE  /\ ResetRecorder(r) \in Recorder
         /\ RecorderSound(ResetRecorder(r), {})
         /\ ResetRecorder(r).origin_cycle = None
BY DEF ResetRecorder, Recorder, Cycle, RecorderSound, reverseEnabled
=============================================================================
