------------------------- MODULE FuzzSessionProofs -------------------------
(***************************************************************************)
(* What holds of a fuzzing session for every set of blocks and pages,      *)
(* every number of cycles and inputs, and every choice of delay, target    *)
(* and commence count: types, that results are made from one run, that it  *)
(* implements the rounds of AFL, and that the back stop ends only a run    *)
(* that set it.  What starts a run (goN, SIM_continue) is always last in   *)
(* the queue of SIM_run_alone: that is the invariant's heart.              *)
(***************************************************************************)
EXTENDS FuzzSession, SequenceTheorems, TLAPS

Fn == {"goN", "SIM_continue", "quitAlone", "rmCounterHap", "pageFaultHapAlone",
       "rmModeHapAlone", "hang_callback", "setFutureCycleAlone", "setHangCallback"}

Call == [fn : Fn, arg : Status \cup {None, BackStopCycles}]

Has(q, fn) == \E i \in 1 .. Len(q) : q[i].fn = fn

Starts(q) == Has(q, "goN") \/ Has(q, "SIM_continue")

\* A starter is last, the break of counted reads is removed once, and the back stop is
\* always posted for the same number of cycles.
QueueOk(q) ==
    /\ q \in Seq(Call)
    /\ \A i \in 1 .. Len(q) :
         /\ q[i].fn \in {"goN", "SIM_continue"} => i = Len(q)
         /\ q[i].fn = "setFutureCycleAlone" => q[i].arg = BackStopCycles
    /\ \A i, j \in 1 .. Len(q) :
         q[i].fn = "rmCounterHap" /\ q[j].fn = "rmCounterHap" => i = j

BackStopRec ==
    [cycle_event : BOOLEAN, back_stop_cycle : BOOLEAN, post : Nat \cup {None},
     delay : Int \cup {None}, hang_cycles : Nat \cup {None}, hang_delta : Nat,
     hang_callback : BOOLEAN, hang_posts : SUBSET Nat]

CovRec ==
    [bps : SUBSET Block, trace : [Edge -> 0 .. Saturated], prev : Block \cup {None},
     hits : SUBSET Input, hit_255 : SUBSET Block, suspended : SUBSET Block,
     status : Status, blame : SUBSET Input]

PfRec ==
    [pending : Page \cup {None}, by : SUBSET Input, faulted : SUBSET Page,
     mode_hap : BOOLEAN, ptable_break : BOOLEAN, ptable_hap : BOOLEAN]

AflRec ==
    [data : Input, already_got_data : BOOLEAN, stop_hap : BOOLEAN, restart : BOOLEAN,
     recv : {None, "first", "next"}, status : Status, exit_counter : Nat,
     counter_hap : BOOLEAN, counter_bps : Nat, closed_fd : SUBSET Input]

TargetRec ==
    [fault : Page \cup {None}, mapped : BOOLEAN, inside : SUBSET Block, reads : Nat]

PeerRec == [up : BOOLEAN, inbox : Seq(Input), sent : Input]

ResultRec ==
    [input : Input, status : Status, restart : BOOLEAN, from : SUBSET Input,
     faulted : BOOLEAN]

Shape ==
    /\ cycle \in 0 .. MaxCycle /\ sim \in {"run", "breaking", "stopped", "quit"}
    /\ bs \in BackStopRec /\ cov \in CovRec /\ pf \in PfRec /\ afl \in AflRec
    /\ target \in TargetRec /\ peer \in PeerRec /\ results \in Seq(ResultRec)
    /\ exit_callback \in {"didExit", "recordExit"}

\* A run is on, or interrupted at the origin and about to go on.
Live == sim \in {"run", "breaking"} \/ Has(alone, "SIM_continue")

QueueInv ==
    /\ QueueOk(alone)
    /\ sim \in {"run", "breaking"} => ~Starts(alone)
    /\ Live => ~Has(alone, "quitAlone")

\* There is a break at the counted call while its hap is there or waits to be removed.
CountInv ==
    /\ Has(alone, "rmCounterHap") => ~afl.counter_hap
    /\ Has(alone, "rmCounterHap") \/ afl.counter_hap => afl.counter_bps > 0

\* Inputs and results take turns; at most one input is under way.
RoundInv ==
    /\ Live => afl.data = Len(results) + 1 /\ afl.recv = None /\ afl.stop_hap
    /\ Has(alone, "goN") =>
          /\ afl.recv = None
          /\ \/ afl.data = Len(results) + 1 /\ (afl.stop_hap \/ afl.already_got_data)
             \/ ~afl.stop_hap /\ ~afl.already_got_data /\ afl.data = 0 /\ Len(results) = 0
    /\ afl.recv # None =>
          /\ afl.data = Len(results) /\ (afl.data > 0 => ~results[afl.data].restart)
          /\ \/ peer.inbox = <<>> /\ peer.sent = afl.data
             \/ peer.inbox = <<afl.data + 1>> /\ peer.sent = afl.data + 1
    /\ afl.recv = None => peer.inbox = <<>> /\ peer.sent = afl.data
    /\ afl.recv = "first" => alone = <<>>
    /\ afl.recv = "next" => afl.stop_hap
    /\ afl.already_got_data => Has(alone, "goN") /\ Len(results) = 0

\* What a run collects is of its input; no page fault is pending between runs.
OwnInv ==
    /\ Live => cov.hits \cup cov.blame \cup afl.closed_fd \cup pf.by \subseteq {afl.data}
    /\ ~Live => pf.by = {}
    /\ ResultsAreOwn

\* The back stop of a run is set after a hit of it.
StopInv ==
    Live =>
      /\ \/ bs.post # None \/ Has(alone, "setFutureCycleAlone") \/ cov.hit_255 # {}
         \/ \E e \in Edge : cov.trace[e] # 0
         => cov.hits # {}
      /\ bs.post # None => bs.post + cycle >= BackStopCycles \/ cycle = MaxCycle

IInv == Shape /\ QueueInv /\ CountInv /\ RoundInv /\ OwnInv /\ StopInv

-----------------------------------------------------------------------------
(***************************************************************************)
(* The queue.                                                              *)
(***************************************************************************)

\* Appending to a queue without a starter.
LEMMA QueueConcat ==
  ASSUME NEW q, NEW p, QueueOk(q), QueueOk(p), ~Starts(q),
         ~(Has(q, "rmCounterHap") /\ Has(p, "rmCounterHap"))
  PROVE  /\ QueueOk(q \o p)
         /\ \A f : Has(q \o p, f) <=> Has(q, f) \/ Has(p, f)
<1> DEFINE r == q \o p
<1>1. q \in Seq(Call) /\ p \in Seq(Call)
  BY DEF QueueOk
<1>2. /\ r \in Seq(Call) /\ Len(r) = Len(q) + Len(p)
      /\ \A i \in 1 .. Len(q) + Len(p) :
            r[i] = IF i <= Len(q) THEN q[i] ELSE p[i - Len(q)]
  BY <1>1, ConcatProperties
<1>3. Len(q) \in Nat /\ Len(p) \in Nat
  BY <1>1, LenProperties
<1> HIDE DEF r
<1>4. \A i \in 1 .. Len(q) : i \in 1 .. Len(r) /\ r[i] = q[i]
  BY <1>2, <1>3
<1>5. \A i \in 1 .. Len(p) : i + Len(q) \in 1 .. Len(r) /\ r[i + Len(q)] = p[i]
  BY <1>2, <1>3
<1>6. \A i \in 1 .. Len(r) : \/ i \in 1 .. Len(q)
                             \/ i > Len(q) /\ i - Len(q) \in 1 .. Len(p)
  BY <1>2, <1>3
<1>7. \A i \in 1 .. Len(r) : i > Len(q) => r[i] = p[i - Len(q)]
  BY <1>2, <1>3
<1>8. ASSUME NEW f PROVE Has(r, f) <=> Has(q, f) \/ Has(p, f)
  <2>1. ASSUME NEW i \in 1 .. Len(r), r[i].fn = f PROVE Has(q, f) \/ Has(p, f)
    <3>1. CASE i \in 1 .. Len(q)
      BY <2>1, <3>1, <1>4 DEF Has
    <3>2. CASE i > Len(q) /\ i - Len(q) \in 1 .. Len(p)
      BY <2>1, <3>2, <1>7 DEF Has
    <3> QED
      BY <3>1, <3>2, <1>6
  <2>2. Has(q, f) => Has(r, f)
    BY <1>4 DEF Has
  <2>3. Has(p, f) => Has(r, f)
    BY <1>5 DEF Has
  <2> QED
    BY <2>1, <2>2, <2>3 DEF Has
<1>9. ASSUME NEW i \in 1 .. Len(r)
      PROVE  /\ r[i].fn \in {"goN", "SIM_continue"} => i = Len(r)
             /\ r[i].fn = "setFutureCycleAlone" => r[i].arg = BackStopCycles
  <2>1. CASE i \in 1 .. Len(q)
    <3>1. r[i] = q[i] /\ ~(q[i].fn \in {"goN", "SIM_continue"})
      BY <2>1, <1>4 DEF Starts, Has
    <3>2. q[i].fn = "setFutureCycleAlone" => q[i].arg = BackStopCycles
      BY <2>1 DEF QueueOk
    <3> QED
      BY <3>1, <3>2
  <2>2. CASE i > Len(q) /\ i - Len(q) \in 1 .. Len(p)
    <3>1. PICK k \in 1 .. Len(p) : k = i - Len(q)
      BY <2>2
    <3>2. /\ p[k].fn \in {"goN", "SIM_continue"} => k = Len(p)
          /\ p[k].fn = "setFutureCycleAlone" => p[k].arg = BackStopCycles
      BY DEF QueueOk
    <3>3. r[i] = p[k]
      BY <2>2, <3>1, <1>7
    <3> QED
      BY <3>1, <3>2, <3>3, <1>2, <1>3
  <2> QED
    BY <2>1, <2>2, <1>6
<1>10. ASSUME NEW i \in 1 .. Len(r), NEW j \in 1 .. Len(r),
              r[i].fn = "rmCounterHap", r[j].fn = "rmCounterHap"
       PROVE  i = j
  <2>1. CASE i \in 1 .. Len(q) /\ j \in 1 .. Len(q)
    BY <2>1, <1>4, <1>10 DEF QueueOk
  <2>2. CASE /\ i > Len(q) /\ i - Len(q) \in 1 .. Len(p)
             /\ j > Len(q) /\ j - Len(q) \in 1 .. Len(p)
    <3>1. i - Len(q) = j - Len(q)
      BY <2>2, <1>7, <1>10 DEF QueueOk
    <3> QED
      BY <3>1, <1>2, <1>3
  <2>3. ~(i \in 1 .. Len(q) /\ j - Len(q) \in 1 .. Len(p) /\ j > Len(q))
    BY <1>4, <1>7, <1>10 DEF Has
  <2>4. ~(j \in 1 .. Len(q) /\ i - Len(q) \in 1 .. Len(p) /\ i > Len(q))
    BY <1>4, <1>7, <1>10 DEF Has
  <2> QED
    BY <2>1, <2>2, <2>3, <2>4, <1>6
<1> QED
  BY <1>2, <1>8, <1>9, <1>10 DEF QueueOk, r

\* A queue of one function, and an empty one.
LEMMA QueueOne ==
  ASSUME NEW f \in Fn, NEW a \in Status \cup {None, BackStopCycles},
         f = "setFutureCycleAlone" => a = BackStopCycles
  PROVE  /\ QueueOk(<<Alone(f, a)>>)
         /\ \A g : Has(<<Alone(f, a)>>, g) <=> g = f
BY DEF QueueOk, Has, Alone, Call

LEMMA QueueEmpty == QueueOk(<<>>) /\ \A g : ~Has(<<>>, g)
BY DEF QueueOk, Has

LEMMA QueueAppend ==
  ASSUME NEW q, QueueOk(q), ~Starts(q),
         NEW f \in Fn, NEW a \in Status \cup {None, BackStopCycles},
         f = "setFutureCycleAlone" => a = BackStopCycles,
         f # "rmCounterHap"
  PROVE  /\ QueueOk(Append(q, Alone(f, a)))
         /\ \A g : Has(Append(q, Alone(f, a)), g) <=> Has(q, g) \/ g = f
<1>1. Alone(f, a) \in Call
  BY DEF Alone, Call
<1>2. Append(q, Alone(f, a)) = q \o <<Alone(f, a)>>
  BY <1>1, AppendIsConcat DEF QueueOk
<1>3. QueueOk(<<Alone(f, a)>>) /\ \A g : Has(<<Alone(f, a)>>, g) <=> g = f
  BY QueueOne
<1> QED
  BY <1>2, <1>3, QueueConcat

\* What is taken from the queue: after a starter nothing is left.
LEMMA QueueTail ==
  ASSUME NEW q, QueueOk(q), q # <<>>
  PROVE  /\ Tail(q) \o <<>> = Tail(q)
         /\ QueueOk(Tail(q))
         /\ Head(q) \in Call
         /\ Has(q, Head(q).fn)
         /\ Head(q).fn = "setFutureCycleAlone" => Head(q).arg = BackStopCycles
         /\ \A f : Has(Tail(q), f) => Has(q, f)
         /\ \A f : Has(q, f) /\ Head(q).fn # f => Has(Tail(q), f)
         /\ Head(q).fn \in {"goN", "SIM_continue"} => \A f : ~Has(Tail(q), f)
         /\ Head(q).fn = "rmCounterHap" => ~Has(Tail(q), "rmCounterHap")
<1> DEFINE t == Tail(q)
<1>1. q \in Seq(Call)
  BY DEF QueueOk
<1>2. /\ Head(q) \in Call /\ t \in Seq(Call) /\ Len(t) = Len(q) - 1
      /\ \A i \in 1 .. Len(t) : t[i] = q[i + 1]
  BY <1>1, HeadTailProperties
<1>3. Len(q) \in Nat /\ Len(q) # 0
  BY <1>1, EmptySeq
<1>4. t \o <<>> = t
  BY <1>2, ConcatEmptySeq
<1>5. Head(q) = q[1]
  BY <1>1
<1> HIDE DEF t
<1>6. \A i \in 1 .. Len(t) : i + 1 \in 1 .. Len(q) /\ i + 1 # 1
  BY <1>2, <1>3
<1>7. \A i \in 1 .. Len(q) : i = 1 \/ (i - 1 \in 1 .. Len(t) /\ t[i - 1] = q[i])
  BY <1>2, <1>3
<1>8. 1 \in 1 .. Len(q)
  BY <1>3
<1>9. \A f : Has(t, f) => Has(q, f)
  BY <1>2, <1>6 DEF Has
<1>10. \A f : Has(q, f) /\ Head(q).fn # f => Has(t, f)
  BY <1>5, <1>7 DEF Has
<1>11. QueueOk(t)
  <2>1. ASSUME NEW i \in 1 .. Len(t)
        PROVE  /\ t[i].fn \in {"goN", "SIM_continue"} => i = Len(t)
               /\ t[i].fn = "setFutureCycleAlone" => t[i].arg = BackStopCycles
    BY <1>2, <1>3, <1>6 DEF QueueOk
  <2>2. ASSUME NEW i \in 1 .. Len(t), NEW j \in 1 .. Len(t),
               t[i].fn = "rmCounterHap", t[j].fn = "rmCounterHap"
        PROVE  i = j
    <3>1. i + 1 = j + 1
      BY <2>2, <1>2, <1>6 DEF QueueOk
    <3> QED
      BY <3>1
  <2> QED
    BY <2>1, <2>2, <1>2 DEF QueueOk
<1>12. Head(q).fn \in {"goN", "SIM_continue"} => \A f : ~Has(t, f)
  <2>1. Head(q).fn \in {"goN", "SIM_continue"} => Len(q) = 1
    BY <1>5, <1>8 DEF QueueOk
  <2> QED
    BY <2>1, <1>2, <1>3 DEF Has
<1>13. Head(q).fn = "rmCounterHap" => ~Has(t, "rmCounterHap")
  BY <1>2, <1>5, <1>6, <1>8 DEF QueueOk, Has
<1>14. Has(q, Head(q).fn)
  BY <1>5, <1>8 DEF Has
<1>15. Head(q).fn = "setFutureCycleAlone" => Head(q).arg = BackStopCycles
  BY <1>5, <1>8 DEF QueueOk
<1> QED
  BY <1>2, <1>4, <1>9, <1>10, <1>11, <1>12, <1>13, <1>14, <1>15 DEF t

-----------------------------------------------------------------------------
(***************************************************************************)
(* The parts keep their types.                                             *)
(***************************************************************************)
LEMMA Constants ==
  /\ BackStopCycles \in Nat \ {0} /\ BackStopCycles <= MaxCycle /\ MaxCycle \in Nat
  /\ None \notin Int /\ None \notin Block /\ None # "first" /\ None # "next"
  /\ Jumper \subseteq Block /\ HangCycles \in Nat
  /\ BackStopDelay \in Int \cup {None} /\ CommenceAfter \in Nat \cup {None}
  /\ CommenceAfter # None => OtherTarget
  /\ OtherTarget \in BOOLEAN /\ Saturated \in Nat /\ Saturated # 0
  /\ MaxInput \in Nat /\ MaxInput # 0
BY FuzzAssumption, NoneAssumption

LEMMA BackStopTypes ==
  ASSUME NEW b \in BackStopRec
  PROVE  /\ clearCycle(b) \in BackStopRec /\ setFutureCycle(b) \in BackStopRec
         /\ \A n \in Nat : setFutureCycleAlone(b, n) \in BackStopRec
         /\ \A c, n \in Nat : setHangCallback(b, c, n) \in BackStopRec
         /\ \A d \in Int \cup {None} : setDelay(b, d) \in BackStopRec
         /\ cycle_handler(b) \in BackStopRec /\ hang_handler(b) \in BackStopRec
         /\ LosePosts(b) \in BackStopRec
         /\ ~BackStopDue(b) /\ ~HangDue(b) => PassCycle(b) \in BackStopRec
<1> USE Constants DEF BackStopRec
<1>1. clearCycle(b) \in BackStopRec
  BY DEF clearCycle
<1>2. setFutureCycle(b) \in BackStopRec
  BY DEF setFutureCycle
<1>3. \A n \in Nat : setFutureCycleAlone(b, n) \in BackStopRec
  BY DEF setFutureCycleAlone
<1>4. ASSUME NEW c \in Nat, NEW n \in Nat PROVE setHangCallback(b, c, n) \in BackStopRec
  <2>1. b.hang_posts \cup {n} \in SUBSET Nat /\ c + n \in Nat
    OBVIOUS
  <2> QED
    BY <2>1 DEF setHangCallback
<1>5. \A d \in Int \cup {None} : setDelay(b, d) \in BackStopRec
  BY DEF setDelay
<1>6. cycle_handler(b) \in BackStopRec
  BY DEF cycle_handler, clearCycle
<1>7. hang_handler(b) \in BackStopRec
  BY DEF hang_handler
<1>8. LosePosts(b) \in BackStopRec
  BY DEF LosePosts
<1>9. ASSUME ~BackStopDue(b), ~HangDue(b) PROVE PassCycle(b) \in BackStopRec
  <2>1. {n - 1 : n \in b.hang_posts} \in SUBSET Nat
    <3>1. \A n \in b.hang_posts : n \in Nat /\ n # 0
      BY <1>9 DEF HangDue
    <3>2. \A n \in b.hang_posts : n - 1 \in Nat
      BY <3>1
    <3> QED
      BY <3>2
  <2>2. b.post # None => b.post - 1 \in Nat
    BY <1>9 DEF BackStopDue
  <2> QED
    BY <2>1, <2>2 DEF PassCycle
<1> QED
  BY <1>1, <1>2, <1>3, <1>4, <1>5, <1>6, <1>7, <1>8, <1>9

LEMMA CoverageTypes ==
  ASSUME NEW c \in CovRec
  PROVE  /\ doCoverage(c) \in CovRec /\ disableAll(c) \in CovRec /\ enableAll(c) \in CovRec
         /\ \A b \in Block, i \in Input : CountEdge(c, b, i) \in CovRec
         /\ \A s \in Status, i \in Input : Record(c, s, i) \in CovRec
<1> USE Constants DEF CovRec
<1>1. doCoverage(c) \in CovRec
  <2>1. NoTrace \in [Edge -> 0 .. Saturated]
    BY DEF NoTrace
  <2>2. OK \in Status
    BY DEF OK, Status
  <2> HIDE DEF NoTrace, OK, Status
  <2> QED
    BY <2>1, <2>2 DEF doCoverage
<1>2. disableAll(c) \in CovRec
  BY DEF disableAll
<1>3. enableAll(c) \in CovRec
  BY DEF enableAll
<1>4. ASSUME NEW b \in Block, NEW i \in Input PROVE CountEdge(c, b, i) \in CovRec
  <2>1. <<c.prev, b>> \in Edge
    BY DEF Edge
  <2>2. c.trace[<<c.prev, b>>] \in 0 .. Saturated
    BY <2>1
  <2>3. c.trace[<<c.prev, b>>] # Saturated =>
          [c.trace EXCEPT ![<<c.prev, b>>] = @ + 1] \in [Edge -> 0 .. Saturated]
    BY <2>1, <2>2
  <2> QED
    BY <2>1, <2>2, <2>3 DEF CountEdge
<1>5. \A s \in Status, i \in Input : Record(c, s, i) \in CovRec
  BY DEF Record
<1> QED
  BY <1>1, <1>2, <1>3, <1>4, <1>5

\* Block and calls of setFutureCycle hand over three functions at most, no starter.
LEMMA FutureCycleQueueOk ==
  ASSUME NEW b \in BackStopRec, NEW c \in Nat
  PROVE  /\ QueueOk(FutureCycleQueue(b, c, BackStopCycles))
         /\ ~Starts(FutureCycleQueue(b, c, BackStopCycles))
         /\ ~Has(FutureCycleQueue(b, c, BackStopCycles), "rmCounterHap")
         /\ ~Has(FutureCycleQueue(b, c, BackStopCycles), "quitAlone")
         /\ Has(FutureCycleQueue(b, c, BackStopCycles), "hang_callback") =>
              b.hang_cycles # None /\ c >= b.hang_cycles
<1> DEFINE none == {"goN", "SIM_continue", "rmCounterHap", "quitAlone"}
           p1 == IF b.hang_cycles # None /\ c >= b.hang_cycles
                 THEN <<Alone("hang_callback", None)>> ELSE <<>>
           p2 == IF b.hang_cycles = None /\ b.hang_delta > 0
                 THEN <<Alone("setHangCallback", None)>> ELSE <<>>
           p3 == IF Deferred(b) THEN <<>>
                 ELSE <<Alone("setFutureCycleAlone", BackStopCycles)>>
<1>1. /\ QueueOk(p1) /\ \A f \in none : ~Has(p1, f)
      /\ Has(p1, "hang_callback") => b.hang_cycles # None /\ c >= b.hang_cycles
  BY QueueEmpty, QueueOne DEF Fn
<1>2. QueueOk(p2) /\ \A f \in none \cup {"hang_callback"} : ~Has(p2, f)
  BY QueueEmpty, QueueOne DEF Fn
<1>3. QueueOk(p3) /\ \A f \in none \cup {"hang_callback"} : ~Has(p3, f)
  BY QueueEmpty, QueueOne DEF Fn
<1>4. FutureCycleQueue(b, c, BackStopCycles) = p1 \o p2 \o p3
  BY DEF FutureCycleQueue
<1> HIDE DEF p1, p2, p3
<1>5. /\ QueueOk(p1 \o p2)
      /\ \A f \in none : ~Has(p1 \o p2, f)
      /\ Has(p1 \o p2, "hang_callback") => Has(p1, "hang_callback")
  BY <1>1, <1>2, QueueConcat DEF Starts
<1>6. /\ QueueOk(p1 \o p2 \o p3)
      /\ \A f \in none : ~Has(p1 \o p2 \o p3, f)
      /\ Has(p1 \o p2 \o p3, "hang_callback") => Has(p1, "hang_callback")
  BY <1>3, <1>5, QueueConcat DEF Starts
<1> QED
  BY <1>1, <1>4, <1>6 DEF Starts

-----------------------------------------------------------------------------
(***************************************************************************)
(* The invariant holds at first, and what most steps leave alone keeps     *)
(* most of it.                                                             *)
(***************************************************************************)
LEMMA InitTypes ==
  /\ BackStopInit \in BackStopRec /\ NoTrace \in [Edge -> 0 .. Saturated]
  /\ NoTarget \in TargetRec /\ OK \in Status /\ CRASH \in Status /\ HANG \in Status
  /\ CLOSED \in Status /\ {} \in SUBSET Input /\ 0 \in Input /\ 1 \in Input
<1>1. BackStopInit \in BackStopRec
  BY DEF BackStopInit, BackStopRec
<1>2. NoTrace \in [Edge -> 0 .. Saturated]
  BY Constants DEF NoTrace
<1>3. NoTarget \in TargetRec
  BY DEF NoTarget, TargetRec
<1>4. OK \in Status /\ CRASH \in Status /\ HANG \in Status /\ CLOSED \in Status
  BY DEF Status
<1>5. 0 \in Input /\ 1 \in Input
  BY Constants DEF Input
<1> QED
  BY <1>1, <1>2, <1>3, <1>4, <1>5

LEMMA InitInv == Init => IInv
<1> SUFFICES ASSUME Init PROVE IInv
  OBVIOUS
<1> USE DEF Init
<1>1. Shape
  <2>1. bs \in BackStopRec
    <3>1. setDelay(BackStopInit, BackStopDelay) \in BackStopRec
      BY BackStopTypes, InitTypes, Constants
    <3>2. setHangCallback(setDelay(BackStopInit, BackStopDelay), 0, HangCycles) \in BackStopRec
      BY <3>1, BackStopTypes, Constants
    <3> QED
      BY <3>2, InitTypes
  <2>2. cov \in CovRec
    BY InitTypes DEF CovRec
  <2>3. pf \in PfRec
    BY DEF PfRec
  <2>4. afl \in AflRec
    BY InitTypes DEF AflRec, GotData
  <2>5. peer \in PeerRec
    BY InitTypes DEF PeerRec
  <2>6. cycle \in 0 .. MaxCycle /\ target \in TargetRec /\ results \in Seq(ResultRec)
    BY InitTypes, Constants
  <2> QED
    BY <2>1, <2>2, <2>3, <2>4, <2>5, <2>6 DEF Shape
<1>2. QueueOk(alone) /\ \A f : Has(alone, f) <=> f = "goN"
  BY QueueOne, InitTypes DEF Fn
<1>3. ~Live
  BY <1>2 DEF Live
<1>4. QueueInv
  BY <1>2, <1>3 DEF QueueInv
<1>5. CountInv
  BY <1>2 DEF CountInv
<1>6. RoundInv
  <2>1. /\ afl.recv = None /\ peer.inbox = <<>> /\ peer.sent = afl.data
        /\ \/ afl.data = 1 /\ afl.already_got_data
           \/ afl.data = 0 /\ ~afl.already_got_data /\ ~afl.stop_hap
    BY DEF GotData
  <2>2. Len(results) = 0
    OBVIOUS
  <2> QED
    BY <1>2, <1>3, <2>1, <2>2, Constants DEF RoundInv
<1>7. OwnInv
  BY <1>3 DEF OwnInv, ResultsAreOwn
<1>8. StopInv
  BY <1>3 DEF StopInv
<1> QED
  BY <1>1, <1>4, <1>5, <1>6, <1>7, <1>8 DEF IInv

\* What the rounds and the results are about.
KeepsRound ==
    /\ UNCHANGED <<peer, results>>
    /\ afl'.data = afl.data /\ afl'.recv = afl.recv /\ afl'.stop_hap = afl.stop_hap
    /\ afl'.already_got_data = afl.already_got_data

KeepsCount == afl'.counter_hap = afl.counter_hap /\ afl'.counter_bps = afl.counter_bps

\* What is collected is of the input at hand.
Collects ==
    /\ cov'.hits \subseteq cov.hits \cup {afl.data}
    /\ cov'.blame \subseteq cov.blame \cup {afl.data}
    /\ afl'.closed_fd \subseteq afl.closed_fd \cup {afl.data}
    /\ pf'.by \subseteq pf.by \cup (IF Live THEN {afl.data} ELSE {})

\* The input that __init__ took is begun with by the first goN.
LEMMA NotGot ==
  ASSUME IInv, Live \/ ~Has(alone, "goN") \/ afl.recv # None
  PROVE  ~afl.already_got_data
<1>1. ASSUME Live, Has(alone, "goN") PROVE FALSE
  <2>1. Has(alone, "SIM_continue") /\ QueueOk(alone)
    BY <1>1 DEF Live, IInv, QueueInv, Starts
  <2>2. PICK i \in 1 .. Len(alone) : alone[i].fn = "SIM_continue"
    BY <2>1 DEF Has
  <2>3. PICK j \in 1 .. Len(alone) : alone[j].fn = "goN"
    BY <1>1 DEF Has
  <2>4. i = Len(alone) /\ j = Len(alone)
    BY <2>1, <2>2, <2>3 DEF QueueOk
  <2> QED
    BY <2>2, <2>3, <2>4
<1> QED
  BY <1>1 DEF IInv, RoundInv

\* A step of the program or the clock: the run goes on or is broken.
LEMMA RunStep ==
  ASSUME IInv, sim = "run", sim' \in {"run", "breaking"}, KeepsRound, Collects,
         QueueOk(alone'), ~Starts(alone'), ~Has(alone', "quitAlone")
  PROVE  QueueInv' /\ RoundInv' /\ OwnInv' /\ Live /\ Live'
<1>1. Live /\ Live'
  BY DEF Live
<1>2. QueueInv'
  BY DEF QueueInv
<1>3. afl.recv = None /\ afl'.recv = None
  BY <1>1 DEF IInv, RoundInv, KeepsRound
<1>4. RoundInv'
  <2>1. ~Has(alone', "goN")
    BY DEF Starts
  <2> QED
    BY <1>1, <1>3, <2>1, NotGot, Constants DEF IInv, RoundInv, KeepsRound
<1>5. OwnInv'
  <2>1. cov.hits \cup cov.blame \cup afl.closed_fd \cup pf.by \subseteq {afl.data}
    BY <1>1 DEF IInv, OwnInv
  <2>2. cov'.hits \cup cov'.blame \cup afl'.closed_fd \cup pf'.by \subseteq {afl'.data}
    BY <2>1, <1>1 DEF Collects, KeepsRound
  <2>3. ResultsAreOwn'
    BY DEF IInv, OwnInv, ResultsAreOwn, KeepsRound
  <2> QED
    BY <1>1, <2>2, <2>3 DEF OwnInv
<1> QED
  BY <1>1, <1>2, <1>4, <1>5

\* What a call from the queue that starts no run leaves in the queue.
LEMMA Dequeued ==
  ASSUME IInv, NEW f \in Fn \ {"goN", "SIM_continue"}, RunAlone(f), Dequeue(<<>>)
  PROVE  /\ QueueOk(alone') /\ Head(alone) \in Call /\ Has(alone, f)
         /\ f = "setFutureCycleAlone" => Head(alone).arg = BackStopCycles
         /\ \A g : Has(alone', g) => Has(alone, g)
         /\ \A g : Has(alone, g) /\ f # g => Has(alone', g)
         /\ f = "rmCounterHap" => ~Has(alone', "rmCounterHap")
         /\ afl.recv = None /\ sim # "quit"
<1>1. QueueOk(alone) /\ alone # <<>> /\ Head(alone).fn = f /\ alone' = Tail(alone) \o <<>>
  BY DEF IInv, QueueInv, RunAlone, Dequeue
<1>2. alone' = Tail(alone)
  BY <1>1, QueueTail
<1>3. afl.recv = None /\ sim # "quit"
  BY DEF RunAlone, Awake
<1> QED
  BY <1>1, <1>2, <1>3, QueueTail

\* Such a call keeps the queue, the rounds and the results, unless a run ends by it.
LEMMA DeferredStep ==
  ASSUME IInv, NEW f \in Fn \ {"goN", "SIM_continue"}, RunAlone(f), Dequeue(<<>>),
         KeepsRound, Collects, pf'.by = pf.by,
         \/ sim' = sim
         \/ sim = "run" /\ sim' = "breaking"
         \/ f = "quitAlone" /\ sim' = "quit"
  PROVE  QueueInv' /\ RoundInv' /\ OwnInv' /\ (Live' <=> Live)
<1>1. /\ QueueOk(alone') /\ Has(alone, f) /\ afl.recv = None /\ sim # "quit"
      /\ \A g : Has(alone', g) => Has(alone, g)
      /\ Has(alone, "SIM_continue") => Has(alone', "SIM_continue")
  BY Dequeued
<1>2. QueueOk(alone) /\ (sim \in {"run", "breaking"} => ~Starts(alone))
      /\ (Live => ~Has(alone, "quitAlone"))
  BY DEF IInv, QueueInv
<1>3. Live' <=> Live
  BY <1>1, <1>2 DEF Live
<1>4. QueueInv'
  BY <1>1, <1>2, <1>3 DEF QueueInv, Starts
<1>5. afl'.recv = None /\ peer' = peer /\ results' = results /\ afl'.data = afl.data
      /\ afl'.stop_hap = afl.stop_hap /\ afl'.already_got_data = afl.already_got_data
  BY <1>1 DEF KeepsRound
<1>8. f # "goN" /\ (Has(alone, "goN") => Has(alone', "goN"))
  BY Dequeued
<1>6. RoundInv'
  BY <1>1, <1>3, <1>5, <1>8, Constants DEF IInv, RoundInv
<1>7. OwnInv'
  <2>1. Live => cov'.hits \cup cov'.blame \cup afl'.closed_fd \cup pf'.by \subseteq {afl'.data}
    <3>1. Live => cov.hits \cup cov.blame \cup afl.closed_fd \cup pf.by \subseteq {afl.data}
      BY DEF IInv, OwnInv
    <3> QED
      BY <3>1, <1>5 DEF Collects
  <2>2. ~Live => pf'.by = {}
    BY DEF IInv, OwnInv
  <2>3. ResultsAreOwn'
    BY <1>5 DEF IInv, OwnInv, ResultsAreOwn
  <2> QED
    BY <2>1, <2>2, <2>3, <1>3 DEF OwnInv
<1> QED
  BY <1>3, <1>4, <1>6, <1>7

\* The break of the counted call is as it was.
LEMMA CountStep ==
  ASSUME CountInv, KeepsCount, Has(alone', "rmCounterHap") => Has(alone, "rmCounterHap")
  PROVE  CountInv'
BY DEF CountInv, KeepsCount

\* Nothing is hit, and the back stop is left alone or given up.
LEMMA StopStep ==
  ASSUME StopInv, Live' => Live, cycle' = cycle, bs'.post \in {bs.post, None},
         Has(alone', "setFutureCycleAlone") => Has(alone, "setFutureCycleAlone"),
         UNCHANGED <<cov.hits, cov.hit_255, cov.trace>>
  PROVE  StopInv'
<1> SUFFICES ASSUME Live' PROVE StopInv'
  BY DEF StopInv
<1> QED
  BY DEF StopInv

LEMMA SameState == ASSUME IInv, UNCHANGED vars PROVE IInv'
<1> USE DEF vars
<1>1. Shape' /\ CountInv'
  BY DEF IInv, Shape, CountInv, Has
<1>2. (Live' <=> Live) /\ QueueInv'
  BY DEF IInv, QueueInv, Live, Has, Starts, QueueOk
<1>3. RoundInv' /\ OwnInv' /\ StopInv'
  BY <1>2 DEF IInv, RoundInv, OwnInv, StopInv, ResultsAreOwn, Has
<1> QED
  BY <1>1, <1>2, <1>3 DEF IInv

-----------------------------------------------------------------------------
(***************************************************************************)
(* What SIM_run_alone was handed, but for goN and SIM_continue.            *)
(***************************************************************************)
LEMMA quitAloneInv == ASSUME IInv, quitAlone PROVE IInv'
<1> USE DEF quitAlone
<1>1. /\ RunAlone("quitAlone") /\ Dequeue(<<>>) /\ "quitAlone" \in Fn \ {"goN", "SIM_continue"}
      /\ sim' = "quit" /\ UNCHANGED <<cycle, bs, cov, pf, exit_callback, afl, target, peer, results>>
  BY DEF Fn
<1>2. QueueInv' /\ RoundInv' /\ OwnInv' /\ (Live' <=> Live)
  BY <1>1, DeferredStep DEF KeepsRound, Collects
<1>3. \A g : Has(alone', g) => Has(alone, g)
  BY <1>1, Dequeued
<1>4. Shape'
  BY <1>1 DEF IInv, Shape
<1>5. CountInv'
  BY <1>1, <1>3, CountStep DEF IInv, KeepsCount
<1>6. StopInv'
  BY <1>1, <1>2, <1>3, StopStep DEF IInv
<1> QED
  BY <1>2, <1>4, <1>5, <1>6 DEF IInv

LEMMA rmCounterHapInv == ASSUME IInv, rmCounterHap PROVE IInv'
<1> USE DEF rmCounterHap
<1>1. /\ RunAlone("rmCounterHap") /\ Dequeue(<<>>)
      /\ "rmCounterHap" \in Fn \ {"goN", "SIM_continue"}
      /\ afl' = [afl EXCEPT !.counter_bps = @ - 1]
      /\ UNCHANGED <<cycle, sim, bs, cov, pf, exit_callback, target, peer, results>>
  BY DEF Fn
<1>2. afl \in AflRec
  BY DEF IInv, Shape
<1>3. KeepsRound /\ Collects /\ afl'.counter_hap = afl.counter_hap
  BY <1>1, <1>2 DEF KeepsRound, Collects, AflRec
<1>4. QueueInv' /\ RoundInv' /\ OwnInv' /\ (Live' <=> Live)
  BY <1>1, <1>3, DeferredStep
<1>5. /\ \A g : Has(alone', g) => Has(alone, g)
      /\ Has(alone, "rmCounterHap") /\ ~Has(alone', "rmCounterHap")
  BY <1>1, Dequeued
<1>6. afl.counter_bps > 0 /\ ~afl.counter_hap
  BY <1>5 DEF IInv, CountInv
<1>7. Shape'
  <2>1. afl.counter_bps - 1 \in Nat
    BY <1>2, <1>6 DEF AflRec
  <2>2. afl' \in AflRec
    BY <1>1, <1>2, <2>1 DEF AflRec
  <2> QED
    BY <1>1, <2>2 DEF IInv, Shape
<1>8. CountInv'
  BY <1>3, <1>5, <1>6 DEF CountInv
<1>9. StopInv'
  BY <1>1, <1>4, <1>5, StopStep DEF IInv
<1> QED
  BY <1>4, <1>7, <1>8, <1>9 DEF IInv

LEMMA PfAloneInv == ASSUME IInv, pageFaultHapAlone \/ rmModeHapAlone PROVE IInv'
<1> USE DEF pageFaultHapAlone, rmModeHapAlone
<1>1. PICK f \in {"pageFaultHapAlone", "rmModeHapAlone"} : RunAlone(f) /\ Dequeue(<<>>)
  OBVIOUS
<1>2. UNCHANGED <<cycle, sim, bs, cov, exit_callback, afl, target, peer, results>>
  OBVIOUS
<1>3. f \in Fn \ {"goN", "SIM_continue"}
  BY <1>1 DEF Fn
<1>4. pf \in PfRec /\ pf' \in PfRec /\ pf'.by = pf.by
  BY DEF IInv, Shape, PfRec
<1>5. KeepsRound /\ KeepsCount /\ Collects
  BY <1>2, <1>4 DEF KeepsRound, KeepsCount, Collects
<1>6. QueueInv' /\ RoundInv' /\ OwnInv' /\ (Live' <=> Live)
  BY <1>1, <1>2, <1>3, <1>4, <1>5, DeferredStep
<1>7. \A g : Has(alone', g) => Has(alone, g)
  BY <1>1, <1>3, Dequeued
<1>8. Shape'
  BY <1>2, <1>4 DEF IInv, Shape
<1>9. CountInv'
  BY <1>5, <1>7, CountStep DEF IInv
<1>10. StopInv'
  BY <1>2, <1>6, <1>7, StopStep DEF IInv
<1> QED
  BY <1>6, <1>8, <1>9, <1>10 DEF IInv

LEMMA HangCallbackInv == ASSUME IInv, HangCallback PROVE IInv'
<1> USE DEF HangCallback, recordHang
<1>1. /\ RunAlone("hang_callback") /\ Dequeue(<<>>)
      /\ "hang_callback" \in Fn \ {"goN", "SIM_continue"}
      /\ cov' = Record(cov, HANG, afl.data) /\ sim' = (IF sim = "run" THEN "breaking" ELSE sim)
      /\ UNCHANGED <<cycle, bs, pf, exit_callback, afl, target, peer, results>>
  BY DEF Fn
<1>2. cov \in CovRec /\ afl \in AflRec /\ afl.data \in Input
  BY DEF IInv, Shape, AflRec
<1>3. cov' \in CovRec
  BY <1>1, <1>2, CoverageTypes, InitTypes
<1>4. /\ cov'.hits = cov.hits /\ cov'.hit_255 = cov.hit_255 /\ cov'.trace = cov.trace
      /\ cov'.blame = cov.blame \cup {afl.data}
  BY <1>1, <1>2 DEF Record, CovRec
<1>5. KeepsRound /\ KeepsCount /\ Collects
  BY <1>1, <1>4 DEF KeepsRound, KeepsCount, Collects
<1>6. QueueInv' /\ RoundInv' /\ OwnInv' /\ (Live' <=> Live)
  BY <1>1, <1>5, DeferredStep
<1>7. \A g : Has(alone', g) => Has(alone, g)
  BY <1>1, Dequeued
<1>8. Shape'
  BY <1>1, <1>3 DEF IInv, Shape
<1>9. CountInv'
  BY <1>5, <1>7, CountStep DEF IInv
<1>10. StopInv'
  BY <1>1, <1>4, <1>6, <1>7, StopStep DEF IInv
<1> QED
  BY <1>6, <1>8, <1>9, <1>10 DEF IInv

LEMMA DeferredFutureCycleInv == ASSUME IInv, DeferredFutureCycle PROVE IInv'
<1> USE DEF DeferredFutureCycle
<1>1. /\ RunAlone("setFutureCycleAlone") /\ Dequeue(<<>>)
      /\ "setFutureCycleAlone" \in Fn \ {"goN", "SIM_continue"}
      /\ bs' = setFutureCycleAlone(bs, Head(alone).arg)
      /\ UNCHANGED <<cycle, sim, cov, pf, exit_callback, afl, target, peer, results>>
  BY DEF Fn
<1>2. /\ Head(alone).arg = BackStopCycles /\ Has(alone, "setFutureCycleAlone")
      /\ \A g : Has(alone', g) => Has(alone, g)
  BY <1>1, Dequeued
<1>3. KeepsRound /\ KeepsCount /\ Collects
  BY <1>1 DEF KeepsRound, KeepsCount, Collects
<1>4. QueueInv' /\ RoundInv' /\ OwnInv' /\ (Live' <=> Live)
  BY <1>1, <1>3, DeferredStep
<1>5. bs \in BackStopRec /\ cycle \in Nat
  BY Constants DEF IInv, Shape
<1>6. Shape'
  BY <1>1, <1>2, <1>5, BackStopTypes, Constants DEF IInv, Shape
<1>7. CountInv'
  BY <1>2, <1>3, CountStep DEF IInv
<1>8. bs'.post = BackStopCycles
  BY <1>1, <1>2, <1>5 DEF setFutureCycleAlone, BackStopRec
<1>9. StopInv'
  <2>1. Live => cov.hits # {}
    BY <1>2 DEF IInv, StopInv
  <2>2. bs'.post + cycle >= BackStopCycles
    BY <1>5, <1>8, Constants
  <2> QED
    BY <1>1, <1>4, <2>1, <2>2 DEF StopInv
<1> QED
  BY <1>4, <1>6, <1>7, <1>9 DEF IInv

LEMMA DeferredHangCallbackInv == ASSUME IInv, DeferredHangCallback PROVE IInv'
<1> USE DEF DeferredHangCallback
<1>1. /\ RunAlone("setHangCallback") /\ Dequeue(<<>>)
      /\ "setHangCallback" \in Fn \ {"goN", "SIM_continue"}
      /\ bs' = setHangCallback(bs, cycle, HangCycles)
      /\ UNCHANGED <<cycle, sim, cov, pf, exit_callback, afl, target, peer, results>>
  BY DEF Fn
<1>2. \A g : Has(alone', g) => Has(alone, g)
  BY <1>1, Dequeued
<1>3. KeepsRound /\ KeepsCount /\ Collects
  BY <1>1 DEF KeepsRound, KeepsCount, Collects
<1>4. QueueInv' /\ RoundInv' /\ OwnInv' /\ (Live' <=> Live)
  BY <1>1, <1>3, DeferredStep
<1>5. bs \in BackStopRec /\ cycle \in Nat
  BY Constants DEF IInv, Shape
<1>6. Shape'
  <2>1. bs' \in BackStopRec
    BY <1>1, <1>5, BackStopTypes, Constants
  <2> QED
    BY <1>1, <2>1 DEF IInv, Shape
<1>7. CountInv'
  BY <1>2, <1>3, CountStep DEF IInv
<1>8. bs'.post = bs.post
  BY <1>1, <1>5 DEF setHangCallback, BackStopRec
<1>9. StopInv'
  BY <1>1, <1>2, <1>4, <1>8, StopStep DEF IInv
<1> QED
  BY <1>4, <1>6, <1>7, <1>9 DEF IInv

-----------------------------------------------------------------------------
(***************************************************************************)
(* Between runs.                                                           *)
(***************************************************************************)

\* The state of a run that has just begun, whichever way its input came.
LEMMA goNInv ==
  ASSUME IInv, ~Live, NEW s \in Status, NEW i \in Input, goN(s, i), alone' = <<>>,
         peer' \in PeerRec, UNCHANGED results, i = Len(results) + 1,
         peer'.inbox = <<>>, peer'.sent = i
  PROVE  IInv'
<1> USE DEF goN
<1>1. cov \in CovRec /\ afl \in AflRec /\ bs \in BackStopRec
  BY DEF IInv, Shape
<1>2. Live' /\ \A f : ~Has(alone', f)
  BY DEF Live, Has
<1>3. cov' \in CovRec /\ cov'.hits = {} /\ cov'.blame = {} /\ cov'.hit_255 = {}
      /\ cov'.trace = NoTrace
  <2>1. PICK c \in CovRec : cov' = doCoverage(c)
    BY <1>1, CoverageTypes
  <2> QED
    BY <2>1, CoverageTypes DEF doCoverage, CovRec
<1>4. bs' \in BackStopRec /\ bs'.post = None
  <2>1. LosePosts(bs) \in BackStopRec /\ LosePosts(bs).post = None
    BY <1>1, BackStopTypes DEF LosePosts, BackStopRec
  <2>2. CASE BackStopDelay = None
    BY <2>1, <2>2
  <2>3. CASE BackStopDelay # None
    <3>1. bs' = setDelay(LosePosts(bs), BackStopDelay)
      BY <2>3
    <3>2. bs' \in BackStopRec
      BY <2>1, <3>1, BackStopTypes, Constants
    <3>3. bs'.post = LosePosts(bs).post
      BY <2>1, <3>1 DEF setDelay, BackStopRec
    <3> QED
      BY <2>1, <3>2, <3>3
  <2> QED
    BY <2>2, <2>3
<1>5. /\ afl' \in AflRec /\ afl'.data = i /\ afl'.recv = None /\ afl'.stop_hap
      /\ afl'.closed_fd = {}
      /\ afl'.counter_hap => afl'.counter_bps > 0
  <2>1. afl.counter_bps + 1 \in Nat /\ (afl.counter_hap => afl.counter_bps > 0)
        /\ afl.counter_bps + 1 > 0
    BY <1>1 DEF AflRec, IInv, CountInv
  <2>2. CASE CommenceAfter = None
    <3>1. afl' = [afl EXCEPT !.data = i, !.already_got_data = FALSE, !.stop_hap = TRUE,
                             !.recv = None, !.closed_fd = {}, !.exit_counter = afl.exit_counter,
                             !.counter_hap = afl.counter_hap, !.counter_bps = afl.counter_bps]
      BY <2>2, <1>1 DEF AflRec
    <3> QED
      BY <1>1, <2>1, <3>1 DEF AflRec
  <2>3. CASE CommenceAfter # None
    <3>1. afl' = [afl EXCEPT !.data = i, !.already_got_data = FALSE, !.stop_hap = TRUE,
                             !.recv = None, !.closed_fd = {}, !.exit_counter = 0,
                             !.counter_hap = afl.counter_hap \/ CommenceAfter # None,
                             !.counter_bps = afl.counter_bps + 1]
      BY <2>3, <1>1 DEF AflRec
    <3>2. PICK h \in BOOLEAN : h = (afl.counter_hap \/ CommenceAfter # None)
      OBVIOUS
    <3>3. afl' = [afl EXCEPT !.data = i, !.already_got_data = FALSE, !.stop_hap = TRUE,
                             !.recv = None, !.closed_fd = {}, !.exit_counter = 0,
                             !.counter_hap = h, !.counter_bps = afl.counter_bps + 1]
      BY <3>1, <3>2
    <3>4. afl.counter_bps + 1 \in Nat /\ 0 \in Nat /\ {} \in SUBSET Input
      BY <2>1
    <3>5. afl' \in AflRec
      BY <1>1, <3>3, <3>4 DEF AflRec
    <3>6. /\ afl'.data = i /\ afl'.recv = None /\ afl'.stop_hap /\ afl'.closed_fd = {}
          /\ afl'.counter_bps = afl.counter_bps + 1
      BY <1>1, <3>3 DEF AflRec
    <3> QED
      BY <2>1, <3>5, <3>6
  <2> QED
    BY <2>2, <2>3
<1>6. Shape'
  <2>1. cycle' \in 0 .. MaxCycle /\ target' \in TargetRec
    BY InitTypes, Constants
  <2>2. alone' = <<>> /\ pf' \in PfRec /\ exit_callback' \in {"didExit", "recordExit"}
        /\ results' \in Seq(ResultRec)
    BY DEF IInv, Shape
  <2> QED
    BY <1>3, <1>4, <1>5, <2>1, <2>2 DEF Shape
<1>7. QueueInv'
  BY <1>2, QueueEmpty DEF QueueInv, Starts
<1>8. CountInv'
  BY <1>2, <1>5 DEF CountInv
<1>9. RoundInv'
  BY <1>2, <1>5, Constants DEF RoundInv
<1>10. StopInv'
  <2>1. \A e \in Edge : cov'.trace[e] = 0
    BY <1>3 DEF NoTrace
  <2> QED
    BY <1>2, <1>3, <1>4, <2>1 DEF StopInv
<1>11. OwnInv'
  <2>1. pf'.by = {} /\ ResultsAreOwn'
    BY DEF IInv, OwnInv, ResultsAreOwn
  <2> QED
    BY <1>2, <1>3, <1>5, <2>1 DEF OwnInv
<1> QED
  BY <1>6, <1>7, <1>8, <1>9, <1>10, <1>11 DEF IInv

\* A starter is the only thing in its queue when it is taken.
LEMMA StarterAlone ==
  ASSUME IInv, NEW f \in {"goN", "SIM_continue"}, RunAlone(f), Dequeue(<<>>)
  PROVE  /\ alone' = <<>> /\ \A g : ~Has(alone', g)
         /\ Head(alone) \in Call /\ Has(alone, f) /\ afl.recv = None /\ sim # "quit"
<1>1. QueueOk(alone) /\ alone # <<>> /\ Head(alone).fn = f /\ alone' = Tail(alone) \o <<>>
  BY DEF IInv, QueueInv, RunAlone, Dequeue
<1>2. /\ alone' = Tail(alone) /\ \A g : ~Has(alone', g)
      /\ Head(alone) \in Call /\ Has(alone, f) /\ QueueOk(alone')
  BY <1>1, QueueTail
<1>3. alone' = <<>>
  <2>1. alone' \in Seq(Call)
    BY <1>2 DEF QueueOk
  <2>2. ~(1 \in 1 .. Len(alone'))
    BY <1>2 DEF Has
  <2>3. Len(alone') \in Nat
    BY <2>1, LenProperties
  <2>4. Len(alone') = 0
    BY <2>2, <2>3
  <2> QED
    BY <2>1, <2>4, EmptySeq
<1> QED
  BY <1>2, <1>3 DEF RunAlone, Awake

LEMMA GoNInv == ASSUME IInv, GoN PROVE IInv'
<1>1. RunAlone("goN") /\ Dequeue(<<>>)
  BY DEF GoN
<1>2. /\ alone' = <<>> /\ (\A g : ~Has(alone', g)) /\ Head(alone) \in Call
      /\ Has(alone, "goN") /\ afl.recv = None /\ sim # "quit"
  BY <1>1, StarterAlone
<1>3. afl \in AflRec /\ peer \in PeerRec
  BY DEF IInv, Shape
<1>4. ~Live
  <2>1. ~(sim \in {"run", "breaking"})
    BY <1>2 DEF IInv, QueueInv, Starts
  <2>2. ASSUME Has(alone, "SIM_continue") PROVE FALSE
    <3>1. PICK i \in 1 .. Len(alone) : alone[i].fn = "SIM_continue"
      BY <2>2 DEF Has
    <3>2. PICK j \in 1 .. Len(alone) : alone[j].fn = "goN"
      BY <1>2 DEF Has
    <3>3. QueueOk(alone)
      BY DEF IInv, QueueInv
    <3>4. i = Len(alone) /\ j = Len(alone)
      BY <3>1, <3>2, <3>3 DEF QueueOk
    <3> QED
      BY <3>1, <3>2, <3>4
  <2> QED
    BY <2>1, <2>2 DEF Live
<1>5. peer.inbox = <<>> /\ peer.sent = afl.data
  BY <1>2 DEF IInv, RoundInv
<1>6. CASE afl.stop_hap \/ afl.already_got_data
  <2>1. goN(Head(alone).arg, afl.data) /\ UNCHANGED <<peer, results>>
    BY <1>6 DEF GoN
  <2>2. afl.data = Len(results) + 1 /\ afl.data \in Input
    BY <1>2, <1>3, <1>6 DEF IInv, RoundInv, AflRec
  <2>3. Head(alone).arg \in Status \/ ~(Head(alone).arg \in {CRASH, HANG})
    BY DEF Status
  <2>4. PICK s \in Status : goN(s, afl.data)
    BY <2>1, <2>3, InitTypes DEF goN, OK, CRASH, HANG
  <2> QED
    BY <1>2, <1>3, <1>4, <1>5, <2>1, <2>2, <2>4, goNInv
<1>7. CASE ~(afl.stop_hap \/ afl.already_got_data)
  <2>1. /\ afl' = [afl EXCEPT !.recv = "first"]
        /\ UNCHANGED <<cycle, sim, bs, cov, pf, exit_callback, target, peer, results>>
    BY <1>7 DEF GoN
  <2>2. afl' \in AflRec /\ afl'.recv = "first" /\ afl'.data = afl.data
        /\ afl'.counter_hap = afl.counter_hap /\ afl'.counter_bps = afl.counter_bps
        /\ afl'.closed_fd = afl.closed_fd
    BY <1>3, <2>1 DEF AflRec
  <2>3. ~Live'
    BY <1>2, <1>4, <2>1 DEF Live
  <2>4. Shape'
    BY <2>1, <2>2 DEF IInv, Shape
  <2>5. QueueInv'
    BY <1>2, <2>3, QueueEmpty DEF QueueInv, Starts
  <2>6. CountInv'
    BY <1>2, <2>2 DEF IInv, CountInv
  <2>7. RoundInv'
    <3>1. afl.data = 0 /\ Len(results) = 0
      BY <1>2, <1>7 DEF IInv, RoundInv
    <3>2. ~afl'.already_got_data
      BY <1>3, <1>7, <2>1 DEF AflRec
    <3> QED
      BY <1>2, <1>5, <2>1, <2>2, <2>3, <3>1, <3>2, Constants DEF RoundInv
  <2>8. OwnInv'
    BY <1>4, <2>1, <2>3 DEF IInv, OwnInv, ResultsAreOwn
  <2>9. StopInv'
    BY <2>3 DEF StopInv
  <2> QED
    BY <2>4, <2>5, <2>6, <2>7, <2>8, <2>9 DEF IInv
<1> QED
  BY <1>6, <1>7

\* An input that waits is the next one.
LEMMA NextInput ==
  ASSUME IInv, afl.recv # None, peer.inbox # <<>>
  PROVE  /\ Head(peer.inbox) = Len(results) + 1 /\ Tail(peer.inbox) = <<>>
         /\ peer.sent = Len(results) + 1 /\ Len(results) + 1 \in Input
         /\ [peer EXCEPT !.inbox = Tail(@)] \in PeerRec
         /\ [peer EXCEPT !.inbox = Tail(@)].inbox = <<>>
         /\ [peer EXCEPT !.inbox = Tail(@)].sent = Len(results) + 1
<1>1. peer.inbox = <<Len(results) + 1>> /\ peer.sent = Len(results) + 1
  BY DEF IInv, RoundInv
<1>2. peer \in PeerRec
  BY DEF IInv, Shape
<1>3. Len(results) + 1 \in Input
  BY <1>1, <1>2 DEF PeerRec
<1>4. Head(peer.inbox) = Len(results) + 1 /\ Tail(peer.inbox) = <<>>
  BY <1>1
<1>5. [peer EXCEPT !.inbox = Tail(@)] = [peer EXCEPT !.inbox = <<>>]
  BY <1>4
<1>6. [peer EXCEPT !.inbox = <<>>] \in PeerRec
  <2>1. \A none \in Seq(Input) : [peer EXCEPT !.inbox = none] \in PeerRec
    BY <1>2 DEF PeerRec
  <2>2. <<>> \in Seq(Input)
    OBVIOUS
  <2> QED
    BY <2>1, <2>2
<1>7. [peer EXCEPT !.inbox = <<>>].inbox = <<>> /\ [peer EXCEPT !.inbox = <<>>].sent = peer.sent
  BY <1>2 DEF PeerRec
<1> QED
  BY <1>1, <1>3, <1>4, <1>5, <1>6, <1>7

LEMMA GetFirstInv == ASSUME IInv, GetFirst PROVE IInv'
<1>1. afl.recv = "first" /\ sim # "quit" /\ UNCHANGED <<alone, results>>
  BY DEF GetFirst
<1>2. afl \in AflRec /\ afl.recv # None
  BY <1>1, Constants DEF IInv, Shape
<1>3. ~Live /\ ~Has(alone, "goN") /\ alone = <<>>
  BY <1>1, <1>2 DEF IInv, RoundInv
<1>4. CASE peer.inbox # <<>> /\ peer' = [peer EXCEPT !.inbox = Tail(@)]
           /\ goN(OK, Head(peer.inbox))
  BY <1>1, <1>2, <1>3, <1>4, NextInput, InitTypes, goNInv
<1>5. CASE /\ peer.inbox = <<>> /\ ~peer.up /\ afl' = [afl EXCEPT !.recv = None]
           /\ UNCHANGED <<cycle, sim, bs, cov, pf, exit_callback, target, peer>>
  <2>1. afl' \in AflRec /\ afl'.recv = None /\ afl'.data = afl.data
        /\ KeepsCount
    BY <1>2, <1>5 DEF AflRec, KeepsCount
  <2>2. ~Live' /\ ~Has(alone', "goN") /\ alone' = alone
    BY <1>1, <1>3, <1>5 DEF Live
  <2>3. Shape'
    BY <1>1, <1>5, <2>1 DEF IInv, Shape
  <2>4. QueueInv'
    BY <1>5, <2>2 DEF IInv, QueueInv, Starts
  <2>5. CountInv'
    BY <2>1, <2>2, CountStep DEF IInv
  <2>6. peer.sent = afl.data
    <3>1. 1 <= Len(<<afl.data + 1>>) /\ Len(<<>>) = 0
      OBVIOUS
    <3> QED
      BY <1>2, <1>5, <3>1 DEF IInv, RoundInv
  <2>10. ~afl'.already_got_data
    BY <1>2, <1>5, NotGot DEF AflRec
  <2>7. RoundInv'
    BY <1>5, <2>1, <2>2, <2>6, <2>10, Constants DEF RoundInv
  <2>8. OwnInv'
    BY <1>1, <1>3, <1>5, <2>2 DEF IInv, OwnInv, ResultsAreOwn
  <2>9. StopInv'
    BY <2>2 DEF StopInv
  <2> QED
    BY <2>3, <2>4, <2>5, <2>7, <2>8, <2>9 DEF IInv
<1> QED
  BY <1>4, <1>5 DEF GetFirst

LEMMA SIM_continueInv == ASSUME IInv, SIM_continue PROVE IInv'
<1>1. /\ RunAlone("SIM_continue") /\ Dequeue(<<>>) /\ sim' = "run"
      /\ UNCHANGED <<cycle, bs, cov, pf, exit_callback, afl, target, peer, results>>
  BY DEF SIM_continue
<1>2. /\ alone' = <<>> /\ (\A g : ~Has(alone', g)) /\ Has(alone, "SIM_continue")
      /\ afl.recv = None
  BY <1>1, StarterAlone
<1>3. Live /\ Live'
  BY <1>1, <1>2 DEF Live
<1>4. Shape'
  BY <1>1 DEF IInv, Shape
<1>5. QueueInv'
  BY <1>2, QueueEmpty DEF QueueInv, Starts
<1>6. CountInv'
  BY <1>1, <1>2 DEF IInv, CountInv
<1>7. RoundInv'
  BY <1>1, <1>2, <1>3, NotGot, Constants DEF IInv, RoundInv
<1>8. OwnInv'
  BY <1>1, <1>3 DEF IInv, OwnInv, ResultsAreOwn
<1>9. StopInv'
  BY <1>1, <1>2, <1>3, StopStep DEF IInv
<1> QED
  BY <1>4, <1>5, <1>6, <1>7, <1>8, <1>9 DEF IInv

LEMMA GetNextInv == ASSUME IInv, GetNext PROVE IInv'
<1>1. /\ afl.recv = "next" /\ sim # "quit"
      /\ UNCHANGED <<cycle, sim, bs, cov, pf, exit_callback, target, results>>
  BY DEF GetNext
<1>2. /\ afl \in AflRec /\ afl.recv # None /\ afl.stop_hap /\ afl.status \in Status
      /\ peer \in PeerRec
  BY <1>1, Constants DEF IInv, Shape, RoundInv, AflRec
<1>3. ~Live /\ ~Starts(alone) /\ QueueOk(alone)
  BY <1>2 DEF IInv, RoundInv, QueueInv, Live, Starts
<1>4. CASE /\ peer.inbox # <<>> /\ peer' = [peer EXCEPT !.inbox = Tail(@)]
           /\ afl' = [afl EXCEPT !.recv = None, !.data = Head(peer.inbox)]
           /\ alone' = Append(alone, Alone("goN", afl.status))
  <2>1. /\ Head(peer.inbox) = Len(results) + 1 /\ Len(results) + 1 \in Input
        /\ peer' \in PeerRec /\ peer'.inbox = <<>> /\ peer'.sent = Len(results) + 1
    BY <1>2, <1>4, NextInput
  <2>2. /\ afl' \in AflRec /\ afl'.recv = None /\ afl'.data = Len(results) + 1
        /\ afl'.stop_hap /\ KeepsCount
    BY <1>2, <1>4, <2>1 DEF AflRec, KeepsCount
  <2>3. QueueOk(alone') /\ \A g : Has(alone', g) <=> Has(alone, g) \/ g = "goN"
    BY <1>2, <1>3, <1>4, QueueAppend DEF Fn
  <2>4. ~Live'
    BY <1>1, <1>3, <2>3 DEF Live
  <2>5. Shape'
    BY <1>1, <2>1, <2>2 DEF IInv, Shape
  <2>6. QueueInv'
    BY <1>1, <1>3, <2>3, <2>4 DEF QueueInv, Live
  <2>7. CountInv'
    BY <2>2, <2>3, CountStep DEF IInv
  <2>11. ~afl'.already_got_data
    BY <1>2, <1>4, NotGot DEF AflRec
  <2>8. RoundInv'
    BY <1>1, <2>1, <2>2, <2>4, <2>11, Constants DEF RoundInv
  <2>9. OwnInv'
    BY <1>1, <1>3, <2>4 DEF IInv, OwnInv, ResultsAreOwn
  <2>10. StopInv'
    BY <2>4 DEF StopInv
  <2> QED
    BY <2>5, <2>6, <2>7, <2>8, <2>9, <2>10 DEF IInv
<1>5. CASE /\ peer.inbox = <<>> /\ ~peer.up /\ afl' = rmStopHap([afl EXCEPT !.recv = None])
           /\ alone' = Append(alone, Alone("quitAlone", None)) /\ UNCHANGED peer
  <2>1. afl' \in AflRec /\ afl'.recv = None /\ afl'.data = afl.data /\ KeepsCount
    BY <1>2, <1>5 DEF AflRec, KeepsCount, rmStopHap
  <2>2. QueueOk(alone') /\ \A g : Has(alone', g) <=> Has(alone, g) \/ g = "quitAlone"
    BY <1>2, <1>3, <1>5, QueueAppend DEF Fn
  <2>3. ~Live' /\ ~Has(alone', "goN")
    BY <1>1, <1>3, <2>2 DEF Live, Starts
  <2>4. Shape'
    BY <1>1, <1>5, <2>1 DEF IInv, Shape
  <2>5. QueueInv'
    BY <1>1, <1>3, <2>2, <2>3 DEF QueueInv, Live
  <2>6. CountInv'
    BY <2>1, <2>2, CountStep DEF IInv
  <2>7. peer.sent = afl.data
    <3>1. 1 <= Len(<<afl.data + 1>>) /\ Len(<<>>) = 0
      OBVIOUS
    <3> QED
      BY <1>2, <1>5, <3>1 DEF IInv, RoundInv
  <2>11. ~afl'.already_got_data
    BY <1>2, <1>5, NotGot DEF AflRec, rmStopHap
  <2>8. RoundInv'
    BY <1>5, <2>1, <2>3, <2>7, <2>11, Constants DEF RoundInv
  <2>9. OwnInv'
    BY <1>1, <1>3, <2>3 DEF IInv, OwnInv, ResultsAreOwn
  <2>10. StopInv'
    BY <2>3 DEF StopInv
  <2> QED
    BY <2>4, <2>5, <2>6, <2>8, <2>9, <2>10 DEF IInv
<1> QED
  BY <1>1, <1>4, <1>5 DEF GetNext

\* Steps of AFL and its connection.
LEMMA AflInv == ASSUME IInv, AflSends \/ AflLeaves PROVE IInv'
<1>1. /\ UNCHANGED <<cycle, sim, alone, bs, cov, pf, exit_callback, afl, target, results>>
  BY DEF AflSends, AflLeaves
<1>2. peer \in PeerRec /\ afl \in AflRec
  BY DEF IInv, Shape
<1>3. (Live' <=> Live) /\ (\A g : Has(alone', g) <=> Has(alone, g)) /\ KeepsCount
  BY <1>1 DEF Live, KeepsCount
<1>4. QueueInv' /\ CountInv' /\ OwnInv' /\ StopInv'
  <2>1. QueueInv'
    BY <1>1, <1>3 DEF IInv, QueueInv, Starts
  <2>2. CountInv'
    BY <1>3, CountStep DEF IInv
  <2>3. OwnInv'
    BY <1>1, <1>3 DEF IInv, OwnInv, ResultsAreOwn
  <2>4. StopInv'
    BY <1>1, <1>3, StopStep DEF IInv
  <2> QED
    BY <2>1, <2>2, <2>3, <2>4
<1>5. CASE AflLeaves
  <2>1. peer' = [peer EXCEPT !.up = FALSE]
    BY <1>5 DEF AflLeaves
  <2>2. peer' \in PeerRec /\ peer'.inbox = peer.inbox /\ peer'.sent = peer.sent
    BY <1>2, <2>1 DEF PeerRec
  <2>3. Shape'
    BY <1>1, <2>2 DEF IInv, Shape
  <2>4. RoundInv'
    BY <1>1, <1>3, <2>2 DEF IInv, RoundInv
  <2> QED
    BY <1>4, <2>3, <2>4 DEF IInv
<1>6. CASE AflSends
  <2>1. /\ afl.recv # None /\ peer.sent = Len(results) /\ peer.sent < MaxInput
        /\ peer' = [peer EXCEPT !.sent = @ + 1, !.inbox = Append(@, peer.sent + 1)]
    BY <1>6 DEF AflSends
  <2>2. peer.inbox = <<>> /\ peer.sent = afl.data /\ afl.data = Len(results)
    BY <1>2, <2>1 DEF IInv, RoundInv, PeerRec, Input
  <2>3. afl.data + 1 \in Input
    BY <1>2, <2>1, <2>2, Constants DEF PeerRec, Input
  <2>4. Append(peer.inbox, peer.sent + 1) = <<afl.data + 1>> /\ <<afl.data + 1>> \in Seq(Input)
    BY <2>2, <2>3
  <2>5. peer' = [peer EXCEPT !.sent = afl.data + 1, !.inbox = <<afl.data + 1>>]
    BY <1>2, <2>1, <2>2, <2>4 DEF PeerRec
  <2>6. /\ peer' \in PeerRec /\ peer'.sent = afl.data + 1
        /\ peer'.inbox = <<afl.data + 1>>
    BY <1>2, <2>3, <2>4, <2>5 DEF PeerRec
  <2>7. Shape'
    BY <1>1, <2>6 DEF IInv, Shape
  <2>8. RoundInv'
    BY <1>1, <1>3, <2>1, <2>2, <2>6 DEF IInv, RoundInv
  <2> QED
    BY <1>4, <2>7, <2>8 DEF IInv
<1> QED
  BY <1>5, <1>6

-----------------------------------------------------------------------------
(***************************************************************************)
(* The end of a run.                                                       *)
(***************************************************************************)

\* What a result is made of when a run has been broken.
LEMMA ResultOfRun ==
  ASSUME IInv, Live, NEW again \in BOOLEAN
  PROVE  /\ ResultOf(again) \in ResultRec /\ RunStatus \in Status
         /\ ResultOf(again).restart = again /\ ResultOf(again).input = afl.data
         /\ ResultOf(again).from \subseteq {afl.data}
         /\ ResultOf(again).status = RunStatus
<1>1. cov \in CovRec /\ afl \in AflRec /\ pf \in PfRec /\ target \in TargetRec
  BY DEF IInv, Shape
<1>2. RunStatus \in Status
  <2>1. cov.status \in Status
    BY <1>1 DEF CovRec
  <2> QED
    BY <2>1, InitTypes DEF RunStatus
<1>3. cov.hits \cup cov.blame \cup pf.by \cup afl.closed_fd \subseteq {afl.data}
  BY DEF IInv, OwnInv
<1>4. cov.hits \cup cov.blame \cup pf.by \cup afl.closed_fd \in SUBSET Input
  BY <1>1 DEF CovRec, PfRec, AflRec
<1>5. afl.data \in Input /\ (target.fault # None /\ ~target.mapped) \in BOOLEAN
  BY <1>1 DEF AflRec
<1> HIDE DEF RunStatus
<1> QED
  BY <1>2, <1>3, <1>4, <1>5 DEF ResultOf, ResultRec

LEMMA StopHapInv == ASSUME IInv, StopHap PROVE IInv'
<1>1. /\ afl.recv = None /\ sim = "breaking" /\ sim' = "stopped"
      /\ UNCHANGED <<cycle, bs, cov, exit_callback, target, peer>>
  BY DEF StopHap, Awake
<1>2. Live /\ ~Starts(alone) /\ QueueOk(alone) /\ ~Has(alone, "quitAlone")
  BY <1>1 DEF Live, IInv, QueueInv
<1>3. /\ afl.stop_hap /\ afl.data = Len(results) + 1 /\ peer.inbox = <<>>
      /\ peer.sent = afl.data /\ results \in Seq(ResultRec) /\ afl \in AflRec /\ pf \in PfRec
  BY <1>1, <1>2 DEF IInv, RoundInv, Shape
<1>4. CASE alone' = Append(alone, Alone("SIM_continue", None)) /\ UNCHANGED <<pf, afl, results>>
  <2>1. QueueOk(alone') /\ \A g : Has(alone', g) <=> Has(alone, g) \/ g = "SIM_continue"
    BY <1>2, <1>4, QueueAppend DEF Fn
  <2>2. Live' /\ KeepsCount /\ KeepsRound
    BY <1>1, <1>4, <2>1 DEF Live, KeepsCount, KeepsRound
  <2>3. Shape'
    BY <1>1, <1>4 DEF IInv, Shape
  <2>4. QueueInv'
    BY <1>1, <1>2, <2>1 DEF QueueInv
  <2>5. CountInv'
    BY <2>1, <2>2, CountStep DEF IInv
  <2>6. RoundInv'
    BY <1>1, <1>2, <1>3, <1>4, <2>1, NotGot, Constants DEF RoundInv, Starts
  <2>7. OwnInv'
    BY <1>1, <1>2, <1>4, <2>2 DEF IInv, OwnInv, ResultsAreOwn
  <2>8. StopInv'
    BY <1>1, <1>2, <2>1, StopStep DEF IInv
  <2> QED
    BY <2>3, <2>4, <2>5, <2>6, <2>7, <2>8 DEF IInv
<1>5. CASE finishUp
  <2>1. PICK fifo \in {None, "restart", "quit"} :
          LET restart == afl.restart \/ fifo = "restart"
              told == [afl EXCEPT !.restart = restart]
          IN /\ pf' = clearPendingFaults(pf)
             /\ \/ /\ results' = Append(results, ResultOf(restart))
                   /\ alone' = alone \o Quits(restart, fifo)
                   /\ afl' = AwaitInput(told, restart)
                \/ /\ ~peer.up
                   /\ afl' = rmStopHap(told)
                   /\ UNCHANGED <<alone, results>>
    BY <1>5 DEF finishUp
  <2>2. PICK again \in BOOLEAN : again = (afl.restart \/ fifo = "restart")
    OBVIOUS
  <2> DEFINE told == [afl EXCEPT !.restart = again]
  <2>3. told \in AflRec /\ told.data = afl.data /\ told.recv = None /\ told.stop_hap
        /\ told.counter_hap = afl.counter_hap /\ told.counter_bps = afl.counter_bps
        /\ ~told.already_got_data
    BY <1>1, <1>2, <1>3, NotGot DEF AflRec
  <2>4. pf' \in PfRec /\ pf'.by = {}
    BY <1>3, <2>1 DEF clearPendingFaults, PfRec
  <2> HIDE DEF told
  <2>5. CASE /\ results' = Append(results, ResultOf(again))
             /\ alone' = alone \o Quits(again, fifo)
             /\ afl' = AwaitInput(told, again)
    <3>1. /\ ResultOf(again) \in ResultRec /\ RunStatus \in Status
          /\ ResultOf(again).restart = again /\ ResultOf(again).input = afl.data
          /\ ResultOf(again).from \subseteq {afl.data}
      BY <1>2, ResultOfRun
    <3>2. /\ QueueOk(Quits(again, fifo))
          /\ \A g : Has(Quits(again, fifo), g) => g = "quitAlone"
      BY QueueOne, QueueEmpty DEF Quits, Fn
    <3>3. QueueOk(alone') /\ \A g : Has(alone', g) => Has(alone, g) \/ g = "quitAlone"
      BY <1>2, <2>5, <3>2, QueueConcat
    <3>4. ~Live' /\ ~Starts(alone')
      BY <1>1, <1>2, <3>3 DEF Live, Starts
    <3>5. afl' \in AflRec /\ afl'.data = afl.data /\ afl'.stop_hap /\ KeepsCount
          /\ afl'.recv = IF again THEN None ELSE "next"
      <4>1. CASE again
        BY <2>3, <2>5, <4>1 DEF AwaitInput, KeepsCount
      <4>2. CASE ~again
        <5>1. afl' = [told EXCEPT !.recv = "next", !.status = RunStatus]
          BY <2>5, <4>2 DEF AwaitInput
        <5> HIDE DEF RunStatus
        <5> QED
          BY <2>3, <3>1, <4>2, <5>1 DEF AflRec, KeepsCount
      <4> QED
        BY <4>1, <4>2
    <3>6. /\ results' \in Seq(ResultRec) /\ Len(results') = Len(results) + 1
          /\ \A i \in 1 .. Len(results) : results'[i] = results[i]
          /\ results'[Len(results) + 1] = ResultOf(again)
      BY <1>3, <2>5, <3>1
    <3> HIDE DEF ResultOf
    <3>7. Shape'
      BY <1>1, <2>4, <3>5, <3>6 DEF IInv, Shape
    <3>8. QueueInv'
      BY <3>3, <3>4, <1>1 DEF QueueInv
    <3>9. CountInv'
      BY <3>3, <3>5, CountStep DEF IInv
    <3>13. ~afl'.already_got_data
      <4>1. CASE again
        BY <2>3, <2>5, <4>1 DEF AwaitInput
      <4>2. CASE ~again
        <5>1. afl' = [told EXCEPT !.recv = "next", !.status = RunStatus]
          BY <2>5, <4>2 DEF AwaitInput
        <5> HIDE DEF RunStatus
        <5> QED
          BY <2>3, <5>1 DEF AflRec
      <4> QED
        BY <4>1, <4>2
    <3>10. RoundInv'
      BY <1>1, <1>3, <3>1, <3>4, <3>5, <3>6, <3>13, Constants DEF RoundInv, Starts
    <3>11. OwnInv'
      <4>1. DOMAIN results' = 1 .. Len(results) + 1 /\ DOMAIN results = 1 .. Len(results)
            /\ Len(results) \in Nat
        BY <1>3, <3>6
      <4>2. ASSUME NEW i \in DOMAIN results' PROVE results'[i].from \subseteq {results'[i].input}
        <5>1. CASE i = Len(results) + 1
          BY <3>1, <3>6, <5>1
        <5>2. CASE i # Len(results) + 1
          BY <3>6, <4>1, <5>2 DEF IInv, OwnInv, ResultsAreOwn
        <5> QED
          BY <5>1, <5>2
      <4> QED
        BY <2>4, <3>4, <4>2 DEF OwnInv, ResultsAreOwn
    <3>12. StopInv'
      BY <3>4 DEF StopInv
    <3> QED
      BY <3>7, <3>8, <3>9, <3>10, <3>11, <3>12 DEF IInv
  <2>6. CASE ~peer.up /\ afl' = rmStopHap(told) /\ UNCHANGED <<alone, results>>
    <3>1. afl' \in AflRec /\ afl'.data = afl.data /\ KeepsCount /\ afl'.recv = None
      BY <2>3, <2>6 DEF rmStopHap, AflRec, KeepsCount
    <3>2. ~Live' /\ ~Starts(alone')
      BY <1>1, <1>2, <2>6 DEF Live, Starts
    <3>3. Shape'
      BY <1>1, <2>4, <2>6, <3>1 DEF IInv, Shape
    <3>4. QueueInv'
      BY <1>2, <2>6, <3>2 DEF QueueInv
    <3>5. CountInv'
      BY <2>6, <3>1, CountStep DEF IInv
    <3>9. ~afl'.already_got_data
      BY <2>3, <2>6 DEF rmStopHap, AflRec
    <3>6. RoundInv'
      BY <1>1, <1>3, <2>6, <3>1, <3>2, <3>9, Constants DEF RoundInv, Starts
    <3>7. OwnInv'
      BY <2>4, <2>6, <3>2 DEF IInv, OwnInv, ResultsAreOwn
    <3>8. StopInv'
      BY <3>2 DEF StopInv
    <3> QED
      BY <3>3, <3>4, <3>5, <3>6, <3>7, <3>8 DEF IInv
  <2> QED
    BY <2>1, <2>2, <2>5, <2>6 DEF told
<1> QED
  BY <1>3, <1>4, <1>5 DEF StopHap

-----------------------------------------------------------------------------
(***************************************************************************)
(* Steps of a run.                                                         *)
(***************************************************************************)

\* A step of a run that queues nothing and moves neither the clock nor what was hit.
LEMMA QuietStep ==
  ASSUME IInv, sim = "run", sim' \in {"run", "breaking"}, alone' = alone, cycle' = cycle,
         Shape', KeepsRound, KeepsCount, Collects, bs'.post \in {bs.post, None},
         UNCHANGED <<cov.hits, cov.hit_255, cov.trace>>
  PROVE  IInv'
<1>1. QueueOk(alone') /\ ~Starts(alone') /\ ~Has(alone', "quitAlone")
  BY DEF IInv, QueueInv, Live
<1>2. QueueInv' /\ RoundInv' /\ OwnInv' /\ Live /\ Live'
  BY <1>1, RunStep
<1>3. CountInv'
  BY CountStep DEF IInv
<1>4. StopInv'
  BY <1>2, StopStep DEF IInv
<1> QED
  BY <1>2, <1>3, <1>4 DEF IInv

LEMMA EndingsInv ==
  ASSUME IInv, TargetExits \/ functionBackstopHap \/ closeHap PROVE IInv'
<1>1. /\ sim = "run" /\ sim' \in {"run", "breaking"}
      /\ UNCHANGED <<cycle, alone, bs, pf, exit_callback, target, peer, results>>
  BY DEF TargetExits, functionBackstopHap, closeHap, Stepping, Running, Break
<1>2. cov \in CovRec /\ afl \in AflRec /\ afl.data \in Input
  BY DEF IInv, Shape, AflRec
<1>3. /\ cov' \in CovRec /\ cov'.hits = cov.hits /\ cov'.hit_255 = cov.hit_255
      /\ cov'.trace = cov.trace /\ cov'.blame \subseteq cov.blame \cup {afl.data}
  <2>1. Record(cov, CRASH, afl.data) \in CovRec
    BY <1>2, CoverageTypes, InitTypes
  <2>2. cov' = Record(cov, CRASH, afl.data) \/ cov' = cov
    BY DEF TargetExits, functionBackstopHap, closeHap
  <2> QED
    BY <1>2, <2>1, <2>2 DEF Record, CovRec
<1>4. /\ afl' \in AflRec /\ KeepsCount /\ afl'.closed_fd \in {afl.closed_fd, {afl.data}}
      /\ afl'.data = afl.data /\ afl'.recv = afl.recv /\ afl'.stop_hap = afl.stop_hap
      /\ afl'.already_got_data = afl.already_got_data
  <2>1. afl' = [afl EXCEPT !.closed_fd = {afl.data}] \/ afl' = afl
    BY DEF TargetExits, functionBackstopHap, closeHap
  <2> QED
    BY <1>2, <2>1 DEF AflRec, KeepsCount
<1>5. KeepsRound /\ Collects
  BY <1>1, <1>3, <1>4 DEF KeepsRound, Collects
<1>6. Shape'
  BY <1>1, <1>3, <1>4 DEF IInv, Shape
<1> QED
  BY <1>1, <1>3, <1>4, <1>5, <1>6, QuietStep

LEMMA TickInv == ASSUME IInv, Tick PROVE IInv'
<1>1. /\ sim = "run" /\ ~BackStopDue(bs) /\ ~HangDue(bs) /\ bs' = PassCycle(bs)
      /\ cycle' = (IF cycle < MaxCycle THEN cycle + 1 ELSE cycle)
      /\ UNCHANGED <<sim, alone, cov, pf, exit_callback, afl, target, peer, results>>
  BY DEF Tick, Running
<1>2. bs \in BackStopRec /\ cycle \in 0 .. MaxCycle
  BY DEF IInv, Shape
<1>3. KeepsRound /\ KeepsCount /\ Collects
  BY <1>1 DEF KeepsRound, KeepsCount, Collects
<1>4. QueueOk(alone') /\ ~Starts(alone') /\ ~Has(alone', "quitAlone")
  BY <1>1 DEF IInv, QueueInv, Live
<1>5. QueueInv' /\ RoundInv' /\ OwnInv' /\ Live /\ Live'
  BY <1>1, <1>3, <1>4, RunStep
<1>6. Shape'
  <2>1. bs' \in BackStopRec
    BY <1>1, <1>2, BackStopTypes
  <2>2. cycle' \in 0 .. MaxCycle
    BY <1>1, <1>2, Constants
  <2> QED
    BY <1>1, <2>1, <2>2 DEF IInv, Shape
<1>7. CountInv'
  BY <1>1, <1>3, CountStep DEF IInv
<1>8. bs'.post = IF bs.post = None THEN None ELSE bs.post - 1
  BY <1>1, <1>2 DEF PassCycle, BackStopRec
<1>9. StopInv'
  <2>1. bs'.post # None => bs'.post + cycle' >= BackStopCycles \/ cycle' = MaxCycle
    <3>1. bs'.post # None => bs.post # None /\ bs.post \in Nat /\ bs'.post = bs.post - 1
      BY <1>2, <1>8 DEF BackStopRec
    <3>2. bs.post # None => bs.post + cycle >= BackStopCycles \/ cycle = MaxCycle
      BY <1>5 DEF IInv, StopInv
    <3> QED
      BY <1>1, <1>2, <3>1, <3>2, Constants
  <2>2. \/ bs'.post # None \/ Has(alone', "setFutureCycleAlone") \/ cov'.hit_255 # {}
        \/ \E e \in Edge : cov'.trace[e] # 0
        => cov'.hits # {}
    BY <1>1, <1>5, <1>8 DEF IInv, StopInv
  <2> QED
    BY <2>1, <2>2 DEF StopInv
<1> QED
  BY <1>5, <1>6, <1>7, <1>9 DEF IInv

LEMMA BackStopEventInv == ASSUME IInv, BackStopEvent PROVE IInv'
<1>1. /\ sim = "run" /\ sim' \in {"run", "breaking"} /\ bs' = cycle_handler(bs)
      /\ UNCHANGED <<cycle, alone, cov, pf, exit_callback, afl, target, peer, results>>
  BY DEF BackStopEvent, Running, Break
<1>2. bs \in BackStopRec
  BY DEF IInv, Shape
<1>3. bs' \in BackStopRec /\ bs'.post = None
  <2>1. bs' \in BackStopRec
    BY <1>1, <1>2, BackStopTypes
  <2>2. bs'.post = None
    BY <1>1, <1>2 DEF cycle_handler, clearCycle, BackStopRec
  <2> QED
    BY <2>1, <2>2
<1>4. KeepsRound /\ KeepsCount /\ Collects
  BY <1>1 DEF KeepsRound, KeepsCount, Collects
<1>5. Shape'
  BY <1>1, <1>3 DEF IInv, Shape
<1> QED
  BY <1>1, <1>3, <1>4, <1>5, QuietStep

LEMMA HangEventInv == ASSUME IInv, HangEvent PROVE IInv'
<1>1. /\ sim = "run" /\ sim' \in {"run", "breaking"} /\ bs' = hang_handler(bs)
      /\ cov' \in {cov, Record(cov, HANG, afl.data)}
      /\ UNCHANGED <<cycle, alone, pf, exit_callback, afl, target, peer, results>>
  BY DEF HangEvent, Running, recordHang
<1>2. bs \in BackStopRec /\ cov \in CovRec /\ afl.data \in Input
  BY DEF IInv, Shape, AflRec
<1>3. bs' \in BackStopRec /\ bs'.post = bs.post
  <2>1. bs' \in BackStopRec
    BY <1>1, <1>2, BackStopTypes
  <2>2. bs'.post = bs.post
    BY <1>1, <1>2 DEF hang_handler, BackStopRec
  <2> QED
    BY <2>1, <2>2
<1>4. /\ cov' \in CovRec /\ cov'.hits = cov.hits /\ cov'.hit_255 = cov.hit_255
      /\ cov'.trace = cov.trace /\ cov'.blame \subseteq cov.blame \cup {afl.data}
  <2>1. Record(cov, HANG, afl.data) \in CovRec
    BY <1>2, CoverageTypes, InitTypes
  <2> QED
    BY <1>1, <1>2, <2>1 DEF Record, CovRec
<1>5. KeepsRound /\ KeepsCount /\ Collects
  BY <1>1, <1>4 DEF KeepsRound, KeepsCount, Collects
<1>6. Shape'
  BY <1>1, <1>3, <1>4 DEF IInv, Shape
<1> QED
  BY <1>1, <1>3, <1>4, <1>5, <1>6, QuietStep

\* A step of a run that only queues something: one function, and no starter.
LEMMA QueueingStep ==
  ASSUME IInv, sim = "run", sim' = sim, cycle' = cycle,
         Shape', KeepsRound, KeepsCount, Collects, bs'.post \in {bs.post, None},
         UNCHANGED <<cov.hits, cov.hit_255, cov.trace>>,
         NEW f \in Fn \ {"goN", "SIM_continue", "quitAlone", "rmCounterHap",
                         "setFutureCycleAlone"},
         alone' = Append(alone, Alone(f, None))
  PROVE  IInv'
<1>1. QueueOk(alone) /\ ~Starts(alone) /\ ~Has(alone, "quitAlone")
  BY DEF IInv, QueueInv, Live
<1>2. QueueOk(alone') /\ \A g : Has(alone', g) <=> Has(alone, g) \/ g = f
  BY <1>1, QueueAppend
<1>3. QueueInv' /\ RoundInv' /\ OwnInv' /\ Live /\ Live'
  BY <1>1, <1>2, RunStep DEF Starts
<1>4. CountInv'
  BY <1>2, CountStep DEF IInv
<1>5. StopInv'
  BY <1>2, <1>3, StopStep DEF IInv
<1> QED
  BY <1>3, <1>4, <1>5 DEF IInv

LEMMA PageFaultInv ==
  ASSUME IInv, (\E p \in Page : pageFaultHap(p)) \/ ptableWriteHap \/ modeChanged
  PROVE  IInv'
<1>1. /\ sim = "run" /\ sim' = "run"
      /\ UNCHANGED <<cycle, bs, cov, exit_callback, afl, peer, results>>
  BY DEF pageFaultHap, ptableWriteHap, modeChanged, Stepping, Running
<1>2. Live
  BY <1>1 DEF Live
<1>3. pf \in PfRec /\ target \in TargetRec /\ afl.data \in Input
  BY DEF IInv, Shape, AflRec
<1>4. target' \in TargetRec
  <2>1. CASE \E p \in Page : pageFaultHap(p)
    <3>1. PICK p \in Page : target' = [target EXCEPT !.fault = p]
      BY <2>1 DEF pageFaultHap
    <3> QED
      BY <1>3, <3>1 DEF TargetRec
  <2>2. CASE ptableWriteHap
    BY <1>3, <2>2 DEF ptableWriteHap, TargetRec
  <2>3. CASE modeChanged
    BY <1>3, <2>3 DEF modeChanged, TargetRec
  <2> QED
    BY <2>1, <2>2, <2>3
<1>5. clearPendingFaults(pf) \in PfRec /\ clearPendingFaults(pf).by = {}
  BY <1>3 DEF clearPendingFaults, PfRec
<1>6. pf' \in PfRec /\ pf'.by \subseteq pf.by \cup {afl.data}
  <2>1. ASSUME NEW p \in Page, pageFaultHap(p) PROVE pf' \in PfRec /\ pf'.by \subseteq pf.by \cup {afl.data}
    <3>1. CASE p \in pf.faulted
      BY <1>3, <2>1, <3>1 DEF pageFaultHap
    <3>2. CASE p \notin pf.faulted
      <4>1. PICK m \in BOOLEAN : m = (pf.mode_hap \/ pf.pending = None)
        OBVIOUS
      <4>2. pf' = [pf EXCEPT !.faulted = @ \cup {p}, !.pending = IF @ = None THEN p ELSE @,
                             !.by = IF pf.pending = None THEN {afl.data} ELSE @,
                             !.mode_hap = m]
        BY <1>3, <2>1, <3>2, <4>1 DEF pageFaultHap, PfRec
      <4> QED
        BY <1>3, <4>2 DEF PfRec
    <3> QED
      BY <3>1, <3>2
  <2>2. CASE ptableWriteHap
    <3>1. pf' = [clearPendingFaults(pf) EXCEPT !.ptable_hap = FALSE]
      BY <2>2 DEF ptableWriteHap
    <3> QED
      BY <1>5, <3>1 DEF PfRec
  <2>3. CASE modeChanged
    <3>1. CASE pf.mode_hap
      <4>1. PICK h \in BOOLEAN : h = (clearPendingFaults(pf).ptable_hap /\ pf.pending = None)
        OBVIOUS
      <4>2. pf' \in {[clearPendingFaults(pf) EXCEPT !.ptable_hap = h], clearPendingFaults(pf), pf}
        BY <2>3, <3>1, <4>1 DEF modeChanged
      <4>3. [clearPendingFaults(pf) EXCEPT !.ptable_hap = h] \in PfRec
        BY <1>5 DEF PfRec
      <4>4. [clearPendingFaults(pf) EXCEPT !.ptable_hap = h].by = {}
        BY <1>5 DEF PfRec
      <4> QED
        BY <1>3, <1>5, <4>2, <4>3, <4>4
    <3>2. CASE ~pf.mode_hap
      BY <1>3, <2>3, <3>2 DEF modeChanged
    <3> QED
      BY <3>1, <3>2
  <2> QED
    BY <2>1, <2>2, <2>3
<1>7. KeepsRound /\ KeepsCount /\ Collects
  BY <1>1, <1>2, <1>6 DEF KeepsRound, KeepsCount, Collects
<1>8. Shape'
  BY <1>1, <1>4, <1>6 DEF IInv, Shape
<1>9. \/ alone' = alone
      \/ \E f \in {"pageFaultHapAlone", "rmModeHapAlone"} : alone' = Append(alone, Alone(f, None))
  BY DEF pageFaultHap, ptableWriteHap, modeChanged
<1>10. CASE alone' = alone
  BY <1>1, <1>7, <1>8, <1>10, QuietStep
<1>11. CASE \E f \in {"pageFaultHapAlone", "rmModeHapAlone"} :
              alone' = Append(alone, Alone(f, None))
  <2>1. PICK f \in {"pageFaultHapAlone", "rmModeHapAlone"} :
          alone' = Append(alone, Alone(f, None))
    BY <1>11
  <2>2. f \in Fn \ {"goN", "SIM_continue", "quitAlone", "rmCounterHap", "setFutureCycleAlone"}
    BY DEF Fn
  <2> QED
    BY <1>1, <1>7, <1>8, <2>1, <2>2, QueueingStep
<1> QED
  BY <1>9, <1>10, <1>11

\* The counted calls of read.
LEMMA counterHapInv == ASSUME IInv, counterHap PROVE IInv'
<1> DEFINE count == afl.exit_counter + afl.counter_bps
           commence == afl.exit_counter < CommenceAfter /\ count >= CommenceAfter
           p == <<Alone("setHangCallback", None), Alone("rmCounterHap", None)>>
<1>1. /\ sim = "run" /\ sim' = "run" /\ CommenceAfter # None
      /\ target' = [target EXCEPT !.reads = @ + 1]
      /\ UNCHANGED <<cycle, sim, bs, pf, exit_callback, peer, results>>
  BY DEF counterHap, Stepping, Running
<1>2. cov \in CovRec /\ afl \in AflRec /\ target' \in TargetRec /\ CommenceAfter \in Nat
  BY <1>1, Constants DEF IInv, Shape, TargetRec
<1>3. CASE afl.counter_hap
  <2>1. /\ afl' = [afl EXCEPT !.exit_counter = IF commence THEN CommenceAfter ELSE count,
                              !.counter_hap = ~commence]
        /\ cov' = (IF commence THEN enableAll(cov) ELSE cov)
        /\ alone' = alone \o (IF commence THEN p ELSE <<>>)
    BY <1>3 DEF counterHap
  <2>2. PICK c \in BOOLEAN : c = ~commence
    OBVIOUS
  <2>3. PICK n \in Nat : n = IF commence THEN CommenceAfter ELSE count
    BY <1>2 DEF AflRec
  <2>4. afl' = [afl EXCEPT !.exit_counter = n, !.counter_hap = c]
    BY <2>1, <2>2, <2>3
  <2>5. /\ afl' \in AflRec /\ KeepsRound /\ afl'.counter_hap = c
        /\ afl'.counter_bps = afl.counter_bps /\ afl'.closed_fd = afl.closed_fd
    BY <1>1, <1>2, <2>4 DEF AflRec, KeepsRound
  <2>6. /\ cov' \in CovRec /\ cov'.hits = cov.hits /\ cov'.blame = cov.blame
        /\ cov'.hit_255 = cov.hit_255 /\ cov'.trace = cov.trace
    <3>1. enableAll(cov) \in CovRec
      BY <1>2, CoverageTypes
    <3> QED
      BY <1>2, <2>1, <3>1 DEF enableAll, CovRec
  <2>7. QueueOk(p) /\ \A g : Has(p, g) <=> g \in {"setHangCallback", "rmCounterHap"}
    BY DEF QueueOk, Has, Alone, Call, Fn
  <2>8. QueueOk(alone) /\ ~Starts(alone) /\ ~Has(alone, "quitAlone")
        /\ ~Has(alone, "rmCounterHap") /\ afl.counter_bps > 0
    BY <1>1, <1>3 DEF IInv, QueueInv, Live, CountInv
  <2>9. /\ QueueOk(alone')
        /\ \A g : Has(alone', g) <=>
                    Has(alone, g) \/ (~c /\ g \in {"setHangCallback", "rmCounterHap"})
    <3> HIDE DEF p, commence
    <3>1. CASE commence
      BY <2>1, <2>2, <2>7, <2>8, <3>1, QueueConcat
    <3>2. CASE ~commence
      BY <2>1, <2>2, <2>8, <3>2, QueueEmpty, QueueConcat
    <3> QED
      BY <3>1, <3>2
  <2>10. Collects
    BY <1>1, <2>5, <2>6 DEF Collects
  <2>11. QueueInv' /\ RoundInv' /\ OwnInv' /\ Live /\ Live'
    BY <1>1, <2>5, <2>8, <2>9, <2>10, RunStep DEF Starts
  <2>12. Shape'
    BY <1>1, <1>2, <2>5, <2>6 DEF IInv, Shape
  <2>13. CountInv'
    BY <2>5, <2>8, <2>9 DEF CountInv
  <2>14. StopInv'
    BY <1>1, <2>6, <2>9, <2>11, StopStep DEF IInv
  <2> QED
    BY <2>11, <2>12, <2>13, <2>14 DEF IInv
<1>4. CASE ~afl.counter_hap
  <2>1. UNCHANGED <<afl, cov, alone>>
    BY <1>4 DEF counterHap
  <2>2. KeepsRound /\ KeepsCount /\ Collects
    BY <1>1, <2>1 DEF KeepsRound, KeepsCount, Collects
  <2>3. Shape'
    BY <1>1, <1>2, <2>1 DEF IInv, Shape
  <2> QED
    BY <1>1, <2>1, <2>2, <2>3, QuietStep
<1> QED
  BY <1>3, <1>4

\* The end of a suspended function: its number is no address, so nothing is found.
LEMMA suspendEndHapInv == ASSUME IInv, NEW b \in Block, suspendEndHap(b) PROVE IInv'
<1>1. /\ sim = "run" /\ sim' = "run" /\ target' = [target EXCEPT !.inside = @ \ {b}]
      /\ UNCHANGED <<cycle, sim, pf, exit_callback, afl, peer, results>>
  BY DEF suspendEndHap, Stepping, Running
<1>2. cov \in CovRec /\ target' \in TargetRec
  BY <1>1 DEF IInv, Shape, TargetRec
<1>3. None \notin cov.suspended
  BY <1>2, Constants DEF CovRec
<1>4. UNCHANGED <<bs, alone, cov>>
  BY <1>3 DEF suspendEndHap, suspendAddrFromBreakNum
<1>5. KeepsRound /\ KeepsCount /\ Collects
  BY <1>1, <1>4 DEF KeepsRound, KeepsCount, Collects
<1>6. Shape'
  BY <1>1, <1>2, <1>4 DEF IInv, Shape
<1> QED
  BY <1>1, <1>4, <1>5, <1>6, QuietStep

\* A block is hit: what was hit is of this input, and the back stop may be moved.
LEMMA CountEdgeHits ==
  ASSUME StopInv, Live, NEW c \in CovRec, NEW b \in Block, NEW i \in Input,
         c.hits = cov.hits, c.trace = cov.trace, c.blame = cov.blame
  PROVE  /\ CountEdge(c, b, i).hits # {} /\ CountEdge(c, b, i).blame = cov.blame
         /\ CountEdge(c, b, i).hits \subseteq cov.hits \cup {i}
<1>1. <<c.prev, b>> \in Edge
  BY DEF Edge, CovRec
<1>2. CASE c.trace[<<c.prev, b>>] = Saturated
  <2>1. cov.hits # {}
    BY <1>1, <1>2, Constants DEF StopInv
  <2>2. CountEdge(c, b, i).hits = c.hits /\ CountEdge(c, b, i).blame = c.blame
    BY <1>2 DEF CountEdge, CovRec
  <2> QED
    BY <2>1, <2>2
<1>3. CASE c.trace[<<c.prev, b>>] # Saturated
  <2>1. CountEdge(c, b, i).hits = c.hits \cup {i} /\ CountEdge(c, b, i).blame = c.blame
    BY <1>3 DEF CountEdge, CovRec
  <2> QED
    BY <2>1
<1> QED
  BY <1>2, <1>3

LEMMA bbHapInv == ASSUME IInv, NEW b \in Block, bbHap(b) PROVE IInv'
<1>1. /\ sim = "run" /\ sim' = "run"
      /\ UNCHANGED <<cycle, sim, pf, exit_callback, afl, peer, results>>
  BY DEF bbHap, Stepping, Running
<1>2. /\ cov \in CovRec /\ bs \in BackStopRec /\ target \in TargetRec /\ afl.data \in Input
      /\ cycle \in Nat
  BY Constants DEF IInv, Shape, AflRec
<1>3. Live /\ QueueOk(alone) /\ ~Starts(alone) /\ ~Has(alone, "quitAlone") /\ StopInv
  BY <1>1 DEF IInv, QueueInv, Live
<1>4. /\ QueueOk(alone') /\ ~Starts(alone') /\ ~Has(alone', "quitAlone")
      /\ Has(alone', "rmCounterHap") => Has(alone, "rmCounterHap")
      /\ bs' \in BackStopRec /\ bs'.post \in {bs.post, None}
  <2>1. CASE CallFutureCycle(<<>>)
    <3> DEFINE q == FutureCycleQueue(bs, cycle, BackStopCycles)
    <3>1. bs' = setFutureCycle(bs) /\ alone' = (alone \o q) \o <<>>
      BY <2>1 DEF CallFutureCycle
    <3>2. bs' \in BackStopRec /\ bs'.post = bs.post
      BY <1>2, <3>1, BackStopTypes DEF setFutureCycle, BackStopRec
    <3>3. /\ QueueOk(q) /\ ~Starts(q) /\ ~Has(q, "rmCounterHap") /\ ~Has(q, "quitAlone")
      BY <1>2, FutureCycleQueueOk
    <3> HIDE DEF q
    <3>4. QueueOk(alone \o q) /\ \A g : Has(alone \o q, g) <=> Has(alone, g) \/ Has(q, g)
      BY <1>3, <3>3, QueueConcat
    <3>5. alone' = alone \o q
      BY <3>1, <3>4, ConcatEmptySeq DEF QueueOk
    <3> QED
      BY <1>3, <3>2, <3>3, <3>4, <3>5 DEF Starts
  <2>2. CASE SuspendHit(b)
    <3>1. bs' = clearCycle(bs) /\ alone' = alone
      BY <2>2 DEF SuspendHit
    <3>2. bs' \in BackStopRec
      BY <1>2, <3>1, BackStopTypes
    <3>3. bs'.post \in {bs.post, None}
      BY <1>2, <3>1 DEF clearCycle, BackStopRec
    <3> QED
      BY <1>3, <3>1, <3>2, <3>3
  <2> QED
    BY <2>1, <2>2 DEF bbHap, AlreadySaturated, BlockHit
<1>5. target' \in TargetRec
  <2>1. target' = target \/ target' = [target EXCEPT !.inside = @ \cup {b}]
    BY DEF bbHap, AlreadySaturated, BlockHit, SuspendHit
  <2> QED
    BY <1>2, <2>1 DEF TargetRec
<1>6. /\ cov' \in CovRec /\ cov'.hits # {} /\ cov'.blame = cov.blame
      /\ cov'.hits \subseteq cov.hits \cup {afl.data}
  <2>1. CASE b \in cov.hit_255 /\ cov' = cov
    BY <1>2, <1>3, <2>1 DEF StopInv
  <2>2. CASE cov' = CountEdge(cov, b, afl.data)
    BY <1>2, <1>3, <2>2, CoverageTypes, CountEdgeHits
  <2>3. CASE cov' = CountEdge([disableAll(cov) EXCEPT !.suspended = @ \cup {b}], b, afl.data)
    <3> DEFINE c == [disableAll(cov) EXCEPT !.suspended = @ \cup {b}]
    <3>1. c \in CovRec /\ c.hits = cov.hits /\ c.trace = cov.trace /\ c.blame = cov.blame
      BY <1>2 DEF disableAll, CovRec
    <3> HIDE DEF c
    <3>2. cov' = CountEdge(c, b, afl.data)
      BY <2>3 DEF c
    <3> QED
      BY <1>2, <1>3, <3>1, <3>2, CoverageTypes, CountEdgeHits
  <2> QED
    BY <2>1, <2>2, <2>3 DEF bbHap, AlreadySaturated, BlockHit, SuspendHit
<1>7. KeepsRound /\ KeepsCount /\ Collects
  BY <1>1, <1>6 DEF KeepsRound, KeepsCount, Collects
<1>8. QueueInv' /\ RoundInv' /\ OwnInv' /\ Live /\ Live'
  BY <1>1, <1>4, <1>7, RunStep
<1>9. Shape'
  BY <1>1, <1>4, <1>5, <1>6 DEF IInv, Shape
<1>10. CountInv'
  BY <1>4, <1>7, CountStep DEF IInv
<1>11. StopInv'
  BY <1>1, <1>3, <1>4, <1>6 DEF StopInv
<1> QED
  BY <1>8, <1>9, <1>10, <1>11 DEF IInv

-----------------------------------------------------------------------------
(***************************************************************************)
(* The theorems.                                                           *)
(***************************************************************************)
LEMMA NextInv == ASSUME IInv, [Next]_vars PROVE IInv'
<1>1. CASE RunDeferred
  BY <1>1, GoNInv, SIM_continueInv, quitAloneInv, rmCounterHapInv, PfAloneInv,
     HangCallbackInv, DeferredFutureCycleInv, DeferredHangCallbackInv DEF RunDeferred
<1>2. CASE Program
  BY <1>2, bbHapInv, suspendEndHapInv, PageFaultInv, counterHapInv, EndingsInv DEF Program
<1>3. CASE Clock
  BY <1>3, TickInv, BackStopEventInv, HangEventInv DEF Clock
<1>4. CASE Session
  BY <1>4, StopHapInv, GetFirstInv, GetNextInv DEF Session
<1>5. CASE AflSends \/ AflLeaves
  BY <1>5, AflInv
<1>6. CASE UNCHANGED vars
  BY <1>6, SameState
<1> QED
  BY <1>1, <1>2, <1>3, <1>4, <1>5, <1>6 DEF Next

\* IInv holds in every state of a session: it is what the theorems below rest on.
THEOREM Invariance == Spec => []IInv
<1>1. Init => IInv
  BY InitInv
<1>2. IInv /\ [Next]_vars => IInv'
  BY NextInv
<1> QED
  BY <1>1, <1>2, PTL DEF Spec

\* A session keeps its types (afl.py, coverage.py, pageFaultGen.py, backStop.py).
THEOREM TypeCorrect == Spec => []TypeOK
<1>1. IInv => TypeOK
  BY DEF IInv, Shape, TypeOK, BackStopType, BackStopRec, CovRec, PfRec, AflRec, PeerRec
<1> QED
  BY <1>1, Invariance, PTL

\* Nothing that a result tells of was collected in the run of another input, whatever
\* the order of blocks, faults, exits, hangs, closes and queued calls (finishUp, goN).
THEOREM ResultsOwn == Spec => []ResultsAreOwn
<1>1. IInv => ResultsAreOwn
  BY DEF IInv, OwnInv
<1> QED
  BY <1>1, Invariance, PTL

\* The back stop ends only a run that hit a block, and not before its cycles have gone by:
\* no event and no queued call of an earlier run does (backStop.py, goN).
THEOREM BackStopOwn == Spec => BackStopOfThisRun
<1>1. ASSUME IInv, BackStopEvent, sim' = "breaking"
      PROVE  afl.data \in cov.hits /\ cycle >= BackStopCycles
  <2>1. sim = "run" /\ bs.post = 0
    BY <1>1 DEF BackStopEvent, Running, BackStopDue
  <2>2. Live /\ cycle \in 0 .. MaxCycle
    BY <1>1, <2>1 DEF Live, IInv, Shape
  <2>3. bs.post # None
    BY <2>1, Constants
  <2>4. cov.hits # {} /\ cov.hits \subseteq {afl.data}
    BY <1>1, <2>2, <2>3 DEF IInv, StopInv, OwnInv
  <2>5. cycle >= BackStopCycles
    BY <1>1, <2>1, <2>2, <2>3, Constants DEF IInv, StopInv
  <2> QED
    BY <2>4, <2>5
<1>2. IInv /\ [Next]_vars =>
        [BackStopEvent /\ sim' = "breaking" =>
           afl.data \in cov.hits /\ cycle >= BackStopCycles]_vars
  BY <1>1
<1> QED
  BY <1>2, Invariance, PTL DEF Spec, BackStopOfThisRun

-----------------------------------------------------------------------------
(***************************************************************************)
(* The rounds of AFL: GoN, GetFirst and GetNext take an input, StopHap     *)
(* answers it, and no other step shows.                                    *)
(***************************************************************************)
LEMMA RoundsInit == Init => Rounds!Init
<1> SUFFICES ASSUME Init PROVE Rounds!Init
  OBVIOUS
<1>1. Taken = 0
  BY DEF Init, Taken
<1>2. Sent = <<>>
  BY DEF Init, Sent
<1> QED
  BY <1>1, <1>2 DEF Rounds!Init

\* Nothing is seen of a step that keeps the input and the results.
LEMMA RoundsStutter ==
  ASSUME afl'.data = afl.data, afl'.already_got_data = afl.already_got_data,
         results' = results
  PROVE  Taken' = Taken /\ Sent' = Sent
BY DEF Taken, Sent

ReportRec == [input : Input, status : Status, restart : BOOLEAN]

LEMMA ReportsOf ==
  ASSUME NEW q \in Seq(ResultRec)
  PROVE  LET sent == [i \in DOMAIN q |-> Reported(q[i])]
         IN /\ sent \in Seq(ReportRec) /\ Len(sent) = Len(q) /\ Len(q) \in Nat
            /\ \A i \in 1 .. Len(q) : sent[i] = Reported(q[i])
<1>1. DOMAIN q = 1 .. Len(q) /\ Len(q) \in Nat
  OBVIOUS
<1>2. \A i \in DOMAIN q : Reported(q[i]) \in ReportRec
  <2>1. \A i \in DOMAIN q : q[i] \in ResultRec
    BY <1>1
  <2> QED
    BY <2>1 DEF Reported, ResultRec, ReportRec
<1> DEFINE sent == [i \in DOMAIN q |-> Reported(q[i])]
<1>3. sent \in [1 .. Len(q) -> ReportRec]
  BY <1>1, <1>2
<1>4. \A i \in 1 .. Len(q) : sent[i] = Reported(q[i])
  BY <1>1
<1> HIDE DEF sent
<1>5. sent \in Seq(ReportRec) /\ Len(sent) = Len(q)
  BY <1>1, <1>3
<1> QED
  BY <1>1, <1>4, <1>5 DEF sent

\* A run that begins with the input it should have.
LEMMA RoundsTake ==
  ASSUME IInv, NEW i, i = Len(results) + 1, Taken = Len(results), Taken' = i,
         UNCHANGED results, Len(results) > 0 => ~results[Len(results)].restart
  PROVE  Rounds!Take
<1>1. /\ Len(Sent) = Len(results) /\ Len(results) \in Nat
      /\ \A j \in 1 .. Len(results) : Sent[j] = Reported(results[j])
  BY ReportsOf DEF IInv, Shape, Sent
<1>2. Sent' = Sent
  BY DEF Sent
<1>3. ASSUME Taken > 0 PROVE ~Sent[Taken].restart
  <2>1. Taken \in 1 .. Len(results)
    BY <1>1, <1>3
  <2>2. Sent[Taken] = Reported(results[Taken])
    BY <1>1, <2>1
  <2>3. Sent[Taken].restart = results[Taken].restart
    BY <2>2 DEF Reported
  <2> QED
    BY <1>3, <2>3
<1> QED
  BY <1>1, <1>2, <1>3 DEF Rounds!Take

LEMMA RoundsStep == ASSUME IInv, [Next]_vars PROVE [Rounds!Next]_<<Taken, Sent>>
<1>1. afl \in AflRec /\ results \in Seq(ResultRec)
  BY DEF IInv, Shape
<1>2. CASE GoN
  <2>1. RunAlone("goN") /\ Dequeue(<<>>) /\ results' = results
    BY <1>2 DEF GoN, goN
  <2>2. Has(alone, "goN") /\ afl.recv = None
    BY <2>1, StarterAlone
  <2>3. CASE afl.stop_hap \/ afl.already_got_data
    <3>1. goN(Head(alone).arg, afl.data)
      BY <1>2, <2>3 DEF GoN
    <3>2. afl'.data = afl.data /\ ~afl'.already_got_data
      BY <1>1, <3>1 DEF goN, AflRec
    <3>3. CASE ~afl.already_got_data
      BY <2>1, <3>2, <3>3 DEF Taken, Sent
    <3>4. CASE afl.already_got_data
      <4>1. Len(results) = 0 /\ afl.data = Len(results) + 1
        BY <2>2, <3>4 DEF IInv, RoundInv
      <4>2. Rounds!Take
        BY <2>1, <3>2, <3>4, <4>1, RoundsTake DEF Taken
      <4> QED
        BY <4>2 DEF Rounds!Next
    <3> QED
      BY <3>3, <3>4
  <2>4. CASE ~(afl.stop_hap \/ afl.already_got_data)
    <3>1. afl' = [afl EXCEPT !.recv = "first"]
      BY <1>2, <2>4 DEF GoN
    <3>2. afl'.data = afl.data /\ afl'.already_got_data = afl.already_got_data
      BY <1>1, <3>1 DEF AflRec
    <3> QED
      BY <2>1, <3>2, RoundsStutter
  <2> QED
    BY <2>3, <2>4
<1>3. CASE GetFirst \/ GetNext
  <2>1. afl.recv # None /\ results' = results
    BY <1>3, Constants DEF GetFirst, GetNext
  <2>2. ~afl.already_got_data
    BY <2>1, NotGot
  <2>3. afl.data = Len(results) /\ (afl.data > 0 => ~results[afl.data].restart)
    BY <2>1 DEF IInv, RoundInv
  <2>4. CASE /\ peer.inbox # <<>> /\ afl'.data = Head(peer.inbox)
             /\ ~afl'.already_got_data
    <3>1. Head(peer.inbox) = Len(results) + 1
      BY <2>1, <2>4, NextInput
    <3>2. Rounds!Take
      BY <2>1, <2>2, <2>3, <2>4, <3>1, RoundsTake DEF Taken
    <3> QED
      BY <3>2 DEF Rounds!Next
  <2>5. CASE afl'.data = afl.data /\ afl'.already_got_data = afl.already_got_data
    BY <2>1, <2>5, RoundsStutter
  <2>6. CASE GetFirst
    <3>1. \/ peer.inbox # <<>> /\ goN(OK, Head(peer.inbox))
          \/ afl' = [afl EXCEPT !.recv = None]
      BY <2>6 DEF GetFirst
    <3>2. \/ peer.inbox # <<>> /\ afl'.data = Head(peer.inbox) /\ ~afl'.already_got_data
          \/ afl'.data = afl.data /\ afl'.already_got_data = afl.already_got_data
      BY <1>1, <3>1 DEF goN, AflRec
    <3> QED
      BY <2>4, <2>5, <3>2
  <2>7. CASE GetNext
    <3>1. \/ /\ peer.inbox # <<>>
             /\ afl' = [afl EXCEPT !.recv = None, !.data = Head(peer.inbox)]
          \/ afl' = rmStopHap([afl EXCEPT !.recv = None])
      BY <2>7 DEF GetNext
    <3>2. \/ peer.inbox # <<>> /\ afl'.data = Head(peer.inbox) /\ ~afl'.already_got_data
          \/ afl'.data = afl.data /\ afl'.already_got_data = afl.already_got_data
      BY <1>1, <2>2, <3>1 DEF rmStopHap, AflRec
    <3> QED
      BY <2>4, <2>5, <3>2
  <2> QED
    BY <1>3, <2>6, <2>7
<1>4. CASE StopHap
  <2>1. sim = "breaking" /\ afl.recv = None
    BY <1>4 DEF StopHap, Awake
  <2>2. Live /\ ~afl.already_got_data
    BY <2>1, NotGot DEF Live
  <2>3. afl.data = Len(results) + 1
    BY <2>2 DEF IInv, RoundInv
  <2>4. CASE UNCHANGED <<afl, results>>
    BY <2>4, RoundsStutter
  <2>5. CASE finishUp
    <3>1. PICK again \in BOOLEAN :
            \/ /\ results' = Append(results, ResultOf(again))
               /\ afl' = AwaitInput([afl EXCEPT !.restart = again], again)
            \/ afl' = rmStopHap([afl EXCEPT !.restart = again]) /\ results' = results
      BY <2>5 DEF finishUp
    <3>2. afl'.data = afl.data /\ afl'.already_got_data = afl.already_got_data
      BY <1>1, <3>1 DEF AwaitInput, rmStopHap, AflRec
    <3>3. CASE results' = results
      BY <3>2, <3>3, RoundsStutter
    <3>4. CASE results' = Append(results, ResultOf(again))
      <4> DEFINE r == ResultOf(again)
      <4>1. r \in ResultRec /\ r.input = afl.data /\ r.restart = again
            /\ r.status \in Status
        BY <2>2, ResultOfRun
      <4> HIDE DEF r
      <4>2. /\ results' \in Seq(ResultRec) /\ Len(results') = Len(results) + 1
            /\ \A i \in 1 .. Len(results) : results'[i] = results[i]
            /\ results'[Len(results) + 1] = r
        BY <1>1, <3>4, <4>1 DEF r
      <4>3. Sent' = Append(Sent, Reported(r))
        <5>1. /\ Sent \in Seq(ReportRec) /\ Len(Sent) = Len(results) /\ Len(results) \in Nat
              /\ \A i \in 1 .. Len(results) : Sent[i] = Reported(results[i])
          BY <1>1, ReportsOf DEF Sent
        <5>2. /\ Sent' \in Seq(ReportRec) /\ Len(Sent') = Len(results')
              /\ \A i \in 1 .. Len(results') : Sent'[i] = Reported(results'[i])
          BY <4>2, ReportsOf DEF Sent
        <5>3. Reported(r) \in ReportRec
          BY <4>1 DEF Reported, ReportRec, ResultRec
        <5> DEFINE longer == Append(Sent, Reported(r))
        <5>4. /\ longer \in Seq(ReportRec) /\ Len(longer) = Len(Sent) + 1
              /\ \A i \in 1 .. Len(Sent) : longer[i] = Sent[i]
              /\ longer[Len(Sent) + 1] = Reported(r)
          BY <5>1, <5>3, AppendProperties
        <5> HIDE DEF longer
        <5>5. Len(Sent') = Len(longer)
          BY <4>2, <5>1, <5>2, <5>4
        <5>6. ASSUME NEW i \in 1 .. Len(Sent') PROVE Sent'[i] = longer[i]
          <6>1. CASE i = Len(results) + 1
            BY <4>2, <5>1, <5>2, <5>4, <6>1
          <6>2. CASE i # Len(results) + 1
            BY <4>2, <5>1, <5>2, <5>4, <6>2
          <6> QED
            BY <6>1, <6>2
        <5>7. Sent' = longer
          BY <5>2, <5>4, <5>5, <5>6, SeqEqual
        <5> QED
          BY <5>7 DEF longer
      <4>4. Len(Sent) = Len(results) /\ Taken = afl.data /\ Taken' = Taken
        BY <1>1, <2>2, <3>2, ReportsOf DEF Taken, Sent
      <4>5. Reported(r) = [input |-> Taken, status |-> r.status, restart |-> again]
        BY <4>1, <4>4 DEF Reported
      <4>6. Rounds!Answer([input |-> Taken, status |-> r.status, restart |-> again])
        BY <2>3, <4>3, <4>4, <4>5 DEF Rounds!Answer
      <4> QED
        BY <4>1, <4>6 DEF Rounds!Next
    <3> QED
      BY <3>1, <3>3, <3>4
  <2> QED
    BY <1>4, <2>4, <2>5 DEF StopHap
<1>5. ASSUME KeepsRound PROVE [Rounds!Next]_<<Taken, Sent>>
  BY <1>5, RoundsStutter DEF KeepsRound
<1>6. CASE UNCHANGED <<afl, results>>
  BY <1>6, RoundsStutter
<1>7. CASE RunDeferred /\ ~GoN
  <2>1. CASE rmCounterHap
    BY <1>1, <2>1, RoundsStutter DEF rmCounterHap, AflRec
  <2> QED
    BY <1>6, <1>7, <2>1 DEF RunDeferred, SIM_continue, quitAlone, pageFaultHapAlone,
       rmModeHapAlone, HangCallback, DeferredFutureCycle, DeferredHangCallback
<1>8. CASE Program
  <2>1. CASE counterHap
    <3>1. results' = results /\
            \/ afl' = afl
            \/ afl' = [afl EXCEPT !.exit_counter = afl'.exit_counter,
                                  !.counter_hap = afl'.counter_hap]
      BY <1>1, <2>1 DEF counterHap, AflRec
    <3> QED
      BY <1>1, <3>1, RoundsStutter DEF AflRec
  <2>2. CASE closeHap
    BY <1>1, <2>2, RoundsStutter DEF closeHap, AflRec
  <2> QED
    BY <1>6, <1>8, <2>1, <2>2 DEF Program, bbHap, suspendEndHap, pageFaultHap,
       ptableWriteHap, modeChanged, TargetExits, functionBackstopHap
<1>9. CASE Clock \/ AflSends \/ AflLeaves \/ UNCHANGED vars
  BY <1>6, <1>9 DEF Clock, Tick, BackStopEvent, HangEvent, AflSends, AflLeaves, vars
<1> QED
  BY <1>2, <1>3, <1>4, <1>7, <1>8, <1>9 DEF Next, Session

\* A session implements the rounds of AFL: every input gets one result, in turn, and after
\* a restart was announced no input is taken (GoN, GetFirst, GetNext, StopHap).
THEOREM RoundsImplemented == Spec => ImplementsRounds
<1>1. Init => Rounds!Init
  BY RoundsInit
<1>2. IInv /\ [Next]_vars => [Rounds!Next]_<<Taken, Sent>>
  BY RoundsStep
<1>3. Spec => Rounds!Init /\ [][Rounds!Next]_<<Taken, Sent>>
  BY <1>1, <1>2, Invariance, PTL DEF Spec
<1> QED
  BY <1>3 DEF ImplementsRounds, Rounds!Spec

-----------------------------------------------------------------------------
(***************************************************************************)
(* Hangs.  Once a limit is set its cycle stays behind in hang_cycles, and  *)
(* a later run may meet it with its clock set back to 0.                   *)
(***************************************************************************)
HangInv ==
    /\ bs.hang_cycles # None => bs.hang_cycles >= HangCycles
    /\ Live =>
         /\ \A n \in bs.hang_posts : n + cycle >= HangCycles \/ cycle = MaxCycle
         /\ Has(alone, "hang_callback") \/ cov.status = HANG => cycle >= HangCycles

LEMMA HangInit == Init => HangInv
<1> SUFFICES ASSUME Init PROVE HangInv
  OBVIOUS
<1>1. ~Live
  BY QueueOne, InitTypes DEF Init, Live, Fn
<1>2. BackStopInit \in BackStopRec
  BY InitTypes
<1>3. bs.hang_cycles # None => bs.hang_cycles >= HangCycles
  <2> DEFINE b == setDelay(BackStopInit, BackStopDelay)
  <2>1. b \in BackStopRec /\ b.hang_cycles = None
    BY <1>2, BackStopTypes, Constants DEF setDelay, BackStopInit
  <2>2. BackStopInit.hang_cycles = None
    BY DEF BackStopInit
  <2> HIDE DEF b
  <2>3. setHangCallback(b, 0, HangCycles).hang_cycles \in {None, HangCycles}
    BY <2>1, Constants DEF setHangCallback, BackStopRec
  <2>4. bs \in {setHangCallback(b, 0, HangCycles), BackStopInit}
    BY DEF Init, b
  <2> QED
    BY <2>2, <2>3, <2>4, Constants
<1> QED
  BY <1>1, <1>3 DEF HangInv

\* A step that neither sets a limit nor records a hang.
LEMMA HangStep ==
  ASSUME HangInv, Live' => Live, cycle' = cycle, bs'.hang_cycles = bs.hang_cycles,
         bs'.hang_posts \subseteq bs.hang_posts,
         Has(alone', "hang_callback") => Has(alone, "hang_callback"),
         cov'.status = HANG => cov.status = HANG
  PROVE  HangInv'
<1> SUFFICES ASSUME Live' PROVE HangInv'
  BY DEF HangInv
<1> QED
  BY DEF HangInv

\* A run begins with its posts lost and its status reset, not its limit.
LEMMA RunBegins ==
  ASSUME HangInv, bs \in BackStopRec, cov \in CovRec, NEW s, NEW i, goN(s, i),
         \A g : ~Has(alone', g)
  PROVE  HangInv'
<1>1. bs'.hang_cycles = bs.hang_cycles /\ bs'.hang_posts = {}
  <2> DEFINE b == LosePosts(bs)
  <2>1. b \in BackStopRec /\ b.hang_cycles = bs.hang_cycles /\ b.hang_posts = {}
    BY BackStopTypes DEF LosePosts, BackStopRec
  <2>2. bs' = b \/ bs' = setDelay(b, BackStopDelay)
    BY DEF goN
  <2> HIDE DEF b
  <2> QED
    BY <2>1, <2>2 DEF setDelay, BackStopRec
<1>2. cov'.status = OK
  <2>1. PICK c \in CovRec : cov' = doCoverage(c)
    BY CoverageTypes DEF goN
  <2> QED
    BY <2>1 DEF doCoverage, CovRec
<1> QED
  BY <1>1, <1>2 DEF HangInv, OK, HANG

\* Calls from the queue.
LEMMA HangDeferred ==
  ASSUME IInv, HangInv, RunDeferred, HangCycles <= MaxCycle PROVE HangInv'
<1>1. bs \in BackStopRec /\ cov \in CovRec /\ cycle \in 0 .. MaxCycle
  BY DEF IInv, Shape
<1>2. ASSUME NEW f \in Fn \ {"goN", "SIM_continue"}, RunAlone(f), Dequeue(<<>>)
      PROVE  /\ Has(alone, f) /\ \A g : Has(alone', g) => Has(alone, g)
             /\ sim # "quit"
  BY <1>2, Dequeued
<1>3. CASE GoN
  <2>1. CASE afl.stop_hap \/ afl.already_got_data
    <3>1. goN(Head(alone).arg, afl.data)
      BY <1>3, <2>1 DEF GoN
    <3>2. \A g : ~Has(alone', g)
      BY <1>3, StarterAlone DEF GoN
    <3> QED
      BY <1>1, <3>1, <3>2, RunBegins
  <2>2. CASE ~(afl.stop_hap \/ afl.already_got_data)
    <3>1. UNCHANGED <<cycle, sim, bs, cov>> /\ \A g : ~Has(alone', g)
      BY <1>3, <2>2, StarterAlone DEF GoN
    <3> QED
      BY <3>1, HangStep DEF Live
  <2> QED
    BY <2>1, <2>2
<1>4. CASE SIM_continue
  <2>1. UNCHANGED <<cycle, bs, cov>> /\ Has(alone, "SIM_continue") /\ \A g : ~Has(alone', g)
    BY <1>4, StarterAlone DEF SIM_continue
  <2> QED
    BY <2>1, HangStep DEF Live
<1>5. CASE quitAlone \/ rmCounterHap \/ pageFaultHapAlone \/ rmModeHapAlone
  <2>1. PICK f \in {"quitAlone", "rmCounterHap", "pageFaultHapAlone", "rmModeHapAlone"} :
          RunAlone(f) /\ Dequeue(<<>>)
    BY <1>5 DEF quitAlone, rmCounterHap, pageFaultHapAlone, rmModeHapAlone
  <2>2. \A g : Has(alone', g) => Has(alone, g)
    BY <1>2, <2>1 DEF Fn
  <2>3. UNCHANGED <<cycle, bs, cov>> /\ sim' \in {sim, "quit"}
    BY <1>5 DEF quitAlone, rmCounterHap, pageFaultHapAlone, rmModeHapAlone
  <2> QED
    BY <2>2, <2>3, HangStep DEF Live
<1>6. CASE DeferredFutureCycle
  <2>1. \A g : Has(alone', g) => Has(alone, g)
    BY <1>2, <1>6 DEF DeferredFutureCycle, Fn
  <2>2. UNCHANGED <<cycle, sim, cov>> /\ bs' = setFutureCycleAlone(bs, Head(alone).arg)
    BY <1>6 DEF DeferredFutureCycle
  <2>3. bs'.hang_cycles = bs.hang_cycles /\ bs'.hang_posts = bs.hang_posts
    BY <1>1, <2>2 DEF setFutureCycleAlone, BackStopRec
  <2> QED
    BY <2>1, <2>2, <2>3, HangStep DEF Live
<1>7. CASE DeferredHangCallback
  <2>1. \A g : Has(alone', g) => Has(alone, g)
    BY <1>2, <1>7 DEF DeferredHangCallback, Fn
  <2>2. UNCHANGED <<cycle, sim, cov>> /\ bs' = setHangCallback(bs, cycle, HangCycles)
    BY <1>7 DEF DeferredHangCallback
  <2>3. CASE bs' = bs
    BY <2>1, <2>2, <2>3, HangStep DEF Live
  <2>4. CASE /\ bs'.hang_cycles = cycle + HangCycles
             /\ bs'.hang_posts = bs.hang_posts \cup {HangCycles}
    BY <1>1, <2>1, <2>2, <2>4, Constants DEF HangInv, Live
  <2> QED
    BY <1>1, <2>2, <2>3, <2>4 DEF setHangCallback, BackStopRec
<1>8. CASE HangCallback
  <2>1. Has(alone, "hang_callback") /\ \A g : Has(alone', g) => Has(alone, g)
    BY <1>2, <1>8 DEF HangCallback, Fn
  <2>2. UNCHANGED <<cycle, bs>> /\ (Live' => Live)
    BY <1>8, <2>1 DEF HangCallback, recordHang, Live
  <2> QED
    BY <2>1, <2>2 DEF HangInv
<1> QED
  BY <1>3, <1>4, <1>5, <1>6, <1>7, <1>8 DEF RunDeferred
\* What the program does; a block may hand over the callback when the limit is passed.
LEMMA HangProgram == ASSUME IInv, HangInv, Program PROVE HangInv'
<1>1. /\ bs \in BackStopRec /\ cov \in CovRec /\ cycle \in 0 .. MaxCycle /\ cycle \in Nat
      /\ QueueOk(alone) /\ (sim = "run" => ~Starts(alone))
  BY Constants DEF IInv, Shape, QueueInv
<1>2. sim = "run" /\ cycle' = cycle /\ Live
  BY DEF Program, bbHap, suspendEndHap, pageFaultHap, ptableWriteHap, modeChanged,
     counterHap, closeHap, TargetExits, functionBackstopHap, Stepping, Running, Live
<1>3. ASSUME NEW b \in Block, bbHap(b) PROVE HangInv'
  <2>1. cov'.status = cov.status
    <3>1. PICK c \in {cov, [disableAll(cov) EXCEPT !.suspended = @ \cup {b}]} :
            cov' = cov \/ cov' = CountEdge(c, b, afl.data)
      BY <1>3 DEF bbHap, AlreadySaturated, BlockHit, SuspendHit
    <3>2. c \in CovRec /\ c.status = cov.status
      <4>1. disableAll(cov) \in CovRec /\ disableAll(cov).status = cov.status
        BY <1>1 DEF disableAll, CovRec
      <4> DEFINE d == [disableAll(cov) EXCEPT !.suspended = @ \cup {b}]
      <4>2. d \in CovRec /\ d.status = cov.status
        BY <4>1 DEF CovRec
      <4> HIDE DEF d
      <4>3. c = cov \/ c = d
        BY <3>1 DEF d
      <4> QED
        BY <1>1, <4>2, <4>3
    <3>3. CountEdge(c, b, afl.data).status = c.status
      BY <3>2 DEF CountEdge, CovRec
    <3> QED
      BY <3>1, <3>2, <3>3
  <2>2. CASE CallFutureCycle(<<>>)
    <3> DEFINE q == FutureCycleQueue(bs, cycle, BackStopCycles)
    <3>1. bs' = setFutureCycle(bs) /\ alone' = (alone \o q) \o <<>>
      BY <2>2 DEF CallFutureCycle
    <3>2. bs'.hang_cycles = bs.hang_cycles /\ bs'.hang_posts = bs.hang_posts
      BY <1>1, <3>1 DEF setFutureCycle, BackStopRec
    <3>3. /\ QueueOk(q) /\ ~Starts(q) /\ ~Has(q, "rmCounterHap")
          /\ Has(q, "hang_callback") => bs.hang_cycles # None /\ cycle >= bs.hang_cycles
      BY <1>1, FutureCycleQueueOk
    <3> HIDE DEF q
    <3>4. QueueOk(alone \o q) /\ \A g : Has(alone \o q, g) <=> Has(alone, g) \/ Has(q, g)
      BY <1>1, <1>2, <3>3, QueueConcat
    <3>5. alone' = alone \o q
      BY <3>1, <3>4, ConcatEmptySeq DEF QueueOk
    <3>6. Has(q, "hang_callback") => cycle >= HangCycles
      <4>1. bs.hang_cycles # None => bs.hang_cycles \in Nat /\ bs.hang_cycles >= HangCycles
        BY <1>1 DEF HangInv, BackStopRec
      <4> QED
        BY <1>1, <3>3, <4>1, Constants
    <3> QED
      BY <1>2, <2>1, <3>2, <3>4, <3>5, <3>6 DEF HangInv
  <2>3. CASE SuspendHit(b)
    <3>1. bs' = clearCycle(bs) /\ alone' = alone
      BY <2>3 DEF SuspendHit
    <3>2. bs'.hang_cycles = bs.hang_cycles /\ bs'.hang_posts = bs.hang_posts
      BY <1>1, <3>1 DEF clearCycle, BackStopRec
    <3> QED
      BY <1>2, <2>1, <3>1, <3>2, HangStep
  <2> QED
    BY <1>3, <2>2, <2>3 DEF bbHap, AlreadySaturated, BlockHit
<1>4. ASSUME NEW b \in Block, suspendEndHap(b) PROVE HangInv'
  <2>1. None \notin cov.suspended
    BY <1>1, Constants DEF CovRec
  <2>2. UNCHANGED <<bs, alone, cov>>
    BY <1>4, <2>1 DEF suspendEndHap, suspendAddrFromBreakNum
  <2> QED
    BY <1>2, <2>2, HangStep
<1>5. CASE (\E p \in Page : pageFaultHap(p)) \/ ptableWriteHap \/ modeChanged
  <2>1. UNCHANGED <<bs, cov>>
    BY <1>5 DEF pageFaultHap, ptableWriteHap, modeChanged
  <2>2. \/ alone' = alone
        \/ \E f \in {"pageFaultHapAlone", "rmModeHapAlone"} :
              alone' = Append(alone, Alone(f, None))
    BY <1>5 DEF pageFaultHap, ptableWriteHap, modeChanged
  <2>3. Has(alone', "hang_callback") => Has(alone, "hang_callback")
    <3>1. ASSUME NEW f \in {"pageFaultHapAlone", "rmModeHapAlone"}
          PROVE  \A g : Has(Append(alone, Alone(f, None)), g) <=> Has(alone, g) \/ g = f
      BY <1>1, <1>2, QueueAppend DEF Fn
    <3> QED
      BY <2>2, <3>1
  <2> QED
    BY <1>2, <2>1, <2>3, HangStep
<1>6. CASE counterHap
  <2> DEFINE p == <<Alone("setHangCallback", None), Alone("rmCounterHap", None)>>
  <2>1. bs' = bs /\ cov' \in {cov, enableAll(cov)} /\ alone' \in {alone, alone \o p, alone \o <<>>}
        /\ (~afl.counter_hap => alone' = alone)
    BY <1>6 DEF counterHap
  <2>2. cov'.status = cov.status
    BY <1>1, <2>1 DEF enableAll, CovRec
  <2>3. QueueOk(p) /\ \A g : Has(p, g) <=> g \in {"setHangCallback", "rmCounterHap"}
    BY DEF QueueOk, Has, Alone, Call, Fn
  <2> HIDE DEF p
  <2>4. Has(alone', "hang_callback") => Has(alone, "hang_callback")
    <3>1. CASE alone' = alone
      BY <3>1
    <3>2. CASE alone' # alone
      <4>1. ~Has(alone, "rmCounterHap")
        BY <2>1, <3>2 DEF IInv, CountInv
      <4>2. \A g : Has(alone \o p, g) <=> Has(alone, g) \/ Has(p, g)
        BY <1>1, <1>2, <2>3, <4>1, QueueConcat
      <4>3. \A g : Has(alone \o <<>>, g) <=> Has(alone, g) \/ Has(<<>>, g)
        BY <1>1, <1>2, QueueEmpty, QueueConcat
      <4>4. Has(alone \o p, "hang_callback") => Has(alone, "hang_callback")
        BY <2>3, <4>2
      <4>5. Has(alone \o <<>>, "hang_callback") => Has(alone, "hang_callback")
        BY <4>3, QueueEmpty
      <4> QED
        BY <2>1, <4>4, <4>5
    <3> QED
      BY <3>1, <3>2
  <2> QED
    BY <1>2, <2>1, <2>2, <2>4, HangStep
<1>7. CASE closeHap \/ TargetExits \/ functionBackstopHap
  <2>1. UNCHANGED <<bs, alone>> /\ cov' \in {cov, Record(cov, CRASH, afl.data)}
    BY <1>7 DEF closeHap, TargetExits, functionBackstopHap
  <2>2. Record(cov, CRASH, afl.data).status = CRASH
    BY <1>1 DEF Record, CovRec
  <2>3. cov'.status = HANG => cov.status = HANG
    BY <2>1, <2>2 DEF CRASH, HANG
  <2> QED
    BY <1>2, <2>1, <2>3, HangStep
<1> QED
  BY <1>3, <1>4, <1>5, <1>6, <1>7 DEF Program

LEMMA HangClock ==
  ASSUME IInv, HangInv, Clock, HangCycles <= MaxCycle PROVE HangInv'
<1>1. /\ bs \in BackStopRec /\ cov \in CovRec /\ cycle \in 0 .. MaxCycle
      /\ alone' = alone /\ sim = "run" /\ Live
  BY DEF IInv, Shape, Clock, Tick, BackStopEvent, HangEvent, Running, Live
<1>2. CASE Tick
  <2>1. /\ bs' = PassCycle(bs) /\ cov' = cov
        /\ cycle' = (IF cycle < MaxCycle THEN cycle + 1 ELSE cycle)
    BY <1>2 DEF Tick
  <2>2. /\ bs'.hang_cycles = bs.hang_cycles
        /\ bs'.hang_posts = {n - 1 : n \in bs.hang_posts}
    BY <1>1, <2>1 DEF PassCycle, BackStopRec
  <2>3. ASSUME NEW m \in bs'.hang_posts PROVE m + cycle' >= HangCycles \/ cycle' = MaxCycle
    <3>1. PICK n \in bs.hang_posts : m = n - 1
      BY <2>2
    <3>2. n \in Nat /\ (n + cycle >= HangCycles \/ cycle = MaxCycle)
      BY <1>1 DEF HangInv, BackStopRec
    <3> QED
      BY <1>1, <2>1, <3>1, <3>2, Constants
  <2>4. cycle >= HangCycles => cycle' >= HangCycles
    BY <1>1, <2>1, Constants
  <2> QED
    BY <1>1, <2>1, <2>2, <2>3, <2>4 DEF HangInv
<1>3. CASE BackStopEvent
  <2>1. bs' = cycle_handler(bs) /\ UNCHANGED <<cycle, cov>>
    BY <1>3 DEF BackStopEvent
  <2>2. bs'.hang_cycles = bs.hang_cycles /\ bs'.hang_posts = bs.hang_posts
    BY <1>1, <2>1 DEF cycle_handler, clearCycle, BackStopRec
  <2> QED
    BY <1>1, <2>1, <2>2, HangStep
<1>4. CASE HangEvent
  <2>1. HangDue(bs) /\ bs' = hang_handler(bs) /\ cycle' = cycle
    BY <1>4 DEF HangEvent
  <2>2. bs'.hang_cycles = bs.hang_cycles /\ bs'.hang_posts \subseteq bs.hang_posts
    BY <1>1, <2>1 DEF hang_handler, BackStopRec
  <2>3. cycle >= HangCycles
    <3>1. 0 + cycle >= HangCycles \/ cycle = MaxCycle
      BY <1>1, <2>1 DEF HangInv, HangDue
    <3> QED
      BY <1>1, <3>1, Constants
  <2> QED
    BY <1>1, <2>1, <2>2, <2>3 DEF HangInv
<1> QED
  BY <1>2, <1>3, <1>4 DEF Clock

LEMMA HangSession ==
  ASSUME IInv, HangInv, Session \/ AflSends \/ AflLeaves PROVE HangInv'
<1>1. bs \in BackStopRec /\ cov \in CovRec /\ QueueOk(alone)
  BY DEF IInv, Shape, QueueInv
<1>2. CASE StopHap
  <2>1. sim = "breaking" /\ UNCHANGED <<cycle, bs, cov>> /\ sim' = "stopped" /\ afl.recv = None
    BY <1>2 DEF StopHap, Awake
  <2>2. Live /\ ~Starts(alone)
    BY <2>1 DEF Live, IInv, QueueInv
  <2>3. \A a \in {None} : alone' = Append(alone, Alone("SIM_continue", a)) =>
          \A g : Has(alone', g) <=> Has(alone, g) \/ g = "SIM_continue"
    BY <1>1, <2>2, QueueAppend DEF Fn
  <2>4. ASSUME NEW r, NEW fifo, alone' = alone \o Quits(r, fifo)
        PROVE  \A g : Has(alone', g) => Has(alone, g) \/ g = "quitAlone"
    <3>1. /\ QueueOk(Quits(r, fifo)) /\ \A g : Has(Quits(r, fifo), g) => g = "quitAlone"
      BY QueueOne, QueueEmpty DEF Quits, Fn
    <3> QED
      BY <1>1, <2>2, <2>4, <3>1, QueueConcat
  <2>5. \/ alone' = alone
        \/ alone' = Append(alone, Alone("SIM_continue", None))
        \/ \E r, fifo : alone' = alone \o Quits(r, fifo)
    BY <1>2 DEF StopHap, finishUp
  <2>6. Has(alone', "hang_callback") => Has(alone, "hang_callback")
    BY <2>3, <2>4, <2>5
  <2> QED
    BY <2>1, <2>2, <2>6, HangStep
<1>3. CASE GetFirst
  <2>1. afl.recv = "first" /\ alone' = alone
    BY <1>3 DEF GetFirst
  <2>2. \A g : ~Has(alone', g)
    BY <2>1, QueueEmpty DEF IInv, RoundInv
  <2>3. goN(OK, Head(peer.inbox)) \/ UNCHANGED <<cycle, sim, bs, cov>>
    BY <1>3 DEF GetFirst
  <2> QED
    BY <1>1, <2>1, <2>2, <2>3, RunBegins, HangStep DEF Live
<1>4. CASE GetNext
  <2>1. afl.recv = "next" /\ UNCHANGED <<cycle, sim, bs, cov>>
    BY <1>4 DEF GetNext
  <2>2. ~Live /\ ~Starts(alone) /\ afl.status \in Status
    BY <2>1, Constants DEF IInv, RoundInv, QueueInv, Live, Starts, Shape, AflRec
  <2>3. \/ alone' = Append(alone, Alone("goN", afl.status))
        \/ alone' = Append(alone, Alone("quitAlone", None))
    BY <1>4 DEF GetNext
  <2>4. ~Has(alone', "SIM_continue")
    <3>1. \A g : Has(Append(alone, Alone("goN", afl.status)), g) <=> Has(alone, g) \/ g = "goN"
      BY <1>1, <2>2, QueueAppend DEF Fn
    <3>2. \A g : Has(Append(alone, Alone("quitAlone", None)), g) <=>
                   Has(alone, g) \/ g = "quitAlone"
      BY <1>1, <2>2, QueueAppend DEF Fn
    <3> QED
      BY <2>2, <2>3, <3>1, <3>2 DEF Starts
  <2> QED
    BY <2>1, <2>2, <2>4 DEF HangInv, Live
<1>5. CASE AflSends \/ AflLeaves
  <2>1. UNCHANGED <<cycle, sim, alone, bs, cov>>
    BY <1>5 DEF AflSends, AflLeaves
  <2> QED
    BY <2>1, HangStep DEF Live
<1> QED
  BY <1>2, <1>3, <1>4, <1>5 DEF Session

\* When a result says HANG, its run did go on for HANG_CYCLES.
LEMMA HangResult ==
  ASSUME IInv, HangInv, Next, results' # results, results'[Len(results')].status = HANG
  PROVE  cycle >= HangCycles
<1>1. StopHap /\ finishUp
  BY DEF Next, RunDeferred, GoN, goN, SIM_continue, quitAlone, rmCounterHap,
     pageFaultHapAlone, rmModeHapAlone, HangCallback, DeferredFutureCycle,
     DeferredHangCallback, Program, bbHap, suspendEndHap, pageFaultHap, ptableWriteHap,
     modeChanged, counterHap, closeHap, TargetExits, functionBackstopHap, Clock, Tick,
     BackStopEvent, HangEvent, Session, StopHap, GetFirst, GetNext, AflSends, AflLeaves
<1>2. Live /\ results \in Seq(ResultRec)
  BY <1>1 DEF StopHap, Live, IInv, Shape
<1>3. PICK again \in BOOLEAN : results' = Append(results, ResultOf(again))
  BY <1>1 DEF finishUp
<1>4. ResultOf(again) \in ResultRec /\ ResultOf(again).status = RunStatus
  BY <1>2, ResultOfRun
<1>5. RunStatus = HANG
  <2> HIDE DEF ResultOf, RunStatus
  <2>1. results'[Len(results')] = ResultOf(again)
    BY <1>2, <1>3, <1>4
  <2> QED
    BY <1>4, <2>1
<1>6. cov.status = HANG
  BY <1>5 DEF RunStatus, OK, CRASH, HANG, CLOSED
<1> QED
  BY <1>2, <1>6 DEF HangInv

\* No input is called a hang before HANG_CYCLES of its own run, although hang_cycles keeps
\* the limit of an earlier run (backStop.setFutureCycle, setHangCallback).  The clock of
\* the model must be able to get there.
THEOREM HangsAreReal == HangCycles <= MaxCycle => (Spec => NoFalseHang)
<1> SUFFICES ASSUME HangCycles <= MaxCycle PROVE Spec => NoFalseHang
  OBVIOUS
<1>1. Init => HangInv
  BY HangInit
<1>2. IInv /\ HangInv /\ [Next]_vars => HangInv'
  <2>1. ASSUME HangInv, UNCHANGED vars PROVE HangInv'
    BY <2>1 DEF HangInv, Live, Has, vars
  <2> QED
    BY <2>1, HangDeferred, HangProgram, HangClock, HangSession DEF Next
<1>3. IInv /\ HangInv /\ [Next]_vars =>
        [results' # results /\ results'[Len(results')].status = HANG => cycle >= HangCycles]_vars
  BY HangResult
<1> QED
  BY <1>1, <1>2, <1>3, Invariance, PTL DEF Spec, NoFalseHang
=============================================================================
