----------------------------- MODULE DataWatch -----------------------------
(***************************************************************************)
(* The buffers that data tracking watches (dataWatch.py): a list of ranges *)
(* of memory and, parallel to it, a list of the haps whose breakpoints     *)
(* call readHap when the program or the kernel touches a range.  Ranges    *)
(* come from read calls and from copies of watched data, grow and merge,   *)
(* are removed when their memory is used for something else, and are taken *)
(* back when tracking starts anew, from where the user went back to.       *)
(*                                                                         *)
(* One process of a Linux target is tracked, and reverse execution is on.  *)
(* Left out: physical addresses, watch marks and the order of their bytes, *)
(* sub-buffers that a larger range stood for, buffers of the stack, C++    *)
(* strings and ring buffers, break_simulation, what setRange waits for     *)
(* before it watches anything (commence_with), and all that tells what     *)
(* function or instruction an access belongs to: what a handler may        *)
(* conclude from it, and what the marks name when ranges are rebuilt from  *)
(* them, is a choice.  A hap that is deleted is gone at once, since        *)
(* readHap ignores an index without one.                                   *)
(***************************************************************************)
EXTENDS Integers, Sequences, FiniteSets, SequencesExt

CONSTANTS
    MaxAddr,     \* addresses of the tracked memory are 1 .. MaxAddr
    MaxScalar,   \* bytes that are written as one value, not as a vector
    MaxRanges,   \* bound on the length of the list of ranges
    MaxLeft,     \* bound on the haps left behind at once
    MaxCycle,    \* bound on the cycles that pass
    Marks,       \* lists of buffers that the watch marks may name
    Unrecorded,  \* whether a thread may return from a call without a recorded entry to the kernel
    None

Addr == 1 .. MaxAddr

Buffer(start, length) == start .. (start + length - 1)

Buffers == {b \in [start : Addr, length : Addr] : Buffer(b.start, b.length) \subseteq Addr}

ASSUME WatchAssumption ==
    /\ MaxAddr \in Nat \ {0} /\ MaxScalar \in Nat
    /\ MaxRanges \in Nat \ {0} /\ MaxLeft \in Nat /\ MaxCycle \in Nat
    /\ Marks \subseteq Seq(Buffers) /\ Unrecorded \in BOOLEAN /\ None \notin Int

VARIABLES
    dw,          \* the DataWatch
    tracking,    \* runToIO watches the read calls
    cycle,       \* of the simulation
    origin       \* the cycle before which nothing can be reversed

vars == <<dw, tracking, cycle, origin>>

\* The length of a range that was removed no longer matters.
WatchRange == [start : Addr, length : Addr, cycle : 0 .. MaxCycle]
              \cup [start : {None}, length : {0}, cycle : 0 .. MaxCycle]

\* The object, with its haps and what it has handed to others.
DW == [ranges : Seq(WatchRange), read_hap : Seq(SUBSET Addr), disabled : BOOLEAN,
       stopped : BOOLEAN, retrack : BOOLEAN, kernel_return_hap : BOOLEAN,
       callback : BOOLEAN, alone : BOOLEAN, left : SUBSET Nat]

Init ==
    /\ dw = [ranges |-> <<>>,                \* start, length and cycle
             read_hap |-> <<>>,              \* the addresses of a hap's breakpoint, {} for None
             disabled |-> TRUE,
             stopped |-> FALSE,
             retrack |-> FALSE,
             kernel_return_hap |-> FALSE,    \* breakpoints are set where the kernel returns
             callback |-> FALSE,             \* SharedSyscall holds kernelReturnHap
             alone |-> FALSE,                \* setBreakRange is queued with SIM_run_alone
             left |-> {}]                    \* history: indexes whose hap was left behind
    /\ tracking = FALSE
    /\ cycle = 0
    /\ origin = 0

\* The addresses of a range, none when it was removed.
Bytes(r) == IF r.start = None THEN {} ELSE Buffer(r.start, r.length)

LastOf(r) == r.start + r.length - 1

Live(d) == {i \in DOMAIN d.ranges : d.ranges[i].start # None}

\* What tracking means to watch.
Watched(d) == UNION {Bytes(d.ranges[i]) : i \in Live(d)}

Latest(S) == IF S = {} THEN None ELSE CHOOSE i \in S : \A j \in S : j <= i

findRangeIndex(d, addr) == Latest({i \in DOMAIN d.ranges : addr \in Bytes(d.ranges[i])})

\* Mutant: the byte after the access counts too.
MutFindBufForRange(d, addr, size) ==
    {Latest({i \in Live(d) : Bytes(d.ranges[i]) \cap Buffer(addr, size + 1) # {}})} \ {None}

\* The range that addr is in, if a read call filled the buffer there, or else one that is touched.
findBufForRange(d, addr, size) ==
    {findRangeIndex(d, addr),
     Latest({i \in DOMAIN d.ranges : Bytes(d.ranges[i]) \cap Buffer(addr, size) # {}})} \ {None}

-----------------------------------------------------------------------------
(* Haps *)

WithoutHap(d, i) == [d EXCEPT !.read_hap[i] = {}, !.left = @ \ {i}]

\* Mutant: the hap is not replaced when a range has grown.
MutResetIndexHapNot(d, i) == d

resetIndexHap(d, i) ==
    [d EXCEPT !.read_hap[i] = Bytes(d.ranges[i]), !.left = @ \ {i}]

\* A range without a hap gets one; one that has a hap keeps it, whatever it covers.
setBreakRange(d) ==
    LET last == IF Len(d.ranges) > Len(d.read_hap) THEN Len(d.ranges) ELSE Len(d.read_hap)
        HapOf(i) == IF i \in DOMAIN d.read_hap THEN d.read_hap[i] ELSE {}
    IN  [d EXCEPT !.read_hap = [i \in 1 .. last |->
            IF HapOf(i) = {} /\ i \in Live(d) THEN Bytes(d.ranges[i]) ELSE HapOf(i)]]

stopWatch(d) ==
    IF d.disabled THEN d
    ELSE [d EXCEPT !.stopped = TRUE,
                   !.read_hap = [i \in DOMAIN @ |-> IF i \in Live(d) THEN {} ELSE @[i]],
                   !.left = @ \ Live(d)]

\* Mutant: the breakpoints are left to the next setRange.
MutWatchLater(d, alone) == IF d.disabled THEN d ELSE [d EXCEPT !.stopped = FALSE]

\* alone: the caller runs alone, or says so.
watch(d, alone) ==
    LET on == [d EXCEPT !.stopped = FALSE]
    IN  IF d.disabled THEN d
        ELSE IF d.ranges = <<>> THEN on
        ELSE IF alone THEN setBreakRange(on) ELSE [on EXCEPT !.alone = TRUE]

-----------------------------------------------------------------------------
(* Ranges *)

Removed(r) == [start |-> None, length |-> 0, cycle |-> r.cycle]

Drop(d, i) == WithoutHap([d EXCEPT !.ranges[i] = Removed(@)], i)

\* Where a returning function has overwritten a range the hap is not found: the range's
\* index is looked up among the numbers of the haps.
DropOverwritten(d, i) ==
    [d EXCEPT !.ranges[i] = Removed(@), !.left = IF d.read_hap[i] # {} THEN @ \cup {i} ELSE @]

\* Mutant: the range grows at its end only.
MutResize(d, i, start, length) == [d EXCEPT !.ranges[i].length = length]

Resize(d, i, start, length) ==
    [d EXCEPT !.ranges[i] = [start |-> start, length |-> length, cycle |-> @.cycle]]

\* A range within the new one becomes the new one, but its hap stays.
Replace(d, i, start, length) ==
    [Resize(d, i, start, length) EXCEPT
        !.left = IF d.read_hap[i] # {} /\ Bytes(d.ranges[i]) # Buffer(start, length)
                 THEN @ \cup {i} ELSE @]

\* One pass of setRange's loop over the ranges: s has the DataWatch, whether a related range
\* was found, whether one was replaced, and whether the loop was left.
Relate(s, i, start, length) ==
    LET r == s.d.ranges[i]
        new == Buffer(start, length)
        end == start + length - 1
        Leave(d) == [d |-> d, overlap |-> TRUE, replaced |-> s.replaced, done |-> TRUE]
        GoOn(d) == [d |-> d, overlap |-> TRUE, replaced |-> TRUE, done |-> FALSE]
    IN  IF s.done \/ r.start = None THEN s
        ELSE IF new \subseteq Bytes(r) THEN Leave(s.d)
        ELSE IF Bytes(r) \subseteq new
             THEN GoOn(IF s.replaced THEN Drop(s.d, i) ELSE Replace(s.d, i, start, length))
        ELSE IF start = LastOf(r) + 1
             THEN Leave(resetIndexHap(Resize(s.d, i, r.start, r.length + length), i))
        ELSE IF end + 1 = r.start
             THEN Leave(resetIndexHap(Resize(s.d, i, start, r.length + length), i))
        ELSE IF start \in Bytes(r) /\ end > LastOf(r)
             THEN Leave(resetIndexHap(Resize(s.d, i, r.start, end - r.start), i))
        ELSE s

\* The loop after each of its passes.
RelateAll(d, start, length) ==
    LET pass[i \in 0 .. Len(d.ranges)] ==
            IF i = 0 THEN [d |-> d, overlap |-> FALSE, replaced |-> FALSE, done |-> FALSE]
            ELSE Relate(pass[i - 1], i, start, length)
    IN  pass

setRange(d, start, length, no_extend) ==
    LET s == RelateAll(d, start, length)[IF no_extend THEN 0 ELSE Len(d.ranges)]
        added == [s.d EXCEPT
            !.ranges = Append(@, [start |-> start, length |-> length, cycle |-> cycle])]
    IN  IF d.disabled THEN d ELSE setBreakRange(IF s.overlap THEN s.d ELSE added)

rmRange(d, addr) ==
    LET i == findRangeIndex(d, addr) IN IF i = None THEN d ELSE Drop(d, i)

\* The range gives way to what is before and after size bytes at addr.
SplitRange(d, i, addr, size) ==
    LET r == d.ranges[i]
        new_start == addr + size
        before == IF r.start < addr THEN setRange(Drop(d, i), r.start, addr - r.start, TRUE)
                  ELSE Drop(d, i)
        goes_on == /\ r.start < addr \/ (r.start = addr /\ size < r.length)
                   /\ new_start < LastOf(r)
    IN  watch(stopWatch(IF goes_on
                        THEN setRange(before, new_start, LastOf(r) - new_start + 1, TRUE)
                        ELSE before), FALSE)

\* A range that begins at addr is split when it is no shorter than size, and any other one that is
\* touched when the writes before this one have cleared it, if not at once.  None is when an ad-hoc
\* copy has just stored over it.
rmSubRange(d, addr, size) ==
    {d} \cup {SplitRange(d, i, addr, size) :
                 i \in {j \in findBufForRange(d, addr, size) :
                           d.ranges[j].start = addr => d.ranges[j].length >= size}}

\* The first n ranges are kept, but the list of haps is not cut.
KeepRanges(d, n) ==
    [d EXCEPT !.ranges = SubSeq(@, 1, IF n < Len(@) THEN n ELSE Len(@)),
              !.left = @ \cup {i \in DOMAIN d.read_hap : i > n /\ d.read_hap[i] # {}}]

clearWatches(d, upto) ==
    LET younger == {i \in DOMAIN d.ranges : d.ranges[i].cycle > upto - 1}
        n == IF younger = {} THEN Len(d.ranges) ELSE Min(younger)
    IN  KeepRanges(stopWatch(d), n)

\* The ranges are rebuilt from what the watch marks name.
Rebuilt(d, marks) ==
    LET e[i \in 0 .. Len(marks)] ==
            IF i = 0 THEN KeepRanges(d, 0)
            ELSE setRange(e[i - 1], marks[i].start, marks[i].length, FALSE)
    IN  e[Len(marks)]

resetOrigin(d) ==
    IF d.ranges # <<>> /\ cycle <= Last(d.ranges).cycle
    THEN {Rebuilt(d, marks) : marks \in Marks}
    ELSE {d}

-----------------------------------------------------------------------------
(* Accesses *)

\* The next state's DataWatch is one of these, within the bounds.
Becomes(S) == dw' \in {d \in S : Len(d.ranges) <= MaxRanges /\ Cardinality(d.left) <= MaxLeft}

\* The ranges that an access of b may be looked up as: the latest that has its first byte, or
\* else those whose haps it hits.
Accessed(b) ==
    LET hit == {i \in DOMAIN dw.ranges : Buffer(b.start, b.length) \cap dw.read_hap[i] # {}}
        latest == findRangeIndex(dw, b.start)
    IN  IF hit = {} \/ latest = None THEN hit ELSE {latest}

\* The accesses that hit the memory of a hap.
\* Of the kernel's, those count that touch a range or a buffer that the marks know, which may be any.
Hits == UNION {[range : Accessed(b), addr : {b.start}, size : {b.length}] : b \in Buffers}

\* The range is there and hooked, as readHap checks before it looks closer.
Watching(d, i) == d.ranges[i].start # None /\ d.read_hap[i] # {}

\* What a write may make of the ranges.  cheapReuse drops one that is shorter than the write,
\* and may take the write for one that clears or frees its memory; then the write may take all
\* of the range, be within a function that frees, or be an ordinary change.
Overwritten(d, i, addr, size) ==
    IF size = d.ranges[i].length THEN {d, Drop(d, i)} ELSE {d}

CheapReuse(d, addr, size) ==
    LET i == findRangeIndex(d, addr)
    IN  IF size > MaxScalar THEN {d, rmRange(d, addr)}
        ELSE {IF i # None /\ d.ranges[i].length < size THEN rmRange(d, addr) ELSE d}

Change(d, i, addr, size) ==
    LET r == d.ranges[i]
    IN  {Drop(d, i), rmRange(d, addr)}
        \cup (IF r.length > 1 THEN rmSubRange(d, r.start, r.length) ELSE {})
        \cup (IF size > 1 THEN rmSubRange(d, addr, size) ELSE {})

\* What the hit of a write may leave, before the kind of write is looked at.
Seen(h) == CheapReuse(dw, h.addr, h.size)

Taken(h) ==
    UNION {Overwritten(d, h.range, h.addr, h.size) \cup {rmRange(d, h.addr)} : d \in Seen(h)}

StillWatching(h) == {d \in Seen(h) : Watching(d, h.range)}

\* A write by the program.
Written(h) ==
    Taken(h) \cup UNION {Change(d, h.range, h.addr, h.size) : d \in StillWatching(h)}

UserWrite ==
    /\ Becomes(UNION {Written(h) : h \in Hits})
    /\ UNCHANGED <<tracking, cycle, origin>>

\* Queued with SIM_run_alone, it is taken to run before anything else touches a range.
kernelReturn(d) == [d EXCEPT !.callback = TRUE, !.kernel_return_hap = TRUE]

\* A write by the kernel: the call is looked at when it returns.
KernelWritten(h) ==
    LET changed == {kernelReturn(d) : d \in StillWatching(h)}
    IN  Taken(h) \cup (IF dw.retrack
                       THEN UNION {rmSubRange(d, h.addr, h.size) : d \in changed}
                       ELSE changed)

\* While that is pending the kernel's writes are ignored.
KernelWrite ==
    /\ ~dw.callback
    /\ Becomes(UNION {KernelWritten(h) : h \in Hits})
    /\ UNCHANGED <<tracking, cycle, origin>>

\* A read by the program within a function that frees the memory; others are only marked.
UserRead ==
    /\ Becomes({Drop(dw, h.range) : h \in {g \in Hits : g.size = 1 /\ Watching(dw, g.range)}})
    /\ UNCHANGED <<tracking, cycle, origin>>

\* The value that was read is stored elsewhere.
AdHocCopy ==
    /\ LET read == {h \in Hits : Watching(dw, h.range)}
           dests == UNION {{b \in Buffers : b.length = h.size /\ b.start # h.addr} : h \in read}
       IN  Becomes({setRange(dw, b.start, b.length, FALSE) : b \in dests})
    /\ UNCHANGED <<tracking, cycle, origin>>

\* A read by the kernel, which the code takes for a write while a return is pending.
KernelRead ==
    /\ Becomes(IF dw.callback THEN UNION {rmSubRange(dw, h.addr, h.size) : h \in Hits}
               ELSE {kernelReturn(dw) : h \in {g \in Hits : Watching(dw, g.range)}})
    /\ UNCHANGED <<tracking, cycle, origin>>

\* The user's limit of marks is reached, or one small range is hit over and over.
EnoughHits ==
    /\ \E i \in DOMAIN dw.ranges : dw.read_hap[i] # {}
    /\ Becomes({KeepRanges(stopWatch(dw), 0), stopWatch(dw)})
    /\ UNCHANGED <<tracking, cycle, origin>>

-----------------------------------------------------------------------------
(* Calls that run to their return *)

\* What was queued runs.
RunAlone ==
    /\ dw.alone
    /\ dw' = setBreakRange([dw EXCEPT !.alone = FALSE])
    /\ UNCHANGED <<tracking, cycle, origin>>

\* The kernel returns: the watch is renewed, unless no entry of the thread is found, when the
\* breakpoints stay for the next return.
kernelReturnHap ==
    /\ dw.kernel_return_hap
    /\ LET renewed == watch([dw EXCEPT !.callback = FALSE, !.kernel_return_hap = FALSE], FALSE)
       IN  dw' \in {renewed} \cup (IF Unrecorded THEN {[dw EXCEPT !.callback = FALSE]} ELSE {})
    /\ UNCHANGED <<tracking, cycle, origin>>

\* The range that dest is in is dropped when the function has covered it.
OverwriteReturn(d, fun, dest, length) ==
    LET i == findRangeIndex(d, dest)
        covered == d.ranges[i].start = dest /\ d.ranges[i].length <= length
    IN  IF i = None THEN {d}
        ELSE IF covered THEN {DropOverwritten(d, i)}
        ELSE IF fun = "overwrite" THEN rmSubRange(d, dest, length)
        ELSE {d}

\* A memory function, recognised from a hit or at its entry, has run to its return: it has
\* copied watched data to a buffer, copied other data over one, or set it.  Its own hits are
\* ignored, and whatever else happens meanwhile comes before it or, where it stops the watch,
\* makes the return count for nothing.
returnHap(fun) ==
    /\ ~dw.disabled /\ ~dw.stopped /\ Watched(dw) # {}
    /\ Becomes(UNION {
           IF fun = "copy" THEN {setRange(dw, b.start, b.length, FALSE)}
           ELSE OverwriteReturn(dw, fun, b.start, b.length) : b \in Buffers})
    /\ UNCHANGED <<tracking, cycle, origin>>

Renewed(d) == watch(stopWatch(d), TRUE)

Filled(start, length) == setRange(Renewed(dw), start, length, FALSE)

\* A read call that runToIO watches returns with data.  setRange may add nothing (within a library
\* that reads, or while it waits for a given beginning) and may watch another part than the call
\* filled (a given offset, a limit on what is read, the length asked for): start and length are
\* what it watches.  For recvmsg the watch is renewed after the range was set, too.
Received(start, length) ==
    LET d == Filled(start, length) IN {Renewed(dw), d, Renewed(d)}

Receive ==
    /\ tracking
    /\ Becomes(UNION {Received(b.start, b.length) : b \in Buffers})
    /\ UNCHANGED <<tracking, cycle, origin>>

\* The program maps memory at a watched address.
mmap(addr) ==
    LET i == findRangeIndex(dw, addr)
    IN  /\ ~dw.disabled /\ i # None
        /\ addr + dw.ranges[i].length - 1 <= MaxAddr
        /\ Becomes({setRange(rmRange(dw, addr), addr, dw.ranges[i].length, FALSE)})
        /\ UNCHANGED <<tracking, cycle, origin>>

-----------------------------------------------------------------------------
(* Commands *)

stopTracking(d) == [stopWatch(d) EXCEPT !.retrack = FALSE]

trackIO ==
    /\ Becomes({[watch(clearWatches(stopTracking(dw), cycle), FALSE) EXCEPT !.disabled = FALSE]})
    /\ tracking' = TRUE
    /\ UNCHANGED <<cycle, origin>>

stopTrackIO ==
    /\ tracking
    /\ dw' = stopTracking(dw)
    /\ tracking' = FALSE
    /\ UNCHANGED <<cycle, origin>>

\* The first range is kept at the origin; without one the command fails before it watches.
retrack ==
    LET first == KeepRanges(stopWatch(dw), 1)
        kept == IF cycle = origin THEN first ELSE clearWatches(dw, cycle - 1)
        fails == cycle = origin /\ Live(first) = {}
    IN  /\ Becomes({IF fails THEN first ELSE [watch(kept, FALSE) EXCEPT !.retrack = TRUE]})
        /\ UNCHANGED <<tracking, cycle, origin>>

\* Tracking ends before the user is taken to a mark.
goToDataMark(to) ==
    /\ to \in origin .. cycle
    /\ dw' = [stopTracking(dw) EXCEPT !.disabled = TRUE]
    /\ tracking' = FALSE
    /\ cycle' = to
    /\ UNCHANGED origin

\* modifyMemory: where there are ranges, the origin moves here.
writeBytes ==
    /\ dw.ranges # <<>>
    /\ Becomes(resetOrigin(dw))
    /\ origin' = cycle
    /\ UNCHANGED <<tracking, cycle>>

addDataWatch ==
    /\ Becomes({watch(setBreakRange(setRange(d, b.start, b.length, FALSE)), FALSE) :
                   d \in resetOrigin([dw EXCEPT !.disabled = FALSE]), b \in Buffers})
    /\ UNCHANGED <<tracking, cycle, origin>>

Tick ==
    /\ cycle < MaxCycle
    /\ cycle' = cycle + 1
    /\ UNCHANGED <<dw, tracking, origin>>

Next ==
    \/ UserWrite \/ KernelWrite \/ UserRead \/ KernelRead \/ EnoughHits
    \/ AdHocCopy \/ RunAlone \/ kernelReturnHap \/ Receive
    \/ \E fun \in {"copy", "overwrite", "memset"} : returnHap(fun)
    \/ \E addr \in Addr : mmap(addr)
    \/ \E to \in 0 .. MaxCycle : goToDataMark(to)
    \/ writeBytes \/ addDataWatch \/ trackIO \/ stopTrackIO \/ retrack \/ Tick

Spec == Init /\ [][Next]_vars

-----------------------------------------------------------------------------
(* Properties *)

\* Every value has its type; a range lies within the memory, and the parallel lists keep step.
TypeOK ==
    /\ dw \in DW /\ Len(dw.ranges) <= MaxRanges /\ Watched(dw) \subseteq Addr
    /\ Len(dw.read_hap) >= Len(dw.ranges)
    /\ dw.left \subseteq DOMAIN dw.read_hap /\ Cardinality(dw.left) <= MaxLeft
    /\ tracking \in BOOLEAN /\ cycle \in 0 .. MaxCycle /\ origin \in 0 .. cycle

\* A hap watches exactly its range, and a removed or forgotten range has none, whatever was
\* merged, split or taken back; the known exceptions are the haps left behind where setRange
\* replaces a range, a memory function covers one, or the list of ranges is cut under the haps.
HapsMatch ==
    \A i \in DOMAIN dw.read_hap \ dw.left :
        dw.read_hap[i] \in {{}, IF i \in Live(dw) THEN Bytes(dw.ranges[i]) ELSE {}}

\* While data is watched and the breakpoints are not about to be set, no range is without a hap:
\* every path that drops the haps (rmSubRange, a read call, a kernel return) brings them back.
RangesHooked ==
    ~dw.disabled /\ ~dw.stopped /\ ~dw.alone
        => \A i \in Live(dw) : dw.read_hap[i] # {}

\* The addresses at which the breakpoint of a range is hit.
HookedBytes(d) == UNION {d.read_hap[i] : i \in Live(d)}

\* What a read call fills has breakpoints from the next renewal on, but for its last byte at most
\* (an overlapping range grows by one too little), and so has all that was watched before
\* (setRange, checkCount).  Until then a range that replaces a smaller one has the smaller one's.
ReceivedIsWatched ==
    tracking => \A b \in Buffers :
        Watched(dw) \cup Buffer(b.start, b.length - 1)
            \subseteq HookedBytes(Renewed(Filled(b.start, b.length)))

\* A write through a hap takes away only ranges that it touches, or that overlap one it touches
\* (cheapReuse, rmSubRange and rmRange look ranges up by different rules).
UntouchedKept ==
    \A h \in Hits :
        LET touched == {j \in Live(dw) : Bytes(dw.ranges[j]) \cap Buffer(h.addr, h.size) # {}}
            near == UNION {Bytes(dw.ranges[j]) : j \in touched}
        IN  h.range \in touched => \A d \in Written(h), k \in Live(dw) :
                \/ k \in Live(d) /\ Bytes(d.ranges[k]) = Bytes(dw.ranges[k])
                \/ Bytes(dw.ranges[k]) \cap near # {}

\* "Set breakpoints for each range defined in self.start and self.length": what a read call fills,
\* but for its last byte, has breakpoints at once.  But a range that replaces a smaller one keeps
\* its breakpoint (setRange, setBreakRange), and misses the rest of the data.
ReceivedIsHooked ==
    [][\A b \in Buffers : tracking /\ dw' = Filled(b.start, b.length)
                             => Buffer(b.start, b.length - 1) \subseteq HookedBytes(dw')]_vars

\* The manual's way to try other input: go to a data mark, change the input buffer, retrack; "This
\* will track accesses to the input buffer".  But goToDataMark disables the data watch, and
\* retrack does not enable it.
RetrackWatches == [][retrack /\ Live(dw) # {} => ~dw'.stopped]_vars
=============================================================================
