--------------------------- MODULE DataWatchProofs ---------------------------
(***************************************************************************)
(* What DataWatch keeps in every run, for every size of the memory, list   *)
(* of marks and bound: its types, that the list of haps follows the list   *)
(* of ranges, that no range goes unhooked, that what is received has       *)
(* breakpoints when the watch is next renewed, and that a write takes away *)
(* only what it is near.                                                   *)
(***************************************************************************)
EXTENDS DataWatch, SequenceTheorems, FiniteSetTheorems, WellFoundedInduction, TLAPS

-----------------------------------------------------------------------------
(* The invariant.                                                          *)

\* A hap that was not left behind watches its range, or nothing.
Matched(d) ==
    \A i \in DOMAIN d.read_hap \ d.left :
        d.read_hap[i] \in {{}, IF i \in Live(d) THEN Bytes(d.ranges[i]) ELSE {}}

Shaped(d) ==
    /\ d \in DW
    /\ \A i \in Live(d) : Bytes(d.ranges[i]) \subseteq Addr
    /\ d.left \subseteq DOMAIN d.read_hap
    /\ Matched(d)

Parallel(d) == Len(d.read_hap) >= Len(d.ranges)

\* Whether or not the data watch is disabled: it may be enabled without more ado.
Hooked(d) == ~d.stopped /\ ~d.alone => \A i \in Live(d) : d.read_hap[i] # {}

Fine(d) == Shaped(d) /\ Parallel(d) /\ Hooked(d)

IInv ==
    /\ TypeOK
    /\ Fine(dw)
    /\ tracking => ~dw.disabled

SameFlags(d, e) ==
    /\ e.disabled = d.disabled /\ e.stopped = d.stopped /\ e.retrack = d.retrack
    /\ e.callback = d.callback /\ e.alone = d.alone

-----------------------------------------------------------------------------
(* Numbers and recursive functions.                                        *)

\* A set of numbers that is not empty has a least one.
LEMMA LeastNumber ==
  ASSUME NEW T \in SUBSET Nat, T # {}
  PROVE  \E m \in T : \A n \in T : m <= n
<1>1. PICK m \in T : \A n \in T : ~(<<n, m>> \in OpToRel(<, Nat))
  BY WFMin, NatLessThanWellFounded
<1>2. \A n \in T : ~(n < m)
  BY <1>1 DEF OpToRel
<1> QED
  BY <1>2

\* The latest of a set of indexes is one of them.
LEMMA LatestOfIndexes ==
  ASSUME NEW n \in Nat, NEW S \in SUBSET (1 .. n)
  PROVE  /\ S = {} => Latest(S) = None
         /\ S # {} => Latest(S) \in S /\ \A j \in S : j <= Latest(S)
<1>1. ASSUME S # {} PROVE \E i \in S : \A j \in S : j <= i
  <2> DEFINE T == {n - i : i \in S}
  <2>1. T \in SUBSET Nat /\ T # {}
    <3>1. \A i \in S : n - i \in Nat
      OBVIOUS
    <3> QED
      BY <1>1, <3>1
  <2>2. PICK m \in T : \A k \in T : m <= k
    BY <2>1, LeastNumber
  <2>3. PICK i \in S : m = n - i
    OBVIOUS
  <2>4. \A j \in S : n - i <= n - j
    BY <2>2, <2>3
  <2> QED
    BY <2>4
<1> QED
  BY <1>1 DEF Latest

\* The loop over the ranges is a function that is defined pass by pass.
LEMMA RelateAllDefined ==
  ASSUME NEW d, NEW start, NEW length, Len(d.ranges) \in Nat
  PROVE  LET p == RelateAll(d, start, length)
         IN  /\ p[0] = [d |-> d, overlap |-> FALSE, replaced |-> FALSE, done |-> FALSE]
             /\ \A i \in 1 .. Len(d.ranges) : p[i] = Relate(p[i - 1], i, start, length)
<1> DEFINE n == Len(d.ranges)
           none == [d |-> d, overlap |-> FALSE, replaced |-> FALSE, done |-> FALSE]
           Passes(p, m) == p = [i \in 0 .. m |-> IF i = 0 THEN none
                                                 ELSE Relate(p[i - 1], i, start, length)]
           T == {m \in Nat : ~ \E p : Passes(p, m)}
<1>0. Len(d.ranges) = n /\ n \in Nat
  OBVIOUS
<1> HIDE DEF none, n
<1>1. T = {}
  <2>1. SUFFICES ASSUME T # {} PROVE FALSE
    OBVIOUS
  <2>2. PICK m \in T : \A k \in T : m <= k
    <3>1. T \in SUBSET Nat
      OBVIOUS
    <3> HIDE DEF T
    <3> QED
      BY <2>1, <3>1, LeastNumber
  <2>3. m # 0
    <3>1. Passes([i \in 0 .. 0 |-> none], 0)
      OBVIOUS
    <3> QED
      BY <3>1
  <2>4. PICK p : Passes(p, m - 1)
    <3>1. m - 1 \in Nat /\ m - 1 \notin T
      BY <2>2, <2>3
    <3> QED
      BY <3>1
  <2>5. Passes([i \in 0 .. m |-> IF i < m THEN p[i] ELSE Relate(p[m - 1], m, start, length)], m)
    BY <2>3, <2>4
  <2> QED
    BY <2>5
<1>2. PICK p : Passes(p, n)
  BY <1>0, <1>1
<1>3. Passes(RelateAll(d, start, length), n)
  <2>1. Passes(CHOOSE q : Passes(q, n), n)
    BY <1>2
  <2> QED
    BY <2>1 DEF RelateAll, none, n
<1>4. /\ RelateAll(d, start, length)[0] = none
      /\ \A i \in 1 .. n : RelateAll(d, start, length)[i]
                            = Relate(RelateAll(d, start, length)[i - 1], i, start, length)
  BY <1>0, <1>3
<1> QED
  BY <1>0, <1>4 DEF none

-----------------------------------------------------------------------------
(* Ranges and haps, one at a time.                                         *)

LEMMA RangeFacts ==
  ASSUME NEW r \in WatchRange
  PROVE  /\ r.cycle \in 0 .. MaxCycle
         /\ r.start # None => r.start \in Addr /\ r.length \in Addr
         /\ r.start = None => r.length = 0
BY WatchAssumption DEF WatchRange, Addr

LEMMA RangeIn ==
  ASSUME NEW d \in DW, NEW i \in DOMAIN d.ranges
  PROVE  /\ d.ranges[i] \in WatchRange
         /\ i \in Nat \ {0}
         /\ i \in Live(d) <=> d.ranges[i].start # None
BY DEF DW, Live

\* What a record of DW has, and what it is made of.
LEMMA DWFacts ==
  ASSUME NEW d \in DW
  PROVE  /\ d.ranges \in Seq(WatchRange) /\ Len(d.ranges) \in Nat
         /\ DOMAIN d.ranges = 1 .. Len(d.ranges)
         /\ d.read_hap \in Seq(SUBSET Addr) /\ Len(d.read_hap) \in Nat
         /\ DOMAIN d.read_hap = 1 .. Len(d.read_hap)
         /\ d.disabled \in BOOLEAN /\ d.stopped \in BOOLEAN /\ d.retrack \in BOOLEAN
         /\ d.callback \in BOOLEAN /\ d.alone \in BOOLEAN
         /\ d.left \in SUBSET Nat
         /\ Live(d) \subseteq 1 .. Len(d.ranges)
BY DEF DW, Live

\* A range is made another one.
LEMMA PutRange ==
  ASSUME NEW d \in DW, NEW i \in DOMAIN d.ranges, NEW r \in WatchRange,
         NEW e, e = [d EXCEPT !.ranges[i] = r]
  PROVE  /\ e \in DW /\ SameFlags(d, e)
         /\ e.read_hap = d.read_hap /\ e.left = d.left
         /\ Len(e.ranges) = Len(d.ranges) /\ e.ranges[i] = r
         /\ \A j \in DOMAIN d.ranges \ {i} : e.ranges[j] = d.ranges[j]
<1>1. /\ [d.ranges EXCEPT ![i] = r] \in Seq(WatchRange)
      /\ Len([d.ranges EXCEPT ![i] = r]) = Len(d.ranges)
      /\ [d.ranges EXCEPT ![i] = r][i] = r
      /\ \A j \in DOMAIN d.ranges \ {i} : [d.ranges EXCEPT ![i] = r][j] = d.ranges[j]
  BY DWFacts, ExceptSeq
<1>2. e = [d EXCEPT !.ranges = [d.ranges EXCEPT ![i] = r]]
  BY DEF DW
<1> QED
  BY <1>1, <1>2 DEF DW, SameFlags

\* A hap is made another one.
LEMMA PutHap ==
  ASSUME NEW d \in DW, NEW i \in DOMAIN d.read_hap, NEW h \in SUBSET Addr,
         NEW e, e = [d EXCEPT !.read_hap[i] = h]
  PROVE  /\ e \in DW /\ SameFlags(d, e)
         /\ e.ranges = d.ranges /\ e.left = d.left
         /\ Len(e.read_hap) = Len(d.read_hap) /\ e.read_hap[i] = h
         /\ \A j \in DOMAIN d.read_hap \ {i} : e.read_hap[j] = d.read_hap[j]
<1>1. /\ [d.read_hap EXCEPT ![i] = h] \in Seq(SUBSET Addr)
      /\ Len([d.read_hap EXCEPT ![i] = h]) = Len(d.read_hap)
      /\ [d.read_hap EXCEPT ![i] = h][i] = h
      /\ \A j \in DOMAIN d.read_hap \ {i} : [d.read_hap EXCEPT ![i] = h][j] = d.read_hap[j]
  BY DWFacts, ExceptSeq
<1>2. e = [d EXCEPT !.read_hap = [d.read_hap EXCEPT ![i] = h]]
  BY DEF DW
<1> QED
  BY <1>1, <1>2 DEF DW, SameFlags

\* A hap is made another one, and is not left behind or no longer.
WithHap(d, i, h) == [d EXCEPT !.read_hap[i] = h, !.left = @ \ {i}]

LEMMA PutHapRight ==
  ASSUME NEW d \in DW, NEW i \in DOMAIN d.read_hap, NEW h \in SUBSET Addr,
         NEW e, e = WithHap(d, i, h)
  PROVE  /\ e \in DW /\ SameFlags(d, e)
         /\ e.ranges = d.ranges /\ e.left = d.left \ {i}
         /\ Len(e.read_hap) = Len(d.read_hap) /\ e.read_hap[i] = h
         /\ \A j \in DOMAIN d.read_hap \ {i} : e.read_hap[j] = d.read_hap[j]
<1> DEFINE c == [d EXCEPT !.read_hap[i] = h]
<1>1. /\ c \in DW /\ SameFlags(d, c) /\ c.ranges = d.ranges /\ c.left = d.left
      /\ Len(c.read_hap) = Len(d.read_hap) /\ c.read_hap[i] = h
      /\ \A j \in DOMAIN d.read_hap \ {i} : c.read_hap[j] = d.read_hap[j]
  BY PutHap
<1>2. e = [c EXCEPT !.left = d.left \ {i}]
  BY DEF DW, WithHap
<1>3. d.left \ {i} \in SUBSET Nat
  BY DWFacts
<1> HIDE DEF c
<1>4. /\ e \in DW /\ SameFlags(c, e) /\ e.ranges = c.ranges /\ e.read_hap = c.read_hap
      /\ e.left = d.left \ {i}
  BY <1>1, <1>2, <1>3 DEF DW, SameFlags
<1> QED
  BY <1>1, <1>4 DEF SameFlags

\* One range and its hap have changed, and the hap is right or left behind.
LEMMA OneChanged ==
  ASSUME NEW d, Shaped(d), NEW e \in DW, NEW i \in DOMAIN d.ranges \cap DOMAIN d.read_hap,
         Len(e.ranges) = Len(d.ranges), Len(e.read_hap) = Len(d.read_hap),
         \A j \in DOMAIN d.ranges \ {i} : e.ranges[j] = d.ranges[j],
         \A j \in DOMAIN d.read_hap \ {i} : e.read_hap[j] = d.read_hap[j],
         e.left \subseteq DOMAIN d.read_hap, d.left \ {i} \subseteq e.left,
         e.ranges[i].start # None => Bytes(e.ranges[i]) \subseteq Addr,
         i \notin e.left =>
            \/ e.read_hap[i] = {}
            \/ e.ranges[i].start # None /\ e.read_hap[i] = Bytes(e.ranges[i])
  PROVE  Shaped(e)
<1>1. d \in DW
  BY DEF Shaped
<1>2. DOMAIN e.ranges = DOMAIN d.ranges /\ DOMAIN e.read_hap = DOMAIN d.read_hap
  BY <1>1, DWFacts
<1>3. \A j \in DOMAIN d.ranges \ {i} : j \in Live(e) <=> j \in Live(d)
  BY <1>2 DEF Live
<1>4. i \in Live(e) <=> e.ranges[i].start # None
  BY <1>2 DEF Live
<1>5. \A j \in Live(e) : Bytes(e.ranges[j]) \subseteq Addr
  BY <1>2, <1>3, <1>4 DEF Live, Shaped
<1>6. Matched(e)
  <2> SUFFICES ASSUME NEW j \in DOMAIN e.read_hap \ e.left
               PROVE  e.read_hap[j] \in {{}, IF j \in Live(e) THEN Bytes(e.ranges[j]) ELSE {}}
    BY DEF Matched
  <2>1. CASE j = i
    BY <1>4, <2>1
  <2>2. CASE j # i
    <3>1. j \in DOMAIN d.read_hap \ d.left /\ e.read_hap[j] = d.read_hap[j]
      BY <1>2, <2>2
    <3>2. j \in Live(e) <=> j \in Live(d)
      BY <1>2, <1>3, <2>2 DEF Live
    <3>3. j \in Live(d) => e.ranges[j] = d.ranges[j]
      BY <2>2 DEF Live
    <3> QED
      BY <3>1, <3>2, <3>3 DEF Shaped, Matched
  <2> QED
    BY <2>1, <2>2
<1> QED
  BY <1>2, <1>5, <1>6 DEF Shaped

\* e has d's ranges but for the one at i.
OneRange(d, e, i) ==
    /\ SameFlags(d, e)
    /\ Len(e.ranges) = Len(d.ranges) /\ Len(e.read_hap) = Len(d.read_hap)
    /\ \A j \in DOMAIN d.ranges \ {i} : e.ranges[j] = d.ranges[j]
    /\ \A j \in DOMAIN d.read_hap \ {i} : e.read_hap[j] = d.read_hap[j]

LEMMA RemovedType ==
  ASSUME NEW r \in WatchRange
  PROVE  Removed(r) \in WatchRange /\ Removed(r).start = None
<1>1. r.cycle \in 0 .. MaxCycle
  BY RangeFacts
<1>2. [start |-> None, length |-> 0, cycle |-> r.cycle] \in WatchRange
  BY <1>1 DEF WatchRange
<1> QED
  BY <1>2 DEF Removed

\* A range is removed with its hap.
LEMMA DropFacts ==
  ASSUME NEW d, Shaped(d), Parallel(d), NEW i \in DOMAIN d.ranges, NEW e, e = Drop(d, i)
  PROVE  /\ Shaped(e) /\ Parallel(e) /\ OneRange(d, e, i)
         /\ e.ranges[i].start = None
         /\ e.left \subseteq d.left
         /\ Hooked(d) => Hooked(e)
<1> DEFINE r == Removed(d.ranges[i])
           c == [d EXCEPT !.ranges[i] = r]
<1>1. d \in DW /\ i \in DOMAIN d.read_hap
  BY DWFacts DEF Shaped, Parallel
<1>2. r \in WatchRange /\ r.start = None
  BY <1>1, RangeIn, RemovedType
<1>3. c = [d EXCEPT !.ranges[i] = Removed(@)]
  BY <1>1, DWFacts DEF DW
<1> HIDE DEF r
<1>4. /\ c \in DW /\ SameFlags(d, c) /\ c.read_hap = d.read_hap /\ c.left = d.left
      /\ Len(c.ranges) = Len(d.ranges) /\ c.ranges[i] = r
      /\ \A j \in DOMAIN d.ranges \ {i} : c.ranges[j] = d.ranges[j]
  BY <1>1, <1>2, PutRange
<1>5. e = WithoutHap(c, i)
  BY <1>3 DEF Drop
<1>6. i \in DOMAIN c.read_hap /\ {} \in SUBSET Addr
  BY <1>1, <1>4
<1> HIDE DEF c
<1>7. /\ e \in DW /\ SameFlags(c, e) /\ e.ranges = c.ranges /\ e.left = c.left \ {i}
      /\ Len(e.read_hap) = Len(c.read_hap) /\ e.read_hap[i] = {}
      /\ \A j \in DOMAIN c.read_hap \ {i} : e.read_hap[j] = c.read_hap[j]
  <2>1. e = WithHap(c, i, {})
    BY <1>5 DEF WithoutHap, WithHap
  <2> QED
    BY <1>4, <1>6, <2>1, PutHapRight
<1>8. OneRange(d, e, i) /\ e.ranges[i].start = None /\ e.left \subseteq d.left
  BY <1>2, <1>4, <1>7 DEF OneRange, SameFlags
<1>9. Shaped(e)
  <2>1. e.left \subseteq DOMAIN d.read_hap /\ d.left \ {i} \subseteq e.left
    BY <1>4, <1>7 DEF Shaped
  <2> QED
    BY <1>1, <1>7, <1>8, <2>1, OneChanged DEF OneRange
<1>10. Parallel(e)
  BY <1>8 DEF Parallel, OneRange
<1>11. ASSUME Hooked(d) PROVE Hooked(e)
  <2>1. \A j \in Live(e) : j \in Live(d) /\ j # i
    BY <1>1, <1>7, <1>8, DWFacts DEF OneRange, Live
  <2>2. \A j \in Live(e) : e.read_hap[j] = d.read_hap[j]
    BY <1>1, <1>8, <2>1, DWFacts DEF OneRange, Parallel
  <2> QED
    BY <1>8, <1>11, <2>1, <2>2 DEF Hooked, OneRange, SameFlags
<1> QED
  BY <1>8, <1>9, <1>10, <1>11

\* A range that a returning function has covered is removed, its hap is not.
LEMMA DropOverwrittenFacts ==
  ASSUME NEW d, Shaped(d), Parallel(d), Hooked(d), NEW i \in DOMAIN d.ranges,
         NEW e, e = DropOverwritten(d, i)
  PROVE  Fine(e) /\ SameFlags(d, e)
<1> DEFINE r == Removed(d.ranges[i])
           c == [d EXCEPT !.ranges[i] = r]
           L == IF d.read_hap[i] # {} THEN d.left \cup {i} ELSE d.left
<1>1. d \in DW /\ i \in DOMAIN d.read_hap /\ i \in Nat
  BY DWFacts DEF Shaped, Parallel
<1>2. r \in WatchRange /\ r.start = None
  BY <1>1, RangeIn, RemovedType
<1> HIDE DEF r
<1>3. /\ c \in DW /\ SameFlags(d, c) /\ c.read_hap = d.read_hap /\ c.left = d.left
      /\ Len(c.ranges) = Len(d.ranges) /\ c.ranges[i] = r
      /\ \A j \in DOMAIN d.ranges \ {i} : c.ranges[j] = d.ranges[j]
  BY <1>1, <1>2, PutRange
<1>4. e = [c EXCEPT !.left = L]
  BY <1>1, DWFacts DEF DropOverwritten, DW, r
<1>5. L \in SUBSET Nat /\ d.left \ {i} \subseteq L /\ L \subseteq DOMAIN d.read_hap
  BY <1>1, DWFacts DEF Shaped
<1>6. i \notin L => d.read_hap[i] = {}
  OBVIOUS
<1> HIDE DEF c, L
<1>7. /\ e \in DW /\ SameFlags(d, e) /\ e.ranges = c.ranges /\ e.left = L
      /\ e.read_hap = d.read_hap
  BY <1>3, <1>4, <1>5 DEF DW, SameFlags
<1>8. Shaped(e)
  BY <1>1, <1>2, <1>3, <1>5, <1>6, <1>7, OneChanged
<1>9. Parallel(e)
  BY <1>3, <1>7 DEF Parallel
<1>10. Hooked(e)
  <2>1. \A j \in Live(e) : j \in Live(d)
    BY <1>1, <1>2, <1>3, <1>7, DWFacts DEF Live
  <2> QED
    BY <1>7, <2>1 DEF Hooked, SameFlags
<1> QED
  BY <1>7, <1>8, <1>9, <1>10 DEF Fine

\* Breakpoints are set for every range that has none.
LEMMA SetBreakFacts ==
  ASSUME NEW d, Shaped(d), NEW e, e = setBreakRange(d)
  PROVE  /\ Fine(e) /\ SameFlags(d, e) /\ e.ranges = d.ranges /\ e.left = d.left
         /\ \A i \in Live(e) : e.read_hap[i] # {}
<1> DEFINE last == IF Len(d.ranges) > Len(d.read_hap) THEN Len(d.ranges) ELSE Len(d.read_hap)
           HapOf(i) == IF i \in DOMAIN d.read_hap THEN d.read_hap[i] ELSE {}
           h(i) == IF HapOf(i) = {} /\ i \in Live(d) THEN Bytes(d.ranges[i]) ELSE HapOf(i)
           H == [i \in 1 .. last |-> h(i)]
<1>1. /\ d \in DW /\ last \in Nat /\ DOMAIN d.read_hap \subseteq 1 .. last
      /\ Live(d) \subseteq 1 .. last
  BY DWFacts DEF Shaped
<1>2. \A i \in 1 .. last : h(i) \in SUBSET Addr
  <2>1. \A i \in DOMAIN d.read_hap : d.read_hap[i] \in SUBSET Addr
    BY <1>1, DWFacts
  <2> QED
    BY <2>1 DEF Shaped
<1>3. H \in Seq(SUBSET Addr) /\ Len(H) = last /\ DOMAIN H = 1 .. last
  <2>1. H \in [1 .. last -> SUBSET Addr]
    BY <1>2
  <2> HIDE DEF H
  <2> QED
    BY <1>1, <2>1
<1>4. e = [d EXCEPT !.read_hap = H]
  BY DEF setBreakRange
<1>5. \A i \in 1 .. last : H[i] = h(i)
  OBVIOUS
<1>6. last >= Len(d.ranges)
  BY <1>1, DWFacts
<1> HIDE DEF H, last
<1>7. /\ e \in DW /\ SameFlags(d, e) /\ e.ranges = d.ranges /\ e.left = d.left
      /\ e.read_hap = H
  BY <1>1, <1>3, <1>4 DEF DW, SameFlags
<1>8. Live(e) = Live(d)
  BY <1>7 DEF Live
<1>9. \A i \in Live(d) : Bytes(d.ranges[i]) # {}
  <2> SUFFICES ASSUME NEW i \in Live(d) PROVE Bytes(d.ranges[i]) # {}
    OBVIOUS
  <2>1. d.ranges[i] \in WatchRange /\ d.ranges[i].start # None
    BY <1>1, RangeIn DEF Live
  <2>2. d.ranges[i].start \in Addr /\ d.ranges[i].length \in Addr
    BY <2>1, RangeFacts
  <2>3. d.ranges[i].start \in Buffer(d.ranges[i].start, d.ranges[i].length)
    BY <2>2, WatchAssumption DEF Buffer, Addr
  <2> QED
    BY <2>1, <2>3 DEF Bytes
<1>10. \A i \in Live(e) : e.read_hap[i] # {}
  BY <1>1, <1>5, <1>7, <1>8, <1>9
<1>11. Matched(e)
  <2> SUFFICES ASSUME NEW i \in DOMAIN e.read_hap \ e.left
               PROVE  e.read_hap[i] \in {{}, IF i \in Live(e) THEN Bytes(e.ranges[i]) ELSE {}}
    BY DEF Matched
  <2>1. i \in 1 .. last /\ e.read_hap[i] = h(i)
    BY <1>3, <1>5, <1>7
  <2>2. CASE HapOf(i) = {} /\ i \in Live(d)
    BY <1>7, <1>8, <2>1, <2>2
  <2>3. CASE i \in DOMAIN d.read_hap /\ ~(HapOf(i) = {} /\ i \in Live(d))
    BY <1>7, <1>8, <2>1, <2>3 DEF Shaped, Matched
  <2>4. CASE i \notin DOMAIN d.read_hap /\ i \notin Live(d)
    BY <2>1, <2>4
  <2> QED
    BY <2>2, <2>3, <2>4
<1>12. Shaped(e)
  BY <1>1, <1>3, <1>7, <1>8, <1>11 DEF Shaped
<1> QED
  BY <1>3, <1>6, <1>7, <1>10, <1>12 DEF Fine, Parallel, Hooked

-----------------------------------------------------------------------------
(* A range is resized, with its hap or without.                            *)

\* A buffer within the memory makes a range.
LEMMA ResizedType ==
  ASSUME NEW c \in 0 .. MaxCycle, NEW start \in Addr, NEW length \in Addr,
         NEW r, r = [start |-> start, length |-> length, cycle |-> c]
  PROVE  /\ r \in WatchRange /\ r.start = start /\ r.length = length
         /\ r.start # None /\ Bytes(r) = Buffer(start, length) /\ LastOf(r) = start + length - 1
<1>1. start # None
  BY WatchAssumption DEF Addr
<1> QED
  BY <1>1 DEF WatchRange, Bytes, LastOf

LEMMA ResizeFacts ==
  ASSUME NEW d \in DW, NEW i \in DOMAIN d.ranges, NEW start \in Addr, NEW length \in Addr,
         NEW e, e = Resize(d, i, start, length)
  PROVE  /\ e \in DW /\ SameFlags(d, e)
         /\ e.read_hap = d.read_hap /\ e.left = d.left
         /\ Len(e.ranges) = Len(d.ranges)
         /\ e.ranges[i].start # None /\ Bytes(e.ranges[i]) = Buffer(start, length)
         /\ \A j \in DOMAIN d.ranges \ {i} : e.ranges[j] = d.ranges[j]
<1> DEFINE r == [start |-> start, length |-> length, cycle |-> d.ranges[i].cycle]
<1>1. d.ranges[i].cycle \in 0 .. MaxCycle
  BY RangeIn, RangeFacts
<1>2. r \in WatchRange /\ r.start # None /\ Bytes(r) = Buffer(start, length)
  BY <1>1, ResizedType
<1>3. e = [d EXCEPT !.ranges[i] = r]
  BY DEF Resize
<1> HIDE DEF r
<1> QED
  BY <1>2, <1>3, PutRange

\* A range becomes the new one that it is within; its hap stays, and is left behind.
LEMMA ReplaceFacts ==
  ASSUME NEW d, Shaped(d), Parallel(d), NEW i \in DOMAIN d.ranges,
         NEW start \in Addr, NEW length \in Addr, Buffer(start, length) \subseteq Addr,
         Bytes(d.ranges[i]) # Buffer(start, length),
         NEW e, e = Replace(d, i, start, length)
  PROVE  /\ Shaped(e) /\ Parallel(e) /\ OneRange(d, e, i)
         /\ e.ranges[i].start # None /\ Bytes(e.ranges[i]) = Buffer(start, length)
<1> DEFINE c == Resize(d, i, start, length)
           L == IF d.read_hap[i] # {} THEN d.left \cup {i} ELSE d.left
<1>1. d \in DW /\ i \in DOMAIN d.read_hap /\ i \in Nat
  BY DWFacts DEF Shaped, Parallel
<1>2. /\ c \in DW /\ SameFlags(d, c) /\ c.read_hap = d.read_hap /\ c.left = d.left
      /\ Len(c.ranges) = Len(d.ranges)
      /\ c.ranges[i].start # None /\ Bytes(c.ranges[i]) = Buffer(start, length)
      /\ \A j \in DOMAIN d.ranges \ {i} : c.ranges[j] = d.ranges[j]
  BY <1>1, ResizeFacts
<1> HIDE DEF c
<1>3. e = [c EXCEPT !.left = L]
  BY <1>2 DEF Replace, c
<1>4. L \in SUBSET Nat /\ d.left \ {i} \subseteq L /\ L \subseteq DOMAIN d.read_hap
  BY <1>1, DWFacts DEF Shaped
<1>5. i \notin L => d.read_hap[i] = {}
  OBVIOUS
<1> HIDE DEF L
<1>6. /\ e \in DW /\ SameFlags(d, e) /\ e.ranges = c.ranges /\ e.left = L
      /\ e.read_hap = d.read_hap
  BY <1>2, <1>3, <1>4 DEF DW, SameFlags
<1>7. Shaped(e)
  <2>1. /\ Len(e.ranges) = Len(d.ranges) /\ Len(e.read_hap) = Len(d.read_hap)
        /\ \A j \in DOMAIN d.ranges \ {i} : e.ranges[j] = d.ranges[j]
        /\ \A j \in DOMAIN d.read_hap \ {i} : e.read_hap[j] = d.read_hap[j]
        /\ e.left \subseteq DOMAIN d.read_hap /\ d.left \ {i} \subseteq e.left
        /\ Bytes(e.ranges[i]) \subseteq Addr
        /\ i \notin e.left => e.read_hap[i] = {}
    BY <1>2, <1>4, <1>5, <1>6
  <2> QED
    BY <1>1, <1>6, <2>1, OneChanged
<1> QED
  BY <1>2, <1>6, <1>7 DEF OneRange, Parallel

\* A range grows and its hap is set anew.
LEMMA GrownFacts ==
  ASSUME NEW d, Shaped(d), Parallel(d), NEW i \in DOMAIN d.ranges,
         NEW start \in Addr, NEW length \in Addr, Buffer(start, length) \subseteq Addr,
         NEW e, e = resetIndexHap(Resize(d, i, start, length), i)
  PROVE  /\ Shaped(e) /\ Parallel(e) /\ OneRange(d, e, i)
         /\ e.ranges[i].start # None /\ Bytes(e.ranges[i]) = Buffer(start, length)
<1> DEFINE c == Resize(d, i, start, length)
<1>1. d \in DW /\ i \in DOMAIN d.read_hap
  BY DWFacts DEF Shaped, Parallel
<1>2. /\ c \in DW /\ SameFlags(d, c) /\ c.read_hap = d.read_hap /\ c.left = d.left
      /\ Len(c.ranges) = Len(d.ranges)
      /\ c.ranges[i].start # None /\ Bytes(c.ranges[i]) = Buffer(start, length)
      /\ \A j \in DOMAIN d.ranges \ {i} : c.ranges[j] = d.ranges[j]
  BY <1>1, ResizeFacts
<1>3. e = WithHap(c, i, Bytes(c.ranges[i]))
  BY DEF resetIndexHap, WithHap
<1> HIDE DEF c
<1>4. /\ e \in DW /\ SameFlags(c, e) /\ e.ranges = c.ranges /\ e.left = c.left \ {i}
      /\ Len(e.read_hap) = Len(c.read_hap) /\ e.read_hap[i] = Bytes(c.ranges[i])
      /\ \A j \in DOMAIN c.read_hap \ {i} : e.read_hap[j] = c.read_hap[j]
  BY <1>1, <1>2, <1>3, PutHapRight
<1>5. e.left \subseteq DOMAIN d.read_hap /\ d.left \ {i} \subseteq e.left
  BY <1>2, <1>4 DEF Shaped
<1>6. Shaped(e)
  BY <1>1, <1>2, <1>4, <1>5, OneChanged
<1> QED
  BY <1>2, <1>4, <1>6 DEF OneRange, Parallel, SameFlags

-----------------------------------------------------------------------------
(* setRange.                                                               *)

LEMMA WatchedBytes ==
  ASSUME NEW d, NEW i \in Live(d)
  PROVE  Bytes(d.ranges[i]) \subseteq Watched(d)
BY DEF Watched

\* A range has become one that covers it, or is covered by another one.
LEMMA WatchedKept ==
  ASSUME NEW d \in DW, NEW e \in DW, NEW i \in DOMAIN d.ranges, OneRange(d, e, i),
         Bytes(d.ranges[i]) \subseteq Watched(e)
  PROVE  Watched(d) \subseteq Watched(e)
<1> SUFFICES ASSUME NEW j \in Live(d) PROVE Bytes(d.ranges[j]) \subseteq Watched(e)
  BY DEF Watched
<1>1. CASE j = i
  BY <1>1
<1>2. CASE j # i
  <2>1. j \in Live(e) /\ e.ranges[j] = d.ranges[j]
    BY <1>2, DWFacts DEF Live, OneRange
  <2> QED
    BY <2>1, WatchedBytes
<1> QED
  BY <1>1, <1>2

\* After i passes of the loop: nothing is lost, and what was found related or replaced
\* covers the new range, but for its last byte at most.
Passed(d, s, i, start, length) ==
    /\ {s.overlap, s.replaced, s.done} \subseteq BOOLEAN
    /\ Shaped(s.d) /\ Parallel(s.d) /\ SameFlags(d, s.d) /\ Len(s.d.ranges) = Len(d.ranges)
    /\ Watched(d) \subseteq Watched(s.d)
    /\ s.replaced => \E j \in Live(s.d) : j <= i /\ Bytes(s.d.ranges[j]) = Buffer(start, length)
    /\ s.overlap => Buffer(start, length - 1) \subseteq Watched(s.d)

\* A range that a pass has left as it was, or made larger, leaves all conditions as they were.
LEMMA GrownPasses ==
  ASSUME NEW d, NEW s, NEW i \in DOMAIN s.d.ranges, NEW start \in Int, NEW length \in Int,
         Passed(d, s, i - 1, start, length),
         NEW e, Shaped(e), Parallel(e), OneRange(s.d, e, i),
         e.ranges[i].start # None, Bytes(s.d.ranges[i]) \subseteq Bytes(e.ranges[i]),
         Buffer(start, length - 1) \subseteq Bytes(e.ranges[i]),
         NEW t, t.d = e, t.overlap = TRUE, t.done \in BOOLEAN, t.replaced \in BOOLEAN,
         t.replaced => s.replaced \/ Bytes(e.ranges[i]) = Buffer(start, length)
  PROVE  Passed(d, t, i, start, length)
<1>1. /\ s.d \in DW /\ e \in DW /\ Len(e.ranges) = Len(s.d.ranges) /\ i \in Live(e) /\ i \in Nat
  BY DWFacts DEF Passed, Shaped, OneRange, Live
<1>2. Bytes(e.ranges[i]) \subseteq Watched(e)
  BY <1>1, WatchedBytes
<1>3. Watched(s.d) \subseteq Watched(e)
  BY <1>1, <1>2, WatchedKept
<1>4. ASSUME t.replaced
      PROVE  \E j \in Live(e) : j <= i /\ Bytes(e.ranges[j]) = Buffer(start, length)
  <2>1. CASE s.replaced
    <3>1. PICK j \in Live(s.d) : j <= i - 1 /\ Bytes(s.d.ranges[j]) = Buffer(start, length)
      BY <2>1 DEF Passed
    <3>2. j # i /\ j <= i /\ j \in Nat
      BY <1>1, <3>1, DWFacts
    <3>3. j \in Live(e) /\ e.ranges[j] = s.d.ranges[j]
      BY <1>1, <3>1, <3>2, DWFacts DEF Live, OneRange
    <3> QED
      BY <3>1, <3>2, <3>3
  <2>2. CASE ~s.replaced
    BY <1>1, <1>4, <2>2
  <2> QED
    BY <2>1, <2>2
<1>5. SameFlags(d, e)
  BY DEF Passed, OneRange, SameFlags
<1> QED
  BY <1>1, <1>2, <1>3, <1>4, <1>5 DEF Passed

LEMMA BufferWithin ==
  ASSUME NEW a \in Int, NEW n \in Int, a >= 1, n >= 1, a + n - 1 <= MaxAddr
  PROVE  a \in Addr /\ n \in Addr /\ Buffer(a, n) \subseteq Addr
BY WatchAssumption DEF Addr, Buffer

LEMMA BufferCovers ==
  ASSUME NEW a \in Int, NEW n \in Int, NEW b \in Int, NEW m \in Int,
         a <= b, b + m <= a + n
  PROVE  Buffer(b, m) \subseteq Buffer(a, n)
BY DEF Buffer

LEMMA RelatePasses ==
  ASSUME NEW d, NEW s, NEW i \in 1 .. Len(d.ranges), NEW start \in Addr, NEW length \in Addr,
         Buffer(start, length) \subseteq Addr, Passed(d, s, i - 1, start, length)
  PROVE  Passed(d, Relate(s, i, start, length), i, start, length)
<1> DEFINE r == s.d.ranges[i]
           new == Buffer(start, length)
           end == start + length - 1
           t == Relate(s, i, start, length)
<1>1. /\ s.d \in DW /\ Shaped(s.d) /\ Parallel(s.d) /\ i \in DOMAIN s.d.ranges /\ i \in Nat
      /\ s.overlap \in BOOLEAN /\ s.replaced \in BOOLEAN /\ s.done \in BOOLEAN
  BY DWFacts DEF Passed, Shaped
<1>2. start \in Int /\ length \in Int /\ MaxAddr \in Nat /\ length >= 1 /\ start >= 1
  BY WatchAssumption DEF Addr
<1>3. ASSUME t = s PROVE Passed(d, t, i, start, length)
  <2>1. \A j \in Live(s.d) : j <= i - 1 => j <= i
    BY <1>1, DWFacts
  <2> QED
    BY <1>3, <2>1 DEF Passed
<1>4. CASE s.done \/ r.start = None
  BY <1>3, <1>4 DEF Relate
<1>5. CASE ~s.done /\ r.start # None
  <2>1. /\ r.start \in Addr /\ r.length \in Addr /\ Bytes(r) = Buffer(r.start, r.length)
        /\ Bytes(r) \subseteq Addr /\ r \in WatchRange
    BY <1>1, <1>5, RangeIn, RangeFacts DEF Bytes, Shaped, Live
  <2> HIDE DEF r
  <2>0. /\ r.start \in Nat /\ r.length \in Nat /\ r.start >= 1 /\ r.length >= 1
        /\ r.start + r.length - 1 <= MaxAddr /\ LastOf(r) = r.start + r.length - 1
    <3>1. r.start + r.length - 1 \in Buffer(r.start, r.length)
      BY <1>2, <2>1 DEF Buffer, Addr
    <3> QED
      BY <1>2, <2>1, <3>1 DEF Addr, LastOf
  <2>00. end <= MaxAddr
    <3>1. end \in Buffer(start, length)
      BY <1>2 DEF Buffer
    <3> QED
      BY <1>2, <3>1 DEF Addr
  <2>2. CASE new \subseteq Bytes(r)
    <3>1. t = [d |-> s.d, overlap |-> TRUE, replaced |-> s.replaced, done |-> TRUE]
      BY <1>5, <2>2 DEF Relate, r
    <3>2. OneRange(s.d, s.d, i)
      BY DEF OneRange, SameFlags
    <3>3. Buffer(start, length - 1) \subseteq Bytes(r)
      BY <1>2, <2>2 DEF Buffer
    <3> QED
      BY <1>1, <1>2, <1>5, <3>1, <3>2, <3>3, GrownPasses DEF r
  <2>3. CASE ~(new \subseteq Bytes(r)) /\ Bytes(r) \subseteq new /\ s.replaced
    <3> DEFINE e == Drop(s.d, i)
    <3>1. t = [d |-> e, overlap |-> TRUE, replaced |-> TRUE, done |-> FALSE]
      BY <1>5, <2>3 DEF Relate, r
    <3>2. Shaped(e) /\ Parallel(e) /\ OneRange(s.d, e, i)
      BY <1>1, DropFacts
    <3> HIDE DEF e
    <3>3. PICK j \in Live(s.d) : j <= i - 1 /\ Bytes(s.d.ranges[j]) = new
      BY <2>3 DEF Passed
    <3>4. j # i /\ j <= i /\ j \in Nat
      BY <1>1, <3>3, DWFacts
    <3>5. e \in DW /\ j \in Live(e) /\ e.ranges[j] = s.d.ranges[j]
      BY <1>1, <3>2, <3>3, <3>4, DWFacts DEF Live, OneRange, Shaped
    <3>6. new \subseteq Watched(e)
      BY <3>3, <3>5, WatchedBytes
    <3>7. Watched(s.d) \subseteq Watched(e)
      BY <1>1, <2>3, <3>2, <3>5, <3>6, WatchedKept DEF r
    <3>8. Buffer(start, length - 1) \subseteq new
      BY <1>2 DEF Buffer
    <3> QED
      BY <3>1, <3>2, <3>3, <3>4, <3>5, <3>6, <3>7, <3>8 DEF Passed, OneRange, SameFlags
  <2>4. CASE ~(new \subseteq Bytes(r)) /\ Bytes(r) \subseteq new /\ ~s.replaced
    <3> DEFINE e == Replace(s.d, i, start, length)
    <3>1. t = [d |-> e, overlap |-> TRUE, replaced |-> TRUE, done |-> FALSE]
      BY <1>5, <2>4 DEF Relate, r
    <3>2. /\ Shaped(e) /\ Parallel(e) /\ OneRange(s.d, e, i)
          /\ e.ranges[i].start # None /\ Bytes(e.ranges[i]) = new
      BY <1>1, <2>4, ReplaceFacts DEF r
    <3> HIDE DEF e
    <3>3. Buffer(start, length - 1) \subseteq new
      BY <1>2 DEF Buffer
    <3> QED
      BY <1>1, <1>2, <2>4, <3>1, <3>2, <3>3, GrownPasses DEF r
  <2>5. ASSUME NEW a \in Addr, NEW n \in Addr, Buffer(a, n) \subseteq Addr,
               Bytes(r) \subseteq Buffer(a, n), Buffer(start, length - 1) \subseteq Buffer(a, n),
               t = [d |-> resetIndexHap(Resize(s.d, i, a, n), i), overlap |-> TRUE,
                    replaced |-> s.replaced, done |-> TRUE]
        PROVE  Passed(d, t, i, start, length)
    <3> DEFINE e == resetIndexHap(Resize(s.d, i, a, n), i)
    <3>1. /\ Shaped(e) /\ Parallel(e) /\ OneRange(s.d, e, i)
          /\ e.ranges[i].start # None /\ Bytes(e.ranges[i]) = Buffer(a, n)
      BY <1>1, <2>5, GrownFacts
    <3>2. t.d = e /\ t.overlap = TRUE /\ t.done = TRUE /\ t.replaced = s.replaced
      BY <2>5
    <3> HIDE DEF e, t
    <3> QED
      BY <1>1, <1>2, <2>5, <3>1, <3>2, GrownPasses DEF r
  <2> DEFINE apart == ~(new \subseteq Bytes(r)) /\ ~(Bytes(r) \subseteq new)
  <2>6. CASE apart /\ start = LastOf(r) + 1
    <3>1. t = [d |-> resetIndexHap(Resize(s.d, i, r.start, r.length + length), i),
               overlap |-> TRUE, replaced |-> s.replaced, done |-> TRUE]
      BY <1>5, <2>6 DEF Relate, r
    <3>2. r.length + length \in Addr /\ Buffer(r.start, r.length + length) \subseteq Addr
      <4>1. r.length + length >= 1 /\ r.start + (r.length + length) - 1 <= MaxAddr
        BY <1>2, <2>0, <2>00, <2>6
      <4> QED
        BY <1>2, <2>0, <4>1, BufferWithin
    <3>3. /\ Bytes(r) \subseteq Buffer(r.start, r.length + length)
          /\ Buffer(start, length - 1) \subseteq Buffer(r.start, r.length + length)
      BY <1>2, <2>0, <2>1, <2>6, BufferCovers
    <3> QED
      BY <2>1, <2>5, <3>1, <3>2, <3>3
  <2>7. CASE apart /\ start # LastOf(r) + 1 /\ end + 1 = r.start
    <3>1. t = [d |-> resetIndexHap(Resize(s.d, i, start, r.length + length), i),
               overlap |-> TRUE, replaced |-> s.replaced, done |-> TRUE]
      BY <1>5, <2>7 DEF Relate, r
    <3>2. r.length + length \in Addr /\ Buffer(start, r.length + length) \subseteq Addr
      BY <1>2, <2>0, <2>00, <2>7, BufferWithin
    <3>3. /\ Bytes(r) \subseteq Buffer(start, r.length + length)
          /\ Buffer(start, length - 1) \subseteq Buffer(start, r.length + length)
      BY <1>2, <2>0, <2>1, <2>7, BufferCovers
    <3> QED
      BY <2>1, <2>5, <3>1, <3>2, <3>3
  <2>8. CASE /\ apart /\ start # LastOf(r) + 1 /\ end + 1 # r.start
             /\ start \in Bytes(r) /\ end > LastOf(r)
    <3>1. t = [d |-> resetIndexHap(Resize(s.d, i, r.start, end - r.start), i),
               overlap |-> TRUE, replaced |-> s.replaced, done |-> TRUE]
      BY <1>5, <2>8 DEF Relate, r
    <3>2. end - r.start \in Addr /\ Buffer(r.start, end - r.start) \subseteq Addr
      <4>1. end - r.start >= 1 /\ r.start + (end - r.start) - 1 <= MaxAddr
        BY <1>2, <2>0, <2>00, <2>8
      <4> QED
        BY <1>2, <2>0, <4>1, BufferWithin
    <3>3. /\ Bytes(r) \subseteq Buffer(r.start, end - r.start)
          /\ Buffer(start, length - 1) \subseteq Buffer(r.start, end - r.start)
      <4>1. r.start <= start
        BY <1>2, <2>0, <2>1, <2>8 DEF Buffer
      <4>2. r.start + r.length <= r.start + (end - r.start)
        BY <1>2, <2>0, <2>8
      <4>3. start + (length - 1) <= r.start + (end - r.start)
        BY <1>2, <2>0
      <4> QED
        BY <1>2, <2>0, <2>1, <4>1, <4>2, <4>3, BufferCovers
    <3> QED
      BY <2>1, <2>5, <3>1, <3>2, <3>3
  <2>9. CASE /\ apart /\ start # LastOf(r) + 1 /\ end + 1 # r.start
             /\ ~(start \in Bytes(r) /\ end > LastOf(r))
    <3>1. t = s
      BY <1>5, <2>9 DEF Relate, r
    <3> QED
      BY <1>3, <3>1
  <2> QED
    BY <2>2, <2>3, <2>4, <2>6, <2>7, <2>8, <2>9
<1> QED
  BY <1>1, <1>4, <1>5

\* So it is after every pass of the loop.
LEMMA RelateAllPasses ==
  ASSUME NEW d, Shaped(d), Parallel(d), NEW start \in Addr, NEW length \in Addr,
         Buffer(start, length) \subseteq Addr
  PROVE  \A i \in 0 .. Len(d.ranges) : Passed(d, RelateAll(d, start, length)[i], i, start, length)
<1> DEFINE p == RelateAll(d, start, length)
           n == Len(d.ranges)
           T == {i \in 0 .. n : ~Passed(d, p[i], i, start, length)}
<1>1. n \in Nat
  BY DWFacts DEF Shaped
<1>2. /\ p[0] = [d |-> d, overlap |-> FALSE, replaced |-> FALSE, done |-> FALSE]
      /\ \A i \in 1 .. n : p[i] = Relate(p[i - 1], i, start, length)
  BY <1>1, RelateAllDefined
<1> HIDE DEF p
<1>3. Passed(d, p[0], 0, start, length)
  <2>1. /\ p[0].d = d /\ p[0].overlap = FALSE /\ p[0].replaced = FALSE /\ p[0].done = FALSE
    BY <1>2
  <2> QED
    BY <2>1 DEF Passed, SameFlags
<1>4. T = {}
  <2>1. SUFFICES ASSUME T # {} PROVE FALSE
    OBVIOUS
  <2>2. PICK m \in T : \A k \in T : m <= k
    <3>1. T \in SUBSET Nat
      BY <1>1
    <3> HIDE DEF T
    <3> QED
      BY <2>1, <3>1, LeastNumber
  <2>3. m \in 1 .. n
    BY <1>1, <1>3, <2>2
  <2>4. Passed(d, p[m - 1], m - 1, start, length)
    <3>1. m - 1 \in 0 .. n /\ m - 1 \notin T
      BY <1>1, <2>2, <2>3
    <3> QED
      BY <3>1
  <2>5. Passed(d, p[m], m, start, length)
    BY <1>2, <2>3, <2>4, RelatePasses
  <2> QED
    BY <2>5
<1> QED
  BY <1>4 DEF p

\* A range is appended.
LEMMA AddedFacts ==
  ASSUME NEW d, Shaped(d), NEW start \in Addr, NEW length \in Addr,
         Buffer(start, length) \subseteq Addr, cycle \in 0 .. MaxCycle,
         NEW e, e = [d EXCEPT !.ranges =
                        Append(@, [start |-> start, length |-> length, cycle |-> cycle])]
  PROVE  /\ Shaped(e) /\ SameFlags(d, e) /\ e.read_hap = d.read_hap /\ e.left = d.left
         /\ Len(e.ranges) = Len(d.ranges) + 1
         /\ \A j \in DOMAIN d.ranges : e.ranges[j] = d.ranges[j]
         /\ Watched(e) = Watched(d) \cup Buffer(start, length)
<1> DEFINE r == [start |-> start, length |-> length, cycle |-> cycle]
           n == Len(d.ranges)
<1>1. d \in DW /\ n \in Nat /\ DOMAIN d.ranges = 1 .. n
  BY DWFacts DEF Shaped
<1>2. r \in WatchRange /\ r.start # None /\ Bytes(r) = Buffer(start, length)
  BY ResizedType
<1>3. e = [d EXCEPT !.ranges = Append(d.ranges, r)]
  OBVIOUS
<1> HIDE DEF r
<1>4. /\ Append(d.ranges, r) \in Seq(WatchRange)
      /\ Len(Append(d.ranges, r)) = n + 1
      /\ \A j \in 1 .. n : Append(d.ranges, r)[j] = d.ranges[j]
      /\ Append(d.ranges, r)[n + 1] = r
  BY <1>1, <1>2, DWFacts, AppendProperties
<1>5. /\ e \in DW /\ SameFlags(d, e) /\ e.read_hap = d.read_hap /\ e.left = d.left
      /\ e.ranges = Append(d.ranges, r)
  BY <1>1, <1>3, <1>4 DEF DW, SameFlags
<1>6. Live(e) = Live(d) \cup {n + 1}
  BY <1>1, <1>2, <1>4, <1>5, DWFacts DEF Live
<1>7. \A j \in Live(d) : e.ranges[j] = d.ranges[j]
  BY <1>1, <1>4, <1>5 DEF Live
<1>8. Watched(e) = Watched(d) \cup Buffer(start, length)
  <2>1. \A x : x \in Watched(e) <=> \E j \in Live(e) : x \in Bytes(e.ranges[j])
    BY DEF Watched
  <2>2. \A x : x \in Watched(d) <=> \E j \in Live(d) : x \in Bytes(d.ranges[j])
    BY DEF Watched
  <2>3. Bytes(e.ranges[n + 1]) = Buffer(start, length)
    BY <1>2, <1>4, <1>5
  <2>4. \A j \in Live(d) : Bytes(e.ranges[j]) = Bytes(d.ranges[j])
    BY <1>7
  <2>5. \A x : x \in Watched(e) <=> x \in Watched(d) \/ x \in Buffer(start, length)
    BY <1>6, <2>1, <2>2, <2>3, <2>4
  <2> QED
    BY <2>5
<1>9. Matched(e)
  BY <1>5, <1>6, <1>7 DEF Matched, Shaped
<1>10. \A j \in Live(e) : Bytes(e.ranges[j]) \subseteq Addr
  BY <1>2, <1>4, <1>5, <1>6, <1>7 DEF Shaped
<1> QED
  BY <1>1, <1>4, <1>5, <1>8, <1>9, <1>10 DEF Shaped

Merged(d, start, length) == setRange(d, start, length, FALSE)

Appended(d, start, length) == setRange(d, start, length, TRUE)

LEMMA SetRangeFacts ==
  ASSUME NEW d, Fine(d), NEW start \in Addr, NEW length \in Addr,
         Buffer(start, length) \subseteq Addr, cycle \in 0 .. MaxCycle,
         NEW e, e = Merged(d, start, length)
  PROVE  /\ Fine(e) /\ e.disabled = d.disabled
         /\ Watched(d) \subseteq Watched(e)
         /\ ~d.disabled => Buffer(start, length - 1) \subseteq Watched(e)
<1> DEFINE s == RelateAll(d, start, length)[Len(d.ranges)]
           added == [s.d EXCEPT !.ranges =
                        Append(@, [start |-> start, length |-> length, cycle |-> cycle])]
           f == IF s.overlap THEN s.d ELSE added
<1>1. d \in DW /\ Len(d.ranges) \in Nat
  BY DWFacts DEF Fine, Shaped
<1>2. CASE d.disabled
  <2>1. e = d
    BY <1>2 DEF setRange, Merged, Appended
  <2> QED
    BY <1>2, <2>1
<1>3. CASE ~d.disabled
  <2>1. Passed(d, s, Len(d.ranges), start, length)
    BY <1>1, RelateAllPasses DEF Fine
  <2>2. e = setBreakRange(f)
    BY <1>3 DEF setRange, Merged, Appended
  <2>3. start \in Int /\ length \in Int
    BY WatchAssumption DEF Addr
  <2>4. /\ Shaped(added) /\ SameFlags(s.d, added)
        /\ Watched(added) = Watched(s.d) \cup Buffer(start, length)
    <3>1. Shaped(s.d)
      BY <2>1 DEF Passed
    <3> HIDE DEF s
    <3> QED
      BY <3>1, AddedFacts
  <2> HIDE DEF s, added
  <2>5. /\ Shaped(f) /\ SameFlags(d, f) /\ Watched(d) \subseteq Watched(f)
        /\ Buffer(start, length - 1) \subseteq Watched(f)
    <3>1. Buffer(start, length - 1) \subseteq Buffer(start, length)
      BY <2>3 DEF Buffer
    <3>2. CASE s.overlap
      BY <2>1, <3>2 DEF Passed
    <3>3. CASE ~s.overlap
      BY <2>1, <2>4, <3>1, <3>3 DEF Passed, SameFlags
    <3> QED
      BY <3>2, <3>3
  <2> HIDE DEF f
  <2>6. Fine(e) /\ SameFlags(f, e) /\ e.ranges = f.ranges
    BY <2>2, <2>5, SetBreakFacts
  <2>7. Watched(e) = Watched(f)
    BY <2>6 DEF Watched, Live
  <2> QED
    BY <2>5, <2>6, <2>7 DEF SameFlags
<1> QED
  BY <1>2, <1>3

\* Without extending, a range is only added.
LEMMA SetRangeAdds ==
  ASSUME NEW d, Fine(d), NEW start \in Addr, NEW length \in Addr,
         Buffer(start, length) \subseteq Addr, cycle \in 0 .. MaxCycle,
         NEW e, e = Appended(d, start, length)
  PROVE  /\ Fine(e) /\ e.disabled = d.disabled
         /\ \A k \in Live(d) : k \in Live(e) /\ e.ranges[k] = d.ranges[k]
<1> DEFINE s == RelateAll(d, start, length)[0]
           f == [d EXCEPT !.ranges =
                    Append(@, [start |-> start, length |-> length, cycle |-> cycle])]
<1>1. d \in DW /\ Len(d.ranges) \in Nat
  BY DWFacts DEF Fine, Shaped
<1>2. CASE d.disabled
  <2>1. e = d
    BY <1>2 DEF setRange, Merged, Appended
  <2> QED
    BY <2>1
<1>3. CASE ~d.disabled
  <2>1. s.d = d /\ s.overlap = FALSE
    <3>1. s = [d |-> d, overlap |-> FALSE, replaced |-> FALSE, done |-> FALSE]
      BY <1>1, RelateAllDefined
    <3> HIDE DEF s
    <3> QED
      BY <3>1
  <2>2. e = setBreakRange(f)
    <3>1. e = setBreakRange(IF s.overlap THEN s.d
                            ELSE [s.d EXCEPT !.ranges =
                        Append(@, [start |-> start, length |-> length, cycle |-> cycle])])
      BY <1>3 DEF setRange, Merged, Appended
    <3> HIDE DEF s
    <3> QED
      BY <2>1, <3>1
  <2>3. /\ Shaped(f) /\ SameFlags(d, f) /\ Len(f.ranges) = Len(d.ranges) + 1
        /\ \A j \in DOMAIN d.ranges : f.ranges[j] = d.ranges[j]
    BY AddedFacts DEF Fine
  <2> HIDE DEF f
  <2>4. Fine(e) /\ SameFlags(f, e) /\ e.ranges = f.ranges
    BY <2>2, <2>3, SetBreakFacts
  <2>5. e \in DW
    BY <2>4 DEF Fine, Shaped
  <2>6. \A k \in DOMAIN d.ranges : k \in DOMAIN e.ranges /\ e.ranges[k] = d.ranges[k]
    <3>1. /\ DOMAIN d.ranges = 1 .. Len(d.ranges) /\ DOMAIN e.ranges = 1 .. Len(e.ranges)
          /\ Len(e.ranges) = Len(d.ranges) + 1
      BY <1>1, <2>3, <2>4, <2>5, DWFacts
    <3>2. \A k \in DOMAIN d.ranges : e.ranges[k] = d.ranges[k]
      BY <2>3, <2>4
    <3> HIDE DEF f
    <3> QED
      BY <1>1, <3>1, <3>2
  <2> QED
    BY <2>3, <2>4, <2>6 DEF SameFlags, Live
<1> QED
  BY <1>2, <1>3

-----------------------------------------------------------------------------
(* Stopping, watching and cutting.                                         *)

LEMMA StopWatchFacts ==
  ASSUME NEW d, Fine(d), NEW e, e = stopWatch(d)
  PROVE  /\ Fine(e) /\ e.disabled = d.disabled /\ e.ranges = d.ranges
         /\ e.left \subseteq d.left
         /\ ~d.disabled => e.stopped /\ e.left = d.left \ Live(d)
         /\ d.disabled => e = d
<1>1. d \in DW
  BY DEF Fine, Shaped
<1>2. CASE d.disabled
  BY <1>2 DEF stopWatch
<1>3. CASE ~d.disabled
  <2> DEFINE h(i) == IF i \in Live(d) THEN {} ELSE d.read_hap[i]
             H == [i \in DOMAIN d.read_hap |-> h(i)]
             L == d.left \ Live(d)
  <2>1. H \in Seq(SUBSET Addr) /\ Len(H) = Len(d.read_hap) /\ DOMAIN H = DOMAIN d.read_hap
    <3>1. \A i \in 1 .. Len(d.read_hap) : h(i) \in SUBSET Addr
      BY <1>1, DWFacts
    <3>2. H \in [1 .. Len(d.read_hap) -> SUBSET Addr]
      BY <1>1, <3>1, DWFacts
    <3>3. Len(d.read_hap) \in Nat /\ DOMAIN d.read_hap = 1 .. Len(d.read_hap)
      BY <1>1, DWFacts
    <3> HIDE DEF H
    <3> QED
      BY <3>2, <3>3
  <2>2. \A i \in DOMAIN d.read_hap : H[i] = h(i)
    OBVIOUS
  <2>3. L \in SUBSET Nat
    BY <1>1, DWFacts
  <2>4. e = [d EXCEPT !.stopped = TRUE, !.read_hap = H, !.left = L]
    BY <1>1, <1>3 DEF stopWatch
  <2> HIDE DEF H, L
  <2>5. /\ e \in DW /\ e.disabled = d.disabled /\ e.ranges = d.ranges /\ e.stopped = TRUE
        /\ e.read_hap = H /\ e.left = L
    BY <1>1, <2>1, <2>3, <2>4 DEF DW
  <2>6. Live(e) = Live(d)
    BY <2>5 DEF Live
  <2>7. Matched(e)
    <3> SUFFICES ASSUME NEW i \in DOMAIN e.read_hap \ e.left
                 PROVE  e.read_hap[i] \in {{}, IF i \in Live(e) THEN Bytes(e.ranges[i]) ELSE {}}
      BY DEF Matched
    <3>1. i \in DOMAIN d.read_hap /\ e.read_hap[i] = h(i)
      BY <2>1, <2>2, <2>5
    <3>2. CASE i \in Live(d)
      BY <3>1, <3>2
    <3>3. CASE i \notin Live(d)
      <4>1. i \notin d.left
        BY <2>5, <3>3 DEF L
      <4> QED
        BY <2>5, <2>6, <3>1, <3>3, <4>1 DEF Fine, Shaped, Matched
    <3> QED
      BY <3>2, <3>3
  <2>8. Shaped(e)
    BY <2>1, <2>5, <2>6, <2>7 DEF Fine, Shaped, L
  <2>9. Parallel(e)
    BY <2>1, <2>5 DEF Fine, Parallel
  <2>10. Hooked(e)
    BY <2>5 DEF Hooked
  <2> QED
    BY <1>3, <2>5, <2>8, <2>9, <2>10 DEF Fine, L
<1> QED
  BY <1>2, <1>3

\* Setting a flag leaves the lists as they are.
LEMMA SameListsFacts ==
  ASSUME NEW d, Shaped(d), Parallel(d), NEW e \in DW,
         e.ranges = d.ranges, e.read_hap = d.read_hap, e.left = d.left
  PROVE  Shaped(e) /\ Parallel(e) /\ Live(e) = Live(d)
<1>1. Live(e) = Live(d)
  BY DEF Live
<1> QED
  BY <1>1 DEF Shaped, Parallel, Matched

LEMMA WatchFacts ==
  ASSUME NEW d, Fine(d), NEW alone \in BOOLEAN, NEW e, e = watch(d, alone)
  PROVE  /\ Fine(e) /\ e.disabled = d.disabled /\ e.ranges = d.ranges /\ e.left = d.left
         /\ d.disabled => e = d
<1> DEFINE on == [d EXCEPT !.stopped = FALSE]
<1>1. d \in DW
  BY DEF Fine, Shaped
<1>2. /\ on \in DW /\ on.disabled = d.disabled /\ on.ranges = d.ranges /\ on.left = d.left
      /\ on.read_hap = d.read_hap
  BY <1>1 DEF DW
<1>3. Shaped(on) /\ Parallel(on) /\ Live(on) = Live(d)
  <2> HIDE DEF on
  <2> QED
    BY <1>2, SameListsFacts DEF Fine
<1>4. CASE d.disabled
  BY <1>4 DEF watch
<1>5. CASE ~d.disabled /\ d.ranges = <<>>
  <2>1. e = on
    BY <1>5 DEF watch
  <2>2. Live(d) = {}
    BY <1>5 DEF Live
  <2> HIDE DEF on
  <2> QED
    BY <1>2, <1>3, <1>5, <2>1, <2>2 DEF Fine, Hooked
<1>6. CASE ~d.disabled /\ d.ranges # <<>> /\ alone
  <2>1. e = setBreakRange(on)
    BY <1>6 DEF watch
  <2> HIDE DEF on
  <2> QED
    BY <1>2, <1>3, <1>6, <2>1, SetBreakFacts DEF SameFlags
<1>7. CASE ~d.disabled /\ d.ranges # <<>> /\ ~alone
  <2>1. e = [on EXCEPT !.alone = TRUE]
    BY <1>7 DEF watch
  <2> HIDE DEF on
  <2>2. /\ e \in DW /\ e.disabled = on.disabled /\ e.ranges = on.ranges /\ e.left = on.left
        /\ e.read_hap = on.read_hap /\ e.alone = TRUE
    BY <1>2, <2>1 DEF DW
  <2>3. Shaped(e) /\ Parallel(e)
    BY <1>3, <2>2, SameListsFacts
  <2> QED
    BY <1>2, <1>7, <2>2, <2>3 DEF Fine, Hooked
<1> QED
  BY <1>4, <1>5, <1>6, <1>7

\* Renewing gives every range the hap that is its own: none is left behind for a range in use.
LEMMA RenewedFacts ==
  ASSUME NEW d, Fine(d), ~d.disabled, NEW e, e = Renewed(d)
  PROVE  /\ Fine(e) /\ e.disabled = d.disabled /\ e.ranges = d.ranges
         /\ Watched(d) \subseteq HookedBytes(e)
<1> DEFINE s == stopWatch(d)
           on == [s EXCEPT !.stopped = FALSE]
<1>1. /\ Fine(s) /\ s.disabled = d.disabled /\ s.ranges = d.ranges
      /\ s.left = d.left \ Live(d)
  BY StopWatchFacts
<1>2. e = watch(s, TRUE)
  BY DEF Renewed
<1> HIDE DEF s
<1>3. Fine(e) /\ e.disabled = d.disabled /\ e.ranges = d.ranges /\ e.left = s.left
  BY <1>1, <1>2, WatchFacts
<1>4. Live(e) = Live(d) /\ Live(s) = Live(d)
  BY <1>1, <1>3 DEF Live
<1>5. ASSUME NEW i \in Live(e) PROVE e.read_hap[i] # {}
  <2>1. s.ranges # <<>>
    BY <1>1, <1>3, <1>5 DEF Live
  <2>2. e = setBreakRange(on)
    BY <1>1, <1>2, <2>1 DEF watch
  <2>3. s \in DW
    BY <1>1 DEF Fine, Shaped
  <2>4. on \in DW /\ on.ranges = s.ranges /\ on.read_hap = s.read_hap /\ on.left = s.left
    BY <2>3 DEF DW
  <2> HIDE DEF on
  <2>5. Shaped(on)
    BY <1>1, <2>4, SameListsFacts DEF Fine
  <2> QED
    BY <1>5, <2>2, <2>5, SetBreakFacts
<1>6. ASSUME NEW i \in Live(e) PROVE e.read_hap[i] = Bytes(e.ranges[i])
  <2>1. i \in DOMAIN e.read_hap
    <3>1. e \in DW /\ Len(e.read_hap) >= Len(e.ranges)
      BY <1>3 DEF Fine, Shaped, Parallel
    <3> QED
      BY <1>6, <3>1, DWFacts
  <2>2. i \notin e.left
    BY <1>1, <1>3, <1>4, <1>6
  <2> QED
    BY <1>3, <1>5, <1>6, <2>1, <2>2 DEF Fine, Shaped, Matched
<1>7. \A i \in Live(d) : Bytes(d.ranges[i]) = e.read_hap[i]
  BY <1>3, <1>4, <1>6
<1> QED
  BY <1>3, <1>4, <1>7 DEF Watched, HookedBytes

\* The list of ranges is cut, and haps behind its end are left behind.
LEMMA KeepRangesFacts ==
  ASSUME NEW d, Fine(d), NEW n \in Nat, NEW e, e = KeepRanges(d, n)
  PROVE  Fine(e) /\ e.disabled = d.disabled
<1> DEFINE m == IF n < Len(d.ranges) THEN n ELSE Len(d.ranges)
           R == SubSeq(d.ranges, 1, m)
           L == d.left \cup {i \in DOMAIN d.read_hap : i > n /\ d.read_hap[i] # {}}
<1>1. d \in DW /\ Len(d.ranges) \in Nat /\ m \in 0 .. Len(d.ranges) /\ m <= n
  BY DWFacts DEF Fine, Shaped
<1>2. R \in Seq(WatchRange) /\ Len(R) = m /\ \A i \in 1 .. m : R[i] = d.ranges[i]
  <2>1. \A i \in 1 .. m : d.ranges[i] \in WatchRange
    BY <1>1, DWFacts, ElementOfSeq
  <2> HIDE DEF m
  <2> QED
    BY <1>1, <2>1, SubSeqProperties
<1>3. L \in SUBSET Nat /\ L \subseteq DOMAIN d.read_hap
  BY <1>1, DWFacts DEF Fine, Shaped
<1>4. e = [d EXCEPT !.ranges = R, !.left = L]
  BY <1>1, DWFacts DEF KeepRanges, DW
<1> HIDE DEF R, m
<1>5. /\ e \in DW /\ SameFlags(d, e) /\ e.ranges = R /\ e.left = L /\ e.read_hap = d.read_hap
  <2> HIDE DEF L
  <2> QED
    BY <1>1, <1>2, <1>3, <1>4 DEF DW, SameFlags
<1>6. \A i : i \in Live(e) <=> i \in Live(d) /\ i <= m
  BY <1>1, <1>2, <1>5, DWFacts DEF Live
<1>7. \A i \in Live(e) : e.ranges[i] = d.ranges[i]
  BY <1>1, <1>2, <1>5, <1>6, DWFacts
<1>8. Matched(e)
  <2> SUFFICES ASSUME NEW i \in DOMAIN e.read_hap \ e.left
               PROVE  e.read_hap[i] \in {{}, IF i \in Live(e) THEN Bytes(e.ranges[i]) ELSE {}}
    BY DEF Matched
  <2>1. i \in DOMAIN d.read_hap \ d.left /\ (i > n => d.read_hap[i] = {})
    BY <1>5
  <2>2. d.read_hap[i] \in {{}, IF i \in Live(d) THEN Bytes(d.ranges[i]) ELSE {}}
    BY <2>1 DEF Fine, Shaped, Matched
  <2>3. i \in Live(d) => i \in Live(e) \/ i > n
    <3>1. i \in Live(d) => i <= Len(d.ranges) /\ i \in Nat
      BY <1>1, DWFacts
    <3> QED
      BY <1>1, <1>6, <3>1 DEF m
  <2> QED
    BY <1>5, <1>7, <2>1, <2>2, <2>3
<1>9. Shaped(e)
  BY <1>3, <1>5, <1>6, <1>7, <1>8 DEF Fine, Shaped
<1>10. Parallel(e) /\ Hooked(e)
  BY <1>1, <1>2, <1>5, <1>6, DWFacts DEF Fine, Parallel, Hooked, SameFlags
<1> QED
  BY <1>5, <1>9, <1>10 DEF Fine, SameFlags

-----------------------------------------------------------------------------
(* Removing what is found at an address.                                   *)

\* Every range of d is still there, or has a byte near what was touched.
Kept(d, e, near) ==
    \A k \in Live(d) : \/ k \in Live(e) /\ Bytes(e.ranges[k]) = Bytes(d.ranges[k])
                       \/ Bytes(d.ranges[k]) \cap near # {}

LEMMA KeptTransitive ==
  ASSUME NEW d, NEW e, NEW f, NEW near, Kept(d, e, near), Kept(e, f, near)
  PROVE  Kept(d, f, near)
BY DEF Kept

LEMMA LiveFacts ==
  ASSUME NEW d, Shaped(d), NEW i \in Live(d)
  PROVE  LET r == d.ranges[i]
         IN  /\ i \in DOMAIN d.ranges /\ r.start \in Addr /\ r.length \in Addr
             /\ Bytes(r) = Buffer(r.start, r.length) /\ Bytes(r) \subseteq Addr
             /\ LastOf(r) = r.start + r.length - 1 /\ LastOf(r) <= MaxAddr
             /\ r.start >= 1 /\ r.length >= 1 /\ r.start \in Int /\ r.length \in Int
<1> DEFINE r == d.ranges[i]
<1>1. d \in DW /\ i \in DOMAIN d.ranges /\ r.start # None
  BY DEF Shaped, Live
<1>2. r.start \in Addr /\ r.length \in Addr
  BY <1>1, RangeIn, RangeFacts
<1>3. /\ Bytes(r) = Buffer(r.start, r.length) /\ Bytes(r) \subseteq Addr
      /\ LastOf(r) = r.start + r.length - 1
  BY <1>1 DEF Bytes, LastOf, Shaped
<1> HIDE DEF r
<1>4. r.start >= 1 /\ r.length >= 1 /\ r.start \in Int /\ r.length \in Int /\ MaxAddr \in Nat
  BY <1>2, WatchAssumption DEF Addr
<1>5. LastOf(r) \in Bytes(r)
  BY <1>3, <1>4 DEF Buffer
<1>6. LastOf(r) <= MaxAddr
  BY <1>3, <1>4, <1>5 DEF Addr
<1> QED
  BY <1>1, <1>2, <1>3, <1>4, <1>6 DEF r

LEMMA FindRangeFacts ==
  ASSUME NEW d, Shaped(d), NEW addr, NEW i, i = findRangeIndex(d, addr)
  PROVE  \/ i = None
         \/ i # None /\ i \in Live(d) /\ addr \in Bytes(d.ranges[i])
<1> DEFINE S == {j \in DOMAIN d.ranges : addr \in Bytes(d.ranges[j])}
<1>1. Len(d.ranges) \in Nat /\ S \in SUBSET (1 .. Len(d.ranges))
  BY DWFacts DEF Shaped
<1>2. i = Latest(S)
  BY DEF findRangeIndex
<1>3. \A j \in S : j \in Live(d) /\ addr \in Bytes(d.ranges[j])
  BY DEF Bytes, Live
<1> HIDE DEF S
<1>4. i = None \/ i \in S
  BY <1>1, <1>2, LatestOfIndexes
<1>5. CASE i = None
  BY <1>5
<1>6. CASE i # None
  BY <1>3, <1>4, <1>6
<1> QED
  BY <1>5, <1>6

LEMMA FindBufFacts ==
  ASSUME NEW d, Shaped(d), NEW addr \in Addr, NEW size \in Addr,
         NEW i \in findBufForRange(d, addr, size)
  PROVE  i \in Live(d) /\ Bytes(d.ranges[i]) \cap Buffer(addr, size) # {}
<1> DEFINE S == {j \in DOMAIN d.ranges : Bytes(d.ranges[j]) \cap Buffer(addr, size) # {}}
<1>1. Len(d.ranges) \in Nat /\ S \in SUBSET (1 .. Len(d.ranges))
  BY DWFacts DEF Shaped
<1>2. i # None /\ (i = findRangeIndex(d, addr) \/ i = Latest(S))
  BY DEF findBufForRange
<1>3. addr \in Buffer(addr, size)
  BY WatchAssumption DEF Addr, Buffer
<1>4. CASE i = findRangeIndex(d, addr)
  BY <1>2, <1>3, <1>4, FindRangeFacts
<1>5. CASE i = Latest(S)
  <2>1. \A j \in S : j \in Live(d) /\ Bytes(d.ranges[j]) \cap Buffer(addr, size) # {}
    BY DEF Bytes, Live
  <2> HIDE DEF S
  <2>2. i \in S
    BY <1>1, <1>2, <1>5, LatestOfIndexes
  <2> QED
    BY <2>1, <2>2
<1> QED
  BY <1>2, <1>4, <1>5

\* A range that is dropped is gone, all others stay.
LEMMA DropKept ==
  ASSUME NEW d, Fine(d), NEW i \in DOMAIN d.ranges, NEW e, e = Drop(d, i)
  PROVE  /\ Fine(e) /\ e.disabled = d.disabled /\ e.left \subseteq d.left
         /\ Len(e.ranges) = Len(d.ranges)
         /\ \A k \in Live(e) : k \in Live(d) /\ k # i /\ e.ranges[k] = d.ranges[k]
         /\ \A k \in Live(d) \ {i} : k \in Live(e) /\ e.ranges[k] = d.ranges[k]
<1>1. /\ Shaped(e) /\ Parallel(e) /\ OneRange(d, e, i) /\ e.ranges[i].start = None
      /\ e.left \subseteq d.left /\ Hooked(e)
  BY DropFacts DEF Fine
<1>2. d \in DW /\ e \in DW
  BY <1>1 DEF Fine, Shaped
<1>3. DOMAIN e.ranges = DOMAIN d.ranges
  BY <1>1, <1>2, DWFacts DEF OneRange
<1>4. \A k \in DOMAIN d.ranges \ {i} : e.ranges[k] = d.ranges[k]
  BY <1>1 DEF OneRange
<1>5. \A k \in Live(e) : k \in Live(d) /\ k # i /\ e.ranges[k] = d.ranges[k]
  BY <1>1, <1>3, <1>4 DEF Live
<1>6. \A k \in Live(d) \ {i} : k \in Live(e) /\ e.ranges[k] = d.ranges[k]
  BY <1>3, <1>4 DEF Live
<1> QED
  BY <1>1, <1>5, <1>6 DEF Fine, OneRange, SameFlags

LEMMA RmRangeFacts ==
  ASSUME NEW d, Fine(d), NEW addr, NEW e, e = rmRange(d, addr)
  PROVE  /\ Fine(e) /\ e.disabled = d.disabled
         /\ Len(e.ranges) = Len(d.ranges)
         /\ \A k \in Live(e) : k \in Live(d) /\ e.ranges[k] = d.ranges[k]
         /\ \A near : addr \in near => Kept(d, e, near)
<1> DEFINE i == findRangeIndex(d, addr)
<1>1. i = None \/ (i # None /\ i \in Live(d) /\ addr \in Bytes(d.ranges[i]))
  BY FindRangeFacts DEF Fine
<1>2. CASE i = None
  BY <1>2 DEF rmRange, Kept
<1>3. CASE i # None
  <2>1. i \in Live(d) /\ addr \in Bytes(d.ranges[i]) /\ i \in DOMAIN d.ranges /\ e = Drop(d, i)
    BY <1>1, <1>3 DEF rmRange, Live
  <2> HIDE DEF i
  <2>2. /\ Fine(e) /\ e.disabled = d.disabled /\ Len(e.ranges) = Len(d.ranges)
        /\ \A k \in Live(e) : k \in Live(d) /\ k # i /\ e.ranges[k] = d.ranges[k]
        /\ \A k \in Live(d) \ {i} : k \in Live(e) /\ e.ranges[k] = d.ranges[k]
    BY <2>1, DropKept
  <2> QED
    BY <2>1, <2>2 DEF Kept
<1> QED
  BY <1>1, <1>2, <1>3

\* A range gives way to what is before and after a touch.
LEMMA SplitRangeFacts ==
  ASSUME NEW d, Fine(d), NEW addr \in Addr, NEW size \in Addr, cycle \in 0 .. MaxCycle,
         NEW i \in Live(d), Bytes(d.ranges[i]) \cap Buffer(addr, size) # {},
         NEW e, e = SplitRange(d, i, addr, size)
  PROVE  /\ Fine(e) /\ e.disabled = d.disabled
         /\ \A k \in Live(d) \ {i} : k \in Live(e) /\ e.ranges[k] = d.ranges[k]
<1> DEFINE r == d.ranges[i]
           new_start == addr + size
           c == Drop(d, i)
           before == IF r.start < addr THEN setRange(c, r.start, addr - r.start, TRUE) ELSE c
           goes_on == /\ r.start < addr \/ (r.start = addr /\ size < r.length)
                      /\ new_start < LastOf(r)
           after == IF goes_on
                    THEN setRange(before, new_start, LastOf(r) - new_start + 1, TRUE)
                    ELSE before
<1>1. /\ i \in DOMAIN d.ranges /\ r.start \in Addr /\ r.length \in Addr
      /\ Bytes(r) = Buffer(r.start, r.length)
      /\ LastOf(r) = r.start + r.length - 1 /\ LastOf(r) <= MaxAddr
      /\ r.start >= 1 /\ r.length >= 1 /\ r.start \in Int /\ r.length \in Int
  BY LiveFacts DEF Fine
<1>2. addr \in Int /\ size \in Int /\ addr >= 1 /\ size >= 1 /\ MaxAddr \in Nat
  BY WatchAssumption DEF Addr
<1>3. addr <= LastOf(r)
  BY <1>1, <1>2 DEF Buffer
<1>4. e = watch(stopWatch(after), FALSE)
  BY DEF SplitRange
<1> HIDE DEF r
<1>5. /\ Fine(c) /\ c.disabled = d.disabled
      /\ \A k \in Live(d) \ {i} : k \in Live(c) /\ c.ranges[k] = d.ranges[k]
  BY <1>1, DropKept
<1> HIDE DEF c
<1>6. /\ Fine(before) /\ before.disabled = d.disabled
      /\ \A k \in Live(d) \ {i} : k \in Live(before) /\ before.ranges[k] = d.ranges[k]
  <2>1. CASE r.start < addr
    <3> DEFINE n == addr - r.start
    <3>1. n \in Addr /\ Buffer(r.start, n) \subseteq Addr
      BY <1>1, <1>2, <1>3, <2>1, BufferWithin
    <3>2. before = Appended(c, r.start, n)
      BY <2>1 DEF Appended
    <3> HIDE DEF n, before
    <3>3. /\ Fine(before) /\ before.disabled = c.disabled
          /\ \A k \in Live(c) : k \in Live(before) /\ before.ranges[k] = c.ranges[k]
      BY <1>1, <1>5, <3>1, <3>2, SetRangeAdds
    <3> QED
      BY <1>5, <3>3
  <2>2. CASE ~(r.start < addr)
    BY <1>5, <2>2
  <2> QED
    BY <2>1, <2>2
<1> HIDE DEF before
<1>7. /\ Fine(after) /\ after.disabled = d.disabled
      /\ \A k \in Live(d) \ {i} : k \in Live(after) /\ after.ranges[k] = d.ranges[k]
  <2>1. CASE goes_on
    <3> DEFINE n == LastOf(r) - new_start + 1
    <3>0. new_start + n - 1 <= MaxAddr /\ n >= 1 /\ new_start >= 1 /\ n \in Int /\ new_start \in Int
      BY <1>1, <1>2, <2>1
    <3>1. new_start \in Addr /\ n \in Addr /\ Buffer(new_start, n) \subseteq Addr
      BY <3>0, BufferWithin
    <3>2. after = Appended(before, new_start, n)
      BY <2>1 DEF Appended
    <3> HIDE DEF n, after, new_start
    <3>3. /\ Fine(after) /\ after.disabled = before.disabled
          /\ \A k \in Live(before) : k \in Live(after) /\ after.ranges[k] = before.ranges[k]
      BY <1>6, <3>1, <3>2, SetRangeAdds
    <3> QED
      BY <1>6, <3>3
  <2>2. CASE ~goes_on
    <3>1. after = before
      BY <2>2
    <3> QED
      BY <1>6, <3>1
  <2> QED
    BY <2>1, <2>2
<1> HIDE DEF after
<1> DEFINE stopped == stopWatch(after)
<1>8. Fine(stopped) /\ stopped.disabled = d.disabled /\ stopped.ranges = after.ranges
  BY <1>7, StopWatchFacts
<1> HIDE DEF stopped
<1>9. Fine(e) /\ e.disabled = d.disabled /\ e.ranges = after.ranges
  BY <1>4, <1>8, WatchFacts DEF stopped
<1>10. Live(e) = Live(after)
  BY <1>9 DEF Live
<1> QED
  BY <1>7, <1>9, <1>10

LEMMA RmSubRangeFacts ==
  ASSUME NEW d, Fine(d), NEW addr \in Addr, NEW size \in Addr, cycle \in 0 .. MaxCycle,
         NEW e \in rmSubRange(d, addr, size)
  PROVE  /\ Fine(e) /\ e.disabled = d.disabled
         /\ \A near : (\A i \in Live(d) : Bytes(d.ranges[i]) \cap Buffer(addr, size) # {}
                                             => Bytes(d.ranges[i]) \cap near # {})
                      => Kept(d, e, near)
<1>1. CASE e = d
  BY <1>1 DEF Kept
<1>2. CASE e # d
  <2>1. PICK i \in findBufForRange(d, addr, size) : e = SplitRange(d, i, addr, size)
    BY <1>2 DEF rmSubRange
  <2>2. i \in Live(d) /\ Bytes(d.ranges[i]) \cap Buffer(addr, size) # {}
    BY FindBufFacts DEF Fine
  <2>3. /\ Fine(e) /\ e.disabled = d.disabled
        /\ \A k \in Live(d) \ {i} : k \in Live(e) /\ e.ranges[k] = d.ranges[k]
    BY <2>1, <2>2, SplitRangeFacts
  <2> QED
    BY <2>2, <2>3 DEF Kept
<1> QED
  BY <1>1, <1>2

-----------------------------------------------------------------------------
(* Ranges taken back, received and covered.                                *)

LEMMA ClearFacts ==
  ASSUME NEW d, Fine(d), NEW upto, NEW e, e = clearWatches(d, upto)
  PROVE  Fine(e) /\ e.disabled = d.disabled
<1> DEFINE younger == {i \in DOMAIN d.ranges : d.ranges[i].cycle > upto - 1}
           n == IF younger = {} THEN Len(d.ranges) ELSE Min(younger)
           stopped == stopWatch(d)
<1>1. younger \in SUBSET Nat /\ Len(d.ranges) \in Nat
  BY DWFacts DEF Fine, Shaped
<1>2. e = KeepRanges(stopped, n)
  BY DEF clearWatches
<1>3. Fine(stopped) /\ stopped.disabled = d.disabled
  BY StopWatchFacts
<1> HIDE DEF younger, stopped
<1>4. n \in Nat
  <2>1. CASE younger # {}
    <3>1. \E m \in younger : \A k \in younger : m <= k
      BY <1>1, <2>1, LeastNumber
    <3>2. Min(younger) \in younger
      BY <3>1 DEF Min
    <3> QED
      BY <1>1, <2>1, <3>2
  <2> QED
    BY <1>1, <2>1
<1> HIDE DEF n
<1> QED
  BY <1>2, <1>3, <1>4, KeepRangesFacts

\* The ranges that marks name are set one after the other.
LEMMA RebuiltFacts ==
  ASSUME NEW d, Fine(d), NEW marks \in Marks, cycle \in 0 .. MaxCycle,
         NEW e, e = Rebuilt(d, marks)
  PROVE  Fine(e) /\ e.disabled = d.disabled
<1> DEFINE n == Len(marks)
           none == KeepRanges(d, 0)
           Set(c, i) == Merged(c, marks[i].start, marks[i].length)
           Sets(p, m) == p = [i \in 0 .. m |-> IF i = 0 THEN none ELSE Set(p[i - 1], i)]
           T == {m \in Nat : ~ \E p : Sets(p, m)}
<1>0. n \in Nat /\ \A i \in 1 .. n : marks[i] \in Buffers
  BY WatchAssumption
<1> HIDE DEF none, n, Set
<1>1. T = {}
  <2>1. SUFFICES ASSUME T # {} PROVE FALSE
    OBVIOUS
  <2>2. PICK m \in T : \A k \in T : m <= k
    <3>1. T \in SUBSET Nat
      OBVIOUS
    <3> HIDE DEF T
    <3> QED
      BY <2>1, <3>1, LeastNumber
  <2>3. m # 0
    <3>1. Sets([i \in 0 .. 0 |-> none], 0)
      OBVIOUS
    <3> QED
      BY <3>1
  <2>4. PICK p : Sets(p, m - 1)
    <3>1. m - 1 \in Nat
      BY <2>3
    <3>2. m - 1 \notin T
      <4>1. m \in Nat /\ ~(m <= m - 1)
        OBVIOUS
      <4> HIDE DEF T
      <4> QED
        BY <2>2, <4>1
    <3> QED
      BY <3>1, <3>2
  <2>5. Sets([i \in 0 .. m |-> IF i < m THEN p[i] ELSE Set(p[m - 1], m)], m)
    BY <2>3, <2>4
  <2> QED
    BY <2>5
<1>2. PICK p : Sets(p, n) /\ e = p[n]
  <2>1. \E q : Sets(q, n)
    BY <1>0, <1>1
  <2>2. Sets(CHOOSE q : Sets(q, n), n)
    BY <2>1
  <2>3. e = (CHOOSE q : Sets(q, n))[n]
    BY DEF Rebuilt, none, n, Set, Merged
  <2> QED
    BY <2>2, <2>3
<1>3. p[0] = none
  BY <1>0, <1>2
<1>4. \A i \in 1 .. n : p[i] = Set(p[i - 1], i)
  BY <1>0, <1>2
<1> DEFINE Good(c) == Fine(c) /\ c.disabled = d.disabled
           Bad == {i \in 0 .. n : ~Good(p[i])}
<1>5. Good(p[0])
  BY <1>3, KeepRangesFacts DEF none
<1>6. Bad = {}
  <2>1. SUFFICES ASSUME Bad # {} PROVE FALSE
    OBVIOUS
  <2>2. Bad \in SUBSET Nat
    BY <1>0
  <2>3. PICK i \in Bad : \A j \in Bad : i <= j
    <3> HIDE DEF Bad
    <3> QED
      BY <2>1, <2>2, LeastNumber
  <2>4. i \in 1 .. n /\ i - 1 \in 0 .. n /\ i - 1 \notin Bad
    BY <1>0, <1>5, <2>2, <2>3
  <2>5. Good(p[i - 1])
    BY <2>4
  <2>6. /\ marks[i].start \in Addr /\ marks[i].length \in Addr
        /\ Buffer(marks[i].start, marks[i].length) \subseteq Addr
    BY <1>0, <2>4 DEF Buffers
  <2>7. p[i] = Merged(p[i - 1], marks[i].start, marks[i].length)
    BY <1>4, <2>4 DEF Set
  <2>8. Good(p[i])
    BY <2>5, <2>6, <2>7, SetRangeFacts
  <2> QED
    BY <2>3, <2>8
<1> HIDE DEF Sets
<1> QED
  BY <1>0, <1>2, <1>6

LEMMA ResetOriginFacts ==
  ASSUME NEW d, Fine(d), cycle \in 0 .. MaxCycle, NEW e \in resetOrigin(d)
  PROVE  Fine(e) /\ e.disabled = d.disabled
BY RebuiltFacts DEF resetOrigin

LEMMA StopTrackingFacts ==
  ASSUME NEW d, Fine(d), NEW e, e = stopTracking(d)
  PROVE  Fine(e) /\ e.disabled = d.disabled /\ e.left \subseteq d.left /\ e.ranges = d.ranges
         /\ (~d.disabled => e.stopped)
<1> DEFINE c == stopWatch(d)
<1>1. /\ Fine(c) /\ c.disabled = d.disabled /\ c.left \subseteq d.left /\ c.ranges = d.ranges
      /\ ~d.disabled => c.stopped
  BY StopWatchFacts
<1>2. e = [c EXCEPT !.retrack = FALSE]
  BY DEF stopTracking
<1> HIDE DEF c
<1>3. /\ e \in DW /\ e.disabled = c.disabled /\ e.ranges = c.ranges /\ e.left = c.left
      /\ e.read_hap = c.read_hap /\ e.stopped = c.stopped /\ e.alone = c.alone
  BY <1>1, <1>2 DEF Fine, Shaped, DW
<1>4. Shaped(e) /\ Parallel(e) /\ Live(e) = Live(c)
  BY <1>1, <1>3, SameListsFacts DEF Fine
<1> QED
  BY <1>1, <1>3, <1>4 DEF Fine, Hooked

\* What a read call leaves, and what comes of it when the watch is renewed.
LEMMA ReceivedFacts ==
  ASSUME IInv, ~dw.disabled, NEW b \in Buffers
  PROVE  /\ \A e \in Received(b.start, b.length) : Fine(e) /\ e.disabled = dw.disabled
         /\ Watched(dw) \cup Buffer(b.start, b.length - 1)
               \subseteq HookedBytes(Renewed(Filled(b.start, b.length)))
<1> DEFINE w == Renewed(dw)
           d == Filled(b.start, b.length)
           r == Renewed(d)
<1>1. /\ b.start \in Addr /\ b.length \in Addr /\ Buffer(b.start, b.length) \subseteq Addr
      /\ cycle \in 0 .. MaxCycle /\ Fine(dw)
  BY DEF Buffers, IInv, TypeOK
<1>2. \A e \in Received(b.start, b.length) : e = w \/ e = d \/ e = r
  BY DEF Received
<1>3. d = Merged(w, b.start, b.length)
  BY DEF Filled, Merged
<1>4. Fine(w) /\ w.disabled = dw.disabled /\ w.ranges = dw.ranges
  BY <1>1, RenewedFacts
<1> HIDE DEF w
<1>5. Watched(w) = Watched(dw)
  BY <1>4 DEF Watched, Live
<1> HIDE DEF d
<1>6. /\ Fine(d) /\ d.disabled = dw.disabled /\ Watched(dw) \subseteq Watched(d)
      /\ Buffer(b.start, b.length - 1) \subseteq Watched(d)
  BY <1>1, <1>3, <1>4, <1>5, SetRangeFacts
<1>7. Fine(r) /\ r.disabled = d.disabled /\ Watched(d) \subseteq HookedBytes(r)
  BY <1>6, RenewedFacts
<1> HIDE DEF r
<1>8. Watched(dw) \cup Buffer(b.start, b.length - 1) \subseteq HookedBytes(r)
  BY <1>6, <1>7
<1> QED
  BY <1>2, <1>4, <1>6, <1>7, <1>8 DEF d, r

LEMMA OverwriteReturnFacts ==
  ASSUME NEW d, Fine(d), NEW fun, NEW dest \in Addr, NEW length \in Addr,
         cycle \in 0 .. MaxCycle, NEW e \in OverwriteReturn(d, fun, dest, length)
  PROVE  Fine(e) /\ e.disabled = d.disabled
<1> DEFINE i == findRangeIndex(d, dest)
<1>1. CASE e = d
  BY <1>1
<1>2. CASE i # None /\ e = DropOverwritten(d, i)
  <2>1. i \in DOMAIN d.ranges
    BY <1>2, FindRangeFacts DEF Fine, Live
  <2> HIDE DEF i
  <2> QED
    BY <1>2, <2>1, DropOverwrittenFacts DEF Fine, SameFlags
<1>3. CASE e \in rmSubRange(d, dest, length)
  BY <1>3, RmSubRangeFacts
<1> QED
  BY <1>1, <1>2, <1>3 DEF OverwriteReturn

-----------------------------------------------------------------------------
(* What a hit may leave.                                                   *)

LEMMA HitFacts ==
  ASSUME IInv, NEW h \in Hits
  PROVE  h.addr \in Addr /\ h.size \in Addr /\ h.range \in DOMAIN dw.ranges
<1>1. PICK b \in Buffers : h \in [range : Accessed(b), addr : {b.start}, size : {b.length}]
  BY DEF Hits
<1>2. Accessed(b) \subseteq DOMAIN dw.ranges
  <2>1. \/ findRangeIndex(dw, b.start) = None
        \/ findRangeIndex(dw, b.start) \in Live(dw)
    BY FindRangeFacts DEF IInv, Fine
  <2> QED
    BY <2>1 DEF Accessed, Live
<1> QED
  BY <1>1, <1>2 DEF Buffers

\* The ranges that an access touches, and their bytes.
Touched(h) == {j \in Live(dw) : Bytes(dw.ranges[j]) \cap Buffer(h.addr, h.size) # {}}

Near(h) == UNION {Bytes(dw.ranges[j]) : j \in Touched(h)}

\* d's ranges are those of the DataWatch, or some of them, and those that are gone were near.
Thinned(d, h) ==
    /\ Fine(d) /\ d.disabled = dw.disabled /\ Len(d.ranges) = Len(dw.ranges)
    /\ \A k \in Live(d) : k \in Live(dw) /\ d.ranges[k] = dw.ranges[k]
    /\ Kept(dw, d, Near(h))

LEMMA AddrTouches ==
  ASSUME NEW addr \in Addr, NEW size \in Addr
  PROVE  addr \in Buffer(addr, size)
BY WatchAssumption DEF Addr, Buffer

\* rmRange takes only what the access touches.
LEMMA RmRangeThins ==
  ASSUME IInv, NEW h \in Hits, NEW d, Thinned(d, h), NEW e, e = rmRange(d, h.addr)
  PROVE  Thinned(e, h)
<1> DEFINE i == findRangeIndex(d, h.addr)
<1>1. i = None \/ (i # None /\ i \in Live(d) /\ h.addr \in Bytes(d.ranges[i]))
  BY FindRangeFacts DEF Thinned, Fine
<1>2. CASE i = None
  BY <1>2 DEF rmRange
<1>3. CASE i # None
  <2>1. h.addr \in Buffer(h.addr, h.size)
    BY HitFacts, AddrTouches
  <2>2. i \in Live(dw) /\ d.ranges[i] = dw.ranges[i] /\ h.addr \in Bytes(d.ranges[i])
    BY <1>1, <1>3 DEF Thinned
  <2> HIDE DEF i
  <2>3. i \in Touched(h)
    BY <2>1, <2>2 DEF Touched
  <2>4. h.addr \in Near(h)
    BY <2>2, <2>3 DEF Near
  <2>5. /\ Fine(e) /\ e.disabled = d.disabled /\ Len(e.ranges) = Len(d.ranges)
        /\ \A k \in Live(e) : k \in Live(d) /\ e.ranges[k] = d.ranges[k]
        /\ Kept(d, e, Near(h))
    BY <2>4, RmRangeFacts DEF Thinned
  <2>6. Kept(dw, e, Near(h))
    BY <2>5, KeptTransitive DEF Thinned
  <2> QED
    BY <2>5, <2>6 DEF Thinned
<1> QED
  BY <1>2, <1>3

LEMMA SeenFacts ==
  ASSUME IInv, NEW h \in Hits, NEW d \in Seen(h)
  PROVE  Thinned(d, h)
<1>1. Thinned(dw, h)
  BY DEF Thinned, Kept, IInv
<1>2. d = dw \/ d = rmRange(dw, h.addr)
  BY DEF Seen, CheapReuse
<1> QED
  BY <1>1, <1>2, RmRangeThins

\* The range of the hit is dropped, if it is still there.
LEMMA DropHitKeeps ==
  ASSUME IInv, NEW h \in Hits, NEW d, Thinned(d, h), NEW e, e = Drop(d, h.range)
  PROVE  /\ Fine(e) /\ e.disabled = dw.disabled
         /\ h.range \in Touched(h) => Kept(dw, e, Near(h))
<1>1. h.range \in DOMAIN d.ranges
  <2>1. h.range \in DOMAIN dw.ranges /\ d \in DW /\ dw \in DW
    BY HitFacts DEF IInv, Thinned, Fine, Shaped
  <2> QED
    BY <2>1, DWFacts DEF Thinned
<1>2. /\ Fine(e) /\ e.disabled = d.disabled
      /\ \A k \in Live(d) \ {h.range} : k \in Live(e) /\ e.ranges[k] = d.ranges[k]
  BY <1>1, DropKept DEF Thinned
<1>3. ASSUME h.range \in Touched(h) PROVE Kept(d, e, Near(h))
  <2>1. Bytes(dw.ranges[h.range]) \cap Near(h) # {}
    BY <1>3 DEF Touched, Near
  <2>2. h.range \in Live(d) => Bytes(d.ranges[h.range]) \cap Near(h) # {}
    BY <2>1 DEF Thinned
  <2> QED
    BY <1>2, <2>2 DEF Kept
<1> QED
  BY <1>2, <1>3, KeptTransitive DEF Thinned

\* A part of what is near the hit is no longer watched.
LEMMA RmSubRangeKeeps ==
  ASSUME IInv, NEW h \in Hits, NEW d, Thinned(d, h), NEW addr \in Addr, NEW size \in Addr,
         NEW e \in rmSubRange(d, addr, size)
  PROVE  /\ Fine(e) /\ e.disabled = dw.disabled
         /\ Buffer(addr, size) \subseteq Near(h) \/ (addr = h.addr /\ size = h.size)
            => Kept(dw, e, Near(h))
<1>1. cycle \in 0 .. MaxCycle
  BY DEF IInv, TypeOK
<1>2. /\ Fine(e) /\ e.disabled = d.disabled
      /\ (\A i \in Live(d) : Bytes(d.ranges[i]) \cap Buffer(addr, size) # {}
                               => Bytes(d.ranges[i]) \cap Near(h) # {})
         => Kept(d, e, Near(h))
  BY <1>1, RmSubRangeFacts DEF Thinned
<1>3. ASSUME Buffer(addr, size) \subseteq Near(h) \/ (addr = h.addr /\ size = h.size),
             NEW i \in Live(d), Bytes(d.ranges[i]) \cap Buffer(addr, size) # {}
      PROVE  Bytes(d.ranges[i]) \cap Near(h) # {}
  <2>1. CASE Buffer(addr, size) \subseteq Near(h)
    BY <1>3, <2>1
  <2>2. CASE addr = h.addr /\ size = h.size
    <3>1. i \in Live(dw) /\ d.ranges[i] = dw.ranges[i]
      BY DEF Thinned
    <3>2. i \in Touched(h)
      BY <1>3, <2>2, <3>1 DEF Touched
    <3>3. Bytes(d.ranges[i]) \subseteq Near(h)
      BY <3>1, <3>2 DEF Near
    <3> QED
      BY <1>3, <3>3
  <2> QED
    BY <1>3, <2>1, <2>2
<1> QED
  BY <1>2, <1>3, KeptTransitive DEF Thinned

LEMMA TakenFacts ==
  ASSUME IInv, NEW h \in Hits, NEW e \in Taken(h)
  PROVE  /\ Fine(e) /\ e.disabled = dw.disabled
         /\ h.range \in Touched(h) => Kept(dw, e, Near(h))
<1>1. PICK d \in Seen(h) :
         e \in Overwritten(d, h.range, h.addr, h.size) \cup {rmRange(d, h.addr)}
  BY DEF Taken
<1>2. Thinned(d, h)
  BY SeenFacts
<1>3. e = d \/ e = Drop(d, h.range) \/ e = rmRange(d, h.addr)
  BY <1>1 DEF Overwritten
<1>4. e = d \/ e = rmRange(d, h.addr) => Thinned(e, h)
  BY <1>2, RmRangeThins
<1> QED
  BY <1>2, <1>3, <1>4, DropHitKeeps DEF Thinned

\* A write keeps the lists in order, and takes away only what it is near.
LEMMA WrittenFacts ==
  ASSUME IInv, NEW h \in Hits, NEW e \in Written(h)
  PROVE  /\ Fine(e) /\ e.disabled = dw.disabled
         /\ h.range \in Touched(h) => Kept(dw, e, Near(h))
<1>1. CASE e \in Taken(h)
  BY <1>1, TakenFacts
<1>2. CASE e \notin Taken(h)
  <2>1. PICK d \in StillWatching(h) : e \in Change(d, h.range, h.addr, h.size)
    BY <1>2 DEF Written
  <2>2. Thinned(d, h) /\ d.ranges[h.range].start # None
    BY SeenFacts DEF StillWatching, Watching
  <2>3. h.addr \in Addr /\ h.size \in Addr /\ h.range \in DOMAIN d.ranges
    <3>1. d \in DW /\ dw \in DW
      BY <2>2 DEF IInv, Thinned, Fine, Shaped
    <3> QED
      BY <2>2, <3>1, HitFacts, DWFacts DEF Thinned
  <2>4. CASE e = Drop(d, h.range)
    BY <2>2, <2>4, DropHitKeeps
  <2>5. CASE e = rmRange(d, h.addr)
    BY <2>2, <2>5, RmRangeThins DEF Thinned
  <2>6. CASE e \in rmSubRange(d, d.ranges[h.range].start, d.ranges[h.range].length)
    <3> DEFINE r == d.ranges[h.range]
    <3>1. h.range \in Live(d)
      BY <2>2, <2>3 DEF Live
    <3>2. r.start \in Addr /\ r.length \in Addr /\ Bytes(r) = Buffer(r.start, r.length)
      BY <2>2, <3>1, LiveFacts DEF Thinned, Fine
    <3>3. r = dw.ranges[h.range]
      BY <2>2, <3>1 DEF Thinned
    <3> HIDE DEF r
    <3>4. h.range \in Touched(h) => Buffer(r.start, r.length) \subseteq Near(h)
      BY <3>2, <3>3 DEF Near
    <3>5. e \in rmSubRange(d, r.start, r.length)
      BY <2>6 DEF r
    <3> QED
      BY <2>2, <3>2, <3>4, <3>5, RmSubRangeKeeps
  <2>7. CASE e \in rmSubRange(d, h.addr, h.size)
    BY <2>2, <2>3, <2>7, RmSubRangeKeeps
  <2> QED
    BY <2>1, <2>4, <2>5, <2>6, <2>7 DEF Change
<1> QED
  BY <1>1, <1>2

LEMMA KernelReturnFacts ==
  ASSUME NEW d, Fine(d), NEW e,
         \/ e = [d EXCEPT !.callback = TRUE, !.kernel_return_hap = TRUE]
         \/ e = [d EXCEPT !.callback = FALSE, !.kernel_return_hap = FALSE]
         \/ e = [d EXCEPT !.callback = FALSE]
  PROVE  /\ Fine(e) /\ e.disabled = d.disabled /\ e.ranges = d.ranges /\ e.left = d.left
         /\ Live(e) = Live(d)
<1>1. /\ e \in DW /\ e.disabled = d.disabled /\ e.ranges = d.ranges /\ e.left = d.left
      /\ e.read_hap = d.read_hap /\ e.stopped = d.stopped /\ e.alone = d.alone
  BY DEF Fine, Shaped, DW
<1>2. Shaped(e) /\ Parallel(e) /\ Live(e) = Live(d)
  BY <1>1, SameListsFacts DEF Fine
<1> QED
  BY <1>1, <1>2 DEF Fine, Hooked

LEMMA KernelWrittenFacts ==
  ASSUME IInv, NEW h \in Hits, NEW e \in KernelWritten(h)
  PROVE  Fine(e) /\ e.disabled = dw.disabled
<1>1. CASE e \in Taken(h)
  BY <1>1, TakenFacts
<1>2. CASE e \notin Taken(h)
  <2>1. PICK c \in StillWatching(h) :
           e = kernelReturn(c) \/ e \in rmSubRange(kernelReturn(c), h.addr, h.size)
    BY <1>2 DEF KernelWritten
  <2>2. Thinned(c, h)
    BY SeenFacts DEF StillWatching
  <2> DEFINE d == kernelReturn(c)
  <2>3. Fine(d) /\ d.disabled = dw.disabled
    BY <2>2, KernelReturnFacts DEF Thinned, kernelReturn
  <2>4. h.addr \in Addr /\ h.size \in Addr /\ cycle \in 0 .. MaxCycle
    BY HitFacts DEF IInv, TypeOK
  <2>5. e = d \/ e \in rmSubRange(d, h.addr, h.size)
    BY <2>1
  <2> HIDE DEF d
  <2> QED
    BY <2>3, <2>4, <2>5, RmSubRangeFacts
<1> QED
  BY <1>1, <1>2

-----------------------------------------------------------------------------
(* Every action keeps the invariant.                                       *)

\* The lists in order and within their bounds, and a watch that is not disabled, are enough.
LEMMA StepKeeps ==
  ASSUME IInv, Fine(dw'), Len(dw'.ranges) <= MaxRanges, Cardinality(dw'.left) <= MaxLeft,
         tracking' \in BOOLEAN, tracking' => ~dw'.disabled,
         cycle' \in 0 .. MaxCycle, origin' \in 0 .. cycle'
  PROVE  IInv'
<1>1. Watched(dw') \subseteq Addr
  BY DEF Fine, Shaped, Watched
<1>2. /\ dw' \in DW /\ Len(dw'.read_hap) >= Len(dw'.ranges)
      /\ dw'.left \subseteq DOMAIN dw'.read_hap
  BY DEF Fine, Shaped, Parallel
<1> QED
  BY <1>1, <1>2 DEF IInv, TypeOK

\* Where fewer haps are left behind and the ranges stay as many, the bounds hold as before.
LEMMA BoundsKept ==
  ASSUME IInv, NEW e, e.ranges = dw.ranges, e.left \subseteq dw.left
  PROVE  Len(e.ranges) <= MaxRanges /\ Cardinality(e.left) <= MaxLeft
<1>1. dw \in DW /\ dw.left \subseteq 1 .. Len(dw.read_hap) /\ Len(dw.read_hap) \in Nat
  BY DWFacts DEF IInv, TypeOK
<1>2. IsFiniteSet(1 .. Len(dw.read_hap))
  BY <1>1, FS_Interval
<1>3. IsFiniteSet(dw.left)
  BY <1>1, <1>2, FS_Subset
<1>4. Cardinality(e.left) <= Cardinality(dw.left) /\ Cardinality(e.left) \in Nat
      /\ Cardinality(dw.left) \in Nat
  BY <1>3, FS_Subset, FS_CardinalityType
<1> QED
  BY <1>4, WatchAssumption DEF IInv, TypeOK

\* What an access, a return or a call makes of the ranges, while nothing else changes.
LEMMA AccessKeeps ==
  ASSUME IInv, NEW S, Becomes(S), \A e \in S : Fine(e) /\ e.disabled = dw.disabled,
         UNCHANGED <<tracking, cycle, origin>>
  PROVE  IInv'
<1>1. Fine(dw') /\ dw'.disabled = dw.disabled
  BY DEF Becomes
<1>2. Len(dw'.ranges) <= MaxRanges /\ Cardinality(dw'.left) <= MaxLeft
  BY DEF Becomes
<1>3. cycle' \in 0 .. MaxCycle /\ origin' \in 0 .. cycle'
  BY DEF IInv, TypeOK
<1>4. tracking' \in BOOLEAN /\ (tracking' => ~dw'.disabled)
  BY <1>1 DEF IInv, TypeOK
<1> QED
  BY <1>1, <1>2, <1>3, <1>4, StepKeeps

\* Other haps, or other flags, for the same ranges.
LEMMA QuietKeeps ==
  ASSUME IInv, Fine(dw'), dw'.disabled = dw.disabled, dw'.ranges = dw.ranges,
         dw'.left = dw.left, UNCHANGED <<tracking, cycle, origin>>
  PROVE  IInv'
<1>1. Len(dw'.ranges) <= MaxRanges /\ Cardinality(dw'.left) <= MaxLeft
  BY BoundsKept
<1>2. cycle' \in 0 .. MaxCycle /\ origin' \in 0 .. cycle'
  BY DEF IInv, TypeOK
<1>3. tracking' \in BOOLEAN /\ (tracking' => ~dw'.disabled)
  BY DEF IInv, TypeOK
<1> QED
  BY <1>1, <1>2, <1>3, StepKeeps

LEMMA UserWriteKeeps ==
  ASSUME IInv, UserWrite
  PROVE  IInv'
<1> DEFINE S == UNION {Written(h) : h \in Hits}
<1>1. \A e \in S : Fine(e) /\ e.disabled = dw.disabled
  BY WrittenFacts
<1>2. Becomes(S) /\ UNCHANGED <<tracking, cycle, origin>>
  BY DEF UserWrite
<1> HIDE DEF S
<1> QED
  BY <1>1, <1>2, AccessKeeps

LEMMA KernelWriteKeeps ==
  ASSUME IInv, KernelWrite
  PROVE  IInv'
<1> DEFINE S == UNION {KernelWritten(h) : h \in Hits}
<1>1. \A e \in S : Fine(e) /\ e.disabled = dw.disabled
  BY KernelWrittenFacts
<1>2. Becomes(S) /\ UNCHANGED <<tracking, cycle, origin>>
  BY DEF KernelWrite
<1> HIDE DEF S
<1> QED
  BY <1>1, <1>2, AccessKeeps

LEMMA UserReadKeeps ==
  ASSUME IInv, UserRead
  PROVE  IInv'
<1> DEFINE S == {Drop(dw, h.range) : h \in {g \in Hits : g.size = 1 /\ Watching(dw, g.range)}}
<1>1. \A e \in S : Fine(e) /\ e.disabled = dw.disabled
  BY HitFacts, DropKept DEF IInv
<1>2. Becomes(S) /\ UNCHANGED <<tracking, cycle, origin>>
  BY DEF UserRead
<1> HIDE DEF S
<1> QED
  BY <1>1, <1>2, AccessKeeps

LEMMA KernelReadKeeps ==
  ASSUME IInv, KernelRead
  PROVE  IInv'
<1> DEFINE S == IF dw.callback THEN UNION {rmSubRange(dw, h.addr, h.size) : h \in Hits}
                ELSE {kernelReturn(dw) : h \in {g \in Hits : Watching(dw, g.range)}}
<1>1. Fine(dw) /\ cycle \in 0 .. MaxCycle
  BY DEF IInv, TypeOK
<1>2. ASSUME NEW e \in S PROVE Fine(e) /\ e.disabled = dw.disabled
  <2>1. CASE e = kernelReturn(dw)
    BY <1>1, <2>1, KernelReturnFacts DEF kernelReturn
  <2>2. CASE \E h \in Hits : e \in rmSubRange(dw, h.addr, h.size)
    <3>1. PICK h \in Hits : e \in rmSubRange(dw, h.addr, h.size)
      BY <2>2
    <3>2. h.addr \in Addr /\ h.size \in Addr
      BY HitFacts
    <3> QED
      BY <1>1, <3>1, <3>2, RmSubRangeFacts
  <2> QED
    BY <2>1, <2>2
<1>3. Becomes(S) /\ UNCHANGED <<tracking, cycle, origin>>
  BY DEF KernelRead
<1> HIDE DEF S
<1> QED
  BY <1>2, <1>3, AccessKeeps

LEMMA EnoughHitsKeeps ==
  ASSUME IInv, EnoughHits
  PROVE  IInv'
<1> DEFINE stopped == stopWatch(dw)
           S == {KeepRanges(stopped, 0), stopped}
<1>1. Fine(stopped) /\ stopped.disabled = dw.disabled
  BY StopWatchFacts DEF IInv
<1>2. Becomes(S) /\ UNCHANGED <<tracking, cycle, origin>>
  BY DEF EnoughHits
<1> HIDE DEF stopped
<1>3. \A e \in S : Fine(e) /\ e.disabled = dw.disabled
  BY <1>1, KeepRangesFacts
<1> HIDE DEF S
<1> QED
  BY <1>2, <1>3, AccessKeeps

LEMMA AdHocCopyKeeps ==
  ASSUME IInv, AdHocCopy
  PROVE  IInv'
<1> DEFINE read == {h \in Hits : Watching(dw, h.range)}
           dests == UNION {{b \in Buffers : b.length = h.size /\ b.start # h.addr} : h \in read}
           S == {Merged(dw, b.start, b.length) : b \in dests}
<1>1. Becomes(S) /\ UNCHANGED <<tracking, cycle, origin>>
  BY DEF AdHocCopy, Merged
<1>2. Fine(dw) /\ cycle \in 0 .. MaxCycle
  BY DEF IInv, TypeOK
<1>3. dests \subseteq Buffers
  OBVIOUS
<1> HIDE DEF dests
<1>4. \A e \in S : Fine(e) /\ e.disabled = dw.disabled
  BY <1>2, <1>3, SetRangeFacts DEF Buffers
<1> HIDE DEF S
<1> QED
  BY <1>1, <1>4, AccessKeeps

LEMMA RunAloneKeeps ==
  ASSUME IInv, RunAlone
  PROVE  IInv'
<1> DEFINE d == [dw EXCEPT !.alone = FALSE]
<1>1. dw' = setBreakRange(d) /\ UNCHANGED <<tracking, cycle, origin>>
  BY DEF RunAlone
<1>2. Fine(dw) /\ dw \in DW
  BY DEF IInv, TypeOK
<1>3. /\ d \in DW /\ d.disabled = dw.disabled /\ d.ranges = dw.ranges /\ d.left = dw.left
      /\ d.read_hap = dw.read_hap
  BY <1>2 DEF DW
<1> HIDE DEF d
<1>4. Shaped(d)
  BY <1>2, <1>3, SameListsFacts DEF Fine
<1>5. Fine(dw') /\ dw'.disabled = dw.disabled /\ dw'.ranges = dw.ranges /\ dw'.left = dw.left
  BY <1>1, <1>3, <1>4, SetBreakFacts DEF SameFlags
<1> QED
  BY <1>1, <1>5, QuietKeeps

LEMMA KernelReturnHapKeeps ==
  ASSUME IInv, kernelReturnHap
  PROVE  IInv'
<1> DEFINE b == [dw EXCEPT !.callback = FALSE]
           d == [dw EXCEPT !.callback = FALSE, !.kernel_return_hap = FALSE]
<1>1. dw' \in {b, watch(d, FALSE)} /\ UNCHANGED <<tracking, cycle, origin>>
  BY DEF kernelReturnHap
<1>2. Fine(dw)
  BY DEF IInv
<1>3. /\ Fine(b) /\ b.disabled = dw.disabled /\ b.ranges = dw.ranges /\ b.left = dw.left
      /\ Fine(d) /\ d.disabled = dw.disabled /\ d.ranges = dw.ranges /\ d.left = dw.left
  BY <1>2, KernelReturnFacts
<1> HIDE DEF b, d
<1>4. Fine(dw') /\ dw'.disabled = dw.disabled /\ dw'.ranges = dw.ranges /\ dw'.left = dw.left
  <2>1. CASE dw' = b
    BY <1>3, <2>1
  <2>2. CASE dw' = watch(d, FALSE)
    BY <1>3, <2>2, WatchFacts
  <2> QED
    BY <1>1, <2>1, <2>2
<1> QED
  BY <1>1, <1>4, QuietKeeps

LEMMA ReturnHapKeeps ==
  ASSUME IInv, NEW fun, returnHap(fun)
  PROVE  IInv'
<1> DEFINE After(b) == IF fun = "copy" THEN {Merged(dw, b.start, b.length)}
                       ELSE OverwriteReturn(dw, fun, b.start, b.length)
           S == UNION {After(b) : b \in Buffers}
<1>1. Becomes(S) /\ UNCHANGED <<tracking, cycle, origin>>
  BY DEF returnHap, Merged
<1>2. Fine(dw) /\ cycle \in 0 .. MaxCycle
  BY DEF IInv, TypeOK
<1>3. ASSUME NEW b \in Buffers, NEW e \in After(b) PROVE Fine(e) /\ e.disabled = dw.disabled
  <2>1. b.start \in Addr /\ b.length \in Addr /\ Buffer(b.start, b.length) \subseteq Addr
    BY DEF Buffers
  <2> QED
    BY <1>2, <2>1, SetRangeFacts, OverwriteReturnFacts
<1>4. \A e \in S : Fine(e) /\ e.disabled = dw.disabled
  BY <1>3
<1> HIDE DEF S
<1> QED
  BY <1>1, <1>4, AccessKeeps

LEMMA ReceiveKeeps ==
  ASSUME IInv, Receive
  PROVE  IInv'
<1> DEFINE S == UNION {Received(b.start, b.length) : b \in Buffers}
<1>1. Becomes(S) /\ UNCHANGED <<tracking, cycle, origin>> /\ tracking
  BY DEF Receive
<1>2. \A e \in S : Fine(e) /\ e.disabled = dw.disabled
  BY <1>1, ReceivedFacts DEF IInv
<1> HIDE DEF S
<1> QED
  BY <1>1, <1>2, AccessKeeps

LEMMA MmapKeeps ==
  ASSUME IInv, NEW addr \in Addr, mmap(addr)
  PROVE  IInv'
<1> DEFINE i == findRangeIndex(dw, addr)
           length == dw.ranges[i].length
           d == rmRange(dw, addr)
           S == {Merged(d, addr, length)}
<1>1. /\ Becomes(S) /\ UNCHANGED <<tracking, cycle, origin>>
      /\ i # None /\ addr + length - 1 <= MaxAddr
  BY DEF mmap, Merged
<1>2. Fine(dw) /\ cycle \in 0 .. MaxCycle
  BY DEF IInv, TypeOK
<1>3. Fine(d) /\ d.disabled = dw.disabled
  BY <1>2, RmRangeFacts
<1> HIDE DEF d
<1>4. i \in Live(dw)
  BY <1>1, <1>2, FindRangeFacts DEF Fine
<1>5. length \in Addr /\ length >= 1 /\ length \in Int
  <2> HIDE DEF i
  <2> QED
    BY <1>2, <1>4, LiveFacts DEF Fine
<1> HIDE DEF length
<1>6. addr \in Int /\ addr >= 1
  BY WatchAssumption DEF Addr
<1>7. Buffer(addr, length) \subseteq Addr
  BY <1>1, <1>5, <1>6, BufferWithin
<1>8. \A e \in S : Fine(e) /\ e.disabled = dw.disabled
  BY <1>2, <1>3, <1>5, <1>7, SetRangeFacts
<1> HIDE DEF S
<1> QED
  BY <1>1, <1>8, AccessKeeps

LEMMA TrackIOKeeps ==
  ASSUME IInv, trackIO
  PROVE  IInv'
<1> DEFINE s == stopTracking(dw)
           c == clearWatches(s, cycle)
           w == watch(c, FALSE)
           e == [w EXCEPT !.disabled = FALSE]
<1>1. Becomes({e}) /\ tracking' = TRUE /\ UNCHANGED <<cycle, origin>>
  BY DEF trackIO
<1>2. Fine(s)
  BY StopTrackingFacts DEF IInv
<1> HIDE DEF s
<1>3. Fine(c)
  BY <1>2, ClearFacts
<1> HIDE DEF c
<1>4. Fine(w)
  BY <1>3, WatchFacts
<1> HIDE DEF w
<1>5. /\ e \in DW /\ ~e.disabled /\ e.ranges = w.ranges /\ e.left = w.left
      /\ e.read_hap = w.read_hap /\ e.stopped = w.stopped /\ e.alone = w.alone
  BY <1>4 DEF Fine, Shaped, DW
<1> HIDE DEF e
<1>6. Shaped(e) /\ Parallel(e) /\ Live(e) = Live(w)
  BY <1>4, <1>5, SameListsFacts DEF Fine
<1>7. Fine(e)
  BY <1>4, <1>5, <1>6 DEF Fine, Hooked
<1>8. dw' = e /\ Len(dw'.ranges) <= MaxRanges /\ Cardinality(dw'.left) <= MaxLeft
  BY <1>1 DEF Becomes
<1>9. cycle' \in 0 .. MaxCycle /\ origin' \in 0 .. cycle'
  BY <1>1 DEF IInv, TypeOK
<1>10. tracking' \in BOOLEAN /\ (tracking' => ~dw'.disabled)
  BY <1>1, <1>5, <1>8
<1> QED
  BY <1>7, <1>8, <1>9, <1>10, StepKeeps

LEMMA StopTrackIOKeeps ==
  ASSUME IInv, stopTrackIO
  PROVE  IInv'
<1>1. dw' = stopTracking(dw) /\ tracking' = FALSE /\ UNCHANGED <<cycle, origin>>
  BY DEF stopTrackIO
<1>2. Fine(dw') /\ dw'.left \subseteq dw.left /\ dw'.ranges = dw.ranges
  BY <1>1, StopTrackingFacts DEF IInv
<1>3. Len(dw'.ranges) <= MaxRanges /\ Cardinality(dw'.left) <= MaxLeft
  BY <1>2, BoundsKept
<1>4. cycle' \in 0 .. MaxCycle /\ origin' \in 0 .. cycle'
  BY <1>1 DEF IInv, TypeOK
<1> QED
  BY <1>1, <1>2, <1>3, <1>4, StepKeeps

LEMMA RetrackKeeps ==
  ASSUME IInv, retrack
  PROVE  IInv'
<1> DEFINE s == stopWatch(dw)
           first == KeepRanges(s, 1)
           kept == IF cycle = origin THEN first ELSE clearWatches(dw, cycle - 1)
           w == watch(kept, FALSE)
           on == [w EXCEPT !.retrack = TRUE]
           e == IF cycle = origin /\ Live(first) = {} THEN first ELSE on
<1>1. Becomes({e}) /\ UNCHANGED <<tracking, cycle, origin>>
  BY DEF retrack
<1>2. Fine(s) /\ s.disabled = dw.disabled
  BY StopWatchFacts DEF IInv
<1> HIDE DEF s
<1>3. Fine(first) /\ first.disabled = dw.disabled
  BY <1>2, KeepRangesFacts
<1> HIDE DEF first
<1>4. Fine(kept) /\ kept.disabled = dw.disabled
  BY <1>3, ClearFacts DEF IInv
<1> HIDE DEF kept
<1>5. Fine(w) /\ w.disabled = dw.disabled
  BY <1>4, WatchFacts
<1> HIDE DEF w
<1>6. /\ on \in DW /\ on.disabled = w.disabled /\ on.ranges = w.ranges /\ on.left = w.left
      /\ on.read_hap = w.read_hap /\ on.stopped = w.stopped /\ on.alone = w.alone
  BY <1>5 DEF Fine, Shaped, DW
<1> HIDE DEF on
<1>7. Shaped(on) /\ Parallel(on) /\ Live(on) = Live(w)
  BY <1>5, <1>6, SameListsFacts DEF Fine
<1>8. Fine(on)
  BY <1>5, <1>6, <1>7 DEF Fine, Hooked
<1>9. Fine(e) /\ e.disabled = dw.disabled
  BY <1>3, <1>5, <1>6, <1>8
<1> DEFINE S == {e}
<1>10. \A f \in S : Fine(f) /\ f.disabled = dw.disabled
  BY <1>9
<1>11. Becomes(S)
  BY <1>1
<1> HIDE DEF S
<1> QED
  BY <1>1, <1>10, <1>11, AccessKeeps

LEMMA GoToDataMarkKeeps ==
  ASSUME IInv, NEW to \in 0 .. MaxCycle, goToDataMark(to)
  PROVE  IInv'
<1> DEFINE s == stopTracking(dw)
           e == [s EXCEPT !.disabled = TRUE]
<1>1. dw' = e /\ tracking' = FALSE /\ cycle' = to /\ origin' = origin /\ to \in origin .. cycle
  BY DEF goToDataMark
<1>2. Fine(s) /\ s.left \subseteq dw.left /\ s.ranges = dw.ranges
  BY StopTrackingFacts DEF IInv
<1> HIDE DEF s
<1>3. /\ e \in DW /\ e.disabled /\ e.ranges = s.ranges /\ e.left = s.left
      /\ e.read_hap = s.read_hap /\ e.stopped = s.stopped /\ e.alone = s.alone
  BY <1>2 DEF Fine, Shaped, DW
<1> HIDE DEF e
<1>4. Shaped(e) /\ Parallel(e) /\ Live(e) = Live(s)
  BY <1>2, <1>3, SameListsFacts DEF Fine
<1>5. Fine(e)
  BY <1>2, <1>3, <1>4 DEF Fine, Hooked
<1>6. Len(e.ranges) <= MaxRanges /\ Cardinality(e.left) <= MaxLeft
  BY <1>2, <1>3, BoundsKept
<1>7. cycle' \in 0 .. MaxCycle /\ origin' \in 0 .. cycle'
  BY <1>1 DEF IInv, TypeOK
<1> QED
  BY <1>1, <1>5, <1>6, <1>7, StepKeeps

LEMMA WriteBytesKeeps ==
  ASSUME IInv, writeBytes
  PROVE  IInv'
<1>1. Becomes(resetOrigin(dw)) /\ origin' = cycle /\ UNCHANGED <<tracking, cycle>>
  BY DEF writeBytes
<1>2. Fine(dw) /\ cycle \in 0 .. MaxCycle /\ origin \in 0 .. cycle
  BY DEF IInv, TypeOK
<1>3. /\ dw' \in resetOrigin(dw)
      /\ Len(dw'.ranges) <= MaxRanges /\ Cardinality(dw'.left) <= MaxLeft
  BY <1>1 DEF Becomes
<1>4. Fine(dw') /\ dw'.disabled = dw.disabled
  BY <1>2, <1>3, ResetOriginFacts
<1>5. cycle' \in 0 .. MaxCycle /\ origin' \in 0 .. cycle'
  BY <1>1, <1>2
<1>6. tracking' \in BOOLEAN /\ (tracking' => ~dw'.disabled)
  BY <1>1, <1>4 DEF IInv, TypeOK
<1> QED
  BY <1>3, <1>4, <1>5, <1>6, StepKeeps

LEMMA AddDataWatchKeeps ==
  ASSUME IInv, addDataWatch
  PROVE  IInv'
<1> DEFINE on == [dw EXCEPT !.disabled = FALSE]
           Set(d, b) == Merged(d, b.start, b.length)
           Done(c) == watch(setBreakRange(c), FALSE)
           S == {Done(Set(d, b)) : d \in resetOrigin(on), b \in Buffers}
<1>1. Becomes(S) /\ UNCHANGED <<tracking, cycle, origin>>
  BY DEF addDataWatch, Merged
<1>2. Fine(dw) /\ cycle \in 0 .. MaxCycle
  BY DEF IInv, TypeOK
<1>3. /\ on \in DW /\ ~on.disabled /\ on.ranges = dw.ranges /\ on.left = dw.left
      /\ on.read_hap = dw.read_hap /\ on.stopped = dw.stopped /\ on.alone = dw.alone
  BY <1>2 DEF Fine, Shaped, DW
<1> HIDE DEF on
<1>4. Shaped(on) /\ Parallel(on) /\ Live(on) = Live(dw)
  BY <1>2, <1>3, SameListsFacts DEF Fine
<1>5. Fine(on)
  BY <1>2, <1>3, <1>4 DEF Fine, Hooked
<1>6. ASSUME NEW e \in S PROVE Fine(e) /\ ~e.disabled
  <2>1. PICK d \in resetOrigin(on), b \in Buffers : e = Done(Set(d, b))
    <3> HIDE DEF Set, Done
    <3> QED
      BY <1>6
  <2> DEFINE m == Set(d, b)
             h == setBreakRange(m)
  <2>2. Fine(d) /\ d.disabled = on.disabled
    BY <1>2, <1>5, ResetOriginFacts
  <2>3. Fine(m) /\ m.disabled = d.disabled
    BY <1>2, <2>2, SetRangeFacts DEF Buffers
  <2> HIDE DEF m
  <2>4. Fine(h) /\ h.disabled = m.disabled
    BY <2>3, SetBreakFacts DEF Fine, SameFlags
  <2>5. e = watch(h, FALSE)
    BY <2>1 DEF m
  <2> HIDE DEF h
  <2>6. Fine(e) /\ e.disabled = h.disabled
    <3> HIDE DEF Done, Set, S
    <3> QED
      BY <2>4, <2>5, WatchFacts
  <2> QED
    BY <1>3, <2>2, <2>3, <2>4, <2>6
<1>7. dw' \in S /\ Len(dw'.ranges) <= MaxRanges /\ Cardinality(dw'.left) <= MaxLeft
  <2> HIDE DEF S
  <2> QED
    BY <1>1 DEF Becomes
<1>8. Fine(dw') /\ ~dw'.disabled
  <2> HIDE DEF S
  <2> QED
    BY <1>6, <1>7
<1>9. cycle' \in 0 .. MaxCycle /\ origin' \in 0 .. cycle'
  BY <1>1 DEF IInv, TypeOK
<1>10. tracking' \in BOOLEAN /\ (tracking' => ~dw'.disabled)
  BY <1>1, <1>8 DEF IInv, TypeOK
<1> QED
  BY <1>7, <1>8, <1>9, <1>10, StepKeeps

LEMMA TickKeeps ==
  ASSUME IInv, Tick
  PROVE  IInv'
<1>1. cycle' = cycle + 1 /\ cycle < MaxCycle /\ UNCHANGED <<dw, tracking, origin>>
  BY DEF Tick
<1>2. cycle' \in 0 .. MaxCycle /\ origin' \in 0 .. cycle'
  BY <1>1, WatchAssumption DEF IInv, TypeOK
<1>3. /\ Fine(dw') /\ Len(dw'.ranges) <= MaxRanges /\ Cardinality(dw'.left) <= MaxLeft
  BY <1>1 DEF IInv, TypeOK
<1>4. tracking' \in BOOLEAN /\ (tracking' => ~dw'.disabled)
  BY <1>1 DEF IInv, TypeOK
<1> QED
  BY <1>2, <1>3, <1>4, StepKeeps

-----------------------------------------------------------------------------
(* The theorems.                                                           *)

LEMMA InitHolds == Init => IInv
<1> SUFFICES ASSUME Init PROVE IInv
  OBVIOUS
<1>1. /\ dw \in DW /\ dw.ranges = <<>> /\ dw.read_hap = <<>> /\ dw.left = {}
  BY DEF Init, DW
<1>2. Len(dw.ranges) = 0 /\ Len(dw.read_hap) = 0 /\ Cardinality(dw.left) = 0
  BY <1>1, FS_EmptySet
<1>3. Live(dw) = {} /\ DOMAIN dw.read_hap = {}
  BY <1>1 DEF Live
<1>4. Fine(dw)
  BY <1>1, <1>2, <1>3 DEF Fine, Shaped, Matched, Parallel, Hooked
<1>5. Watched(dw) = {}
  BY <1>3 DEF Watched
<1>6. TypeOK
  <2>1. Len(dw.ranges) <= MaxRanges /\ Cardinality(dw.left) <= MaxLeft
    BY <1>2, WatchAssumption
  <2>2. cycle \in 0 .. MaxCycle /\ origin \in 0 .. cycle
    BY WatchAssumption DEF Init
  <2>3. tracking \in BOOLEAN
    BY DEF Init
  <2> QED
    BY <1>1, <1>2, <1>5, <2>1, <2>2, <2>3 DEF TypeOK
<1>7. ~tracking
  BY DEF Init
<1> QED
  BY <1>4, <1>6, <1>7 DEF IInv

LEMMA NextHolds == IInv /\ [Next]_vars => IInv'
<1> SUFFICES ASSUME IInv, [Next]_vars PROVE IInv'
  OBVIOUS
<1>1. CASE UNCHANGED vars
  BY <1>1 DEF vars, IInv, TypeOK, Watched, Live
<1>2. CASE UserWrite \/ KernelWrite \/ UserRead \/ KernelRead \/ EnoughHits
  BY <1>2, UserWriteKeeps, KernelWriteKeeps, UserReadKeeps, KernelReadKeeps, EnoughHitsKeeps
<1>3. CASE AdHocCopy \/ RunAlone \/ kernelReturnHap \/ Receive
  BY <1>3, AdHocCopyKeeps, RunAloneKeeps, KernelReturnHapKeeps, ReceiveKeeps
<1>4. CASE \E fun \in {"copy", "overwrite", "memset"} : returnHap(fun)
  BY <1>4, ReturnHapKeeps
<1>5. CASE \E addr \in Addr : mmap(addr)
  BY <1>5, MmapKeeps
<1>6. CASE \E to \in 0 .. MaxCycle : goToDataMark(to)
  BY <1>6, GoToDataMarkKeeps
<1>7. CASE writeBytes \/ addDataWatch \/ trackIO \/ stopTrackIO \/ retrack \/ Tick
  BY <1>7, WriteBytesKeeps, AddDataWatchKeeps, TrackIOKeeps, StopTrackIOKeeps, RetrackKeeps,
     TickKeeps
<1> QED
  BY <1>1, <1>2, <1>3, <1>4, <1>5, <1>6, <1>7 DEF Next

\* The invariant holds in every state of every run.
THEOREM Invariant == Spec => []IInv
<1>1. Init => IInv
  BY InitHolds
<1>2. IInv /\ [Next]_vars => IInv'
  BY NextHolds
<1> QED
  BY <1>1, <1>2, PTL DEF Spec

\* The lists of the DataWatch are what they are taken for: ranges lie within the memory, the list
\* of haps is never shorter than the list of ranges (setRange, resetIndexHap, clearWatches).
THEOREM TypeCorrect == Spec => []TypeOK
<1>1. IInv => TypeOK
  BY DEF IInv
<1> QED
  BY <1>1, Invariant, PTL

\* A hap that was not left behind watches exactly its range, whatever setRange has merged,
\* rmSubRange has split or clearWatches has taken back, and a removed range has none.
THEOREM HapsAlwaysMatch == Spec => []HapsMatch
<1>1. IInv => HapsMatch
  BY DEF IInv, Fine, Shaped, Matched, HapsMatch
<1> QED
  BY <1>1, Invariant, PTL

\* While data is watched no range is without a hap, unless setBreakRange is queued to set it
\* (watch, rmSubRange, kernelReturnHap).
THEOREM RangesAlwaysHooked == Spec => []RangesHooked
<1>1. IInv => RangesHooked
  BY DEF IInv, Fine, Hooked, RangesHooked
<1> QED
  BY <1>1, Invariant, PTL

\* While runToIO tracks, what a read call fills, but for its last byte at most, and what was watched
\* before, have breakpoints when the watch is renewed for the next one (checkCount, setRange).
THEOREM ReceivedIsRewatched == Spec => []ReceivedIsWatched
<1>1. IInv => ReceivedIsWatched
  BY ReceivedFacts DEF IInv, ReceivedIsWatched
<1> QED
  BY <1>1, Invariant, PTL

\* A write keeps every range that is not near the ranges it touches (readHap, cheapReuse,
\* rmSubRange).
THEOREM UntouchedAlwaysKept == Spec => []UntouchedKept
<1>1. IInv => UntouchedKept
  <2> SUFFICES ASSUME IInv, NEW h \in Hits, h.range \in Touched(h),
                      NEW d \in Written(h), NEW k \in Live(dw)
               PROVE  \/ k \in Live(d) /\ Bytes(d.ranges[k]) = Bytes(dw.ranges[k])
                      \/ Bytes(dw.ranges[k]) \cap Near(h) # {}
    BY DEF UntouchedKept, Touched, Near
  <2> QED
    BY WrittenFacts DEF Kept
<1> QED
  BY <1>1, Invariant, PTL
=============================================================================
