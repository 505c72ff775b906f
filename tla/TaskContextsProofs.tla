------------------------- MODULE TaskContextsProofs -------------------------
(***************************************************************************)
(* What TaskContexts keeps in every run, for every program of threads and  *)
(* forked processes: where trackThreads sees the execs, and no forked      *)
(* process has its watching suspended, contexts follow the watched         *)
(* threads, breaks wait for watched threads only, and nothing is raised.   *)
(***************************************************************************)
EXTENDS TaskContexts, SequenceTheorems, FiniteSetTheorems, WellFoundedInduction, TLAPS

-----------------------------------------------------------------------------
(* Lists and sets.                                                         *)

NoDup(s) == \A i, j \in 1 .. Len(s) : s[i] = s[j] => i = j

\* A set of numbers that is not empty has a least one.
LEMMA LeastNumber ==
  ASSUME NEW T \in SUBSET Nat, T # {}
  PROVE  \E m \in T : \A n \in T : m <= n
<1>1. PICK m \in T : \A n \in T : ~(<<n, m>> \in OpToRel(<, Nat))
  BY WFMin, NatLessThanWellFounded
<1>2. \A n \in T : ~(n < m)
  BY <1>1 DEF OpToRel
<1> QED
  BY <1>2

LEMMA SetOfList ==
  ASSUME NEW S, NEW s \in Seq(S)
  PROVE  /\ ToSet(s) = {s[i] : i \in 1 .. Len(s)} /\ ToSet(s) \subseteq S /\ Len(s) \in Nat
         /\ s = <<>> <=> ToSet(s) = {}
         /\ s # <<>> => Head(s) \in ToSet(s) /\ Tail(s) \in Seq(S)
                        /\ ToSet(s) = {Head(s)} \cup ToSet(Tail(s))
<1>1. DOMAIN s = 1 .. Len(s) /\ Len(s) \in Nat /\ \A i \in 1 .. Len(s) : s[i] \in S
  BY LenProperties, ElementOfSeq
<1>2. ToSet(s) = {s[i] : i \in 1 .. Len(s)} /\ ToSet(s) \subseteq S
  BY <1>1 DEF ToSet
<1>3. s = <<>> <=> ToSet(s) = {}
  <2>1. s = <<>> <=> Len(s) = 0
    BY EmptySeq
  <2>2. Len(s) # 0 => s[1] \in ToSet(s)
    BY <1>1, <1>2
  <2>3. Len(s) = 0 => 1 .. Len(s) = {}
    OBVIOUS
  <2> QED
    BY <1>1, <1>2, <2>1, <2>2, <2>3
<1>4. ASSUME s # <<>>
      PROVE  /\ Head(s) \in ToSet(s) /\ Tail(s) \in Seq(S)
             /\ ToSet(s) = {Head(s)} \cup ToSet(Tail(s))
  <2> DEFINE t == Tail(s)
             n == Len(s)
  <2>1. t \in Seq(S) /\ Len(t) = n - 1 /\ \A i \in 1 .. Len(t) : t[i] = s[i + 1]
    BY <1>4, HeadTailProperties
  <2>2. Head(s) = s[1] /\ n \in Nat /\ n # 0
    BY <1>1, <1>3, <1>4, EmptySeq
  <2>3. DOMAIN t = 1 .. (n - 1)
    BY <2>1, LenProperties
  <2> HIDE DEF t, n
  <2>4. ToSet(t) = {t[i] : i \in 1 .. (n - 1)}
    BY <2>3 DEF ToSet
  <2>5. ToSet(s) = {s[i] : i \in 1 .. n}
    BY <1>2 DEF n
  <2>6. \A i \in 1 .. n : i # 1 => i - 1 \in 1 .. (n - 1) /\ (i - 1) + 1 = i
    BY <2>2
  <2>7. \A i \in 1 .. n : i = 1 \/ (i - 1 \in 1 .. (n - 1) /\ s[i] = t[i - 1])
    BY <2>1, <2>2, <2>6
  <2>8. \A i \in 1 .. (n - 1) : i + 1 \in 1 .. n /\ t[i] = s[i + 1]
    BY <2>1, <2>2
  <2>9. ToSet(s) = {s[1]} \cup ToSet(t)
    BY <2>2, <2>4, <2>5, <2>7, <2>8
  <2> QED
    BY <2>1, <2>2, <2>9 DEF t
<1> QED
  BY <1>1, <1>2, <1>3, <1>4

LEMMA SetOfAppend ==
  ASSUME NEW S, NEW s \in Seq(S), NEW x \in S
  PROVE  /\ Append(s, x) \in Seq(S) /\ ToSet(Append(s, x)) = ToSet(s) \cup {x}
         /\ Len(Append(s, x)) = Len(s) + 1
         /\ NoDup(s) /\ x \notin ToSet(s) => NoDup(Append(s, x))
<1> DEFINE a == Append(s, x)
           n == Len(s)
<1>1. /\ a \in Seq(S) /\ Len(a) = n + 1 /\ n \in Nat
      /\ \A i \in 1 .. n : a[i] = s[i]
      /\ a[n + 1] = x
  BY AppendProperties
<1>2. ToSet(s) = {s[i] : i \in 1 .. n} /\ ToSet(a) = {a[i] : i \in 1 .. n + 1}
  BY <1>1 DEF ToSet
<1> HIDE DEF a
<1>3. ToSet(a) = ToSet(s) \cup {x}
  BY <1>1, <1>2
<1>4. ASSUME NoDup(s), x \notin ToSet(s) PROVE NoDup(a)
  <2> SUFFICES ASSUME NEW i \in 1 .. n + 1, NEW j \in 1 .. n + 1, a[i] = a[j] PROVE i = j
    BY <1>1 DEF NoDup
  <2>1. CASE i \in 1 .. n /\ j \in 1 .. n
    BY <1>1, <1>4, <2>1 DEF NoDup
  <2>2. CASE i = n + 1 \/ j = n + 1
    <3>1. \A m \in 1 .. n : a[m] \in ToSet(s)
      BY <1>1, <1>2
    <3>2. i \notin 1 .. n /\ j \notin 1 .. n
      BY <1>1, <1>4, <2>2, <3>1
    <3> QED
      BY <1>1, <3>2
  <2> QED
    BY <1>1, <2>1, <2>2
<1> QED
  BY <1>1, <1>3, <1>4 DEF a

\* In a list without duplicates the first occurrence is the only one.
LEMMA SetOfRemoveFirst ==
  ASSUME NEW S, NEW s \in Seq(S), NoDup(s), NEW x, NEW r, r = RemoveFirst(s, x)
  PROVE  r \in Seq(S) /\ NoDup(r) /\ ToSet(r) = ToSet(s) \ {x}
<1> DEFINE n == Len(s)
           I == {i \in 1 .. n : s[i] = x}
<1>1. n \in Nat /\ ToSet(s) = {s[i] : i \in 1 .. n}
  BY SetOfList
<1>2. CASE I = {}
  BY <1>1, <1>2 DEF RemoveFirst
<1>3. CASE I # {}
  <2>1. \E i \in I : \A j \in I : i <= j
    <3>1. I \in SUBSET Nat
      BY <1>1
    <3> HIDE DEF I
    <3> QED
      BY <1>3, <3>1, LeastNumber
  <2> DEFINE i == Min(I)
  <2>2. i \in I
    BY <2>1 DEF Min
  <2>3. r = RemoveAt(s, i)
    BY <1>3 DEF RemoveFirst, SelectInSeq
  <2> HIDE DEF i
  <2> DEFINE a == SubSeq(s, 1, i - 1)
             b == SubSeq(s, i + 1, n)
  <2>4. i \in 1 .. n /\ s[i] = x /\ r = a \o b
    BY <2>2, <2>3 DEF RemoveAt
  <2>5. a \in Seq(S) /\ Len(a) = i - 1 /\ \A j \in 1 .. (i - 1) : a[j] = s[j]
    BY <1>1, <2>4, SubSeqProperties
  <2>6. b \in Seq(S) /\ Len(b) = n - i /\ \A j \in 1 .. (n - i) : b[j] = s[i + j]
    <3>1. \A j \in i + 1 .. n : s[j] \in S
      BY <1>1, <2>4
    <3>2. i + 1 \in Int /\ n \in Int
      BY <1>1, <2>4
    <3> QED
      BY <1>1, <2>4, <3>1, <3>2, SubSeqProperties
  <2> HIDE DEF a, b, n, I
  <2>7. r \in Seq(S) /\ Len(r) = n - 1
    BY <1>1, <2>4, <2>5, <2>6, ConcatProperties DEF n
  <2>8. \A j \in 1 .. n - 1 : r[j] = IF j < i THEN s[j] ELSE s[j + 1]
    BY <1>1, <2>4, <2>5, <2>6, ConcatProperties
  <2>9. NoDup(r)
    BY <1>1, <2>4, <2>7, <2>8 DEF NoDup, n
  <2>10. \A j \in 1 .. n : j # i => s[j] # x
    BY <2>4 DEF NoDup, n
  <2>11. \A j \in 1 .. n : j # i => \E m \in 1 .. n - 1 : r[m] = s[j]
    <3> SUFFICES ASSUME NEW j \in 1 .. n, j # i PROVE \E m \in 1 .. n - 1 : r[m] = s[j]
      OBVIOUS
    <3>1. CASE j < i
      <4>1. j \in 1 .. n - 1
        BY <1>1, <2>4, <3>1
      <4> QED
        BY <2>8, <3>1, <4>1
    <3>2. CASE j > i
      <4>1. j - 1 \in 1 .. n - 1 /\ ~(j - 1 < i) /\ (j - 1) + 1 = j
        BY <1>1, <2>4, <3>2
      <4>2. r[j - 1] = s[(j - 1) + 1]
        BY <2>8, <4>1
      <4> QED
        BY <4>1, <4>2
    <3>3. j < i \/ j > i
      BY <1>1, <2>4
    <3> QED
      BY <3>1, <3>2, <3>3
  <2>12. \A m \in 1 .. n - 1 : \E j \in 1 .. n : j # i /\ r[m] = s[j]
    <3> SUFFICES ASSUME NEW m \in 1 .. n - 1 PROVE \E j \in 1 .. n : j # i /\ r[m] = s[j]
      OBVIOUS
    <3>1. CASE m < i
      <4>1. r[m] = s[m]
        BY <2>8, <3>1
      <4>2. m \in 1 .. n /\ m # i
        BY <1>1, <2>4, <3>1
      <4> QED
        BY <4>1, <4>2
    <3>2. CASE ~(m < i)
      <4>1. m + 1 \in 1 .. n /\ m + 1 # i
        BY <1>1, <2>4, <3>2
      <4>2. r[m] = s[m + 1]
        BY <2>8, <3>2
      <4> QED
        BY <4>1, <4>2
    <3> QED
      BY <3>1, <3>2
  <2>13. ToSet(r) = {r[m] : m \in 1 .. n - 1}
    BY <2>7, SetOfList
  <2>14. ToSet(s) = {s[j] : j \in 1 .. n}
    BY <1>1 DEF n
  <2>15. \A y \in ToSet(r) : y \in ToSet(s) /\ y # x
    BY <2>10, <2>12, <2>13, <2>14
  <2>16. \A y \in ToSet(s) : y = x \/ y \in ToSet(r)
    BY <2>4, <2>11, <2>13, <2>14
  <2>17. x \notin ToSet(r)
    BY <2>15
  <2> QED
    BY <2>7, <2>9, <2>15, <2>16, <2>17
<1> QED
  BY <1>2, <1>3

\* Every order of a finite set has all of it, and nothing twice.
LEMMA SetOfOrder ==
  ASSUME NEW S, IsFiniteSet(S), NEW s \in SetToSeqs(S)
  PROVE  s \in Seq(S) /\ ToSet(s) = S /\ NoDup(s)
<1> DEFINE n == Cardinality(S)
           D == 1 .. n
<1>1. n \in Nat /\ s \in [D -> S] /\ \A i, j \in D : i # j => s[i] # s[j]
  BY FS_CardinalityType DEF SetToSeqs
<1>2. s \in Seq(S) /\ Len(s) = n
  BY <1>1
<1>3. NoDup(s)
  BY <1>1, <1>2 DEF NoDup
<1>4. IsFiniteSet(D) /\ Cardinality(D) = n
  BY <1>1, FS_Interval
<1>5. s \in Injection(D, S)
  BY <1>1 DEF Injection, IsInjective
<1>6. s \in Surjection(D, S)
  BY <1>4, <1>5, FS_Injection
<1>7. \A x \in S : \E i \in D : s[i] = x
  BY <1>6 DEF Surjection
<1> QED
  BY <1>1, <1>2, <1>3, <1>7 DEF ToSet

-----------------------------------------------------------------------------
(* What the manager is made of.                                            *)

Numbers == {Number(t) : t \in Thread}
Id == Thread \cup Numbers
Status == {"absent", "set", "None"}

Manager ==
    [task_hap : BOOLEAN, watch : SUBSET Thread, saved : SUBSET Thread, cache : Seq(Id),
     dbg : Id \cup {None}, dbg_saved : Id \cup {None},
     context : {"default", "debug", "suspend"},
     bp : [Thread -> Status], hap : [Thread -> Status],
     demise : SUBSET Thread, susp : SUBSET Suspendable, pending : Seq(Numbers),
     clones : SUBSET Thread, exit_tid : Thread \cup {None}, queue : Seq(Queueable),
     raised : {None}]

Well(c) == c \in Manager /\ NoDup(c.cache)

KernelOK(kernel) ==
    /\ kernel \in Kernel
    /\ kernel.alive \cup kernel.exiting \cup kernel.execed \subseteq kernel.born
    /\ kernel.cur \in kernel.alive \cup {Other} \cup kernel.exiting

Entries(c) == ToSet(c.queue)
Calls(c) == {f.fn : f \in Entries(c)}

LEMMA IdFacts ==
  /\ None \notin Id /\ Other \notin Id /\ Numbers \cap Task = {} /\ Thread \subseteq Task
  /\ \A t \in Thread : Number(t) \in Numbers
BY TaskAssumption DEF Id, Numbers, Task

LEMMA CachedFacts ==
  ASSUME NEW c, Well(c), NEW t \in Id, NEW e, e = Cached(c, t)
  PROVE  /\ Well(e) /\ e = [c EXCEPT !.cache = e.cache]
         /\ ToSet(e.cache) = ToSet(c.cache) \cup {t}
<1>1. c.cache \in Seq(Id) /\ NoDup(c.cache) /\ c \in Manager
  BY DEF Well, Manager
<1>2. CASE InCache(c, t)
  <2>1. e = c
    BY <1>2 DEF Cached
  <2>2. c = [c EXCEPT !.cache = c.cache]
    BY <1>1 DEF Manager
  <2> QED
    BY <1>2, <2>1, <2>2 DEF InCache
<1>3. CASE ~InCache(c, t)
  <2> DEFINE l == Append(c.cache, t)
  <2>1. l \in Seq(Id) /\ ToSet(l) = ToSet(c.cache) \cup {t} /\ NoDup(l)
    BY <1>1, <1>3, SetOfAppend DEF InCache
  <2>2. e = [c EXCEPT !.cache = l]
    BY <1>3 DEF Cached
  <2> HIDE DEF l
  <2>3. e \in Manager /\ e.cache = l
    BY <1>1, <2>1, <2>2 DEF Manager
  <2> QED
    BY <2>1, <2>2, <2>3 DEF Well
<1> QED
  BY <1>2, <1>3

LEMMA UncachedFacts ==
  ASSUME NEW c, Well(c), NEW t, NEW e, e = Uncached(c, t)
  PROVE  /\ Well(e) /\ e = [c EXCEPT !.cache = e.cache]
         /\ ToSet(e.cache) = ToSet(c.cache) \ {t}
<1> DEFINE l == RemoveFirst(c.cache, t)
<1>1. c.cache \in Seq(Id) /\ NoDup(c.cache) /\ c \in Manager
  BY DEF Well, Manager
<1>2. l \in Seq(Id) /\ ToSet(l) = ToSet(c.cache) \ {t} /\ NoDup(l)
  BY <1>1, SetOfRemoveFirst
<1>3. e = [c EXCEPT !.cache = l]
  BY DEF Uncached
<1> HIDE DEF l
<1>4. e \in Manager /\ e.cache = l
  BY <1>1, <1>2, <1>3 DEF Manager
<1> QED
  BY <1>2, <1>3, <1>4 DEF Well

LEMMA QueuedFacts ==
  ASSUME NEW c, Well(c), NEW fn, NEW arg, Alone(fn, arg) \in Queueable,
         NEW e, e = Queued(c, fn, arg)
  PROVE  /\ Well(e) /\ e = [c EXCEPT !.queue = e.queue]
         /\ Entries(e) = Entries(c) \cup {Alone(fn, arg)} /\ Calls(e) = Calls(c) \cup {fn}
         /\ c.queue = <<>> => Len(e.queue) = 1
<1> DEFINE l == Append(c.queue, Alone(fn, arg))
<1>1. c.queue \in Seq(Queueable) /\ c \in Manager
  BY DEF Well, Manager
<1>2. /\ l \in Seq(Queueable) /\ ToSet(l) = ToSet(c.queue) \cup {Alone(fn, arg)}
      /\ Len(l) = Len(c.queue) + 1
  BY <1>1, SetOfAppend
<1>3. e = [c EXCEPT !.queue = l]
  BY DEF Queued
<1> HIDE DEF l
<1>4. e \in Manager /\ e.queue = l /\ e.cache = c.cache
  BY <1>1, <1>2, <1>3 DEF Manager
<1>5. Calls(e) = Calls(c) \cup {fn}
  BY <1>2, <1>4 DEF Calls, Entries, Alone
<1>6. c.queue = <<>> => Len(l) = 1
  <2>1. c.queue = <<>> => Len(c.queue) = 0
    OBVIOUS
  <2> QED
    BY <1>2, <2>1
<1>7. Well(e) /\ Entries(e) = Entries(c) \cup {Alone(fn, arg)}
  BY <1>2, <1>4 DEF Well, Entries
<1> QED
  BY <1>3, <1>4, <1>5, <1>6, <1>7

\* A hap waits for the death of a watched thread, or is about to (task_rec_bp, task_rec_hap).
BreakOK(c, kernel, t) ==
    /\ c.bp[t] = "absent" => c.hap[t] = "absent"
    /\ c.bp[t] = "None" => c.hap[t] = "None"
    /\ c.bp[t] = "set" => /\ c.hap[t] = "set" \/ Alone("watchTaskHapAlone", t) \in Entries(c)
                          /\ t \in c.watch /\ t \in kernel.born

Breaks(c, kernel) == \A t \in Thread : BreakOK(c, kernel, t)

\* What adding and removing watched threads leaves alone.
Frame(c, e) ==
    /\ e.task_hap = c.task_hap /\ e.saved = c.saved /\ e.dbg_saved = c.dbg_saved
    /\ e.demise = c.demise /\ e.susp = c.susp /\ e.pending = c.pending
    /\ e.clones = c.clones /\ e.exit_tid = c.exit_tid

\* A call of fn with t is queued, and no other.
Adds(c, e, fn, t) ==
    /\ Entries(e) = Entries(c) \cup {Alone(fn, t)} /\ Calls(e) = Calls(c) \cup {fn}
    /\ c.queue = <<>> => Len(e.queue) = 1

LEMMA WatchExitFacts ==
  ASSUME NEW c, Well(c), NEW kernel, KernelOK(kernel), NEW t \in Id,
         NEW e, e = watchExit(c, kernel, t)
  PROVE  /\ Well(e) /\ Frame(c, e)
         /\ e.watch = c.watch /\ e.cache = c.cache /\ e.dbg = c.dbg /\ e.context = c.context
         /\ e.hap = c.hap
         /\ \/ e = c
            \/ t \in kernel.alive /\ e.bp = [c.bp EXCEPT ![t] = "set"]
               /\ Adds(c, e, "watchTaskHapAlone", t)
         /\ t \in kernel.alive => e.bp[t] = "set"
<1>1. c \in Manager /\ c.bp \in [Thread -> Status]
  BY DEF Well, Manager
<1>2. kernel.alive \subseteq Thread
  BY DEF KernelOK, Kernel
<1>3. CASE CanWatchExit(kernel, t) /\ c.bp[t] # "set"
  <2> DEFINE d == [c EXCEPT !.bp[t] = "set"]
  <2>1. t \in Thread /\ t \in kernel.alive
    BY <1>2, <1>3 DEF CanWatchExit
  <2>2. /\ d \in Manager /\ d.bp = [c.bp EXCEPT ![t] = "set"] /\ d.cache = c.cache
        /\ d.queue = c.queue /\ Frame(c, d) /\ d.watch = c.watch /\ d.dbg = c.dbg
        /\ d.context = c.context /\ d.hap = c.hap
    BY <1>1, <2>1 DEF Manager, Frame, Status
  <2>3. Alone("watchTaskHapAlone", t) \in Queueable
    BY <2>1 DEF Alone, Queueable
  <2>4. e = Queued(d, "watchTaskHapAlone", t)
    BY <1>3 DEF watchExit
  <2> HIDE DEF d
  <2>5. Well(d)
    BY <2>2 DEF Well
  <2>6. /\ Well(e) /\ e = [d EXCEPT !.queue = e.queue]
        /\ Entries(e) = Entries(d) \cup {Alone("watchTaskHapAlone", t)}
        /\ Calls(e) = Calls(d) \cup {"watchTaskHapAlone"}
        /\ d.queue = <<>> => Len(e.queue) = 1
    BY <2>3, <2>4, <2>5, QueuedFacts
  <2>7. Entries(d) = Entries(c) /\ Calls(d) = Calls(c)
    BY <2>2 DEF Entries, Calls
  <2>8. Adds(c, e, "watchTaskHapAlone", t)
    BY <2>2, <2>6, <2>7 DEF Adds
  <2>9. /\ e.bp = d.bp /\ Frame(d, e) /\ e.watch = d.watch /\ e.cache = d.cache /\ e.dbg = d.dbg
        /\ e.context = d.context /\ e.hap = d.hap
    BY <2>2, <2>6 DEF Manager, Frame
  <2>10. Frame(c, e)
    BY <2>2, <2>9 DEF Frame
  <2> QED
    BY <1>1, <2>1, <2>2, <2>6, <2>8, <2>9, <2>10
<1>4. CASE ~(CanWatchExit(kernel, t) /\ c.bp[t] # "set")
  <2>1. e = c
    BY <1>4 DEF watchExit
  <2>2. t \in kernel.alive => e.bp[t] = "set"
    BY <1>4, <2>1 DEF CanWatchExit, HasRec
  <2> QED
    BY <2>1, <2>2 DEF Frame
<1> QED
  BY <1>3, <1>4

\* A thread joins the list and the cache, without a look at its death yet.
Watching(c, t) == [c EXCEPT !.watch = @ \cup {t}]

\* What is the same when only the lists have changed.
SameHooks(c, e) ==
    /\ e.bp = c.bp /\ e.hap = c.hap /\ e.dbg = c.dbg /\ e.context = c.context
    /\ e.queue = c.queue

LEMMA WatchingFacts ==
  ASSUME NEW c, Well(c), NEW t \in Thread, NEW e, e = Watching(c, t)
  PROVE  /\ Well(e) /\ Frame(c, e) /\ SameHooks(c, e)
         /\ e.watch = c.watch \cup {t} /\ e.cache = c.cache
<1>1. c \in Manager
  BY DEF Well
<1>2. e \in Manager /\ e.cache = c.cache
  BY <1>1 DEF Manager, Watching
<1>3. Frame(c, e) /\ SameHooks(c, e) /\ e.watch = c.watch \cup {t}
  BY <1>1 DEF Manager, Watching, Frame, SameHooks
<1> QED
  BY <1>2, <1>3 DEF Well

LEMMA CachedKeeps ==
  ASSUME NEW c, Well(c), NEW t \in Id, NEW e, e = Cached(c, t)
  PROVE  /\ Well(e) /\ Frame(c, e) /\ SameHooks(c, e)
         /\ e.watch = c.watch /\ ToSet(e.cache) = ToSet(c.cache) \cup {t}
<1>1. /\ Well(e) /\ e = [c EXCEPT !.cache = e.cache] /\ ToSet(e.cache) = ToSet(c.cache) \cup {t}
  BY CachedFacts
<1>2. c \in Manager
  BY DEF Well
<1>3. Frame(c, e) /\ SameHooks(c, e) /\ e.watch = c.watch
  BY <1>1, <1>2 DEF Manager, Frame, SameHooks
<1> QED
  BY <1>1, <1>3

LEMMA UncachedKeeps ==
  ASSUME NEW c, Well(c), NEW t, NEW e, e = Uncached(c, t)
  PROVE  /\ Well(e) /\ Frame(c, e) /\ SameHooks(c, e)
         /\ e.watch = c.watch /\ ToSet(e.cache) = ToSet(c.cache) \ {t}
<1>1. /\ Well(e) /\ e = [c EXCEPT !.cache = e.cache] /\ ToSet(e.cache) = ToSet(c.cache) \ {t}
  BY UncachedFacts
<1>2. c \in Manager
  BY DEF Well
<1>3. Frame(c, e) /\ SameHooks(c, e) /\ e.watch = c.watch
  BY <1>1, <1>2 DEF Manager, Frame, SameHooks
<1> QED
  BY <1>1, <1>3

LEMMA QueuedKeeps ==
  ASSUME NEW c, Well(c), NEW fn, NEW arg, Alone(fn, arg) \in Queueable,
         NEW e, e = Queued(c, fn, arg)
  PROVE  /\ Well(e) /\ Frame(c, e) /\ Adds(c, e, fn, arg)
         /\ e.bp = c.bp /\ e.hap = c.hap /\ e.dbg = c.dbg /\ e.context = c.context
         /\ e.watch = c.watch /\ e.cache = c.cache
<1>1. /\ Well(e) /\ e = [c EXCEPT !.queue = e.queue] /\ Adds(c, e, fn, arg)
  BY QueuedFacts DEF Adds
<1>2. c \in Manager
  BY DEF Well
<1>3. /\ Frame(c, e) /\ e.bp = c.bp /\ e.hap = c.hap /\ e.dbg = c.dbg /\ e.context = c.context
      /\ e.watch = c.watch /\ e.cache = c.cache
  BY <1>1, <1>2 DEF Manager, Frame
<1> QED
  BY <1>1, <1>3

LEMMA SameQueue ==
  ASSUME NEW c, NEW e, e.queue = c.queue
  PROVE  Entries(e) = Entries(c) /\ Calls(e) = Calls(c)
BY DEF Entries, Calls

Added(c, kernel, t) == addTask(c, kernel, t, TRUE)

\* A live thread that is added is watched, and so is its death.
LEMMA AddedFacts ==
  ASSUME NEW c, Well(c), NEW kernel, KernelOK(kernel), NEW t \in kernel.alive,
         NEW e, e = Added(c, kernel, t)
  PROVE  /\ Well(e) /\ Frame(c, e) /\ e.dbg = c.dbg /\ e.context = c.context
         /\ e.watch = c.watch \cup {t} /\ ToSet(c.cache) \subseteq ToSet(e.cache)
         /\ ToSet(e.cache) \subseteq ToSet(c.cache) \cup {t}
         /\ t \in c.watch \/ t \in ToSet(e.cache)
         /\ \/ e.bp = c.bp /\ e.hap = c.hap /\ e.queue = c.queue
            \/ /\ e.bp = [c.bp EXCEPT ![t] = "set"] /\ e.hap = c.hap
               /\ Adds(c, e, "watchTaskHapAlone", t)
         /\ Breaks(c, kernel) => Breaks(e, kernel)
<1>1. t \in Thread /\ t \in Id /\ HasRec(kernel, t) /\ t \in kernel.born
  BY DEF KernelOK, Kernel, HasRec, Id
<1>2. CASE t \in c.watch
  BY <1>2 DEF Added, addTask, Frame
<1>3. CASE t \notin c.watch
  <2> DEFINE w == Watching(c, t)
             x == watchExit(w, kernel, t)
  <2>1. e = Cached(x, t)
    BY <1>1, <1>3 DEF Added, addTask, Watching
  <2>2. /\ Well(w) /\ Frame(c, w) /\ SameHooks(c, w)
        /\ w.watch = c.watch \cup {t} /\ w.cache = c.cache
    BY <1>1, WatchingFacts
  <2> HIDE DEF w
  <2>3. /\ Well(x) /\ Frame(w, x)
        /\ x.watch = w.watch /\ x.cache = w.cache /\ x.dbg = w.dbg /\ x.context = w.context
        /\ x.hap = w.hap
        /\ \/ x = w
           \/ x.bp = [w.bp EXCEPT ![t] = "set"] /\ Adds(w, x, "watchTaskHapAlone", t)
        /\ x.bp[t] = "set"
    BY <1>1, <2>2, WatchExitFacts
  <2> HIDE DEF x
  <2>4. /\ Well(e) /\ Frame(x, e) /\ SameHooks(x, e)
        /\ e.watch = x.watch /\ ToSet(e.cache) = ToSet(x.cache) \cup {t}
    BY <1>1, <2>1, <2>3, CachedKeeps
  <2>5. Frame(c, e)
    BY <2>2, <2>3, <2>4 DEF Frame
  <2>6. /\ e.dbg = c.dbg /\ e.context = c.context /\ e.watch = c.watch \cup {t}
        /\ ToSet(e.cache) = ToSet(c.cache) \cup {t} /\ e.hap = c.hap
    BY <2>2, <2>3, <2>4 DEF SameHooks
  <2>7. \/ e.bp = c.bp /\ e.queue = c.queue
        \/ e.bp = [c.bp EXCEPT ![t] = "set"] /\ Adds(c, e, "watchTaskHapAlone", t)
    <3>1. CASE x = w
      BY <2>2, <2>4, <3>1 DEF SameHooks
    <3>2. CASE x.bp = [w.bp EXCEPT ![t] = "set"] /\ Adds(w, x, "watchTaskHapAlone", t)
      <4>1. /\ Entries(w) = Entries(c) /\ Calls(w) = Calls(c)
            /\ Entries(e) = Entries(x) /\ Calls(e) = Calls(x)
        BY <2>2, <2>4, SameQueue DEF SameHooks
      <4>2. w.queue = c.queue /\ e.queue = x.queue /\ w.bp = c.bp /\ e.bp = x.bp
        BY <2>2, <2>4 DEF SameHooks
      <4> QED
        BY <3>2, <4>1, <4>2 DEF Adds
    <3> QED
      BY <2>3, <3>1, <3>2
  <2>8. ASSUME Breaks(c, kernel) PROVE Breaks(e, kernel)
    <3> SUFFICES ASSUME NEW u \in Thread PROVE BreakOK(e, kernel, u)
      BY DEF Breaks
    <3>1. BreakOK(c, kernel, u)
      BY <2>8 DEF Breaks
    <3>2. c.bp \in [Thread -> Status]
      BY DEF Well, Manager
    <3>3. CASE e.bp = c.bp /\ e.queue = c.queue
      <4>1. Entries(e) = Entries(c)
        BY <3>3, SameQueue
      <4> QED
        BY <2>6, <3>1, <3>3, <4>1 DEF BreakOK
    <3>4. CASE e.bp = [c.bp EXCEPT ![t] = "set"] /\ Adds(c, e, "watchTaskHapAlone", t)
      <4>1. CASE u = t
        BY <1>1, <2>6, <3>2, <3>4, <4>1 DEF BreakOK, Adds
      <4>2. CASE u # t
        BY <2>6, <3>1, <3>2, <3>4, <4>2 DEF BreakOK, Adds
      <4> QED
        BY <4>1, <4>2
    <3> QED
      BY <2>7, <3>3, <3>4
  <2> QED
    BY <2>4, <2>5, <2>6, <2>7, <2>8
<1> QED
  BY <1>2, <1>3

\* What a manager becomes by watching more live threads.
Grown(c, e, kernel) ==
    /\ Well(e) /\ Frame(c, e) /\ e.dbg = c.dbg /\ e.context = c.context
    /\ c.watch \subseteq e.watch /\ e.watch \subseteq c.watch \cup kernel.alive
    /\ Calls(e) \subseteq Calls(c) \cup {"watchTaskHapAlone"}
    /\ ToSet(c.cache) = c.watch => ToSet(e.cache) = e.watch
    /\ Breaks(c, kernel) => Breaks(e, kernel)

LEMMA AddedGrows ==
  ASSUME NEW c, NEW kernel, KernelOK(kernel), NEW b, Grown(c, b, kernel),
         NEW t \in kernel.alive, NEW e, e = Added(b, kernel, t)
  PROVE  Grown(c, e, kernel)
<1>1. Well(b)
  BY DEF Grown
<1>2. /\ Well(e) /\ Frame(b, e) /\ e.dbg = b.dbg /\ e.context = b.context
      /\ e.watch = b.watch \cup {t} /\ ToSet(b.cache) \subseteq ToSet(e.cache)
      /\ ToSet(e.cache) \subseteq ToSet(b.cache) \cup {t}
      /\ t \in b.watch \/ t \in ToSet(e.cache)
      /\ \/ e.bp = b.bp /\ e.hap = b.hap /\ e.queue = b.queue
         \/ /\ e.bp = [b.bp EXCEPT ![t] = "set"] /\ e.hap = b.hap
            /\ Adds(b, e, "watchTaskHapAlone", t)
      /\ Breaks(b, kernel) => Breaks(e, kernel)
  BY <1>1, AddedFacts
<1>3. Calls(e) \subseteq Calls(b) \cup {"watchTaskHapAlone"}
  BY <1>2, SameQueue DEF Adds
<1>4. Frame(c, e)
  BY <1>2 DEF Grown, Frame
<1>5. ToSet(b.cache) = b.watch => ToSet(e.cache) = e.watch
  BY <1>2
<1> QED
  BY <1>2, <1>3, <1>4, <1>5 DEF Grown

\* The threads of the group join one by one, in whatever order.
LEMMA AddInOrderGrows ==
  ASSUME NEW c, Well(c), NEW kernel, KernelOK(kernel), kernel.cur \in kernel.alive,
         NEW order \in SetToSeqs(GroupTids(kernel)),
         NEW e, e = AddInOrder(c, kernel, order)
  PROVE  Grown(c, e, kernel)
<1> DEFINE n == Len(order)
           Set(b, i) == Added(b, kernel, order[i])
           Sets(p, m) == p = [i \in 0 .. m |-> IF i = 0 THEN c ELSE Set(p[i - 1], i)]
           T == {m \in Nat : ~ \E p : Sets(p, m)}
<1>0. n \in Nat /\ \A i \in 1 .. n : order[i] \in kernel.alive
  <2> DEFINE G == GroupTids(kernel)
  <2>1. G \subseteq kernel.alive /\ G \subseteq Thread
    BY DEF GroupTids, KernelOK, Kernel
  <2>2. IsFiniteSet(G)
    BY <2>1, FS_Subset, TaskAssumption
  <2> HIDE DEF G
  <2>3. order \in Seq(G)
    BY <2>2, SetOfOrder DEF G
  <2>4. n \in Nat /\ \A i \in 1 .. n : order[i] \in G
    BY <2>3, ElementOfSeq, LenProperties
  <2> QED
    BY <2>1, <2>4
<1> HIDE DEF n, Set
<1>1. T = {}
  <2>1. SUFFICES ASSUME T # {} PROVE FALSE
    OBVIOUS
  <2>2. PICK m \in T : \A l \in T : m <= l
    <3>1. T \in SUBSET Nat
      OBVIOUS
    <3> HIDE DEF T
    <3> QED
      BY <2>1, <3>1, LeastNumber
  <2>3. m # 0
    <3>1. Sets([i \in 0 .. 0 |-> c], 0)
      OBVIOUS
    <3> QED
      BY <3>1
  <2>4. PICK p : Sets(p, m - 1)
    <3>1. m - 1 \in Nat
      BY <2>3
    <3>2. m - 1 \notin T
      <4>1. m \in Nat /\ ~(m <= m - 1)
        OBVIOUS
      <4> HIDE DEF T
      <4> QED
        BY <2>2, <4>1
    <3> QED
      BY <3>1, <3>2
  <2>5. Sets([i \in 0 .. m |-> IF i < m THEN p[i] ELSE Set(p[m - 1], m)], m)
    BY <2>3, <2>4
  <2> QED
    BY <2>5
<1>2. PICK p : Sets(p, n) /\ e = p[n]
  <2>1. \E q : Sets(q, n)
    BY <1>0, <1>1
  <2>2. Sets(CHOOSE q : Sets(q, n), n)
    BY <2>1
  <2>3. e = (CHOOSE q : Sets(q, n))[n]
    BY DEF AddInOrder, n, Set, Added
  <2> QED
    BY <2>2, <2>3
<1>3. p[0] = c
  BY <1>0, <1>2
<1>4. \A i \in 1 .. n : p[i] = Set(p[i - 1], i)
  BY <1>0, <1>2
<1> DEFINE Bad == {i \in 0 .. n : ~Grown(c, p[i], kernel)}
<1>5. Grown(c, p[0], kernel)
  BY <1>3 DEF Grown, Frame
<1>6. Bad = {}
  <2>1. SUFFICES ASSUME Bad # {} PROVE FALSE
    OBVIOUS
  <2>2. Bad \in SUBSET Nat
    BY <1>0
  <2>3. PICK i \in Bad : \A j \in Bad : i <= j
    <3> HIDE DEF Bad
    <3> QED
      BY <2>1, <2>2, LeastNumber
  <2>4. i \in 1 .. n /\ i - 1 \in 0 .. n /\ i - 1 \notin Bad
    BY <1>0, <1>5, <2>2, <2>3
  <2>5. Grown(c, p[i - 1], kernel)
    BY <2>4
  <2>6. p[i] = Added(p[i - 1], kernel, order[i]) /\ order[i] \in kernel.alive
    BY <1>0, <1>4, <2>4 DEF Set
  <2>7. Grown(c, p[i], kernel)
    BY <2>5, <2>6, AddedGrows
  <2> QED
    BY <2>3, <2>7
<1>7. n \in 0 .. n
  BY <1>0
<1>8. Grown(c, p[n], kernel)
  BY <1>6, <1>7
<1> QED
  BY <1>2, <1>8

-----------------------------------------------------------------------------
(* Stopping to watch.                                                      *)

LEMMA ClearedFacts ==
  ASSUME NEW c, Well(c), NEW kernel, NEW e, e = clearExitBreaksAlone(c)
  PROVE  /\ Well(e) /\ Frame(c, e) /\ e.watch = c.watch /\ e.cache = c.cache
         /\ e.dbg = c.dbg /\ e.context = c.context /\ e.queue = c.queue
         /\ Breaks(c, kernel) /\ "watchTaskHapAlone" \notin Calls(c) => Breaks(e, kernel)
<1> DEFINE Gone(s) == IF s = "set" THEN "None" ELSE s
           bp == [t \in Thread |-> Gone(c.bp[t])]
           hap == [t \in Thread |-> Gone(c.hap[t])]
<1>1. c \in Manager /\ c.bp \in [Thread -> Status] /\ c.hap \in [Thread -> Status]
  BY DEF Well, Manager
<1>2. bp \in [Thread -> Status] /\ hap \in [Thread -> Status]
  BY <1>1 DEF Status
<1>3. e = [c EXCEPT !.bp = bp, !.hap = hap]
  BY <1>1 DEF clearExitBreaksAlone, Manager
<1>4. \A t \in Thread : bp[t] = Gone(c.bp[t]) /\ hap[t] = Gone(c.hap[t])
  OBVIOUS
<1> HIDE DEF bp, hap
<1>5. /\ e \in Manager /\ e.cache = c.cache /\ e.watch = c.watch /\ e.dbg = c.dbg
      /\ e.context = c.context /\ e.queue = c.queue /\ e.bp = bp /\ e.hap = hap
  BY <1>1, <1>2, <1>3 DEF Manager
<1>6. Frame(c, e)
  BY <1>1, <1>3 DEF Manager, Frame
<1>7. ASSUME Breaks(c, kernel), "watchTaskHapAlone" \notin Calls(c) PROVE Breaks(e, kernel)
  <2> SUFFICES ASSUME NEW t \in Thread PROVE BreakOK(e, kernel, t)
    BY DEF Breaks
  <2>1. BreakOK(c, kernel, t)
    BY <1>7 DEF Breaks
  <2>2. Alone("watchTaskHapAlone", t) \notin Entries(c)
    BY <1>7 DEF Calls, Alone
  <2>3. c.bp[t] \in Status /\ c.hap[t] \in Status
    BY <1>1
  <2>4. e.bp[t] = Gone(c.bp[t]) /\ e.hap[t] = Gone(c.hap[t])
    BY <1>4, <1>5
  <2> QED
    BY <2>1, <2>2, <2>3, <2>4 DEF BreakOK, Status
<1> QED
  BY <1>5, <1>6, <1>7 DEF Well

\* Nothing is watched, and no breakpoint waits for a death.
Stopped(c) ==
    /\ Well(c) /\ c.task_hap = FALSE /\ c.watch = {} /\ c.cache = <<>> /\ c.dbg = None
    /\ c.context # "debug"

LEMMA NoBreaksFacts ==
  ASSUME NEW c, c.bp = NoBreaks, c.hap = NoBreaks, NEW kernel
  PROVE  Breaks(c, kernel)
BY DEF Breaks, BreakOK, NoBreaks

LEMMA StopWatchFacts ==
  ASSUME NEW c, Well(c), c.task_hap = TRUE, NEW e, e = stopWatchTasksAlone(c)
  PROVE  /\ Stopped(e) /\ e.clones = {} /\ e.bp = NoBreaks /\ e.hap = NoBreaks
         /\ e.demise = c.demise /\ e.susp = c.susp /\ e.pending = c.pending
         /\ e.exit_tid = c.exit_tid /\ e.queue = c.queue
<1>1. c \in Manager
  BY DEF Well
<1>2. NoBreaks \in [Thread -> Status]
  BY DEF NoBreaks, Status
<1>3. PICK saved, dbg_saved :
         /\ saved \in SUBSET Thread /\ dbg_saved \in Id \cup {None}
         /\ e = [c EXCEPT !.task_hap = FALSE, !.watch = {}, !.bp = NoBreaks, !.hap = NoBreaks,
                          !.saved = saved, !.dbg_saved = dbg_saved,
                          !.clones = {}, !.cache = <<>>, !.dbg = None, !.context = "default"]
  <2> DEFINE saved == IF c.watch # {} THEN c.watch ELSE c.saved
             dbg_saved == IF c.dbg # None THEN c.dbg ELSE c.dbg_saved
  <2>1. saved \in SUBSET Thread /\ dbg_saved \in Id \cup {None}
    BY <1>1 DEF Manager
  <2>2. e = [c EXCEPT !.task_hap = FALSE, !.watch = {}, !.bp = NoBreaks, !.hap = NoBreaks,
                      !.saved = saved, !.dbg_saved = dbg_saved,
                      !.clones = {}, !.cache = <<>>, !.dbg = None, !.context = "default"]
    BY <1>1 DEF Manager, stopWatchTasksAlone
  <2> QED
    BY <2>1, <2>2
<1>4. /\ e.task_hap = FALSE /\ e.watch = {} /\ e.cache = <<>> /\ e.dbg = None
      /\ e.context = "default" /\ e.clones = {} /\ e.bp = NoBreaks /\ e.hap = NoBreaks
      /\ e.demise = c.demise /\ e.susp = c.susp /\ e.pending = c.pending
      /\ e.exit_tid = c.exit_tid /\ e.queue = c.queue
  BY <1>1, <1>3 DEF Manager
<1>5. <<>> \in Seq(Id) /\ {} \in SUBSET Thread
  OBVIOUS
<1>6. e \in Manager
  <2> DEFINE a == [c EXCEPT !.task_hap = FALSE, !.watch = {}, !.bp = NoBreaks, !.hap = NoBreaks]
             b == [a EXCEPT !.saved = saved, !.dbg_saved = dbg_saved, !.clones = {}]
  <2>1. a \in Manager
    BY <1>1, <1>2, <1>5 DEF Manager
  <2>2. b \in Manager
    BY <1>3, <1>5, <2>1 DEF Manager
  <2>3. e = [b EXCEPT !.cache = <<>>, !.dbg = None, !.context = "default"]
    BY <1>3
  <2> HIDE DEF b
  <2> QED
    BY <1>5, <2>2, <2>3 DEF Manager
<1>7. NoDup(<<>>)
  BY DEF NoDup
<1> QED
  BY <1>4, <1>6, <1>7 DEF Stopped, Well

LEMMA StopDebugFacts ==
  ASSUME NEW c, Stopped(c), NEW e, e = stopDebug(c)
  PROVE  /\ Stopped(e) /\ e.bp = c.bp /\ e.hap = c.hap /\ e.clones = c.clones
         /\ e.demise = c.demise /\ e.susp = c.susp /\ e.pending = c.pending
         /\ e.exit_tid = c.exit_tid /\ e.queue = c.queue
<1> DEFINE a == [c EXCEPT !.dbg = None, !.dbg_saved = None, !.watch = {}]
<1>1. c \in Manager /\ {} \in SUBSET Thread /\ <<>> \in Seq(Id) /\ c.task_hap = FALSE
  BY DEF Stopped, Well
<1>2. a \in Manager
  BY <1>1 DEF Manager
<1>3. e = [a EXCEPT !.saved = {}, !.cache = <<>>, !.context = "default"]
  BY DEF stopDebug
<1>4. /\ a.task_hap = FALSE /\ a.watch = {} /\ a.dbg = None
      /\ a.bp = c.bp /\ a.hap = c.hap /\ a.clones = c.clones
      /\ a.demise = c.demise /\ a.susp = c.susp /\ a.pending = c.pending
      /\ a.exit_tid = c.exit_tid /\ a.queue = c.queue
  BY <1>1 DEF Manager
<1> HIDE DEF a
<1>5. e \in Manager
  BY <1>1, <1>2, <1>3 DEF Manager
<1>6. /\ e.task_hap = FALSE /\ e.watch = {} /\ e.dbg = None /\ e.cache = <<>>
      /\ e.context = "default" /\ e.bp = c.bp /\ e.hap = c.hap /\ e.clones = c.clones
      /\ e.demise = c.demise /\ e.susp = c.susp /\ e.pending = c.pending
      /\ e.exit_tid = c.exit_tid /\ e.queue = c.queue
  BY <1>2, <1>3, <1>4 DEF Manager
<1>7. NoDup(<<>>)
  BY DEF NoDup
<1> QED
  BY <1>5, <1>6, <1>7 DEF Stopped, Well

-----------------------------------------------------------------------------
(* Starting to watch.                                                      *)

\* What stays when all is set up anew.
Outside(c, e) ==
    /\ e.demise = c.demise /\ e.susp = c.susp /\ e.pending = c.pending
    /\ e.clones = c.clones /\ e.exit_tid = c.exit_tid

Restart(c) == [c EXCEPT !.task_hap = TRUE]

LEMMA RestoreDebugFacts ==
  ASSUME NEW c, Stopped(c), NEW r \in restoreDebug(Restart(c))
  PROVE  /\ Well(r) /\ r.task_hap = TRUE /\ r.watch = c.saved /\ ToSet(r.cache) = c.saved
         /\ r.context = "debug" /\ r.dbg = None /\ r.bp = c.bp /\ r.hap = c.hap
         /\ r.queue = c.queue /\ Outside(c, r)
<1>1. c \in Manager /\ c.task_hap = FALSE /\ c.watch = {} /\ c.cache = <<>> /\ c.dbg = None
  BY DEF Stopped, Well
<1> DEFINE b == Restart(c)
<1>2. /\ b \in Manager /\ b.task_hap = TRUE /\ b.watch = {} /\ b.cache = <<>> /\ b.dbg = None
      /\ b.saved = c.saved /\ b.bp = c.bp /\ b.hap = c.hap /\ b.queue = c.queue
  BY <1>1 DEF Manager, Restart
<1>3. Outside(c, b)
  BY <1>1 DEF Manager, Restart, Outside
<1> HIDE DEF b
<1>4. PICK ids \in SetToSeqs(c.saved) :
         r = [b EXCEPT !.dbg = None, !.watch = c.saved, !.cache = <<>> \o ids,
                       !.context = "debug"]
  <2>1. (IF b.saved # {} THEN b.saved ELSE b.watch) = c.saved
    BY <1>2
  <2>2. \E ids \in SetToSeqs(c.saved) :
          r = [b EXCEPT !.dbg = IF @ # None THEN b.dbg_saved ELSE @, !.watch = c.saved,
                        !.cache = @ \o ids, !.context = "debug"]
    BY <2>1 DEF restoreDebug, b
  <2>3. PICK ids \in SetToSeqs(c.saved) :
          r = [b EXCEPT !.dbg = IF @ # None THEN b.dbg_saved ELSE @, !.watch = c.saved,
                        !.cache = @ \o ids, !.context = "debug"]
    BY <2>2
  <2>4. r = [b EXCEPT !.dbg = None, !.watch = c.saved, !.cache = <<>> \o ids,
                      !.context = "debug"]
    BY <1>2, <2>3 DEF Manager
  <2> QED
    BY <2>4
<1>5. c.saved \subseteq Thread /\ IsFiniteSet(c.saved)
  <2>1. c.saved \in SUBSET Thread
    BY <1>1 DEF Manager
  <2> QED
    BY <2>1, FS_Subset, TaskAssumption
<1>6. ids \in Seq(c.saved) /\ ToSet(ids) = c.saved /\ NoDup(ids)
  BY <1>5, SetOfOrder
<1>7. <<>> \o ids = ids
  BY <1>6, ConcatEmptySeq
<1>8. ids \in Seq(Id)
  BY <1>5, <1>6 DEF Id
<1>9. /\ r.task_hap = TRUE /\ r.watch = c.saved /\ r.cache = ids
      /\ r.context = "debug" /\ r.dbg = None /\ r.bp = c.bp /\ r.hap = c.hap
      /\ r.queue = c.queue
  BY <1>2, <1>4, <1>7 DEF Manager
<1>10. Outside(b, r)
  BY <1>2, <1>4 DEF Manager, Outside
<1>11. r \in Manager
  BY <1>2, <1>4, <1>5, <1>7, <1>8 DEF Manager
<1>12. Outside(c, r)
  BY <1>3, <1>10 DEF Outside
<1> QED
  BY <1>6, <1>9, <1>11, <1>12 DEF Well

Debugging(c, kernel) ==
    Cached([c EXCEPT !.context = "debug", !.dbg = kernel.cur, !.dbg_saved = kernel.cur],
           kernel.cur)

LEMMA DebuggingFacts ==
  ASSUME NEW c, Well(c), NEW kernel, KernelOK(kernel), kernel.cur \in kernel.alive,
         NEW e, e = Debugging(c, kernel)
  PROVE  /\ Well(e) /\ e.task_hap = c.task_hap /\ e.context = "debug" /\ e.dbg = kernel.cur
         /\ e.watch = c.watch /\ ToSet(e.cache) = ToSet(c.cache) \cup {kernel.cur}
         /\ e.bp = c.bp /\ e.hap = c.hap /\ e.queue = c.queue /\ Outside(c, e)
<1> DEFINE d == [c EXCEPT !.context = "debug", !.dbg = kernel.cur, !.dbg_saved = kernel.cur]
<1>1. c \in Manager /\ kernel.cur \in Id
  BY DEF Well, KernelOK, Kernel, Id
<1>2. /\ d \in Manager /\ d.task_hap = c.task_hap /\ d.context = "debug" /\ d.dbg = kernel.cur
      /\ d.watch = c.watch /\ d.cache = c.cache
      /\ d.bp = c.bp /\ d.hap = c.hap /\ d.queue = c.queue
  BY <1>1 DEF Manager
<1>3. Outside(c, d)
  BY <1>1 DEF Manager, Outside
<1>4. e = Cached(d, kernel.cur)
  BY DEF Debugging
<1> HIDE DEF d
<1>5. Well(d)
  BY <1>2 DEF Well
<1>6. /\ Well(e) /\ Frame(d, e) /\ SameHooks(d, e)
      /\ e.watch = d.watch /\ ToSet(e.cache) = ToSet(d.cache) \cup {kernel.cur}
  BY <1>1, <1>4, <1>5, CachedKeeps
<1>7. Outside(c, e)
  BY <1>3, <1>6 DEF Outside, Frame
<1> QED
  BY <1>2, <1>6, <1>7 DEF Frame, SameHooks

\* The rest of watchTasks: the death of the task is watched, and it joins if it is there.
Joined(c, kernel, t) ==
    LET e == watchExit(c, kernel, t)
    IN IF CanWatchExit(kernel, t) /\ t \in e.watch THEN e
       ELSE Cached(IF CanWatchExit(kernel, t) THEN Watching(e, t) ELSE e, t)

LEMMA JoinedFacts ==
  ASSUME NEW c, Well(c), NEW kernel, KernelOK(kernel), NEW t \in Id,
         NEW e, e = Joined(c, kernel, t)
  PROVE  /\ Well(e) /\ Frame(c, e) /\ e.dbg = c.dbg /\ e.context = c.context
         /\ Calls(e) \subseteq Calls(c) \cup {"watchTaskHapAlone"}
         /\ t \in kernel.alive =>
              /\ e.watch = c.watch \cup {t} /\ ToSet(c.cache) \subseteq ToSet(e.cache)
              /\ ToSet(e.cache) \subseteq ToSet(c.cache) \cup {t}
              /\ t \in c.watch \/ t \in ToSet(e.cache)
              /\ Breaks(c, kernel) => Breaks(e, kernel)
<1> DEFINE x == watchExit(c, kernel, t)
           w == Watching(x, t)
<1>0. CanWatchExit(kernel, t) <=> t \in kernel.alive
  BY DEF CanWatchExit, HasRec
<1>1. /\ Well(x) /\ Frame(c, x)
      /\ x.watch = c.watch /\ x.cache = c.cache /\ x.dbg = c.dbg /\ x.context = c.context
      /\ x.hap = c.hap
      /\ \/ x = c
         \/ t \in kernel.alive /\ x.bp = [c.bp EXCEPT ![t] = "set"]
            /\ Adds(c, x, "watchTaskHapAlone", t)
  BY WatchExitFacts
<1> HIDE DEF x
<1>2. Calls(x) \subseteq Calls(c) \cup {"watchTaskHapAlone"}
  BY <1>1 DEF Adds
<1>3. ASSUME t \in kernel.alive
      PROVE  Well(w) /\ Frame(x, w) /\ SameHooks(x, w) /\ w.watch = x.watch \cup {t} /\ w.cache = x.cache
  <2>1. t \in Thread
    BY <1>3 DEF KernelOK, Kernel
  <2> QED
    BY <1>1, <2>1, WatchingFacts
<1> HIDE DEF w
<1>4. \/ t \in kernel.alive /\ t \in x.watch /\ e = x
      \/ t \in kernel.alive /\ t \notin x.watch /\ e = Cached(w, t)
      \/ t \notin kernel.alive /\ e = Cached(x, t)
  BY <1>0 DEF Joined, x, w
<1>5. CASE t \notin kernel.alive /\ e = Cached(x, t)
  <2>1. Well(e) /\ Frame(x, e) /\ SameHooks(x, e)
    BY <1>1, <1>5, CachedKeeps
  <2>2. Calls(e) = Calls(x)
    BY <2>1, SameQueue DEF SameHooks
  <2> QED
    BY <1>1, <1>2, <1>5, <2>1, <2>2 DEF Frame, SameHooks
<1>6. CASE t \in kernel.alive
  <2>1. /\ Well(e) /\ Frame(x, e) /\ SameHooks(x, e)
        /\ e.watch = c.watch \cup {t} /\ ToSet(c.cache) \subseteq ToSet(e.cache)
        /\ ToSet(e.cache) \subseteq ToSet(c.cache) \cup {t}
        /\ t \in c.watch \/ t \in ToSet(e.cache)
    <3>1. CASE t \in x.watch /\ e = x
      BY <1>1, <3>1 DEF Frame, SameHooks
    <3>2. CASE e = Cached(w, t)
      <4>1. Well(w) /\ Frame(x, w) /\ SameHooks(x, w) /\ w.watch = x.watch \cup {t} /\ w.cache = x.cache
        BY <1>3, <1>6
      <4>2. /\ Well(e) /\ Frame(w, e) /\ SameHooks(w, e)
            /\ e.watch = w.watch /\ ToSet(e.cache) = ToSet(w.cache) \cup {t}
        BY <3>2, <4>1, CachedKeeps
      <4>3. Frame(x, e) /\ SameHooks(x, e)
        BY <4>1, <4>2 DEF Frame, SameHooks
      <4> QED
        BY <1>1, <4>1, <4>2, <4>3
    <3> QED
      BY <1>4, <1>6, <3>1, <3>2
  <2>2. Calls(e) = Calls(x) /\ Entries(e) = Entries(x)
    BY <2>1, SameQueue DEF SameHooks
  <2>3. ASSUME Breaks(c, kernel) PROVE Breaks(e, kernel)
    <3> SUFFICES ASSUME NEW u \in Thread PROVE BreakOK(e, kernel, u)
      BY DEF Breaks
    <3>1. BreakOK(c, kernel, u)
      BY <2>3 DEF Breaks
    <3>2. c.bp \in [Thread -> Status] /\ t \in Thread /\ t \in kernel.born
      BY <1>6 DEF Well, Manager, KernelOK, Kernel
    <3>3. e.bp = x.bp /\ e.hap = c.hap
      BY <1>1, <2>1 DEF SameHooks
    <3>4. CASE x = c
      BY <2>1, <2>2, <3>1, <3>3, <3>4 DEF BreakOK
    <3>5. CASE x.bp = [c.bp EXCEPT ![t] = "set"] /\ Adds(c, x, "watchTaskHapAlone", t)
      <4>1. CASE u = t
        BY <2>1, <2>2, <3>2, <3>3, <3>5, <4>1 DEF BreakOK, Adds
      <4>2. CASE u # t
        BY <2>1, <2>2, <3>1, <3>2, <3>3, <3>5, <4>2 DEF BreakOK, Adds
      <4> QED
        BY <4>1, <4>2
    <3> QED
      BY <1>1, <3>4, <3>5
  <2>4. Frame(c, e) /\ e.dbg = c.dbg /\ e.context = c.context
    BY <1>1, <2>1 DEF Frame, SameHooks
  <2> QED
    BY <1>2, <2>1, <2>2, <2>3, <2>4
<1> QED
  BY <1>4, <1>5, <1>6

LEMMA WatchTasksFacts ==
  ASSUME NEW c, Stopped(c), NEW kernel, KernelOK(kernel), kernel.cur \in kernel.alive,
         NEW t \in Id, NEW w \in watchTasks(c, kernel, t, TRUE)
  PROVE  /\ Well(w) /\ w.task_hap = TRUE /\ w.dbg = kernel.cur /\ w.context = "debug"
         /\ Outside(c, w) /\ Calls(w) \subseteq Calls(c) \cup {"watchTaskHapAlone"}
         /\ t = kernel.cur =>
              /\ w.watch = c.saved \cup {t} /\ ToSet(w.cache) = w.watch
              /\ Breaks(c, kernel) => Breaks(w, kernel)
<1>1. PICK r \in restoreDebug(Restart(c)) : w = Joined(setDebugTid(r, kernel, TRUE), kernel, t)
  BY DEF watchTasks, Joined, Watching, Restart, Stopped
<1>2. /\ Well(r) /\ r.task_hap = TRUE /\ r.watch = c.saved /\ ToSet(r.cache) = c.saved
      /\ r.context = "debug" /\ r.dbg = None /\ r.bp = c.bp /\ r.hap = c.hap
      /\ r.queue = c.queue /\ Outside(c, r)
  BY RestoreDebugFacts
<1> DEFINE s == Debugging(r, kernel)
<1>3. w = Joined(s, kernel, t)
  BY <1>1 DEF setDebugTid, Debugging
<1>4. /\ Well(s) /\ s.task_hap = r.task_hap /\ s.context = "debug" /\ s.dbg = kernel.cur
      /\ s.watch = r.watch /\ ToSet(s.cache) = ToSet(r.cache) \cup {kernel.cur}
      /\ s.bp = r.bp /\ s.hap = r.hap /\ s.queue = r.queue /\ Outside(r, s)
  BY <1>2, DebuggingFacts
<1> HIDE DEF s
<1>5. /\ Well(w) /\ Frame(s, w) /\ w.dbg = s.dbg /\ w.context = s.context
      /\ Calls(w) \subseteq Calls(s) \cup {"watchTaskHapAlone"}
      /\ t \in kernel.alive =>
           /\ w.watch = s.watch \cup {t} /\ ToSet(s.cache) \subseteq ToSet(w.cache)
           /\ ToSet(w.cache) \subseteq ToSet(s.cache) \cup {t}
           /\ t \in s.watch \/ t \in ToSet(w.cache)
           /\ Breaks(s, kernel) => Breaks(w, kernel)
  BY <1>3, <1>4, JoinedFacts
<1>6. Entries(s) = Entries(c) /\ Calls(s) = Calls(c)
  BY <1>2, <1>4, SameQueue
<1>7. Outside(c, w)
  BY <1>2, <1>4, <1>5 DEF Outside, Frame
<1>8. ASSUME Breaks(c, kernel) PROVE Breaks(s, kernel)
  <2> SUFFICES ASSUME NEW u \in Thread PROVE BreakOK(s, kernel, u)
    BY DEF Breaks
  <2>1. BreakOK(c, kernel, u) /\ c.watch = {}
    BY <1>8 DEF Breaks, Stopped
  <2> QED
    BY <1>2, <1>4, <1>6, <2>1 DEF BreakOK
<1>9. ASSUME t = kernel.cur
      PROVE  /\ w.watch = c.saved \cup {t} /\ ToSet(w.cache) = w.watch
             /\ Breaks(c, kernel) => Breaks(w, kernel)
  BY <1>2, <1>4, <1>5, <1>8, <1>9
<1>10. w.task_hap = TRUE
  BY <1>2, <1>4, <1>5 DEF Frame
<1> QED
  BY <1>4, <1>5, <1>6, <1>7, <1>9, <1>10

-----------------------------------------------------------------------------
(* The invariant.                                                          *)

\* A watched thread is in the cache, unless it is the one that a late notice of its exec left
\* in the list (taskRecHap, stopWatchTid); a cached thread is watched.
CacheOK(c, kernel) ==
    /\ ToSet(c.cache) \cap Thread \subseteq c.watch
    /\ c.watch \subseteq ToSet(c.cache) \/ \E t \in kernel.execed : c.watch = {t}

DebugOK(c) ==
    /\ c.dbg = None => c.watch = {}
    /\ c.task_hap = FALSE => /\ c.dbg = None /\ c.cache = <<>> /\ c.context # "debug"
                             /\ "restoreDebugContext" \notin Calls(c)

\* The calls that are queued by themselves.
Single == {"resetAlone", "clearExitBreaksAlone", "restoreDebugContext"}

QueueOK(c, kernel) ==
    /\ Calls(c) \cap Single # {} => Len(c.queue) = 1
    /\ \A t \in c.demise : Alone("resetAlone", t) \in Entries(c)
    /\ \A t \in Thread : Alone("resetAlone", t) \in Entries(c) =>
                            c.bp[t] = "set" /\ c.exit_tid # t /\ kernel.cur # t

\* What takes the processor out of the debug context.
Leaving == {"restoreDefaultContext", "restoreSuspendContext", "stopWatchTasksAlone"}

ContextOK(c, kernel) ==
    /\ c.dbg # None /\ kernel.cur \in c.watch \ c.susp =>
         /\ Calls(c) \cap Leaving = {}
         /\ c.context = "debug" \/ "restoreDebugContext" \in Calls(c)
    /\ kernel.cur = Other => c.context # "debug" /\ "restoreDebugContext" \notin Calls(c)

\* A clone that has execed is watched only alone (trackThreads' execveHap).
ClonesOK(c, kernel) ==
    \A t \in c.clones \cap kernel.execed : t \in c.watch => c.watch = {t}

ExitOK(c, kernel) ==
    /\ c.exit_tid \in kernel.alive => c.exit_tid \notin c.watch
    /\ c.exit_tid # None => c.exit_tid \in kernel.born

Right(c, kernel) ==
    /\ Well(c) /\ Breaks(c, kernel) /\ CacheOK(c, kernel) /\ DebugOK(c)
    /\ QueueOK(c, kernel) /\ ContextOK(c, kernel) /\ ClonesOK(c, kernel) /\ ExitOK(c, kernel)

\* The manager before debugging starts.
Fresh ==
    [task_hap |-> FALSE, watch |-> {}, saved |-> {}, cache |-> <<>>, dbg |-> None,
     dbg_saved |-> None, context |-> "default", bp |-> NoBreaks, hap |-> NoBreaks,
     demise |-> {}, susp |-> {}, pending |-> <<>>, clones |-> {}, exit_tid |-> None,
     queue |-> <<>>, raised |-> None]

\* Debugging starts in a thread of the program that runs on.
CanDebug(kernel) ==
    /\ KernelOK(kernel) /\ kernel.cur \in kernel.alive
    /\ kernel.cur \in Thread \ (kernel.exiting \cup kernel.execed \cup Forked)

IInv ==
    /\ KernelOK(k) /\ Right(cm, k) /\ backs \in 0 .. MaxBacks
    /\ IF origin = None THEN cm = Fresh ELSE CanDebug(origin)

\* Where nothing is queued, what the handlers find.
LEMMA IdleFacts ==
  ASSUME NEW c, NEW kernel, Right(c, kernel), c.queue = <<>>
  PROVE  /\ Entries(c) = {} /\ Calls(c) = {} /\ c.demise = {}
         /\ \A t \in Thread : /\ c.bp[t] = "set" => c.hap[t] = "set"
                              /\ c.hap[t] = "set" => c.bp[t] = "set"
                              /\ c.hap[t] = "absent" => c.bp[t] = "absent"
         /\ c.dbg # None /\ kernel.cur \in c.watch \ c.susp => c.context = "debug"
<1>1. ToSet(c.queue) = {}
  BY SetOfList DEF Right, Well, Manager
<1>2. Entries(c) = {} /\ Calls(c) = {}
  BY <1>1 DEF Entries, Calls
<1>3. c.demise = {}
  BY <1>2 DEF Right, QueueOK
<1>4. ASSUME NEW t \in Thread
      PROVE  /\ c.bp[t] = "set" => c.hap[t] = "set"
             /\ c.hap[t] = "set" => c.bp[t] = "set"
             /\ c.hap[t] = "absent" => c.bp[t] = "absent"
  <2>1. BreakOK(c, kernel, t)
    BY DEF Right, Breaks
  <2>2. c.bp[t] \in Status
    BY DEF Right, Well, Manager
  <2> QED
    BY <1>2, <2>1, <2>2 DEF BreakOK, Status
<1>5. c.dbg # None /\ kernel.cur \in c.watch \ c.susp => c.context = "debug"
  BY <1>2 DEF Right, ContextOK
<1> QED
  BY <1>2, <1>3, <1>4, <1>5

-----------------------------------------------------------------------------
(* A thread switch.                                                        *)

InContext(c, x) == [c EXCEPT !.context = x]

LEMMA InContextFacts ==
  ASSUME NEW c, Well(c), NEW x \in {"default", "debug", "suspend"}, NEW e, e = InContext(c, x)
  PROVE  /\ Well(e) /\ Frame(c, e) /\ e.context = x /\ e.dbg = c.dbg /\ e.watch = c.watch
         /\ e.cache = c.cache /\ e.bp = c.bp /\ e.hap = c.hap /\ e.queue = c.queue
         /\ Entries(e) = Entries(c) /\ Calls(e) = Calls(c)
<1>1. c \in Manager
  BY DEF Well
<1>2. /\ e \in Manager /\ e.context = x /\ e.dbg = c.dbg /\ e.watch = c.watch
      /\ e.cache = c.cache /\ e.bp = c.bp /\ e.hap = c.hap /\ e.queue = c.queue
  BY <1>1 DEF InContext, Manager
<1>3. Frame(c, e)
  BY <1>1 DEF InContext, Manager, Frame
<1> QED
  BY <1>2, <1>3, SameQueue DEF Well

\* What alterWatches may do to the context, or hand over.
LEMMA AlterFacts ==
  ASSUME NEW c, Well(c), NEW n, c.queue = <<>>, NEW e, e = alterWatches(c, n)
  PROVE  /\ Well(e) /\ Frame(c, e) /\ e.dbg = c.dbg /\ e.watch = c.watch
         /\ e.cache = c.cache /\ e.bp = c.bp /\ e.hap = c.hap
         /\ \/ /\ n \in c.susp /\ Adds(c, e, "restoreSuspendContext", None)
               /\ e.context = c.context
            \/ /\ n \notin c.susp /\ e.queue = c.queue
               /\ IF n \in c.watch THEN c.dbg # None => e.context = "debug"
                  ELSE e.context # "debug"
<1>1. CASE n \in c.susp
  <2>1. e = Queued(c, "restoreSuspendContext", None)
    BY <1>1 DEF alterWatches, isSuspended
  <2>2. Alone("restoreSuspendContext", None) \in Queueable
    BY DEF Alone, Queueable
  <2> QED
    BY <1>1, <2>1, <2>2, QueuedKeeps
<1>2. CASE n \notin c.susp
  <2>1. c \in Manager
    BY DEF Well
  <2>2. \/ n \in c.watch /\ c.dbg # None /\ e = InContext(c, "debug")
        \/ n \in c.watch /\ c.dbg = None /\ e = c
        \/ n \notin c.watch /\ e = InContext(c, "default")
        \/ n \notin c.watch /\ c.context # "debug" /\ e = c
    BY <1>2 DEF alterWatches, isSuspended, InContext
  <2>3. CASE n \in c.watch /\ c.dbg # None /\ e = InContext(c, "debug")
    BY <1>2, <2>3, InContextFacts
  <2>4. CASE e = c /\ (IF n \in c.watch THEN c.dbg = None ELSE c.context # "debug")
    BY <1>2, <2>4 DEF Frame
  <2>5. CASE n \notin c.watch /\ e = InContext(c, "default")
    <3>1. "default" \in {"default", "debug", "suspend"}
      OBVIOUS
    <3> QED
      BY <1>2, <2>5, <3>1, InContextFacts
  <2> QED
    BY <2>2, <2>3, <2>4, <2>5
<1> QED
  BY <1>1, <1>2

\* A clone joins the list, the cache and the clones.
Enlisted(c, n) == [Cached(Watching(c, n), n) EXCEPT !.clones = @ \cup {n}]

LEMMA EnlistedFacts ==
  ASSUME NEW c, Well(c), NEW n \in Thread, NEW b, b = Enlisted(c, n)
  PROVE  /\ Well(b) /\ b.clones = c.clones \cup {n}
         /\ b.watch = c.watch \cup {n} /\ ToSet(b.cache) = ToSet(c.cache) \cup {n}
         /\ b.bp = c.bp /\ b.hap = c.hap /\ b.dbg = c.dbg /\ b.context = c.context
         /\ b.queue = c.queue
         /\ b.task_hap = c.task_hap /\ b.demise = c.demise /\ b.susp = c.susp
         /\ b.exit_tid = c.exit_tid
<1> DEFINE x == Watching(c, n)
           a == Cached(x, n)
<1>1. n \in Id
  BY DEF Id
<1>2. /\ Well(x) /\ Frame(c, x) /\ SameHooks(c, x)
      /\ x.watch = c.watch \cup {n} /\ x.cache = c.cache
  BY WatchingFacts
<1>3. b = [a EXCEPT !.clones = @ \cup {n}]
  BY DEF Enlisted
<1> HIDE DEF x
<1>4. /\ Well(a) /\ Frame(x, a) /\ SameHooks(x, a)
      /\ a.watch = x.watch /\ ToSet(a.cache) = ToSet(x.cache) \cup {n}
  BY <1>1, <1>2, CachedKeeps
<1> HIDE DEF a
<1>5. a \in Manager /\ NoDup(a.cache)
  BY <1>4 DEF Well
<1>8. b \in Manager
  <2> DEFINE l == a.clones \cup {n}
  <2>1. l \in SUBSET Thread
    BY <1>5 DEF Manager
  <2>2. b = [a EXCEPT !.clones = l]
    BY <1>3
  <2> HIDE DEF l
  <2> QED
    BY <1>5, <2>1, <2>2 DEF Manager
<1>6. /\ b.clones = a.clones \cup {n} /\ b.cache = a.cache /\ b.watch = a.watch
      /\ b.bp = a.bp /\ b.hap = a.hap /\ b.dbg = a.dbg /\ b.context = a.context
      /\ b.queue = a.queue
      /\ b.task_hap = a.task_hap /\ b.demise = a.demise /\ b.susp = a.susp
      /\ b.exit_tid = a.exit_tid
  BY <1>3, <1>5 DEF Manager
<1>7. /\ a.bp = c.bp /\ a.hap = c.hap /\ a.dbg = c.dbg /\ a.context = c.context
      /\ a.queue = c.queue /\ a.clones = c.clones
      /\ a.task_hap = c.task_hap /\ a.demise = c.demise /\ a.susp = c.susp
      /\ a.exit_tid = c.exit_tid
  BY <1>2, <1>4 DEF Frame, SameHooks
<1> QED
  BY <1>2, <1>4, <1>5, <1>6, <1>7, <1>8 DEF Well

Cloned(c, kernel, n) == watchExit(alterWatches(Enlisted(c, n), n), kernel, n)

\* A clone joins before it first runs; the debug context is entered for it.
LEMMA CloneFacts ==
  ASSUME NEW c, NEW kernel, KernelOK(kernel), Right(c, kernel), c.queue = <<>>,
         NEW n \in kernel.alive, n # c.exit_tid, IsClone(c, kernel, n),
         NEW m, KernelOK(m), m.cur = n, m.alive = kernel.alive,
         m.execed = kernel.execed, m.born = kernel.born,
         NEW e, e = Cloned(c, kernel, n)
  PROVE  Right(e, m)
<1> DEFINE b == Enlisted(c, n)
           w == alterWatches(b, n)
<1>0. b = Enlisted(c, n) /\ w = alterWatches(b, n) /\ e = watchExit(w, kernel, n)
  BY DEF Cloned
<1> HIDE DEF b, w
<1>1. n \in Thread /\ n \in Id /\ n # Other
  BY TaskAssumption DEF KernelOK, Kernel, Id
<1>2. /\ Well(c) /\ Breaks(c, kernel) /\ CacheOK(c, kernel) /\ DebugOK(c)
      /\ QueueOK(c, kernel) /\ ContextOK(c, kernel) /\ ClonesOK(c, kernel) /\ ExitOK(c, kernel)
  BY DEF Right
<1>3. Entries(c) = {} /\ Calls(c) = {} /\ c.demise = {}
  BY IdleFacts
<1>4. Leader \in c.watch /\ Leader \notin kernel.execed /\ n \notin kernel.execed
  <2>1. Leader \in Thread /\ Leader \notin Forked
    BY TaskAssumption
  <2>2. Leader \in c.watch
    BY <1>1, <1>2, <2>1 DEF IsClone, CacheOK, InCache
  <2>3. Leader \notin kernel.execed
    BY <2>1 DEF KernelOK, Kernel
  <2> QED
    BY <2>2, <2>3 DEF IsClone
<1>5. c.dbg # None /\ c.task_hap # FALSE /\ c.watch \subseteq ToSet(c.cache)
  BY <1>2, <1>4 DEF DebugOK, CacheOK
<1>7. /\ Well(b) /\ b.clones = c.clones \cup {n}
      /\ b.watch = c.watch \cup {n} /\ ToSet(b.cache) = ToSet(c.cache) \cup {n}
      /\ b.bp = c.bp /\ b.hap = c.hap /\ b.dbg = c.dbg /\ b.context = c.context
      /\ b.queue = c.queue
      /\ b.task_hap = c.task_hap /\ b.demise = c.demise /\ b.susp = c.susp
      /\ b.exit_tid = c.exit_tid
  BY <1>0, <1>1, <1>2, EnlistedFacts
<1>8. /\ Well(w) /\ Frame(b, w) /\ w.dbg = b.dbg /\ w.watch = b.watch
      /\ w.cache = b.cache /\ w.bp = b.bp /\ w.hap = b.hap
      /\ \/ /\ n \in b.susp /\ Adds(b, w, "restoreSuspendContext", None)
            /\ w.context = b.context
         \/ /\ n \notin b.susp /\ w.queue = b.queue
            /\ IF n \in b.watch THEN b.dbg # None => w.context = "debug"
               ELSE w.context # "debug"
  <2>1. Well(b) /\ b.queue = <<>>
    BY <1>7
  <2> QED
    BY <1>0, <2>1, AlterFacts
<1>9. /\ Calls(w) \subseteq {"restoreSuspendContext"}
      /\ n \notin c.susp => Calls(w) = {} /\ w.context = "debug"
      /\ \A t \in Thread : Alone("resetAlone", t) \notin Entries(w)
  <2>1. Entries(b) = {} /\ Calls(b) = {}
    BY <1>3, <1>7, SameQueue
  <2>2. CASE /\ n \in b.susp /\ Adds(b, w, "restoreSuspendContext", None)
    BY <1>7, <2>1, <2>2 DEF Adds, Alone
  <2>3. CASE /\ n \notin b.susp /\ w.queue = b.queue
             /\ IF n \in b.watch THEN b.dbg # None => w.context = "debug"
                ELSE w.context # "debug"
    <3>1. Entries(w) = {} /\ Calls(w) = {}
      BY <2>1, <2>3, SameQueue
    <3>2. w.context = "debug"
      BY <1>5, <1>7, <2>3
    <3> QED
      BY <3>1, <3>2
  <2> QED
    BY <1>8, <2>2, <2>3
<1>10. /\ Well(e) /\ Frame(w, e)
       /\ e.watch = w.watch /\ e.cache = w.cache /\ e.dbg = w.dbg /\ e.context = w.context
       /\ e.hap = w.hap
       /\ \/ e = w
          \/ n \in kernel.alive /\ e.bp = [w.bp EXCEPT ![n] = "set"]
             /\ Adds(w, e, "watchTaskHapAlone", n)
       /\ n \in kernel.alive => e.bp[n] = "set"
  <2>1. Well(w) /\ n \in Id
    BY <1>1, <1>8
  <2> QED
    BY <1>0, <2>1, WatchExitFacts
<1>11. /\ Calls(e) \subseteq Calls(w) \cup {"watchTaskHapAlone"}
       /\ Entries(e) \subseteq Entries(w) \cup {Alone("watchTaskHapAlone", n)}
       /\ Entries(w) \subseteq Entries(e)
  BY <1>10 DEF Adds
<1>13. Breaks(e, m)
  <2> SUFFICES ASSUME NEW u \in Thread PROVE BreakOK(e, m, u)
    BY DEF Breaks
  <2>1. BreakOK(c, kernel, u) /\ Alone("watchTaskHapAlone", u) \notin Entries(c)
    BY <1>2, <1>3 DEF Breaks
  <2>2. e.hap = c.hap /\ w.bp = c.bp /\ c.bp \in [Thread -> Status] /\ e.watch = c.watch \cup {n}
    <3>1. c.bp \in [Thread -> Status]
      BY <1>2 DEF Well, Manager
    <3> QED
      BY <1>7, <1>8, <1>10, <3>1
  <2>3. n \in m.born
    BY DEF KernelOK
  <2>4. CASE e = w
    BY <2>1, <2>2, <2>4 DEF BreakOK
  <2>5. CASE e.bp = [w.bp EXCEPT ![n] = "set"] /\ Adds(w, e, "watchTaskHapAlone", n)
    <3>1. CASE u = n
      BY <1>1, <2>2, <2>3, <2>5, <3>1 DEF BreakOK, Adds
    <3>2. CASE u # n
      BY <2>1, <2>2, <2>5, <3>2 DEF BreakOK
    <3> QED
      BY <3>1, <3>2
  <2> QED
    BY <1>10, <2>4, <2>5
<1>14. /\ e.watch = c.watch \cup {n} /\ ToSet(e.cache) = ToSet(c.cache) \cup {n}
       /\ e.dbg = c.dbg /\ e.task_hap = c.task_hap /\ e.demise = {} /\ e.susp = c.susp
       /\ e.clones = c.clones \cup {n} /\ e.exit_tid = c.exit_tid /\ e.context = w.context
  BY <1>3, <1>7, <1>8, <1>10 DEF Frame
<1>15. CacheOK(e, m)
  BY <1>2, <1>5, <1>14 DEF CacheOK
<1>16. DebugOK(e)
  BY <1>5, <1>14 DEF DebugOK
<1>17. QueueOK(e, m)
  <2>1. Calls(e) \cap Single = {}
    BY <1>9, <1>11 DEF Single
  <2>2. \A t \in Thread : Alone("resetAlone", t) \notin Entries(e)
    BY <1>9, <1>11 DEF Alone
  <2> QED
    BY <1>14, <2>1, <2>2 DEF QueueOK
<1>18. ContextOK(e, m)
  <2>1. n \notin c.susp => Calls(e) \cap Leaving = {} /\ e.context = "debug"
    BY <1>9, <1>11, <1>14 DEF Leaving
  <2> QED
    BY <1>1, <1>14, <2>1 DEF ContextOK
<1>19. ClonesOK(e, m)
  <2> SUFFICES ASSUME NEW t \in e.clones \cap m.execed, t \in e.watch PROVE FALSE
    BY DEF ClonesOK
  <2>1. t # n /\ t \in c.clones \cap kernel.execed /\ t \in c.watch
    BY <1>4, <1>14
  <2>2. c.watch = {t}
    BY <1>2, <2>1 DEF ClonesOK
  <2> QED
    BY <1>4, <2>2
<1>20. ExitOK(e, m)
  BY <1>2, <1>14 DEF ExitOK
<1> QED
  BY <1>10, <1>13, <1>15, <1>16, <1>17, <1>18, <1>19, <1>20 DEF Right

\* Breakpoints do not care which thread runs, nor for the context.
LEMMA SameBreaks ==
  ASSUME NEW c, NEW kernel, NEW e, NEW m, Breaks(c, kernel), e.bp = c.bp, e.hap = c.hap,
         c.watch \subseteq e.watch, Entries(c) \subseteq Entries(e),
         kernel.born \subseteq m.born
  PROVE  Breaks(e, m)
<1> SUFFICES ASSUME NEW u \in Thread PROVE BreakOK(e, m, u)
  BY DEF Breaks
<1>1. BreakOK(c, kernel, u)
  BY DEF Breaks
<1> QED
  BY <1>1 DEF BreakOK

LEMMA SwitchFacts ==
  ASSUME NEW c, NEW kernel, KernelOK(kernel), Right(c, kernel), c.queue = <<>>,
         NEW n \in kernel.alive \cup {Other},
         NEW m, m.cur = n, m.alive = kernel.alive, m.execed = kernel.execed,
         m.born = kernel.born,
         NEW e, e = alterWatches(c, n), c.task_hap = TRUE
  PROVE  Right(e, m)
<1>1. /\ Well(c) /\ Breaks(c, kernel) /\ CacheOK(c, kernel) /\ DebugOK(c)
      /\ QueueOK(c, kernel) /\ ContextOK(c, kernel) /\ ClonesOK(c, kernel) /\ ExitOK(c, kernel)
  BY DEF Right
<1>2. Entries(c) = {} /\ Calls(c) = {} /\ c.demise = {}
  BY IdleFacts
<1>3. /\ Well(e) /\ Frame(c, e) /\ e.dbg = c.dbg /\ e.watch = c.watch
      /\ e.cache = c.cache /\ e.bp = c.bp /\ e.hap = c.hap
      /\ \/ /\ n \in c.susp /\ Adds(c, e, "restoreSuspendContext", None)
            /\ e.context = c.context
         \/ /\ n \notin c.susp /\ e.queue = c.queue
            /\ IF n \in c.watch THEN c.dbg # None => e.context = "debug"
               ELSE e.context # "debug"
  BY <1>1, AlterFacts
<1>4. /\ Calls(e) \subseteq {"restoreSuspendContext"}
      /\ n \notin c.susp => /\ Calls(e) = {}
                            /\ IF n \in c.watch THEN c.dbg # None => e.context = "debug"
                               ELSE e.context # "debug"
      /\ \A t \in Thread : Alone("resetAlone", t) \notin Entries(e)
  <2>1. CASE n \in c.susp /\ Adds(c, e, "restoreSuspendContext", None)
    BY <1>2, <2>1 DEF Adds, Alone
  <2>2. CASE e.queue = c.queue
    <3>1. Entries(e) = {} /\ Calls(e) = {}
      BY <1>2, <2>2, SameQueue
    <3> QED
      BY <1>3, <3>1
  <2> QED
    BY <1>3, <2>1, <2>2
<1>5. Breaks(e, m)
  BY <1>1, <1>2, <1>3, SameBreaks
<1>6. /\ e.task_hap = TRUE /\ e.demise = {} /\ e.susp = c.susp /\ e.clones = c.clones
      /\ e.exit_tid = c.exit_tid
  BY <1>2, <1>3 DEF Frame
<1>7. CacheOK(e, m)
  BY <1>1, <1>3 DEF CacheOK
<1>8. DebugOK(e)
  BY <1>1, <1>3, <1>6 DEF DebugOK
<1>9. QueueOK(e, m)
  BY <1>4, <1>6 DEF QueueOK, Single
<1>10. ContextOK(e, m)
  <2>1. Other \notin Thread /\ c.watch \subseteq Thread /\ c.susp \subseteq Thread
    BY <1>1, TaskAssumption DEF Well, Manager
  <2>2. CASE n \in c.susp
    BY <1>6, <2>1, <2>2 DEF ContextOK
  <2>3. CASE n \notin c.susp
    BY <1>3, <1>4, <1>6, <2>1, <2>3 DEF ContextOK
  <2> QED
    BY <2>2, <2>3
<1>11. ClonesOK(e, m)
  BY <1>1, <1>3, <1>6 DEF ClonesOK
<1>12. ExitOK(e, m)
  BY <1>1, <1>3, <1>6 DEF ExitOK
<1> QED
  BY <1>3, <1>5, <1>7, <1>8, <1>9, <1>10, <1>11, <1>12 DEF Right

\* Only the running thread matters to the context, and nothing else looks at it when idle.
LEMMA KeptAcross ==
  ASSUME NEW c, NEW kernel, Right(c, kernel), c.queue = <<>>,
         NEW m, ContextOK(c, m), kernel.born \subseteq m.born,
         kernel.execed \subseteq m.execed, ClonesOK(c, m),
         c.exit_tid \in m.alive => c.exit_tid \in kernel.alive
  PROVE  Right(c, m)
<1>1. Entries(c) = {} /\ Calls(c) = {} /\ c.demise = {}
  BY IdleFacts
<1>2. Breaks(c, m)
  BY SameBreaks DEF Right
<1>3. CacheOK(c, m) /\ ExitOK(c, m)
  BY DEF Right, CacheOK, ExitOK
<1>4. QueueOK(c, m)
  BY <1>1 DEF QueueOK
<1> QED
  BY <1>2, <1>3, <1>4 DEF Right

\* Every thread switch, seen or not.
LEMMA ScheduleFacts ==
  ASSUME NEW c, NEW kernel, KernelOK(kernel), Right(c, kernel), c.queue = <<>>,
         NEW n \in kernel.alive \cup {Other},
         NEW m, m = [kernel EXCEPT !.cur = n],
         NEW e, e = IF c.task_hap THEN changedThread(c, kernel, n) ELSE c
  PROVE  KernelOK(m) /\ Right(e, m)
<1>1. /\ m.cur = n /\ m.alive = kernel.alive /\ m.execed = kernel.execed
      /\ m.born = kernel.born /\ KernelOK(m)
  BY DEF KernelOK, Kernel, Task
<1>2. /\ c \in Manager /\ DebugOK(c) /\ ContextOK(c, kernel) /\ ExitOK(c, kernel)
  BY DEF Right, Well
<1>3. Calls(c) = {}
  BY IdleFacts
<1>4. ASSUME e = c, ContextOK(c, m) PROVE Right(e, m)
  <2>1. ClonesOK(c, m)
    BY <1>1 DEF Right, ClonesOK
  <2> QED
    BY <1>1, <1>4, <2>1, KeptAcross
<1>5. CASE c.task_hap = FALSE
  <2>1. e = c
    BY <1>5
  <2>2. ContextOK(c, m)
    BY <1>2, <1>5 DEF DebugOK, ContextOK
  <2> QED
    BY <1>1, <1>4, <2>1, <2>2
<1>6. CASE c.task_hap = TRUE
  <2>1. CASE n = c.exit_tid
    <3>1. e = c
      BY <1>6, <2>1 DEF changedThread
    <3>2. n # Other /\ n \in kernel.alive
      BY <1>2, <2>1, TaskAssumption DEF Manager, Task
    <3>3. n \notin c.watch
      BY <1>2, <2>1, <3>2 DEF ExitOK
    <3>4. ContextOK(c, m)
      BY <1>1, <3>2, <3>3 DEF ContextOK
    <3> QED
      BY <1>1, <1>4, <3>1, <3>4
  <2>2. CASE n # c.exit_tid
    <3>1. n \in Task /\ n \notin ToSet(c.pending)
      <4>1. ToSet(c.pending) \subseteq Numbers
        BY <1>2, SetOfList DEF Manager
      <4>2. n \in Task
        BY <1>1 DEF KernelOK, Kernel
      <4> QED
        BY <4>1, <4>2, IdFacts
    <3>2. PendingAdded(c, kernel, n) = c
      BY <3>1 DEF PendingAdded
    <3>3. CASE IsClone(c, kernel, n)
      <4>1. n \in kernel.alive /\ n \in Thread
        BY <3>3, TaskAssumption DEF IsClone
      <4>2. n \notin c.watch
        <5>1. CacheOK(c, kernel)
          BY DEF Right
        <5> QED
          BY <3>3, <5>1 DEF IsClone, CacheOK, InCache
      <4>3. addTask(c, kernel, n, FALSE) = Cached(Watching(c, n), n)
        BY <4>1, <4>2 DEF addTask, HasRec, Watching
      <4>4. e = Cloned(c, kernel, n)
        BY <1>6, <2>2, <3>2, <3>3, <4>3 DEF changedThread, Enlisted, Cloned
      <4> QED
        BY <1>1, <2>2, <3>3, <4>1, <4>4, CloneFacts
    <3>4. CASE ~IsClone(c, kernel, n)
      <4>1. e = alterWatches(c, n)
        BY <1>6, <2>2, <3>2, <3>4 DEF changedThread
      <4> QED
        BY <1>1, <1>6, <4>1, SwitchFacts
    <3> QED
      BY <3>3, <3>4
  <2> QED
    BY <2>1, <2>2
<1> QED
  BY <1>2, <1>5, <1>6 DEF Manager

-----------------------------------------------------------------------------
(* Taking a thread out of the list.                                        *)

\* The breakpoint on the thread's link is gone, and so is its hap.
Dropped(c, t) == [c EXCEPT !.bp[t] = "absent", !.hap[t] = "absent"]

LEMMA DroppedFacts ==
  ASSUME NEW c, Well(c), NEW t \in Thread, NEW e, e = Dropped(c, t)
  PROVE  /\ Well(e) /\ Frame(c, e) /\ e.watch = c.watch /\ e.cache = c.cache
         /\ e.dbg = c.dbg /\ e.context = c.context /\ e.queue = c.queue
         /\ e.bp[t] = "absent" /\ e.hap[t] = "absent"
         /\ \A u \in Thread : u # t => e.bp[u] = c.bp[u] /\ e.hap[u] = c.hap[u]
<1> DEFINE bp == [c.bp EXCEPT ![t] = "absent"]
           hap == [c.hap EXCEPT ![t] = "absent"]
<1>1. c \in Manager /\ c.bp \in [Thread -> Status] /\ c.hap \in [Thread -> Status]
  BY DEF Well, Manager
<1>2. bp \in [Thread -> Status] /\ hap \in [Thread -> Status]
  BY <1>1 DEF Status
<1>3. e = [c EXCEPT !.bp = bp, !.hap = hap]
  BY <1>1 DEF Dropped, Manager
<1>4. /\ bp[t] = "absent" /\ hap[t] = "absent"
      /\ \A u \in Thread : u # t => bp[u] = c.bp[u] /\ hap[u] = c.hap[u]
  BY <1>1
<1> HIDE DEF bp, hap
<1>5. /\ e \in Manager /\ e.watch = c.watch /\ e.cache = c.cache
      /\ e.dbg = c.dbg /\ e.context = c.context /\ e.queue = c.queue
      /\ e.bp = bp /\ e.hap = hap
  BY <1>1, <1>2, <1>3 DEF Manager
<1>6. Frame(c, e)
  BY <1>1, <1>3 DEF Manager, Frame
<1> QED
  BY <1>4, <1>5, <1>6 DEF Well

Unlisted(c, t) == [c EXCEPT !.watch = @ \ {t}]

LEMMA UnlistedFacts ==
  ASSUME NEW c, Well(c), NEW t, NEW e, e = Unlisted(c, t)
  PROVE  Well(e) /\ Frame(c, e) /\ SameHooks(c, e) /\ e.watch = c.watch \ {t} /\ e.cache = c.cache
<1>1. c \in Manager
  BY DEF Well
<1>2. e.watch = c.watch \ {t} /\ e.cache = c.cache
  BY <1>1 DEF Unlisted, Manager
<1>3. e \in Manager
  <2> DEFINE l == c.watch \ {t}
  <2>1. l \in SUBSET Thread
    BY <1>1 DEF Manager
  <2>2. e = [c EXCEPT !.watch = l]
    BY DEF Unlisted
  <2> HIDE DEF l
  <2> QED
    BY <1>1, <2>1, <2>2 DEF Manager
<1>4. Frame(c, e) /\ SameHooks(c, e)
  BY <1>1 DEF Unlisted, Manager, Frame, SameHooks
<1> QED
  BY <1>2, <1>3, <1>4 DEF Well

\* stopWatchTid, where it takes the running thread out of the list.
StopTid(c, kernel, t) ==
    LET b == IF c.bp[t] = "absent" THEN c ELSE Dropped(c, t)
    IN Uncached(Queued(Unlisted(b, kernel.cur), "restoreDefaultContext", None), t)

LEMMA StopTidFacts ==
  ASSUME NEW c, Well(c), NEW kernel, NEW t \in Thread,
         c.bp[t] = "absent" => c.hap[t] = "absent",
         NEW e, e = StopTid(c, kernel, t)
  PROVE  /\ Well(e) /\ Frame(c, e) /\ e.dbg = c.dbg /\ e.context = c.context
         /\ e.watch = c.watch \ {kernel.cur} /\ ToSet(e.cache) = ToSet(c.cache) \ {t}
         /\ e.bp[t] = "absent" /\ e.hap[t] = "absent"
         /\ \A u \in Thread : u # t => e.bp[u] = c.bp[u] /\ e.hap[u] = c.hap[u]
         /\ Adds(c, e, "restoreDefaultContext", None)
<1> DEFINE b == IF c.bp[t] = "absent" THEN c ELSE Dropped(c, t)
           u1 == Unlisted(b, kernel.cur)
           q == Queued(u1, "restoreDefaultContext", None)
<1>0. e = Uncached(q, t)
  BY DEF StopTid
<1>1. /\ Well(b) /\ Frame(c, b) /\ b.watch = c.watch /\ b.cache = c.cache
      /\ b.dbg = c.dbg /\ b.context = c.context /\ b.queue = c.queue
      /\ b.bp[t] = "absent" /\ b.hap[t] = "absent"
      /\ \A u \in Thread : u # t => b.bp[u] = c.bp[u] /\ b.hap[u] = c.hap[u]
  <2>1. CASE c.bp[t] = "absent"
    BY <2>1 DEF Frame
  <2>2. CASE c.bp[t] # "absent"
    <3>1. b = Dropped(c, t)
      BY <2>2
    <3> QED
      BY <3>1, DroppedFacts
  <2> QED
    BY <2>1, <2>2
<1> HIDE DEF b
<1>2. /\ Well(u1) /\ Frame(b, u1) /\ SameHooks(b, u1) /\ u1.watch = b.watch \ {kernel.cur}
      /\ u1.cache = b.cache
  BY <1>1, UnlistedFacts
<1> HIDE DEF u1
<1>3. /\ Well(q) /\ Frame(u1, q) /\ Adds(u1, q, "restoreDefaultContext", None)
      /\ q.bp = u1.bp /\ q.hap = u1.hap /\ q.dbg = u1.dbg /\ q.context = u1.context
      /\ q.watch = u1.watch /\ q.cache = u1.cache
  <2>1. Alone("restoreDefaultContext", None) \in Queueable
    BY DEF Alone, Queueable
  <2> QED
    BY <1>2, <2>1, QueuedKeeps
<1> HIDE DEF q
<1>4. /\ Well(e) /\ Frame(q, e) /\ SameHooks(q, e)
      /\ e.watch = q.watch /\ ToSet(e.cache) = ToSet(q.cache) \ {t}
  BY <1>0, <1>3, UncachedKeeps
<1>5. Frame(c, e)
  BY <1>1, <1>2, <1>3, <1>4 DEF Frame
<1>6. /\ e.dbg = c.dbg /\ e.context = c.context /\ e.bp = b.bp /\ e.hap = b.hap
      /\ e.watch = c.watch \ {kernel.cur} /\ ToSet(e.cache) = ToSet(c.cache) \ {t}
  BY <1>1, <1>2, <1>3, <1>4 DEF SameHooks
<1>7. Adds(c, e, "restoreDefaultContext", None)
  <2>1. u1.queue = c.queue /\ e.queue = q.queue
    BY <1>1, <1>2, <1>4 DEF SameHooks
  <2>2. /\ Entries(u1) = Entries(c) /\ Calls(u1) = Calls(c)
        /\ Entries(e) = Entries(q) /\ Calls(e) = Calls(q)
    BY <2>1, SameQueue
  <2> QED
    BY <1>3, <2>1, <2>2 DEF Adds
<1> QED
  BY <1>1, <1>4, <1>5, <1>6, <1>7

\* What a removal of the running thread keeps on its way.
Handled(c, kernel) ==
    /\ Well(c) /\ Breaks(c, kernel) /\ CacheOK(c, kernel) /\ ClonesOK(c, kernel)
    /\ c.dbg # None /\ c.task_hap = TRUE /\ c.demise = {} /\ Calls(c) \cap Single = {}

LEMMA HandledFirst ==
  ASSUME NEW c, NEW kernel, Right(c, kernel), c.queue = <<>>, c.dbg # None
  PROVE  Handled(c, kernel)
<1>1. Calls(c) = {} /\ c.demise = {}
  BY IdleFacts
<1>2. c.task_hap = TRUE
  BY DEF Right, DebugOK, Well, Manager
<1> QED
  BY <1>1, <1>2 DEF Right, Handled

LEMMA HandledLast ==
  ASSUME NEW c, NEW kernel, KernelOK(kernel), Handled(c, kernel),
         NEW m, KernelOK(m), m.cur \in Thread \ c.watch, m.born = kernel.born,
         kernel.execed \subseteq m.execed, ClonesOK(c, m), ExitOK(c, m)
  PROVE  Right(c, m)
<1>1. Breaks(c, m) /\ CacheOK(c, m)
  <2>1. Breaks(c, m)
    BY SameBreaks DEF Handled
  <2>2. CacheOK(c, m)
    BY DEF Handled, CacheOK
  <2> QED
    BY <2>1, <2>2
<1>2. DebugOK(c)
  BY DEF Handled, DebugOK
<1>3. QueueOK(c, m)
  <2>1. \A t \in Thread : Alone("resetAlone", t) \notin Entries(c)
    BY DEF Handled, Calls, Single, Alone
  <2> QED
    BY <2>1 DEF Handled, QueueOK
<1>4. ContextOK(c, m)
  BY TaskAssumption DEF ContextOK
<1> QED
  BY <1>1, <1>2, <1>3, <1>4 DEF Right, Handled

\* The running thread is not watched any more.
LEMMA HandledStop ==
  ASSUME NEW c, NEW kernel, Handled(c, kernel), kernel.cur \in Thread,
         NEW e, e = StopTid(c, kernel, kernel.cur)
  PROVE  /\ Handled(e, kernel) /\ e.watch = c.watch \ {kernel.cur}
         /\ e.exit_tid = c.exit_tid /\ e.clones = c.clones
         /\ e.bp[kernel.cur] = "absent" /\ e.hap[kernel.cur] = "absent"
<1> DEFINE t == kernel.cur
<1>1. Well(c) /\ Breaks(c, kernel) /\ CacheOK(c, kernel) /\ ClonesOK(c, kernel)
  BY DEF Handled
<1>2. c.bp[t] = "absent" => c.hap[t] = "absent"
  BY <1>1 DEF Breaks, BreakOK
<1>3. /\ Well(e) /\ Frame(c, e) /\ e.dbg = c.dbg /\ e.context = c.context
      /\ e.watch = c.watch \ {t} /\ ToSet(e.cache) = ToSet(c.cache) \ {t}
      /\ e.bp[t] = "absent" /\ e.hap[t] = "absent"
      /\ \A u \in Thread : u # t => e.bp[u] = c.bp[u] /\ e.hap[u] = c.hap[u]
      /\ Adds(c, e, "restoreDefaultContext", None)
  BY <1>1, <1>2, StopTidFacts
<1> HIDE DEF t
<1>4. Breaks(e, kernel)
  <2> SUFFICES ASSUME NEW u \in Thread PROVE BreakOK(e, kernel, u)
    BY DEF Breaks
  <2>1. BreakOK(c, kernel, u)
    BY <1>1 DEF Breaks
  <2>2. Entries(c) \subseteq Entries(e)
    BY <1>3 DEF Adds
  <2>3. CASE u = t
    BY <1>3, <2>3 DEF BreakOK
  <2>4. CASE u # t
    BY <1>3, <2>1, <2>2, <2>4 DEF BreakOK
  <2> QED
    BY <2>3, <2>4
<1>5. CacheOK(e, kernel)
  BY <1>1, <1>3 DEF CacheOK
<1>6. ClonesOK(e, kernel)
  BY <1>1, <1>3 DEF ClonesOK, Frame
<1>7. Calls(e) \cap Single = {}
  BY <1>3 DEF Handled, Adds, Single
<1> QED
  BY <1>3, <1>4, <1>5, <1>6, <1>7 DEF Handled, Frame, t

\* Neither the list nor the cache has t any more.
Without(c, e, t) == e.watch = c.watch \ {t} /\ ToSet(e.cache) = ToSet(c.cache) \ {t}

LEMMA UnwatchedFacts ==
  ASSUME NEW c, Well(c), NEW t \in Thread,
         c.hap[t] = "absent" => c.bp[t] = "absent",
         NEW e, e = Unwatched(c, t)
  PROVE  /\ Well(e) /\ Frame(c, e) /\ e.dbg = c.dbg /\ e.context = c.context
         /\ e.queue = c.queue /\ Without(c, e, t)
         /\ c.bp[t] = "set" => e.bp[t] = "absent" /\ e.hap[t] = "absent"
         /\ c.bp[t] # "set" => e.bp[t] = c.bp[t] /\ e.hap[t] = c.hap[t]
         /\ \A u \in Thread : u # t => e.bp[u] = c.bp[u] /\ e.hap[u] = c.hap[u]
<1> DEFINE x == Unlisted(c, t)
           w == Uncached(x, t)
<1>0. e = IF c.bp[t] = "set" THEN delTidRecAlone(w, t) ELSE w
  BY DEF Unwatched, Unlisted
<1>1. Well(x) /\ Frame(c, x) /\ SameHooks(c, x) /\ x.watch = c.watch \ {t} /\ x.cache = c.cache
  BY UnlistedFacts
<1> HIDE DEF x
<1>2. /\ Well(w) /\ Frame(x, w) /\ SameHooks(x, w)
      /\ w.watch = x.watch /\ ToSet(w.cache) = ToSet(x.cache) \ {t}
  BY <1>1, UncachedKeeps
<1> HIDE DEF w
<1>3. Frame(c, w) /\ SameHooks(c, w)
  BY <1>1, <1>2 DEF Frame, SameHooks
<1>4. CASE c.bp[t] # "set"
  BY <1>0, <1>1, <1>2, <1>3, <1>4 DEF SameHooks, Without
<1>5. CASE c.bp[t] = "set"
  <2>1. w.hap[t] # "absent"
    BY <1>3, <1>5 DEF SameHooks
  <2>2. e = Dropped(w, t)
    BY <1>0, <1>5, <2>1 DEF delTidRecAlone, Dropped
  <2>3. /\ Well(e) /\ Frame(w, e) /\ e.watch = w.watch /\ e.cache = w.cache
        /\ e.dbg = w.dbg /\ e.context = w.context /\ e.queue = w.queue
        /\ e.bp[t] = "absent" /\ e.hap[t] = "absent"
        /\ \A u \in Thread : u # t => e.bp[u] = w.bp[u] /\ e.hap[u] = w.hap[u]
    BY <1>2, <2>2, DroppedFacts
  <2>4. Frame(c, e)
    BY <1>3, <2>3 DEF Frame
  <2> QED
    BY <1>1, <1>2, <1>3, <1>5, <2>3, <2>4 DEF SameHooks, Without
<1> QED
  BY <1>4, <1>5

\* Another thread becomes the debugged one.
Redirected(c, x) == [c EXCEPT !.dbg = x]

LEMMA RedirectedFacts ==
  ASSUME NEW c, NEW kernel, Handled(c, kernel), NEW x \in Id, NEW e, e = Redirected(c, x)
  PROVE  /\ Handled(e, kernel) /\ e.watch = c.watch /\ e.exit_tid = c.exit_tid
         /\ e.bp = c.bp /\ e.hap = c.hap
<1>1. c \in Manager /\ x # None
  BY IdFacts DEF Handled, Well
<1>2. /\ e \in Manager /\ e.cache = c.cache /\ e.watch = c.watch /\ e.bp = c.bp /\ e.hap = c.hap
      /\ e.queue = c.queue /\ e.dbg # None
  BY <1>1 DEF Redirected, Manager
<1>3. Frame(c, e)
  BY <1>1 DEF Redirected, Manager, Frame
<1>4. Entries(e) = Entries(c) /\ Calls(e) = Calls(c)
  BY <1>2, SameQueue
<1>5. Breaks(e, kernel)
  BY <1>2, <1>4, SameBreaks DEF Handled
<1>6. CacheOK(e, kernel) /\ ClonesOK(e, kernel)
  BY <1>2, <1>3 DEF Handled, CacheOK, ClonesOK, Frame
<1> QED
  BY <1>2, <1>3, <1>4, <1>5, <1>6 DEF Handled, Well, Frame

LEMMA HandledQueue ==
  ASSUME NEW c, NEW kernel, Handled(c, kernel),
         NEW fn \in {"restoreDefaultContext", "stopWatchTasksAlone"},
         NEW e, e = Queued(c, fn, None)
  PROVE  /\ Handled(e, kernel) /\ e.watch = c.watch /\ e.exit_tid = c.exit_tid
         /\ e.bp = c.bp /\ e.hap = c.hap
<1>1. Alone(fn, None) \in Queueable
  BY DEF Alone, Queueable
<1>2. /\ Well(e) /\ Frame(c, e) /\ Adds(c, e, fn, None)
      /\ e.bp = c.bp /\ e.hap = c.hap /\ e.dbg = c.dbg /\ e.context = c.context
      /\ e.watch = c.watch /\ e.cache = c.cache
  BY <1>1, QueuedKeeps DEF Handled
<1>3. Breaks(e, kernel)
  BY <1>2, SameBreaks DEF Handled, Adds
<1>4. CacheOK(e, kernel) /\ ClonesOK(e, kernel)
  BY <1>2 DEF Handled, CacheOK, ClonesOK, Frame
<1>5. Calls(e) \cap Single = {}
  BY <1>2 DEF Handled, Adds, Single
<1> QED
  BY <1>2, <1>3, <1>4, <1>5 DEF Handled, Frame

\* Where no thread was watched any more, one that is added is watched alone.
LEMMA HandledSwap ==
  ASSUME NEW c, NEW kernel, KernelOK(kernel), Handled(c, kernel), c.watch = {},
         NEW t \in kernel.alive,
         NEW a, a = Added(c, kernel, t), NEW e, e = Redirected(a, t)
  PROVE  /\ Handled(e, kernel) /\ e.watch = {t} /\ e.exit_tid = c.exit_tid
         /\ \A u \in Thread : u # t => e.bp[u] = c.bp[u] /\ e.hap[u] = c.hap[u]
<1>1. t \in Thread /\ t \in Id
  BY DEF KernelOK, Kernel, Id
<1>2. /\ Well(a) /\ Frame(c, a) /\ a.dbg = c.dbg /\ a.context = c.context
      /\ a.watch = c.watch \cup {t} /\ ToSet(c.cache) \subseteq ToSet(a.cache)
      /\ ToSet(a.cache) \subseteq ToSet(c.cache) \cup {t}
      /\ t \in c.watch \/ t \in ToSet(a.cache)
      /\ \/ a.bp = c.bp /\ a.hap = c.hap /\ a.queue = c.queue
         \/ /\ a.bp = [c.bp EXCEPT ![t] = "set"] /\ a.hap = c.hap
            /\ Adds(c, a, "watchTaskHapAlone", t)
      /\ Breaks(c, kernel) => Breaks(a, kernel)
  BY AddedFacts DEF Handled
<1>3. CacheOK(a, kernel) /\ ClonesOK(a, kernel)
  BY <1>1, <1>2 DEF Handled, CacheOK, ClonesOK, Frame
<1>4. Calls(a) \cap Single = {}
  <2>1. CASE a.queue = c.queue
    BY <2>1, SameQueue DEF Handled
  <2>2. CASE Adds(c, a, "watchTaskHapAlone", t)
    BY <2>2 DEF Handled, Adds, Single
  <2> QED
    BY <1>2, <2>1, <2>2
<1>5. Handled(a, kernel)
  BY <1>2, <1>3, <1>4 DEF Handled, Frame
<1>6. \A u \in Thread : u # t => a.bp[u] = c.bp[u] /\ a.hap[u] = c.hap[u]
  <2>1. c.bp \in [Thread -> Status]
    BY DEF Handled, Well, Manager
  <2> QED
    BY <1>2, <2>1
<1>7. /\ Handled(e, kernel) /\ e.watch = a.watch /\ e.exit_tid = a.exit_tid
      /\ e.bp = a.bp /\ e.hap = a.hap
  BY <1>1, <1>5, RedirectedFacts
<1> QED
  BY <1>2, <1>6, <1>7 DEF Frame

\* rmTask for a thread that is not taken for dead.
Removal(c, kernel, t, swap) == rmTask(c, kernel, t, FALSE, swap)

\* Without a record, or if it is not watched, nothing happens to a thread.
LEMMA RemovalNothing ==
  ASSUME NEW c, NEW kernel, NEW t, NEW swap, t \notin c.watch \/ ~HasRec(kernel, t)
  PROVE  Removal(c, kernel, t, swap) = {c}
BY DEF Removal, rmTask

\* A thread whose hap is not known has no breakpoint either.
Hung(c, t) == c.hap[t] = "absent" => c.bp[t] = "absent"

\* The running thread is removed; another one is debugged now, if there is one.
LEMMA HandledRemove ==
  ASSUME NEW c, NEW kernel, KernelOK(kernel), Handled(c, kernel), kernel.cur \in Thread,
         c.hap[kernel.cur] = "absent" => c.bp[kernel.cur] = "absent",
         NEW swap, NEW r \in Removal(c, kernel, kernel.cur, swap)
  PROVE  /\ Handled(r, kernel) /\ kernel.cur \notin r.watch /\ r.exit_tid = c.exit_tid
         /\ Hung(r, kernel.cur)
         /\ c.watch \ {kernel.cur} # {} => r.watch \subseteq c.watch
<1> DEFINE t == kernel.cur
           d == Unwatched(c, t)
<1>1. CASE t \notin c.watch
  <2>1. r = c
    BY <1>1, RemovalNothing
  <2> QED
    BY <1>1, <2>1 DEF Hung
<1>2. CASE t \in c.watch
  <2>1. /\ Well(d) /\ Frame(c, d) /\ d.dbg = c.dbg /\ d.context = c.context
        /\ d.queue = c.queue /\ Without(c, d, t)
        /\ c.bp[t] = "set" => d.bp[t] = "absent" /\ d.hap[t] = "absent"
        /\ c.bp[t] # "set" => d.bp[t] = c.bp[t] /\ d.hap[t] = c.hap[t]
        /\ \A u \in Thread : u # t => d.bp[u] = c.bp[u] /\ d.hap[u] = c.hap[u]
    <3>1. c.hap[t] = "absent" => c.bp[t] = "absent"
      OBVIOUS
    <3>3. t \in Thread
      OBVIOUS
    <3>4. Well(c)
      BY DEF Handled
    <3>2. d = Unwatched(c, t)
      OBVIOUS
    <3> HIDE DEF t, d
    <3> QED
      BY <3>1, <3>2, <3>3, <3>4, UnwatchedFacts
  <2>0. d.watch = c.watch \ {t} /\ ToSet(d.cache) = ToSet(c.cache) \ {t}
    BY <2>1 DEF Without
  <2>2. HasRec(kernel, t)
    BY DEF HasRec
  <2>3. r \in IF d.watch = {} THEN LastRecord(d, kernel, t, swap)
             ELSE IF t # d.dbg THEN {d}
             ELSE IF d.cache = <<>> THEN {Raise(d, "rmTask")}
             ELSE {Redirected(d, Head(d.cache))}
    BY <1>2, <2>2 DEF Removal, rmTask, Redirected
  <2> HIDE DEF d, t
  <2>4. Entries(d) = Entries(c) /\ Calls(d) = Calls(c)
    BY <2>1, SameQueue
  <2>5. Breaks(d, kernel)
    <3> SUFFICES ASSUME NEW u \in Thread PROVE BreakOK(d, kernel, u)
      BY DEF Breaks
    <3>1. BreakOK(c, kernel, u)
      BY DEF Handled, Breaks
    <3>2. CASE u = t
      BY <2>0, <2>1, <2>4, <3>1, <3>2 DEF BreakOK
    <3>3. CASE u # t
      BY <2>0, <2>1, <2>4, <3>1, <3>3 DEF BreakOK
    <3> QED
      BY <3>2, <3>3
  <2>6. CacheOK(d, kernel) /\ ClonesOK(d, kernel)
    BY <2>0, <2>1 DEF Handled, CacheOK, ClonesOK, Frame
  <2>7. Handled(d, kernel) /\ d.exit_tid = c.exit_tid
    BY <2>1, <2>4, <2>5, <2>6 DEF Handled, Frame
  <2>8. Hung(d, t)
    <3>1. c.hap[t] = "absent" => c.bp[t] = "absent"
      BY DEF t
    <3> QED
      BY <2>1, <3>1 DEF Hung
  <2>9. CASE d.watch = {}
    <3> DEFINE rest == TidsForComm(kernel) \ {t}
    <3>1. rest \subseteq kernel.alive
      BY DEF TidsForComm, t
    <3>2. c.watch \ {t} = {}
      BY <2>0, <2>9
    <3>3. /\ d.pending # <<>> => r = Redirected(d, Head(d.pending))
          /\ d.pending = <<>> =>
               \/ r = Queued(d, "restoreDefaultContext", None)
               \/ \E u \in rest : r = Redirected(Added(d, kernel, u), u)
               \/ r = Queued(Queued(d, "restoreDefaultContext", None), "stopWatchTasksAlone", None)
      BY <2>3, <2>9 DEF LastRecord, Redirected, Added
    <3> HIDE DEF rest
    <3>4. CASE d.pending # <<>>
      <4>1. Head(d.pending) \in Id
        <5>1. d.pending \in Seq(Numbers)
          BY <2>1 DEF Well, Manager
        <5> QED
          BY <3>4, <5>1, HeadTailProperties DEF Id
      <4>2. r = Redirected(d, Head(d.pending))
        BY <3>3, <3>4
      <4>3. /\ Handled(r, kernel) /\ r.watch = d.watch /\ r.exit_tid = d.exit_tid
            /\ r.bp = d.bp /\ r.hap = d.hap
        BY <2>7, <4>1, <4>2, RedirectedFacts
      <4> QED
        BY <2>7, <2>8, <2>9, <3>2, <4>3 DEF t, Hung
    <3>5. CASE r = Queued(d, "restoreDefaultContext", None)
      <4>1. /\ Handled(r, kernel) /\ r.watch = d.watch /\ r.exit_tid = d.exit_tid
            /\ r.bp = d.bp /\ r.hap = d.hap
        BY <2>7, <3>5, HandledQueue
      <4> QED
        BY <2>7, <2>8, <2>9, <3>2, <4>1 DEF t, Hung
    <3>6. CASE r = Queued(Queued(d, "restoreDefaultContext", None), "stopWatchTasksAlone", None)
      <4> DEFINE q == Queued(d, "restoreDefaultContext", None)
      <4>1. /\ Handled(q, kernel) /\ q.watch = d.watch /\ q.exit_tid = d.exit_tid
            /\ q.bp = d.bp /\ q.hap = d.hap
        BY <2>7, HandledQueue
      <4>2. r = Queued(q, "stopWatchTasksAlone", None)
        BY <3>6
      <4> HIDE DEF q
      <4>3. /\ Handled(r, kernel) /\ r.watch = q.watch /\ r.exit_tid = q.exit_tid
            /\ r.bp = q.bp /\ r.hap = q.hap
        BY <4>1, <4>2, HandledQueue
      <4> QED
        BY <2>7, <2>8, <2>9, <3>2, <4>1, <4>3 DEF t, Hung
    <3>7. CASE \E u \in rest : r = Redirected(Added(d, kernel, u), u)
      <4>1. PICK u \in rest : r = Redirected(Added(d, kernel, u), u)
        BY <3>7
      <4>2. u \in kernel.alive /\ u # t
        BY <3>1, <4>1 DEF rest
      <4> DEFINE a == Added(d, kernel, u)
      <4>3. a = Added(d, kernel, u) /\ r = Redirected(a, u)
        BY <4>1
      <4> HIDE DEF a
      <4>4. /\ Handled(r, kernel) /\ r.watch = {u} /\ r.exit_tid = d.exit_tid
            /\ \A v \in Thread : v # u => r.bp[v] = d.bp[v] /\ r.hap[v] = d.hap[v]
        BY <2>7, <2>9, <4>2, <4>3, HandledSwap
      <4> QED
        BY <2>7, <2>8, <3>2, <4>2, <4>4 DEF t, Hung
    <3> QED
      BY <3>3, <3>4, <3>5, <3>6, <3>7
  <2>10. CASE d.watch # {}
    <3>1. d.cache # <<>>
      <4>1. d.watch \subseteq ToSet(d.cache)
        BY <1>2, <2>0, <2>10 DEF Handled, CacheOK
      <4>2. d.cache \in Seq(Id)
        BY <2>1 DEF Well, Manager
      <4> QED
        BY <2>10, <4>1, <4>2, SetOfList
    <3>2. r = d \/ r = Redirected(d, Head(d.cache))
      BY <2>3, <2>10, <3>1
    <3>3. Head(d.cache) \in Id
      <4>1. d.cache \in Seq(Id)
        BY <2>1 DEF Well, Manager
      <4> QED
        BY <3>1, <4>1, HeadTailProperties
    <3>4. /\ Handled(r, kernel) /\ r.watch = d.watch /\ r.exit_tid = d.exit_tid
          /\ r.bp = d.bp /\ r.hap = d.hap
      BY <2>7, <3>2, <3>3, RedirectedFacts
    <3> QED
      BY <2>0, <2>7, <2>8, <3>4 DEF t, Hung
  <2> QED
    BY <2>9, <2>10
<1> QED
  BY <1>1, <1>2

Forced(c, kernel, t) == stopWatchTid(c, kernel, t, TRUE)
Asked(c, kernel, t) == stopWatchTid(c, kernel, t, FALSE)

\* stopWatchTid finds the hap of every breakpoint.
LEMMA ForcedFacts ==
  ASSUME NEW c, NEW kernel, NEW t, c.hap[t] = "absent" => c.bp[t] = "absent"
  PROVE  Forced(c, kernel, t) = StopTid(c, kernel, t)
BY DEF Forced, stopWatchTid, StopTid, Dropped, Unlisted

LEMMA AskedFacts ==
  ASSUME NEW c, NEW kernel, c.dbg # None,
         c.hap[kernel.cur] = "absent" => c.bp[kernel.cur] = "absent"
  PROVE  Asked(c, kernel, kernel.cur) = StopTid(c, kernel, kernel.cur)
BY DEF Asked, stopWatchTid, StopTid, Dropped, Unlisted

Uncloned(c, t) == [c EXCEPT !.clones = @ \ {t}]

LEMMA UnclonedFacts ==
  ASSUME NEW c, Well(c), NEW t, NEW e, e = Uncloned(c, t)
  PROVE  /\ Well(e) /\ e.clones = c.clones \ {t} /\ SameHooks(c, e)
         /\ e.watch = c.watch /\ e.cache = c.cache /\ e.task_hap = c.task_hap
         /\ e.demise = c.demise /\ e.exit_tid = c.exit_tid /\ e.susp = c.susp
<1>1. c \in Manager
  BY DEF Well
<1>2. e \in Manager
  <2> DEFINE l == c.clones \ {t}
  <2>1. l \in SUBSET Thread
    BY <1>1 DEF Manager
  <2>2. e = [c EXCEPT !.clones = l]
    BY DEF Uncloned
  <2> HIDE DEF l
  <2> QED
    BY <1>1, <2>1, <2>2 DEF Manager
<1>3. /\ e.clones = c.clones \ {t} /\ e.watch = c.watch /\ e.cache = c.cache
      /\ e.task_hap = c.task_hap /\ e.demise = c.demise /\ e.exit_tid = c.exit_tid
      /\ e.susp = c.susp
  BY <1>1 DEF Uncloned, Manager
<1>4. SameHooks(c, e)
  BY <1>1 DEF Uncloned, Manager, SameHooks
<1> QED
  BY <1>2, <1>3, <1>4 DEF Well

\* The running thread is noticed to have execed, and stopped.
LEMMA HandledStopClone ==
  ASSUME NEW c, NEW kernel, Handled(c, kernel), kernel.cur \in Thread,
         c.hap[kernel.cur] = "absent" => c.bp[kernel.cur] = "absent",
         NEW e, e = stopClone(c, kernel, kernel.cur)
  PROVE  /\ Handled(e, kernel) /\ e.watch = c.watch \ {kernel.cur}
         /\ e.exit_tid = c.exit_tid
         /\ e.bp[kernel.cur] = "absent" /\ e.hap[kernel.cur] = "absent"
<1> DEFINE d == Uncloned(c, kernel.cur)
<1>1. e = Forced(d, kernel, kernel.cur)
  BY DEF stopClone, Forced, Uncloned
<1>2. /\ Well(d) /\ d.clones = c.clones \ {kernel.cur} /\ SameHooks(c, d)
      /\ d.watch = c.watch /\ d.cache = c.cache /\ d.task_hap = c.task_hap
      /\ d.demise = c.demise /\ d.exit_tid = c.exit_tid
  BY UnclonedFacts DEF Handled
<1> HIDE DEF d
<1>3. Handled(d, kernel)
  <2>1. Entries(d) = Entries(c) /\ Calls(d) = Calls(c)
    BY <1>2, SameQueue DEF SameHooks
  <2>2. Breaks(d, kernel)
    BY <1>2, <2>1, SameBreaks DEF Handled, SameHooks
  <2>3. CacheOK(d, kernel) /\ ClonesOK(d, kernel)
    BY <1>2 DEF Handled, CacheOK, ClonesOK
  <2> QED
    BY <1>2, <2>1, <2>2, <2>3 DEF Handled, SameHooks
<1>4. e = StopTid(d, kernel, kernel.cur)
  <2>1. d.hap[kernel.cur] = "absent" => d.bp[kernel.cur] = "absent"
    BY <1>2 DEF SameHooks
  <2> QED
    BY <1>1, <2>1, ForcedFacts
<1>5. /\ Handled(e, kernel) /\ e.watch = d.watch \ {kernel.cur}
      /\ e.exit_tid = d.exit_tid
      /\ e.bp[kernel.cur] = "absent" /\ e.hap[kernel.cur] = "absent"
  BY <1>3, <1>4, HandledStop
<1> QED
  BY <1>2, <1>5

\* A system call of a thread that has execed (isCloneWrongComm).
LEMMA SyscallFacts ==
  ASSUME NEW c, NEW kernel, KernelOK(kernel), Right(c, kernel), c.queue = <<>>,
         c.dbg # None, kernel.cur \in Thread,
         NEW e, e = stopClone(c, kernel, kernel.cur)
  PROVE  Right(e, kernel)
<1>1. Handled(c, kernel)
  BY HandledFirst
<1>2. c.hap[kernel.cur] = "absent" => c.bp[kernel.cur] = "absent"
  BY IdleFacts
<1>3. Handled(e, kernel) /\ e.watch = c.watch \ {kernel.cur} /\ e.exit_tid = c.exit_tid
  BY <1>1, <1>2, HandledStopClone
<1>4. ExitOK(e, kernel) /\ ClonesOK(e, kernel)
  BY <1>3 DEF Right, ExitOK, Handled
<1> QED
  BY <1>3, <1>4, HandledLast

Noted(c, t) == [c EXCEPT !.exit_tid = t]

LEMMA NotedFacts ==
  ASSUME NEW c, Well(c), NEW t \in Thread \cup {None}, NEW e, e = Noted(c, t)
  PROVE  /\ Well(e) /\ e.exit_tid = t /\ SameHooks(c, e)
         /\ e.watch = c.watch /\ e.cache = c.cache /\ e.task_hap = c.task_hap
         /\ e.demise = c.demise /\ e.clones = c.clones /\ e.susp = c.susp
         /\ e.pending = c.pending
<1>1. c \in Manager
  BY DEF Well
<1>2. e \in Manager
  BY <1>1 DEF Noted, Manager
<1>3. /\ e.exit_tid = t /\ e.watch = c.watch /\ e.cache = c.cache
      /\ e.task_hap = c.task_hap /\ e.demise = c.demise /\ e.clones = c.clones
      /\ e.susp = c.susp /\ e.pending = c.pending
  BY <1>1 DEF Noted, Manager
<1>4. SameHooks(c, e)
  BY <1>1 DEF Noted, Manager, SameHooks
<1> QED
  BY <1>2, <1>3, <1>4 DEF Well

\* exit or exit_group of the running thread (handleExit, tidExit, stopWatchTid).
LEMMA ExitSyscallFacts ==
  ASSUME NEW c, NEW kernel, KernelOK(kernel), Right(c, kernel), c.queue = <<>>,
         c.dbg # None, kernel.cur \in Thread, NEW swap,
         NEW h \in handleExit(c, kernel, kernel.cur, swap),
         NEW e, e = Asked(Noted(h, kernel.cur), kernel, kernel.cur),
         NEW m, KernelOK(m), m.cur = kernel.cur, m.alive = kernel.alive,
         m.execed = kernel.execed, m.born = kernel.born
  PROVE  Right(e, m)
<1> DEFINE t == kernel.cur
           x == IF CloneWrongComm(c, kernel, t) THEN stopClone(c, kernel, t) ELSE c
           g == Noted(h, t)
<1>1. Handled(c, kernel)
  BY HandledFirst
<1>2. c.hap[t] = "absent" => c.bp[t] = "absent"
  BY IdleFacts
<1>3. Handled(x, kernel) /\ (x.hap[t] = "absent" => x.bp[t] = "absent")
  <2>1. CASE CloneWrongComm(c, kernel, t)
    <3>1. x = stopClone(c, kernel, kernel.cur)
      BY <2>1
    <3> HIDE DEF x
    <3>2. Handled(x, kernel) /\ x.bp[kernel.cur] = "absent"
      BY <1>1, <1>2, <3>1, HandledStopClone
    <3> QED
      BY <3>2
  <2>2. CASE ~CloneWrongComm(c, kernel, t)
    BY <1>1, <1>2, <2>2
  <2> QED
    BY <2>1, <2>2
<1>4. h \in Removal(x, kernel, t, swap)
  BY DEF handleExit, Removal
<1> HIDE DEF x
<1>5. Handled(h, kernel) /\ t \notin h.watch /\ (h.hap[t] = "absent" => h.bp[t] = "absent")
  <2>1. Handled(x, kernel)
    BY <1>3
  <2>2. x.hap[kernel.cur] = "absent" => x.bp[kernel.cur] = "absent"
    BY <1>3
  <2>3. h \in Removal(x, kernel, kernel.cur, swap)
    BY <1>4
  <2>4. Handled(h, kernel) /\ kernel.cur \notin h.watch
    BY <2>1, <2>2, <2>3, HandledRemove
  <2>5. Hung(h, kernel.cur)
    BY <2>1, <2>2, <2>3, HandledRemove
  <2> QED
    BY <2>4, <2>5 DEF Hung
<1>6. /\ Well(g) /\ g.exit_tid = t /\ SameHooks(h, g)
      /\ g.watch = h.watch /\ g.cache = h.cache /\ g.task_hap = h.task_hap
      /\ g.demise = h.demise /\ g.clones = h.clones
  <2>1. Well(h) /\ t \in Thread \cup {None} /\ g = Noted(h, t)
    BY <1>5 DEF Handled
  <2> HIDE DEF t, g
  <2> QED
    BY <2>1, NotedFacts
<1>7. e = Asked(g, kernel, kernel.cur)
  OBVIOUS
<1> HIDE DEF g
<1>8. Handled(g, kernel)
  <2>1. Entries(g) = Entries(h) /\ Calls(g) = Calls(h)
    BY <1>6, SameQueue DEF SameHooks
  <2>2. Breaks(g, kernel)
    BY <1>5, <1>6, <2>1, SameBreaks DEF Handled, SameHooks
  <2>3. CacheOK(g, kernel) /\ ClonesOK(g, kernel)
    BY <1>5, <1>6 DEF Handled, CacheOK, ClonesOK
  <2> QED
    BY <1>5, <1>6, <2>1, <2>2, <2>3 DEF Handled, SameHooks
<1>9. e = StopTid(g, kernel, kernel.cur)
  <2>1. g.dbg # None
    BY <1>8 DEF Handled
  <2>2. g.hap[kernel.cur] = "absent" => g.bp[kernel.cur] = "absent"
    BY <1>5, <1>6 DEF SameHooks
  <2> QED
    BY <1>7, <2>1, <2>2, AskedFacts
<1>10. /\ Handled(e, kernel) /\ e.watch = g.watch \ {kernel.cur}
       /\ e.exit_tid = g.exit_tid
  BY <1>8, <1>9, HandledStop
<1>11. ExitOK(e, m)
  <2>1. kernel.cur \in kernel.born
    BY TaskAssumption DEF KernelOK
  <2> QED
    BY <1>6, <1>10, <2>1 DEF ExitOK
<1>12. ClonesOK(e, m)
  BY <1>10 DEF Handled, ClonesOK
<1> QED
  BY <1>10, <1>11, <1>12, HandledLast

\* trackThreads sees every exec.
Seen == "trackThreads" \in ExecHooks

\* A forked process is never suspended.
Unsuspended == Suspendable \cap Forked = {}

\* A thread is taken out when it execs, unless it is the only one that is watched.
LEMMA ExecSeenFacts ==
  ASSUME Seen, NEW c, NEW kernel, KernelOK(kernel), Right(c, kernel), c.queue = <<>>,
         c.dbg # None, kernel.cur \in Thread, NEW swap,
         NEW r \in execveHap(c, kernel, kernel.cur, swap)
  PROVE  \/ r = c /\ (kernel.cur \in c.watch => c.watch = {kernel.cur})
         \/ /\ Handled(r, kernel) /\ kernel.cur \notin r.watch /\ r.exit_tid = c.exit_tid
            /\ r.watch \subseteq c.watch
<1> DEFINE t == kernel.cur
<1>1. CASE t \notin c.watch
  <2>1. Removal(c, kernel, t, swap) = {c}
    BY <1>1, RemovalNothing
  <2>2. r = c
    BY <2>1 DEF execveHap, Removal
  <2> QED
    BY <1>1, <2>2
<1>2. CASE t \in c.watch /\ Cardinality(c.watch) = 1
  <2>1. r = c
    BY <1>2 DEF execveHap
  <2>2. IsFiniteSet(c.watch)
    <3>1. c.watch \subseteq Thread
      BY DEF Right, Well, Manager
    <3> QED
      BY <3>1, FS_Subset, TaskAssumption
  <2>3. PICK x : c.watch = {x}
    BY <1>2, <2>2, FS_Singleton
  <2> QED
    BY <1>2, <2>1, <2>3
<1>3. CASE t \in c.watch /\ Cardinality(c.watch) # 1
  <2>1. amWatching(c, kernel, t)
    BY <1>3 DEF amWatching
  <2>2. r \in Removal(c, kernel, t, swap)
    BY <1>3, <2>1 DEF execveHap, Removal, Seen
  <2>3. c.watch \ {t} # {}
    <3>1. c.watch # {t}
      BY <1>3, FS_Singleton
    <3> QED
      BY <1>3, <3>1
  <2>4. Handled(c, kernel)
    BY HandledFirst
  <2>5. c.hap[t] = "absent" => c.bp[t] = "absent"
    BY IdleFacts
  <2>6. /\ Handled(r, kernel) /\ t \notin r.watch /\ r.exit_tid = c.exit_tid
        /\ c.watch \ {t} # {} => r.watch \subseteq c.watch
    BY <2>2, <2>4, <2>5, HandledRemove
  <2> QED
    BY <2>3, <2>6
<1> QED
  BY <1>1, <1>2, <1>3

\* An exec that breakpoints on system calls see.
LEMMA ExecHookedFacts ==
  ASSUME Seen, NEW c, NEW kernel, KernelOK(kernel), Right(c, kernel), c.queue = <<>>,
         c.dbg # None, kernel.cur \in Thread, NEW swap,
         NEW r \in execveHap(c, kernel, kernel.cur, swap),
         NEW e, e = parseExecve(r, kernel, kernel.cur),
         NEW m, KernelOK(m), m.cur = kernel.cur, m.alive = kernel.alive,
         m.execed = kernel.execed \cup {kernel.cur}, m.born = kernel.born
  PROVE  Right(e, m)
<1> DEFINE t == kernel.cur
<1>1. \/ r = c /\ (t \in c.watch => c.watch = {t})
      \/ /\ Handled(r, kernel) /\ t \notin r.watch /\ r.exit_tid = c.exit_tid
         /\ r.watch \subseteq c.watch
  BY ExecSeenFacts
<1>2. \/ t \in r.watch /\ e = Asked(r, kernel, t)
      \/ e = r
  BY DEF parseExecve, Asked
<1>3. CASE r = c /\ (t \in c.watch => c.watch = {t}) /\ e = c
  <2>1. ClonesOK(c, m)
    BY <1>3 DEF Right, ClonesOK
  <2>2. ContextOK(c, m)
    BY DEF Right, ContextOK
  <2> QED
    BY <1>3, <2>1, <2>2, KeptAcross
<1>4. CASE r = c /\ t \in r.watch /\ e = Asked(r, kernel, t)
  <2>1. Handled(c, kernel)
    BY HandledFirst
  <2>2. c.hap[t] = "absent" => c.bp[t] = "absent"
    BY IdleFacts
  <2>3. e = StopTid(c, kernel, kernel.cur)
    BY <1>4, <2>2, AskedFacts
  <2>4. Handled(e, kernel) /\ e.watch = c.watch \ {kernel.cur} /\ e.exit_tid = c.exit_tid
    BY <2>1, <2>3, HandledStop
  <2>5. ClonesOK(e, m)
    BY <2>4 DEF Handled, ClonesOK
  <2>6. ExitOK(e, m)
    BY <2>4 DEF Right, ExitOK
  <2> QED
    BY <2>4, <2>5, <2>6, HandledLast
<1>5. CASE /\ Handled(r, kernel) /\ t \notin r.watch /\ r.exit_tid = c.exit_tid
           /\ r.watch \subseteq c.watch /\ e = r
  <2>1. ClonesOK(e, m)
    BY <1>5 DEF Handled, ClonesOK
  <2>2. ExitOK(e, m)
    BY <1>5 DEF Right, ExitOK
  <2> QED
    BY <1>5, <2>1, <2>2, HandledLast
<1> QED
  BY <1>1, <1>2, <1>3, <1>4, <1>5

\* An exec that none sees is not one of a watched process.
LEMMA ExecUnhookedFacts ==
  ASSUME Unsuspended, NEW c, NEW kernel, KernelOK(kernel), Right(c, kernel), c.queue = <<>>,
         c.dbg = None \/ c.context # "debug", kernel.cur \in Forked,
         NEW m, KernelOK(m), m.cur = kernel.cur, m.alive = kernel.alive,
         m.execed = kernel.execed \cup {kernel.cur}, m.born = kernel.born
  PROVE  Right(c, m)
<1>1. kernel.cur \notin c.susp
  BY DEF Unsuspended, Right, Well, Manager
<1>2. kernel.cur \notin c.watch
  <2>1. c.dbg # None /\ kernel.cur \in c.watch \ c.susp => c.context = "debug"
    BY IdleFacts
  <2> QED
    BY <1>1, <2>1 DEF Right, DebugOK
<1>3. ClonesOK(c, m)
  BY <1>2 DEF Right, ClonesOK
<1>4. ContextOK(c, m)
  BY DEF Right, ContextOK
<1> QED
  BY <1>3, <1>4, KeptAcross

\* The number of a clone that has no record yet waits in pending, and is cached.
LEMMA NumberFacts ==
  ASSUME NEW c, NEW kernel, KernelOK(kernel), Right(c, kernel), c.queue = <<>>,
         c.dbg # None, NEW n \in Thread, NEW e, e = Added(c, kernel, Number(n))
  PROVE  /\ Right(e, kernel) /\ e.queue = <<>> /\ e.watch = c.watch /\ e.susp = c.susp
         /\ e.exit_tid = c.exit_tid /\ e.clones = c.clones /\ e.context = c.context
         /\ e.dbg = c.dbg
<1> DEFINE x == Number(n)
           d == [c EXCEPT !.pending = Append(@, x)]
<1>1. c \in Manager /\ NoDup(c.cache)
  BY DEF Right, Well
<1>2. x \in Numbers /\ x \in Id /\ x \notin Task
  BY IdFacts DEF Id
<1>3. x \notin c.watch /\ ~HasRec(kernel, x)
  <2>1. c.watch \subseteq Thread
    BY <1>1 DEF Manager
  <2>2. kernel.alive \cup {kernel.cur} \subseteq Task
    BY DEF KernelOK, Kernel, Task
  <2> QED
    BY <1>2, <2>1, <2>2, IdFacts DEF HasRec
<1>4. e = Cached(d, x)
  BY <1>3 DEF Added, addTask
<1> HIDE DEF x
<1>5. /\ Well(d) /\ SameHooks(c, d) /\ d.watch = c.watch /\ d.cache = c.cache
      /\ d.task_hap = c.task_hap /\ d.demise = c.demise /\ d.susp = c.susp
      /\ d.clones = c.clones /\ d.exit_tid = c.exit_tid
  <2> DEFINE l == Append(c.pending, x)
  <2>1. l \in Seq(Numbers)
    BY <1>1, <1>2, AppendProperties DEF Manager
  <2>2. d = [c EXCEPT !.pending = l]
    OBVIOUS
  <2> HIDE DEF l, d
  <2>3. d \in Manager /\ d.cache = c.cache
    BY <1>1, <2>1, <2>2 DEF Manager
  <2>4. /\ d.watch = c.watch /\ d.task_hap = c.task_hap /\ d.demise = c.demise
        /\ d.susp = c.susp /\ d.clones = c.clones /\ d.exit_tid = c.exit_tid
    BY <1>1, <2>2 DEF Manager
  <2>5. SameHooks(c, d)
    BY <1>1, <2>2 DEF Manager, SameHooks
  <2> QED
    BY <1>1, <2>3, <2>4, <2>5 DEF Well
<1> HIDE DEF d
<1>6. /\ Well(e) /\ Frame(d, e) /\ SameHooks(d, e)
      /\ e.watch = d.watch /\ ToSet(e.cache) = ToSet(d.cache) \cup {x}
  BY <1>2, <1>4, <1>5, CachedKeeps
<1>7. /\ e.bp = c.bp /\ e.hap = c.hap /\ e.dbg = c.dbg /\ e.context = c.context
      /\ e.queue = c.queue /\ e.watch = c.watch /\ ToSet(e.cache) = ToSet(c.cache) \cup {x}
      /\ e.task_hap = c.task_hap /\ e.demise = c.demise /\ e.susp = c.susp
      /\ e.clones = c.clones /\ e.exit_tid = c.exit_tid
  BY <1>5, <1>6 DEF Frame, SameHooks
<1>8. Entries(e) = Entries(c) /\ Calls(e) = Calls(c)
  BY <1>7, SameQueue
<1>9. Breaks(e, kernel)
  BY <1>7, <1>8, SameBreaks DEF Right
<1>10. CacheOK(e, kernel)
  <2>1. x \notin Thread
    BY <1>2, IdFacts
  <2> QED
    BY <1>7, <2>1 DEF Right, CacheOK
<1>11. DebugOK(e)
  <2>1. c.task_hap # FALSE
    BY DEF Right, DebugOK
  <2> QED
    BY <1>7, <2>1 DEF DebugOK
<1>12. QueueOK(e, kernel)
  BY <1>7, <1>8 DEF Right, QueueOK
<1>13. ContextOK(e, kernel)
  BY <1>7, <1>8 DEF Right, ContextOK
<1>14. ClonesOK(e, kernel) /\ ExitOK(e, kernel)
  BY <1>7 DEF Right, ClonesOK, ExitOK
<1> QED
  BY <1>6, <1>7, <1>9, <1>10, <1>11, <1>12, <1>13, <1>14 DEF Right

\* clone in the running thread: the new one is born, and watched by its number if it is seen.
LEMMA CloneCallFacts ==
  ASSUME NEW c, NEW kernel, KernelOK(kernel), Right(c, kernel), c.queue = <<>>,
         NEW n \in Thread \ kernel.born,
         NEW e, e = c \/ (c.dbg # None /\ e = Added(c, kernel, Number(n))),
         NEW m, m.cur = kernel.cur, m.alive = kernel.alive \cup {n},
         m.execed = kernel.execed, m.born = kernel.born \cup {n}
  PROVE  Right(e, m)
<1>1. Right(e, kernel) /\ e.queue = <<>> /\ e.exit_tid = c.exit_tid
  <2>1. CASE e = c
    BY <2>1
  <2>2. CASE c.dbg # None /\ e = Added(c, kernel, Number(n))
    BY <2>2, NumberFacts
  <2> QED
    BY <2>1, <2>2
<1>2. ContextOK(e, m) /\ ClonesOK(e, m)
  BY <1>1 DEF Right, ContextOK, ClonesOK
<1>3. e.exit_tid \in m.alive => e.exit_tid \in kernel.alive
  <2>1. e.exit_tid # None => e.exit_tid \in kernel.born
    BY <1>1 DEF Right, ExitOK
  <2>2. n # None
    BY TaskAssumption DEF Task
  <2> QED
    BY <2>1, <2>2
<1> QED
  BY <1>1, <1>2, <1>3, KeptAcross

-----------------------------------------------------------------------------
(* The link to a thread's record is written.                               *)

\* A thread that is unlinked makes no difference by itself.
LEMMA KeptSmaller ==
  ASSUME NEW c, NEW kernel, Right(c, kernel),
         NEW m, m.cur = kernel.cur, m.born = kernel.born, m.execed = kernel.execed,
         m.alive \subseteq kernel.alive
  PROVE  Right(c, m)
<1>1. Breaks(c, m)
  BY SameBreaks DEF Right
<1>2. CacheOK(c, m) /\ QueueOK(c, m) /\ ContextOK(c, m) /\ ClonesOK(c, m) /\ ExitOK(c, m)
  BY DEF Right, CacheOK, QueueOK, ContextOK, ClonesOK, ExitOK
<1> QED
  BY <1>1, <1>2 DEF Right

\* An exec of the only watched thread is noticed while another runs: the thread stays in the
\* list, but is not cached any more.
LEMMA LateNoticeFacts ==
  ASSUME NEW c, NEW kernel, KernelOK(kernel), Right(c, kernel), c.queue = <<>>,
         NEW t \in Thread, t # kernel.cur, c.hap[t] = "set", CloneWrongComm(c, kernel, t),
         NEW e, e = stopClone(c, kernel, t)
  PROVE  Right(e, kernel)
<1>1. Entries(c) = {} /\ Calls(c) = {} /\ c.demise = {} /\ c.bp[t] = "set"
  BY IdleFacts
<1>2. BreakOK(c, kernel, t) /\ Well(c)
  BY DEF Right, Breaks
<1>3. c.watch = {t} /\ c.dbg # None /\ t \in kernel.execed
  BY <1>1, <1>2 DEF Right, BreakOK, ClonesOK, CloneWrongComm, DebugOK
<1> DEFINE d == Uncloned(c, t)
<1>4. e = Forced(d, kernel, t)
  BY DEF stopClone, Forced, Uncloned
<1>5. /\ Well(d) /\ d.clones = c.clones \ {t} /\ SameHooks(c, d)
      /\ d.watch = c.watch /\ d.cache = c.cache /\ d.task_hap = c.task_hap
      /\ d.demise = c.demise /\ d.exit_tid = c.exit_tid /\ d.susp = c.susp
  BY <1>2, UnclonedFacts
<1> HIDE DEF d
<1>6. d.bp[t] = "set" /\ d.hap[t] = "set"
  BY <1>1, <1>5 DEF SameHooks
<1>7. e = StopTid(d, kernel, t)
  BY <1>4, <1>6, ForcedFacts
<1>8. /\ Well(e) /\ Frame(d, e) /\ e.dbg = d.dbg /\ e.context = d.context
      /\ e.watch = d.watch \ {kernel.cur} /\ ToSet(e.cache) = ToSet(d.cache) \ {t}
      /\ e.bp[t] = "absent" /\ e.hap[t] = "absent"
      /\ \A u \in Thread : u # t => e.bp[u] = d.bp[u] /\ e.hap[u] = d.hap[u]
      /\ Adds(d, e, "restoreDefaultContext", None)
  BY <1>5, <1>6, <1>7, StopTidFacts
<1>9. /\ e.watch = {t} /\ e.dbg # None /\ e.context = c.context
      /\ ToSet(e.cache) = ToSet(c.cache) \ {t}
      /\ e.task_hap = c.task_hap /\ e.demise = {} /\ e.clones = c.clones \ {t}
      /\ e.exit_tid = c.exit_tid /\ e.susp = c.susp
      /\ \A u \in Thread : u # t => e.bp[u] = c.bp[u] /\ e.hap[u] = c.hap[u]
  BY <1>1, <1>3, <1>5, <1>8 DEF Frame, SameHooks
<1>10. /\ Entries(e) = {Alone("restoreDefaultContext", None)}
       /\ Calls(e) = {"restoreDefaultContext"}
  <2>1. Entries(d) = {} /\ Calls(d) = {}
    BY <1>1, <1>5, SameQueue DEF SameHooks
  <2> QED
    BY <1>8, <2>1 DEF Adds
<1>11. Breaks(e, kernel)
  <2> SUFFICES ASSUME NEW u \in Thread PROVE BreakOK(e, kernel, u)
    BY DEF Breaks
  <2>1. BreakOK(c, kernel, u)
    BY DEF Right, Breaks
  <2>2. CASE u = t
    BY <1>8, <2>2 DEF BreakOK
  <2>3. CASE u # t
    BY <1>3, <1>9, <2>1, <2>3 DEF BreakOK
  <2> QED
    BY <2>2, <2>3
<1>12. CacheOK(e, kernel)
  BY <1>3, <1>9 DEF Right, CacheOK
<1>13. DebugOK(e)
  BY <1>3, <1>9 DEF Right, DebugOK
<1>14. QueueOK(e, kernel)
  BY <1>9, <1>10 DEF QueueOK, Single, Alone
<1>15. ContextOK(e, kernel)
  BY <1>9, <1>10 DEF Right, ContextOK
<1>16. ClonesOK(e, kernel) /\ ExitOK(e, kernel)
  BY <1>3, <1>9 DEF Right, ClonesOK, ExitOK
<1> QED
  BY <1>8, <1>11, <1>12, <1>13, <1>14, <1>15, <1>16 DEF Right

\* The cycle of a death is noted; nothing but the note changes.
LEMMA NotedKeeps ==
  ASSUME NEW c, NEW kernel, Right(c, kernel), c.queue = <<>>,
         NEW t \in kernel.born \ kernel.alive, kernel.born \subseteq Thread,
         NEW e, e = Noted(c, t)
  PROVE  Right(e, kernel)
<1>1. /\ Well(e) /\ e.exit_tid = t /\ SameHooks(c, e)
      /\ e.watch = c.watch /\ e.cache = c.cache /\ e.task_hap = c.task_hap
      /\ e.demise = c.demise /\ e.clones = c.clones /\ e.susp = c.susp
  BY NotedFacts DEF Right
<1>2. Entries(c) = {} /\ Calls(c) = {} /\ c.demise = {}
  BY IdleFacts
<1>3. Entries(e) = {} /\ Calls(e) = {}
  BY <1>1, <1>2, SameQueue DEF SameHooks
<1>4. Breaks(e, kernel)
  BY <1>1, <1>2, SameBreaks DEF Right, SameHooks
<1>5. CacheOK(e, kernel) /\ DebugOK(e) /\ ClonesOK(e, kernel)
  BY <1>1, <1>3 DEF Right, CacheOK, DebugOK, ClonesOK, SameHooks
<1>6. QueueOK(e, kernel)
  BY <1>1, <1>2, <1>3 DEF QueueOK
<1>7. ContextOK(e, kernel)
  BY <1>1, <1>2, <1>3 DEF Right, ContextOK, SameHooks
<1>8. ExitOK(e, kernel)
  BY <1>1 DEF ExitOK
<1> QED
  BY <1>1, <1>4, <1>5, <1>6, <1>7, <1>8 DEF Right

Suspect(c, t) == [c EXCEPT !.demise = @ \cup {t}]

\* A thread's demise is suspected, and it is to be looked at.
LEMMA SuspectFacts ==
  ASSUME NEW c, NEW kernel, KernelOK(kernel), Right(c, kernel), c.queue = <<>>,
         NEW t \in kernel.alive, t # kernel.cur, c.hap[t] = "set",
         NEW e, e = Queued(Suspect(c, t), "resetAlone", t)
  PROVE  Right(e, kernel)
<1> DEFINE d == Suspect(c, t)
<1>1. Entries(c) = {} /\ Calls(c) = {} /\ c.demise = {} /\ t \in Thread /\ c.bp[t] = "set"
  <2>1. t \in Thread
    BY DEF KernelOK, Kernel
  <2> QED
    BY <2>1, IdleFacts
<1>2. BreakOK(c, kernel, t) /\ c \in Manager /\ NoDup(c.cache) /\ ExitOK(c, kernel)
  BY <1>1 DEF Right, Breaks, Well
<1>3. c.exit_tid # t
  BY <1>1, <1>2 DEF BreakOK, ExitOK
<1>4. /\ Well(d) /\ d.demise = {t} /\ SameHooks(c, d) /\ d.watch = c.watch
      /\ d.cache = c.cache /\ d.task_hap = c.task_hap /\ d.susp = c.susp
      /\ d.clones = c.clones /\ d.exit_tid = c.exit_tid
  <2> DEFINE l == c.demise \cup {t}
  <2>1. l \in SUBSET Thread /\ l = {t}
    BY <1>1
  <2>2. d = [c EXCEPT !.demise = l]
    BY DEF Suspect
  <2> HIDE DEF l, d
  <2>3. d \in Manager /\ d.cache = c.cache
    BY <1>2, <2>1, <2>2 DEF Manager
  <2>4. /\ d.demise = {t} /\ d.watch = c.watch /\ d.task_hap = c.task_hap
        /\ d.susp = c.susp /\ d.clones = c.clones /\ d.exit_tid = c.exit_tid
    BY <1>2, <2>1, <2>2 DEF Manager
  <2>5. SameHooks(c, d)
    BY <1>2, <2>2 DEF Manager, SameHooks
  <2> QED
    BY <1>2, <2>3, <2>4, <2>5 DEF Well
<1>5. e = Queued(d, "resetAlone", t)
  OBVIOUS
<1> HIDE DEF d
<1>6. /\ Well(e) /\ Frame(d, e) /\ Adds(d, e, "resetAlone", t)
      /\ e.bp = d.bp /\ e.hap = d.hap /\ e.dbg = d.dbg /\ e.context = d.context
      /\ e.watch = d.watch /\ e.cache = d.cache
  <2>1. Alone("resetAlone", t) \in Queueable
    BY <1>1 DEF Alone, Queueable
  <2> QED
    BY <1>4, <1>5, <2>1, QueuedKeeps
<1>7. /\ e.bp = c.bp /\ e.hap = c.hap /\ e.dbg = c.dbg /\ e.context = c.context
      /\ e.watch = c.watch /\ e.cache = c.cache /\ e.task_hap = c.task_hap
      /\ e.susp = c.susp /\ e.clones = c.clones /\ e.exit_tid = c.exit_tid /\ e.demise = {t}
  BY <1>4, <1>6 DEF Frame, SameHooks
<1>8. Entries(e) = {Alone("resetAlone", t)} /\ Calls(e) = {"resetAlone"} /\ Len(e.queue) = 1
  <2>1. Entries(d) = {} /\ Calls(d) = {} /\ d.queue = <<>>
    BY <1>1, <1>4, SameQueue DEF SameHooks
  <2> QED
    BY <1>6, <2>1 DEF Adds
<1>9. Breaks(e, kernel)
  BY <1>1, <1>7, SameBreaks DEF Right
<1>10. CacheOK(e, kernel) /\ ClonesOK(e, kernel) /\ ExitOK(e, kernel)
  BY <1>7 DEF Right, CacheOK, ClonesOK, ExitOK
<1>11. DebugOK(e)
  BY <1>7, <1>8 DEF Right, DebugOK
<1>12. QueueOK(e, kernel)
  <2>1. \A u \in Thread : Alone("resetAlone", u) \in Entries(e) => u = t
    BY <1>8 DEF Alone
  <2> QED
    BY <1>1, <1>3, <1>7, <1>8, <2>1 DEF QueueOK
<1>13. ContextOK(e, kernel)
  BY <1>1, <1>7, <1>8 DEF Right, ContextOK, Leaving
<1> QED
  BY <1>6, <1>9, <1>10, <1>11, <1>12, <1>13 DEF Right

\* Every write of a link (taskRecHap), whether or not the thread is unlinked.
LEMMA LinkWrittenFacts ==
  ASSUME NEW c, NEW kernel, KernelOK(kernel), Right(c, kernel), c.queue = <<>>,
         NEW t \in Thread, NEW swap, NEW e \in taskRecHap(c, kernel, t, swap),
         NEW m, m.cur = kernel.cur, m.born = kernel.born, m.execed = kernel.execed,
         m.alive \subseteq kernel.alive
  PROVE  Right(e, m)
<1>1. Right(e, kernel)
  <2>1. CASE e = c
    BY <2>1
  <2>2. CASE c.hap[t] = "set" /\ CloneWrongComm(c, kernel, t) /\ e = stopClone(c, kernel, t)
    <3>1. CASE t = kernel.cur
      <4>1. c.bp[t] = "set" /\ BreakOK(c, kernel, t)
        BY <2>2, IdleFacts DEF Right, Breaks
      <4>2. c.dbg # None
        BY <4>1 DEF BreakOK, Right, DebugOK
      <4> QED
        BY <2>2, <3>1, <4>2, SyscallFacts
    <3>2. CASE t # kernel.cur
      BY <2>2, <3>2, LateNoticeFacts
    <3> QED
      BY <3>1, <3>2
  <2>3. CASE c.hap[t] = "set" /\ ~HasRec(kernel, t) /\ e = Noted(c, t)
    <3>1. c.bp[t] = "set" /\ BreakOK(c, kernel, t)
      BY <2>3, IdleFacts DEF Right, Breaks
    <3>2. t \in kernel.born \ kernel.alive /\ kernel.born \subseteq Thread
      BY <2>3, <3>1 DEF BreakOK, HasRec, KernelOK, Kernel
    <3> QED
      BY <2>3, <3>2, NotedKeeps
  <2>4. CASE /\ c.hap[t] = "set" /\ HasRec(kernel, t) /\ t # kernel.cur
             /\ e = Queued(Suspect(c, t), "resetAlone", t)
    <3>1. t \in kernel.alive
      BY <2>4 DEF HasRec
    <3> QED
      BY <2>4, <3>1, SuspectFacts
  <2>5. ~HasRec(kernel, t) => Removal(c, kernel, t, swap) = {c}
    BY RemovalNothing
  <2>6. \/ e = c
        \/ c.hap[t] = "set" /\ CloneWrongComm(c, kernel, t) /\ e = stopClone(c, kernel, t)
        \/ c.hap[t] = "set" /\ ~HasRec(kernel, t) /\ e = Noted(c, t)
        \/ /\ c.hap[t] = "set" /\ HasRec(kernel, t) /\ t # kernel.cur
           /\ e = Queued(Suspect(c, t), "resetAlone", t)
    BY <2>5 DEF taskRecHap, Removal, tidExit, Noted, Suspect
  <2> QED
    BY <2>1, <2>2, <2>3, <2>4, <2>6
<1> QED
  BY <1>1, KeptSmaller

-----------------------------------------------------------------------------
(* Suspending the watching of a thread.                                    *)

SuspendSet(c, s) == [c EXCEPT !.susp = s]

LEMMA SuspendSetFacts ==
  ASSUME NEW c, Well(c), NEW s \in SUBSET Suspendable, NEW e, e = SuspendSet(c, s)
  PROVE  /\ Well(e) /\ e.susp = s /\ SameHooks(c, e)
         /\ e.watch = c.watch /\ e.cache = c.cache /\ e.task_hap = c.task_hap
         /\ e.demise = c.demise /\ e.exit_tid = c.exit_tid /\ e.clones = c.clones
<1>1. c \in Manager
  BY DEF Well
<1>2. e \in Manager
  BY <1>1 DEF SuspendSet, Manager
<1>3. /\ e.susp = s /\ e.watch = c.watch /\ e.cache = c.cache /\ e.task_hap = c.task_hap
      /\ e.demise = c.demise /\ e.exit_tid = c.exit_tid /\ e.clones = c.clones
  BY <1>1 DEF SuspendSet, Manager
<1>4. SameHooks(c, e)
  BY <1>1 DEF SuspendSet, Manager, SameHooks
<1> QED
  BY <1>2, <1>3, <1>4 DEF Well

LEMMA AddSuspendFacts ==
  ASSUME NEW c, NEW kernel, Right(c, kernel), c.queue = <<>>, c.dbg # None,
         kernel.cur \in c.watch \cap Suspendable,
         NEW e, e = InContext(SuspendSet(c, c.susp \cup {kernel.cur}), "suspend")
  PROVE  Right(e, kernel)
<1> DEFINE s == c.susp \cup {kernel.cur}
           d == SuspendSet(c, s)
<1>1. Well(c) /\ s \in SUBSET Suspendable /\ kernel.cur \in Thread
  BY DEF Right, Well, Manager
<1>2. /\ Well(d) /\ d.susp = s /\ SameHooks(c, d)
      /\ d.watch = c.watch /\ d.cache = c.cache /\ d.task_hap = c.task_hap
      /\ d.demise = c.demise /\ d.exit_tid = c.exit_tid /\ d.clones = c.clones
  <2>1. d = SuspendSet(c, s)
    OBVIOUS
  <2> HIDE DEF s, d
  <2> QED
    BY <1>1, <2>1, SuspendSetFacts
<1>3. e = InContext(d, "suspend")
  OBVIOUS
<1> HIDE DEF d
<1>4. /\ Well(e) /\ Frame(d, e) /\ e.context = "suspend" /\ e.dbg = d.dbg /\ e.watch = d.watch
      /\ e.cache = d.cache /\ e.bp = d.bp /\ e.hap = d.hap /\ e.queue = d.queue
      /\ Entries(e) = Entries(d) /\ Calls(e) = Calls(d)
  BY <1>2, <1>3, InContextFacts
<1>5. Entries(c) = {} /\ Calls(c) = {} /\ c.demise = {}
  BY IdleFacts
<1>6. Entries(e) = {} /\ Calls(e) = {}
  BY <1>2, <1>4, <1>5, SameQueue DEF SameHooks
<1>7. /\ e.watch = c.watch /\ e.cache = c.cache /\ e.task_hap = c.task_hap
      /\ e.demise = c.demise /\ e.exit_tid = c.exit_tid /\ e.clones = c.clones
      /\ e.bp = c.bp /\ e.hap = c.hap /\ e.dbg = c.dbg /\ e.susp = s
  BY <1>2, <1>4 DEF SameHooks, Frame
<1>8. Breaks(e, kernel)
  BY <1>5, <1>7, SameBreaks DEF Right
<1>9. CacheOK(e, kernel) /\ ClonesOK(e, kernel) /\ ExitOK(e, kernel) /\ DebugOK(e)
  BY <1>4, <1>6, <1>7 DEF Right, CacheOK, ClonesOK, ExitOK, DebugOK
<1>10. QueueOK(e, kernel)
  BY <1>5, <1>6, <1>7 DEF QueueOK
<1>11. ContextOK(e, kernel)
  BY <1>1, <1>6, <1>7, TaskAssumption DEF ContextOK
<1> QED
  BY <1>4, <1>8, <1>9, <1>10, <1>11 DEF Right

LEMMA RmSuspendFacts ==
  ASSUME NEW c, NEW kernel, Right(c, kernel), c.queue = <<>>, kernel.cur \in c.susp,
         NEW fn, fn = IF c.dbg # None THEN "restoreDebugContext" ELSE "restoreDefaultContext",
         NEW e, e = Queued(SuspendSet(c, c.susp \ {kernel.cur}), fn, None)
  PROVE  Right(e, kernel)
<1> DEFINE s == c.susp \ {kernel.cur}
           d == SuspendSet(c, s)
<1>1. Well(c) /\ s \in SUBSET Suspendable /\ kernel.cur \in Thread
  BY TaskAssumption DEF Right, Well, Manager
<1>2. /\ Well(d) /\ d.susp = s /\ SameHooks(c, d)
      /\ d.watch = c.watch /\ d.cache = c.cache /\ d.task_hap = c.task_hap
      /\ d.demise = c.demise /\ d.exit_tid = c.exit_tid /\ d.clones = c.clones
  <2>1. d = SuspendSet(c, s)
    OBVIOUS
  <2> HIDE DEF s, d
  <2> QED
    BY <1>1, <2>1, SuspendSetFacts
<1>3. e = Queued(d, fn, None)
  OBVIOUS
<1> HIDE DEF d
<1>4. /\ Well(e) /\ Frame(d, e) /\ Adds(d, e, fn, None)
      /\ e.bp = d.bp /\ e.hap = d.hap /\ e.dbg = d.dbg /\ e.context = d.context
      /\ e.watch = d.watch /\ e.cache = d.cache
  <2>1. Alone(fn, None) \in Queueable
    BY DEF Alone, Queueable
  <2> QED
    BY <1>2, <1>3, <2>1, QueuedKeeps
<1>5. Entries(c) = {} /\ Calls(c) = {} /\ c.demise = {}
  BY IdleFacts
<1>6. Entries(e) = {Alone(fn, None)} /\ Calls(e) = {fn} /\ Len(e.queue) = 1
  <2>1. Entries(d) = {} /\ Calls(d) = {} /\ d.queue = <<>>
    BY <1>2, <1>5, SameQueue DEF SameHooks
  <2> QED
    BY <1>4, <2>1 DEF Adds
<1>7. /\ e.watch = c.watch /\ e.cache = c.cache /\ e.task_hap = c.task_hap
      /\ e.demise = c.demise /\ e.exit_tid = c.exit_tid /\ e.clones = c.clones
      /\ e.bp = c.bp /\ e.hap = c.hap /\ e.dbg = c.dbg /\ e.susp = s /\ e.context = c.context
  BY <1>2, <1>4 DEF SameHooks, Frame
<1>8. Breaks(e, kernel)
  BY <1>5, <1>7, SameBreaks DEF Right
<1>9. CacheOK(e, kernel) /\ ClonesOK(e, kernel) /\ ExitOK(e, kernel)
  BY <1>7 DEF Right, CacheOK, ClonesOK, ExitOK
<1>10. DebugOK(e)
  BY <1>6, <1>7 DEF Right, DebugOK
<1>11. QueueOK(e, kernel)
  BY <1>5, <1>6, <1>7 DEF QueueOK, Alone
<1>12. ContextOK(e, kernel)
  BY <1>1, <1>6, <1>7, TaskAssumption DEF ContextOK, Leaving
<1> QED
  BY <1>4, <1>8, <1>9, <1>10, <1>11, <1>12 DEF Right

-----------------------------------------------------------------------------
(* Starting, stopping, and going back to the origin.                       *)

\* What watching anew leads to.
LEMMA SettledFacts ==
  ASSUME NEW e, NEW kernel, KernelOK(kernel), kernel.cur \in kernel.alive,
         Well(e), Breaks(e, kernel), e.task_hap = TRUE, e.dbg # None, e.context = "debug",
         ToSet(e.cache) = e.watch, Calls(e) \subseteq {"watchTaskHapAlone"},
         e.demise = {}, e.clones = {}, e.exit_tid = None
  PROVE  Right(e, kernel)
<1>1. kernel.cur # Other /\ None \notin kernel.alive
  BY TaskAssumption DEF KernelOK, Kernel, Task
<1>2. Calls(e) \cap Single = {} /\ Calls(e) \cap Leaving = {}
  BY DEF Single, Leaving
<1>3. \A t \in Thread : Alone("resetAlone", t) \notin Entries(e)
  BY DEF Calls, Alone
<1>4. CacheOK(e, kernel) /\ DebugOK(e) /\ ClonesOK(e, kernel)
  BY DEF CacheOK, DebugOK, ClonesOK
<1>5. QueueOK(e, kernel)
  BY <1>2, <1>3 DEF QueueOK
<1>6. ContextOK(e, kernel)
  BY <1>1, <1>2 DEF ContextOK
<1>7. ExitOK(e, kernel)
  BY <1>1 DEF ExitOK
<1> QED
  BY <1>4, <1>5, <1>6, <1>7 DEF Right

\* Where nothing is watched, the manager is right for any kernel that fits its last note.
LEMMA StoppedFacts ==
  ASSUME NEW c, Stopped(c), c.queue = <<>>, c.demise = {},
         NEW kernel, Breaks(c, kernel), ExitOK(c, kernel)
  PROVE  Right(c, kernel)
<1>1. Well(c) /\ c.watch = {} /\ c.cache = <<>> /\ c.dbg = None /\ c.context # "debug"
  BY DEF Stopped
<1>2. ToSet(c.queue) = {} /\ ToSet(c.cache) = {}
  BY <1>1, SetOfList DEF Well, Manager
<1>3. Entries(c) = {} /\ Calls(c) = {}
  BY <1>2 DEF Entries, Calls
<1>4. CacheOK(c, kernel) /\ DebugOK(c) /\ ClonesOK(c, kernel)
  BY <1>1, <1>2, <1>3 DEF CacheOK, DebugOK, ClonesOK
<1>5. QueueOK(c, kernel) /\ ContextOK(c, kernel)
  BY <1>1, <1>3 DEF QueueOK, ContextOK
<1> QED
  BY <1>1, <1>4, <1>5 DEF Right

\* stopWatchTasksAlone and clearExitBreaksAlone between two handlers.
LEMMA HaltFacts ==
  ASSUME NEW c, NEW kernel, Right(c, kernel), c.queue = <<>>, NEW m,
         NEW e, e = clearExitBreaksAlone(stopWatchTasksAlone(c))
  PROVE  /\ Stopped(e) /\ e.queue = <<>> /\ e.demise = {} /\ e.exit_tid = c.exit_tid
         /\ Breaks(e, m)
<1> DEFINE d == stopWatchTasksAlone(c)
<1>0. Well(c) /\ Breaks(c, kernel) /\ DebugOK(c) /\ c.demise = {} /\ c.task_hap \in BOOLEAN
  BY IdleFacts DEF Right, Well, Manager
<1>1. /\ Stopped(d) /\ d.queue = <<>> /\ d.demise = {} /\ d.exit_tid = c.exit_tid
      /\ Breaks(d, m)
  <2>1. CASE c.task_hap = TRUE
    <3>1. /\ Stopped(d) /\ d.bp = NoBreaks /\ d.hap = NoBreaks
          /\ d.queue = <<>> /\ d.demise = {} /\ d.exit_tid = c.exit_tid
      BY <1>0, <2>1, StopWatchFacts
    <3> HIDE DEF d
    <3> QED
      BY <3>1, NoBreaksFacts
  <2>2. CASE c.task_hap = FALSE
    <3>1. d = c
      BY <2>2 DEF stopWatchTasksAlone
    <3>2. Stopped(c) /\ c.watch = {}
      BY <1>0, <2>2 DEF DebugOK, Stopped
    <3>3. ASSUME NEW t \in Thread PROVE BreakOK(c, m, t)
      BY <1>0, <3>2 DEF Breaks, BreakOK
    <3> QED
      BY <1>0, <3>1, <3>2, <3>3 DEF Breaks
  <2> QED
    BY <1>0, <2>1, <2>2
<1>2. e = clearExitBreaksAlone(d)
  OBVIOUS
<1> HIDE DEF d
<1>3. "watchTaskHapAlone" \notin Calls(d)
  <2>1. ToSet(d.queue) = {}
    BY <1>1, SetOfList DEF Stopped, Well, Manager
  <2> QED
    BY <2>1 DEF Calls, Entries
<1>4. /\ Well(e) /\ Frame(d, e) /\ e.watch = d.watch /\ e.cache = d.cache
      /\ e.dbg = d.dbg /\ e.context = d.context /\ e.queue = d.queue
      /\ Breaks(d, m) /\ "watchTaskHapAlone" \notin Calls(d) => Breaks(e, m)
  BY <1>1, <1>2, ClearedFacts DEF Stopped
<1> QED
  BY <1>1, <1>3, <1>4 DEF Frame, Stopped

LEMMA StopDebuggingFacts ==
  ASSUME NEW c, NEW kernel, Right(c, kernel), c.queue = <<>>,
         NEW e, e = stopDebug(clearExitBreaksAlone(stopWatchTasksAlone(c)))
  PROVE  Right(e, kernel)
<1> DEFINE d == clearExitBreaksAlone(stopWatchTasksAlone(c))
<1>1. /\ Stopped(d) /\ d.queue = <<>> /\ d.demise = {} /\ d.exit_tid = c.exit_tid
      /\ Breaks(d, kernel)
  BY HaltFacts
<1>2. e = stopDebug(d)
  OBVIOUS
<1> HIDE DEF d
<1>3. /\ Stopped(e) /\ e.bp = d.bp /\ e.hap = d.hap /\ e.demise = d.demise
      /\ e.exit_tid = d.exit_tid /\ e.queue = d.queue
  BY <1>1, <1>2, StopDebugFacts
<1>4. Breaks(e, kernel)
  <2>1. Entries(e) = Entries(d)
    BY <1>3 DEF Entries
  <2> QED
    BY <1>1, <1>3, <2>1 DEF Breaks, BreakOK, Stopped
<1>5. ExitOK(e, kernel)
  BY <1>1, <1>3 DEF Right, ExitOK, Stopped
<1> QED
  BY <1>1, <1>3, <1>4, <1>5, StoppedFacts

\* goToOrigin sets all up twice; the second time decides.
LEMMA GoBackFacts ==
  ASSUME NEW c, NEW kernel, Right(c, kernel), c.queue = <<>>,
         NEW o, KernelOK(o), o.cur \in o.alive,
         NEW d, d = clearExitBreaksAlone(stopWatchTasksAlone(c)),
         NEW r \in resetWatchTasks(Noted(d, None), o),
         NEW e \in watchTasks(stopWatchTasksAlone(r), o, o.cur, TRUE)
  PROVE  Right(e, o)
<1> DEFINE s == Noted(d, None)
           z == stopWatchTasksAlone(r)
           t == IF s.dbg # None THEN s.dbg
                ELSE IF s.dbg_saved # None THEN s.dbg_saved ELSE o.cur
<1>1. Stopped(d) /\ d.queue = <<>> /\ d.demise = {}
  BY HaltFacts
<1>2. Stopped(s) /\ s.queue = <<>> /\ s.demise = {} /\ s.exit_tid = None
  <2>1. s = Noted(d, None)
    OBVIOUS
  <2> HIDE DEF s
  <2>2. /\ Well(s) /\ s.exit_tid = None /\ SameHooks(d, s)
        /\ s.watch = d.watch /\ s.cache = d.cache /\ s.task_hap = d.task_hap
        /\ s.demise = d.demise
    BY <1>1, <2>1, NotedFacts DEF Stopped
  <2> QED
    BY <1>1, <2>2 DEF Stopped, SameHooks
<1>3. stopWatchTasksAlone(s) = s
  BY <1>2 DEF stopWatchTasksAlone, Stopped
<1>4. r \in UNION {addGroup(w, o) : w \in watchTasks(s, o, t, TRUE)}
  <2>1. r \in UNION {addGroup(w, o) : w \in watchTasks(stopWatchTasksAlone(s), o, t, TRUE)}
    BY DEF resetWatchTasks
  <2> HIDE DEF s, t
  <2> QED
    BY <1>3, <2>1
<1>5. t \in Id /\ o.cur \in Id
  <2>1. s.dbg \in Id \cup {None} /\ s.dbg_saved \in Id \cup {None} /\ o.cur \in Thread
    BY <1>2 DEF Stopped, Well, Manager, KernelOK, Kernel
  <2> QED
    BY <2>1 DEF Id
<1> HIDE DEF s, t
<1>6. PICK w \in watchTasks(s, o, t, TRUE) :
         \E order \in SetToSeqs(GroupTids(o)) : r = AddInOrder(w, o, order)
  BY <1>4 DEF addGroup
<1>7. /\ Well(w) /\ w.task_hap = TRUE /\ Outside(s, w)
      /\ Calls(w) \subseteq Calls(s) \cup {"watchTaskHapAlone"}
  BY <1>2, <1>5, WatchTasksFacts
<1>8. Grown(w, r, o)
  BY <1>6, <1>7, AddInOrderGrows
<1>9. Well(r) /\ r.task_hap = TRUE
  BY <1>7, <1>8 DEF Grown, Frame
<1>10. r.demise = {} /\ r.exit_tid = None
  BY <1>2, <1>7, <1>8 DEF Grown, Frame, Outside
<1>11. Calls(r) \subseteq {"watchTaskHapAlone"}
  <2>1. ToSet(s.queue) = {}
    BY <1>2, SetOfList DEF Stopped, Well, Manager
  <2>2. Calls(s) = {}
    BY <2>1 DEF Calls, Entries
  <2> QED
    BY <1>7, <1>8, <2>2 DEF Grown
<1>12. /\ Stopped(z) /\ z.clones = {} /\ z.bp = NoBreaks /\ z.hap = NoBreaks
       /\ z.demise = r.demise /\ z.exit_tid = r.exit_tid /\ z.queue = r.queue
  BY <1>9, StopWatchFacts
<1>13. e \in watchTasks(z, o, o.cur, TRUE)
  OBVIOUS
<1> HIDE DEF z
<1>14. Calls(z) = Calls(r)
  BY <1>12 DEF Calls, Entries
<1>15. Breaks(z, o)
  BY <1>12, NoBreaksFacts
<1>16. /\ Well(e) /\ e.task_hap = TRUE /\ e.dbg = o.cur /\ e.context = "debug"
       /\ Outside(z, e) /\ Calls(e) \subseteq Calls(z) \cup {"watchTaskHapAlone"}
       /\ o.cur = o.cur =>
            /\ e.watch = z.saved \cup {o.cur} /\ ToSet(e.cache) = e.watch
            /\ Breaks(z, o) => Breaks(e, o)
  BY <1>5, <1>12, <1>13, WatchTasksFacts
<1>17. e.dbg # None
  BY <1>5, <1>16, IdFacts
<1>18. e.demise = {} /\ e.clones = {} /\ e.exit_tid = None
  BY <1>10, <1>12, <1>16 DEF Outside
<1>19. Calls(e) \subseteq {"watchTaskHapAlone"}
  BY <1>11, <1>14, <1>16
<1> QED
  BY <1>15, <1>16, <1>17, <1>18, <1>19, SettledFacts

\* The current thread joins, or its whole group.
Begun(c, kernel) ==
    LET d == Debugging(Joined(c, kernel, kernel.cur), kernel) IN {d} \cup addGroup(d, kernel)

\* Debugging starts where nothing was watched yet.
LEMMA DebugFacts ==
  ASSUME NEW kernel, CanDebug(kernel),
         NEW c, Stopped(c), c.saved = {}, c.bp = NoBreaks, c.hap = NoBreaks,
         c.queue = <<>>, c.demise = {}, c.clones = {}, c.exit_tid = None,
         NEW r \in restoreDebug(Restart(c)),
         NEW e \in Begun(r, kernel)
  PROVE  Right(e, kernel)
<1> DEFINE w == Joined(r, kernel, kernel.cur)
           d == Debugging(w, kernel)
<1>0. e \in {d} \cup addGroup(d, kernel)
  BY DEF Begun
<1>1. /\ KernelOK(kernel) /\ kernel.cur \in kernel.alive
      /\ kernel.cur \in Thread /\ kernel.cur \in Id
  BY DEF CanDebug, Id
<1>2. /\ Well(r) /\ r.task_hap = TRUE /\ r.watch = c.saved /\ ToSet(r.cache) = c.saved
      /\ r.context = "debug" /\ r.dbg = None /\ r.bp = c.bp /\ r.hap = c.hap
      /\ r.queue = c.queue /\ Outside(c, r)
  BY RestoreDebugFacts
<1>3. Calls(r) = {}
  <2>1. ToSet(r.queue) = {}
    BY <1>2, SetOfList DEF Well, Manager
  <2> QED
    BY <2>1 DEF Calls, Entries
<1>4. /\ Well(w) /\ Frame(r, w) /\ w.dbg = r.dbg /\ w.context = r.context
      /\ Calls(w) \subseteq Calls(r) \cup {"watchTaskHapAlone"}
      /\ kernel.cur \in kernel.alive =>
           /\ w.watch = r.watch \cup {kernel.cur} /\ ToSet(r.cache) \subseteq ToSet(w.cache)
           /\ ToSet(w.cache) \subseteq ToSet(r.cache) \cup {kernel.cur}
           /\ kernel.cur \in r.watch \/ kernel.cur \in ToSet(w.cache)
           /\ Breaks(r, kernel) => Breaks(w, kernel)
  BY <1>1, <1>2, JoinedFacts
<1> HIDE DEF w
<1>5. /\ Well(d) /\ d.task_hap = w.task_hap /\ d.context = "debug" /\ d.dbg = kernel.cur
      /\ d.watch = w.watch /\ ToSet(d.cache) = ToSet(w.cache) \cup {kernel.cur}
      /\ d.bp = w.bp /\ d.hap = w.hap /\ d.queue = w.queue /\ Outside(w, d)
  <2>1. Well(w) /\ KernelOK(kernel) /\ kernel.cur \in kernel.alive
    BY <1>1, <1>4
  <2> QED
    BY <2>1, DebuggingFacts
<1> HIDE DEF d
<1>6. ToSet(d.cache) = d.watch
  BY <1>1, <1>2, <1>4, <1>5
<1>7. Breaks(r, kernel)
  BY <1>2, NoBreaksFacts
<1>8. Breaks(d, kernel)
  <2>1. Entries(d) = Entries(w)
    BY <1>5 DEF Entries
  <2>2. Breaks(w, kernel)
    BY <1>1, <1>4, <1>7
  <2> QED
    BY <1>5, <2>1, <2>2 DEF Breaks, BreakOK
<1>9. Calls(d) \subseteq {"watchTaskHapAlone"}
  <2>1. Calls(d) = Calls(w)
    BY <1>5 DEF Calls, Entries
  <2> QED
    BY <1>3, <1>4, <2>1
<1>10. d.task_hap = TRUE /\ d.demise = {} /\ d.clones = {} /\ d.exit_tid = None
  BY <1>2, <1>4, <1>5 DEF Frame, Outside
<1>11. d.dbg # None
  BY <1>1, <1>5, IdFacts
<1>12. CASE e = d
  BY <1>1, <1>5, <1>6, <1>8, <1>9, <1>10, <1>11, <1>12, SettledFacts
<1>13. CASE e \in addGroup(d, kernel)
  <2>1. PICK order \in SetToSeqs(GroupTids(kernel)) : e = AddInOrder(d, kernel, order)
    BY <1>13 DEF addGroup
  <2>2. Grown(d, e, kernel)
    BY <1>1, <1>5, <2>1, AddInOrderGrows
  <2>3. /\ Well(e) /\ e.dbg = d.dbg /\ e.context = d.context
        /\ Calls(e) \subseteq {"watchTaskHapAlone"} /\ ToSet(e.cache) = e.watch
        /\ Breaks(e, kernel)
    BY <1>6, <1>8, <1>9, <2>2 DEF Grown
  <2>4. e.task_hap = TRUE /\ e.demise = {} /\ e.clones = {} /\ e.exit_tid = None
    BY <1>10, <2>2 DEF Grown, Frame
  <2> QED
    BY <1>1, <1>5, <1>11, <2>3, <2>4, SettledFacts
<1> QED
  BY <1>0, <1>12, <1>13

-----------------------------------------------------------------------------
(* What runs alone.                                                        *)

Popped(c) == [c EXCEPT !.queue = Tail(@)]

LEMMA PoppedFacts ==
  ASSUME NEW c, NEW kernel, Right(c, kernel), c.queue # <<>>,
         NEW f, f = Head(c.queue), NEW d, d = Popped(c)
  PROVE  /\ f \in Queueable /\ f.fn \in Calls(c)
         /\ Well(d) /\ Frame(c, d) /\ d.watch = c.watch /\ d.cache = c.cache /\ d.dbg = c.dbg
         /\ d.context = c.context /\ d.bp = c.bp /\ d.hap = c.hap
         /\ Entries(c) = {f} \cup Entries(d) /\ Calls(d) \subseteq Calls(c)
         /\ Calls(d) \cap Single = {}
         /\ f.fn \in Single => d.queue = <<>> /\ Entries(d) = {} /\ Calls(c) = {f.fn}
         /\ \A t \in c.demise : f = Alone("resetAlone", t)
<1> DEFINE q == Tail(c.queue)
<1>1. c \in Manager /\ NoDup(c.cache) /\ c.queue \in Seq(Queueable) /\ QueueOK(c, kernel)
  BY DEF Right, Well, Manager
<1>2. /\ f \in ToSet(c.queue) /\ q \in Seq(Queueable) /\ ToSet(c.queue) = {f} \cup ToSet(q)
      /\ ToSet(c.queue) \subseteq Queueable
  BY <1>1, SetOfList
<1>3. Len(c.queue) = 1 => q = <<>>
  <2>1. Len(c.queue) \in Nat /\ Len(q) = Len(c.queue) - 1
    BY <1>1
  <2>2. q \in Seq(Queueable) /\ (Len(c.queue) = 1 => Len(q) = 0)
    BY <1>2, <2>1
  <2> HIDE DEF q
  <2> QED
    BY <2>2, EmptySeq
<1>4. d = [c EXCEPT !.queue = q]
  BY DEF Popped
<1> HIDE DEF q
<1>5. d \in Manager /\ d.queue = q /\ d.cache = c.cache
  BY <1>1, <1>2, <1>4 DEF Manager
<1>6. /\ Frame(c, d) /\ d.watch = c.watch /\ d.dbg = c.dbg
      /\ d.context = c.context /\ d.bp = c.bp /\ d.hap = c.hap
  BY <1>1, <1>4 DEF Manager, Frame
<1>7. Entries(c) = {f} \cup Entries(d)
  BY <1>2, <1>5 DEF Entries
<1>8. f.fn \in Calls(c) /\ Calls(d) \subseteq Calls(c) /\ Calls(c) = {f.fn} \cup Calls(d)
  BY <1>7 DEF Calls
<1>9. Calls(c) \cap Single # {} => d.queue = <<>> /\ Entries(d) = {} /\ Calls(d) = {}
  <2>1. ASSUME d.queue = <<>> PROVE Entries(d) = {} /\ Calls(d) = {}
    <3>1. ToSet(d.queue) = {}
      BY <1>2, <1>5, <2>1, SetOfList
    <3> QED
      BY <3>1 DEF Entries, Calls
  <2> QED
    BY <1>1, <1>3, <1>5, <2>1 DEF QueueOK
<1>10. Calls(d) \cap Single = {}
  BY <1>8, <1>9
<1>11. f.fn \in Single => d.queue = <<>> /\ Entries(d) = {} /\ Calls(c) = {f.fn}
  BY <1>8, <1>9
<1>12. ASSUME NEW t \in c.demise PROVE f = Alone("resetAlone", t)
  <2>1. Alone("resetAlone", t) \in {f} \cup Entries(d)
    BY <1>1, <1>7 DEF QueueOK
  <2>2. Alone("resetAlone", t) \notin Entries(d)
    BY <1>10 DEF Calls, Alone, Single
  <2> QED
    BY <2>1, <2>2
<1> QED
  BY <1>1, <1>2, <1>5, <1>6, <1>7, <1>8, <1>10, <1>11, <1>12 DEF Well

\* What holds of the rest of the queue, for most calls.
LEMMA RestFacts ==
  ASSUME NEW c, NEW kernel, Right(c, kernel), c.queue # <<>>,
         NEW f, f = Head(c.queue), NEW d, d = Popped(c)
  PROVE  /\ CacheOK(d, kernel) /\ DebugOK(d) /\ ClonesOK(d, kernel) /\ ExitOK(d, kernel)
         /\ f.fn # "resetAlone" => QueueOK(d, kernel) /\ d.demise = {}
         /\ f.fn # "restoreDebugContext" => ContextOK(d, kernel)
         /\ f.fn # "watchTaskHapAlone" => Breaks(d, kernel)
<1>1. /\ Well(d) /\ Frame(c, d) /\ d.watch = c.watch /\ d.cache = c.cache /\ d.dbg = c.dbg
      /\ d.context = c.context /\ d.bp = c.bp /\ d.hap = c.hap
      /\ Entries(c) = {f} \cup Entries(d) /\ Calls(d) \subseteq Calls(c)
      /\ Calls(d) \cap Single = {} /\ f.fn \in Calls(c)
      /\ \A t \in c.demise : f = Alone("resetAlone", t)
  BY PoppedFacts
<1>2. /\ Breaks(c, kernel) /\ CacheOK(c, kernel) /\ DebugOK(c) /\ QueueOK(c, kernel)
      /\ ContextOK(c, kernel) /\ ClonesOK(c, kernel) /\ ExitOK(c, kernel)
  BY DEF Right
<1>3. CacheOK(d, kernel) /\ ClonesOK(d, kernel) /\ ExitOK(d, kernel)
  BY <1>1, <1>2 DEF CacheOK, ClonesOK, ExitOK, Frame
<1>4. DebugOK(d)
  BY <1>1, <1>2 DEF DebugOK, Frame
<1>5. ASSUME f.fn # "resetAlone" PROVE QueueOK(d, kernel) /\ d.demise = {}
  <2>1. c.demise = {}
    <3> SUFFICES ASSUME NEW t \in c.demise PROVE FALSE
      OBVIOUS
    <3>1. f = Alone("resetAlone", t)
      BY <1>1
    <3> QED
      BY <1>5, <3>1 DEF Alone
  <2>2. \A t \in Thread : Alone("resetAlone", t) \notin Entries(d)
    <3>1. Calls(d) \cap Single = {}
      BY <1>1
    <3> QED
      BY <3>1 DEF Calls, Alone, Single
  <2> QED
    BY <1>1, <2>1, <2>2 DEF QueueOK, Frame
<1>6. ASSUME f.fn # "restoreDebugContext" PROVE ContextOK(d, kernel)
  <2>1. Calls(c) = {f.fn} \cup Calls(d)
    BY <1>1 DEF Calls
  <2> QED
    BY <1>1, <1>2, <1>6, <2>1 DEF ContextOK, Frame
<1>7. ASSUME f.fn # "watchTaskHapAlone" PROVE Breaks(d, kernel)
  <2> SUFFICES ASSUME NEW u \in Thread PROVE BreakOK(d, kernel, u)
    BY DEF Breaks
  <2>1. BreakOK(c, kernel, u)
    BY <1>2 DEF Breaks
  <2>2. Alone("watchTaskHapAlone", u) # f
    BY <1>7 DEF Alone
  <2> QED
    BY <1>1, <2>1, <2>2 DEF BreakOK
<1> QED
  BY <1>3, <1>4, <1>5, <1>6, <1>7

Hanging(c, t) == [c EXCEPT !.hap[t] = "set"]

\* The hap of a thread's breakpoint is set.
LEMMA HapAloneFacts ==
  ASSUME NEW c, NEW kernel, Right(c, kernel), c.queue # <<>>,
         NEW t \in Thread, Head(c.queue) = Alone("watchTaskHapAlone", t),
         NEW e, e = watchTaskHapAlone(Popped(c), t)
  PROVE  Right(e, kernel)
<1> DEFINE d == Popped(c)
           f == Head(c.queue)
<1>1. f.fn = "watchTaskHapAlone"
  BY DEF Alone
<1>2. /\ Well(d) /\ d.watch = c.watch /\ d.bp = c.bp /\ d.hap = c.hap
      /\ Entries(c) = {f} \cup Entries(d)
  BY PoppedFacts
<1>3. /\ CacheOK(d, kernel) /\ DebugOK(d) /\ ClonesOK(d, kernel) /\ ExitOK(d, kernel)
      /\ QueueOK(d, kernel) /\ ContextOK(d, kernel)
  BY <1>1, RestFacts
<1>4. e = IF d.bp[t] = "set" THEN Hanging(d, t) ELSE d
  BY DEF watchTaskHapAlone, Hanging
<1> HIDE DEF d
<1>5. ASSUME NEW u \in Thread
      PROVE  /\ BreakOK(c, kernel, u)
             /\ u # t => (Alone("watchTaskHapAlone", u) \in Entries(c)
                            <=> Alone("watchTaskHapAlone", u) \in Entries(d))
  <2>1. u # t => Alone("watchTaskHapAlone", u) # f
    BY DEF Alone
  <2> QED
    BY <1>2, <2>1 DEF Right, Breaks
<1>6. CASE d.bp[t] # "set"
  <2>1. e = d
    BY <1>4, <1>6
  <2>2. Breaks(d, kernel)
    BY <1>2, <1>5, <1>6 DEF Breaks, BreakOK
  <2> QED
    BY <1>2, <1>3, <2>1, <2>2 DEF Right
<1>7. CASE d.bp[t] = "set"
  <2> DEFINE hap == [d.hap EXCEPT ![t] = "set"]
  <2>1. d \in Manager /\ d.hap \in [Thread -> Status] /\ NoDup(d.cache)
    BY <1>2 DEF Well, Manager
  <2>2. /\ hap \in [Thread -> Status] /\ hap[t] = "set"
        /\ \A u \in Thread : u # t => hap[u] = d.hap[u]
    BY <2>1 DEF Status
  <2>3. e = [d EXCEPT !.hap = hap]
    BY <1>4, <1>7, <2>1 DEF Hanging, Manager
  <2> HIDE DEF hap
  <2>4. /\ e \in Manager /\ e.hap = hap /\ e.bp = d.bp /\ e.watch = d.watch /\ e.cache = d.cache
        /\ e.dbg = d.dbg /\ e.context = d.context /\ e.queue = d.queue
    BY <2>1, <2>2, <2>3 DEF Manager
  <2>5. Frame(d, e) /\ Entries(e) = Entries(d) /\ Calls(e) = Calls(d)
    BY <2>1, <2>3, <2>4, SameQueue DEF Manager, Frame
  <2>6. Breaks(e, kernel)
    <3> SUFFICES ASSUME NEW u \in Thread PROVE BreakOK(e, kernel, u)
      BY DEF Breaks
    <3>1. CASE u = t
      BY <1>2, <1>5, <1>7, <2>2, <2>4, <3>1 DEF BreakOK
    <3>2. CASE u # t
      BY <1>2, <1>5, <2>2, <2>4, <2>5, <3>2 DEF BreakOK
    <3> QED
      BY <3>1, <3>2
  <2>7. CacheOK(e, kernel) /\ ClonesOK(e, kernel) /\ ExitOK(e, kernel)
    BY <1>3, <2>4, <2>5 DEF CacheOK, ClonesOK, ExitOK, Frame
  <2>8. DebugOK(e) /\ QueueOK(e, kernel)
    BY <1>3, <2>4, <2>5 DEF DebugOK, QueueOK, Frame
  <2>9. ContextOK(e, kernel)
    BY <1>3, <2>4, <2>5 DEF ContextOK, Frame
  <2> QED
    BY <2>1, <2>4, <2>6, <2>7, <2>8, <2>9 DEF Right, Well
<1> QED
  BY <1>6, <1>7

\* The context is restored, as queued.
LEMMA RestoredFacts ==
  ASSUME NEW c, NEW kernel, Right(c, kernel), c.queue # <<>>,
         NEW x, NEW e, e = InContext(Popped(c), x),
         \/ Head(c.queue).fn = "restoreDefaultContext" /\ x = "default"
         \/ Head(c.queue).fn = "restoreSuspendContext" /\ x = "suspend"
         \/ Head(c.queue).fn = "restoreDebugContext" /\ x = "debug"
  PROVE  Right(e, kernel)
<1> DEFINE d == Popped(c)
           f == Head(c.queue)
<1>1. /\ Well(d) /\ Frame(c, d) /\ d.watch = c.watch /\ d.dbg = c.dbg
      /\ Calls(d) \subseteq Calls(c) /\ f.fn \in Calls(c) /\ Calls(d) \cap Single = {}
      /\ f.fn \in Single => d.queue = <<>> /\ Entries(d) = {} /\ Calls(c) = {f.fn}
  BY PoppedFacts
<1>2. /\ CacheOK(d, kernel) /\ DebugOK(d) /\ ClonesOK(d, kernel) /\ ExitOK(d, kernel)
      /\ f.fn # "resetAlone" => QueueOK(d, kernel) /\ d.demise = {}
      /\ f.fn # "watchTaskHapAlone" => Breaks(d, kernel)
  BY RestFacts
<1>3. QueueOK(d, kernel) /\ Breaks(d, kernel)
  BY <1>2
<1>4. x \in {"default", "debug", "suspend"} /\ e = InContext(d, x)
  OBVIOUS
<1> HIDE DEF d
<1>5. /\ Well(e) /\ Frame(d, e) /\ e.context = x /\ e.dbg = d.dbg /\ e.watch = d.watch
      /\ e.cache = d.cache /\ e.bp = d.bp /\ e.hap = d.hap /\ e.queue = d.queue
      /\ Entries(e) = Entries(d) /\ Calls(e) = Calls(d)
  BY <1>1, <1>4, InContextFacts
<1>6. Breaks(e, kernel)
  BY <1>3, <1>5, SameBreaks
<1>7. CacheOK(e, kernel) /\ ClonesOK(e, kernel) /\ ExitOK(e, kernel) /\ QueueOK(e, kernel)
  BY <1>2, <1>3, <1>5 DEF CacheOK, ClonesOK, ExitOK, QueueOK, Frame
<1>8. DebugOK(c) /\ ContextOK(c, kernel)
  BY DEF Right
<1>9. DebugOK(e)
  <2>1. e.dbg = None => e.watch = {}
    BY <1>2, <1>5 DEF DebugOK
  <2>2. x = "debug" => "restoreDebugContext" \in Calls(c)
    BY <1>1
  <2>3. e.task_hap = c.task_hap
    BY <1>1, <1>5 DEF Frame
  <2>4. e.task_hap = FALSE => x # "debug"
    BY <1>8, <2>2, <2>3 DEF DebugOK
  <2>5. e.task_hap = d.task_hap
    BY <1>5 DEF Frame
  <2> QED
    BY <1>2, <1>5, <2>1, <2>4, <2>5 DEF DebugOK
<1>10. ContextOK(e, kernel)
  <2>1. e.susp = c.susp /\ e.dbg = c.dbg /\ e.watch = c.watch
    BY <1>1, <1>5 DEF Frame
  <2>2. "restoreDebugContext" \notin Calls(e)
    BY <1>1, <1>5 DEF Single
  <2>3. CASE x = "debug"
    <3>1. f.fn = "restoreDebugContext"
      BY <2>3
    <3>2. Calls(e) = {} /\ kernel.cur # Other
      BY <1>1, <1>5, <1>8, <3>1 DEF ContextOK, Single, Calls
    <3> QED
      BY <1>5, <2>3, <3>2 DEF ContextOK
  <2>4. CASE x # "debug"
    <3>1. f.fn \in Leaving
      BY <2>4 DEF Leaving
    <3>2. ~(c.dbg # None /\ kernel.cur \in c.watch \ c.susp)
      BY <1>1, <1>8, <3>1 DEF ContextOK
    <3> QED
      BY <1>5, <2>1, <2>2, <2>4, <3>2 DEF ContextOK
  <2> QED
    BY <2>3, <2>4
<1> QED
  BY <1>5, <1>6, <1>7, <1>9, <1>10 DEF Right

\* The last watched thread is gone: all watching stops.
LEMMA StopAloneFacts ==
  ASSUME NEW c, NEW kernel, Right(c, kernel), c.queue # <<>>,
         Head(c.queue).fn = "stopWatchTasksAlone",
         NEW e, e = stopWatchTasksAlone(Popped(c))
  PROVE  Right(e, kernel)
<1> DEFINE d == Popped(c)
<1>1. Well(d) /\ Calls(d) \cap Single = {}
  BY PoppedFacts
<1>2. /\ CacheOK(d, kernel) /\ DebugOK(d) /\ ClonesOK(d, kernel) /\ ExitOK(d, kernel)
      /\ QueueOK(d, kernel) /\ d.demise = {} /\ ContextOK(d, kernel) /\ Breaks(d, kernel)
  BY RestFacts
<1>3. e = stopWatchTasksAlone(d)
  OBVIOUS
<1> HIDE DEF d
<1>4. CASE d.task_hap = FALSE
  <2>1. e = d
    BY <1>3, <1>4 DEF stopWatchTasksAlone
  <2> QED
    BY <1>1, <1>2, <2>1 DEF Right
<1>5. CASE d.task_hap = TRUE
  <2>1. /\ Stopped(e) /\ e.clones = {} /\ e.bp = NoBreaks /\ e.hap = NoBreaks
        /\ e.demise = d.demise /\ e.susp = d.susp /\ e.pending = d.pending
        /\ e.exit_tid = d.exit_tid /\ e.queue = d.queue
    <3>1. Well(d)
      BY <1>1
    <3> QED
      BY <1>3, <1>5, <3>1, StopWatchFacts
  <2>2. Calls(e) = Calls(d) /\ Entries(e) = Entries(d)
    BY <2>1, SameQueue
  <2>3. Well(e) /\ e.watch = {} /\ e.cache = <<>> /\ e.dbg = None /\ e.context # "debug"
    BY <2>1 DEF Stopped
  <2>4. ToSet(e.cache) = {}
    BY <2>3, SetOfList DEF Well, Manager
  <2>5. \A t \in Thread : Alone("resetAlone", t) \notin Entries(e)
    BY <1>1, <2>2 DEF Calls, Alone, Single
  <2>6. CacheOK(e, kernel) /\ ClonesOK(e, kernel)
    BY <2>3, <2>4 DEF CacheOK, ClonesOK
  <2>7. ExitOK(e, kernel)
    BY <1>2, <2>1, <2>3 DEF ExitOK
  <2>8. DebugOK(e)
    BY <1>1, <2>2, <2>3 DEF DebugOK, Single
  <2>9. QueueOK(e, kernel)
    BY <1>1, <1>2, <2>1, <2>2, <2>5 DEF QueueOK
  <2>10. ContextOK(e, kernel)
    BY <1>1, <2>2, <2>3 DEF ContextOK, Single
  <2> QED
    BY <2>1, <2>3, <2>6, <2>7, <2>8, <2>9, <2>10, NoBreaksFacts DEF Right
<1>6. d.task_hap \in BOOLEAN
  BY <1>1 DEF Well, Manager
<1> QED
  BY <1>4, <1>5, <1>6

\* A thread died unseen: every breakpoint is cleared.
LEMMA ClearAloneFacts ==
  ASSUME NEW c, NEW kernel, Right(c, kernel), c.queue # <<>>,
         Head(c.queue).fn = "clearExitBreaksAlone",
         NEW e, e = clearExitBreaksAlone(Popped(c))
  PROVE  Right(e, kernel)
<1> DEFINE d == Popped(c)
<1>1. Well(d) /\ Entries(d) = {}
  BY PoppedFacts DEF Single
<1>2. /\ CacheOK(d, kernel) /\ DebugOK(d) /\ ClonesOK(d, kernel) /\ ExitOK(d, kernel)
      /\ QueueOK(d, kernel) /\ d.demise = {} /\ ContextOK(d, kernel) /\ Breaks(d, kernel)
  BY RestFacts
<1>3. "watchTaskHapAlone" \notin Calls(d)
  BY <1>1 DEF Calls
<1>4. e = clearExitBreaksAlone(d)
  OBVIOUS
<1> HIDE DEF d
<1>5. /\ Well(e) /\ Frame(d, e) /\ e.watch = d.watch /\ e.cache = d.cache
      /\ e.dbg = d.dbg /\ e.context = d.context /\ e.queue = d.queue
      /\ Breaks(d, kernel) /\ "watchTaskHapAlone" \notin Calls(d) => Breaks(e, kernel)
  BY <1>1, <1>4, ClearedFacts
<1>6. Entries(e) = {} /\ Calls(e) = Calls(d) /\ Entries(e) = Entries(d)
  BY <1>1, <1>5, SameQueue
<1>7. CacheOK(e, kernel) /\ ClonesOK(e, kernel) /\ ExitOK(e, kernel)
  BY <1>2, <1>5 DEF CacheOK, ClonesOK, ExitOK, Frame
<1>8. QueueOK(e, kernel)
  BY <1>2, <1>5, <1>6 DEF QueueOK, Frame
<1>9. DebugOK(e)
  BY <1>2, <1>5, <1>6 DEF DebugOK, Frame
<1>10. ContextOK(e, kernel)
  BY <1>2, <1>5, <1>6 DEF ContextOK, Frame
<1> QED
  BY <1>2, <1>3, <1>5, <1>7, <1>8, <1>9, <1>10 DEF Right

Cleared(c, t) == [c EXCEPT !.demise = @ \ {t}]

LEMMA UnsuspectFacts ==
  ASSUME NEW c, Well(c), NEW t, NEW e, e = Cleared(c, t)
  PROVE  /\ Well(e) /\ e.demise = c.demise \ {t} /\ SameHooks(c, e)
         /\ e.watch = c.watch /\ e.cache = c.cache /\ e.task_hap = c.task_hap
         /\ e.susp = c.susp /\ e.clones = c.clones /\ e.exit_tid = c.exit_tid
<1> DEFINE l == c.demise \ {t}
<1>1. c \in Manager /\ NoDup(c.cache)
  BY DEF Well
<1>2. l \in SUBSET Thread
  BY <1>1 DEF Manager
<1>3. e = [c EXCEPT !.demise = l]
  BY DEF Cleared
<1> HIDE DEF l
<1>4. e \in Manager /\ e.cache = c.cache
  BY <1>1, <1>2, <1>3 DEF Manager
<1>5. /\ e.demise = l /\ e.watch = c.watch /\ e.task_hap = c.task_hap
      /\ e.susp = c.susp /\ e.clones = c.clones /\ e.exit_tid = c.exit_tid
  BY <1>1, <1>3 DEF Manager
<1>6. SameHooks(c, e)
  BY <1>1, <1>3 DEF Manager, SameHooks
<1> QED
  BY <1>1, <1>4, <1>5, <1>6 DEF Well, l

\* resetAlone of a thread that lives: its breakpoint is set anew.
LEMMA ResetLiveFacts ==
  ASSUME NEW c, NEW kernel, KernelOK(kernel), Right(c, kernel), c.queue # <<>>,
         NEW t \in kernel.alive, Head(c.queue) = Alone("resetAlone", t),
         NEW e, e = Cleared(watchExit(Dropped(Popped(c), t), kernel, t), t)
  PROVE  Right(e, kernel)
<1> DEFINE d == Popped(c)
           f == Head(c.queue)
           g == Dropped(d, t)
           w == watchExit(g, kernel, t)
<1>1. t \in Thread /\ t \in Id /\ f.fn = "resetAlone" /\ f.fn \in Single
  BY DEF KernelOK, Kernel, Id, Alone, Single
<1>2. /\ f \in Queueable /\ f.fn \in Calls(c)
      /\ Well(d) /\ Frame(c, d) /\ d.watch = c.watch /\ d.cache = c.cache /\ d.dbg = c.dbg
      /\ d.context = c.context /\ d.bp = c.bp /\ d.hap = c.hap
      /\ Entries(c) = {f} \cup Entries(d) /\ Calls(d) \subseteq Calls(c)
      /\ Calls(d) \cap Single = {}
      /\ f.fn \in Single => d.queue = <<>> /\ Entries(d) = {} /\ Calls(c) = {f.fn}
      /\ \A u \in c.demise : f = Alone("resetAlone", u)
  BY PoppedFacts
<1>3. /\ CacheOK(d, kernel) /\ DebugOK(d) /\ ClonesOK(d, kernel) /\ ExitOK(d, kernel)
      /\ f.fn # "resetAlone" => QueueOK(d, kernel) /\ d.demise = {}
      /\ f.fn # "restoreDebugContext" => ContextOK(d, kernel)
      /\ f.fn # "watchTaskHapAlone" => Breaks(d, kernel)
  BY RestFacts
<1>4. ContextOK(d, kernel) /\ Breaks(d, kernel) /\ BreakOK(d, kernel, t)
  BY <1>1, <1>3 DEF Breaks
<1>5. d.bp[t] = "set" /\ d.queue = <<>> /\ Entries(d) = {} /\ Calls(d) = {}
  <2>1. f \in Entries(c) /\ QueueOK(c, kernel)
    BY <1>2 DEF Right
  <2>2. c.bp[t] = "set"
    BY <1>1, <2>1 DEF QueueOK
  <2> QED
    BY <1>1, <1>2, <2>2 DEF Calls
<1>6. d.demise \subseteq {t}
  <2>1. d.demise = c.demise /\ \A u \in c.demise : f = Alone("resetAlone", u)
    BY <1>2 DEF Frame
  <2>2. ASSUME NEW u \in d.demise PROVE u = t
    <3>1. Alone("resetAlone", u) = Alone("resetAlone", t)
      BY <2>1
    <3> QED
      BY <3>1 DEF Alone
  <2> QED
    BY <2>2
<1> HIDE DEF d
<1>7. /\ Well(g) /\ Frame(d, g) /\ g.watch = d.watch /\ g.cache = d.cache
      /\ g.dbg = d.dbg /\ g.context = d.context /\ g.queue = d.queue
      /\ g.bp[t] = "absent" /\ g.hap[t] = "absent"
      /\ \A u \in Thread : u # t => g.bp[u] = d.bp[u] /\ g.hap[u] = d.hap[u]
  BY <1>1, <1>2, DroppedFacts
<1> HIDE DEF g
<1>8. /\ Well(w) /\ Frame(g, w)
      /\ w.watch = g.watch /\ w.cache = g.cache /\ w.dbg = g.dbg /\ w.context = g.context
      /\ w.hap = g.hap
      /\ \/ w = g
         \/ t \in kernel.alive /\ w.bp = [g.bp EXCEPT ![t] = "set"]
            /\ Adds(g, w, "watchTaskHapAlone", t)
      /\ t \in kernel.alive => w.bp[t] = "set"
  BY <1>1, <1>7, WatchExitFacts
<1>9. e = Cleared(w, t)
  BY DEF w, g, d
<1> HIDE DEF w
<1>10. w.bp = [g.bp EXCEPT ![t] = "set"] /\ Adds(g, w, "watchTaskHapAlone", t)
  <2>1. w # g
    BY <1>7, <1>8
  <2> QED
    BY <1>8, <2>1
<1>11. Entries(w) = {Alone("watchTaskHapAlone", t)} /\ Calls(w) = {"watchTaskHapAlone"}
  <2>1. Entries(g) = {} /\ Calls(g) = {}
    BY <1>5, <1>7, SameQueue
  <2> QED
    BY <1>10, <2>1 DEF Adds
<1>12. /\ Well(e) /\ e.demise = w.demise \ {t} /\ SameHooks(w, e)
       /\ e.watch = w.watch /\ e.cache = w.cache /\ e.task_hap = w.task_hap
       /\ e.susp = w.susp /\ e.clones = w.clones /\ e.exit_tid = w.exit_tid
  BY <1>8, <1>9, UnsuspectFacts
<1>13. /\ e.watch = d.watch /\ e.cache = d.cache /\ e.task_hap = d.task_hap
       /\ e.susp = d.susp /\ e.clones = d.clones /\ e.exit_tid = d.exit_tid
       /\ e.dbg = d.dbg /\ e.context = d.context /\ e.demise = {}
  BY <1>6, <1>7, <1>8, <1>12 DEF Frame, SameHooks
<1>14. Entries(e) = {Alone("watchTaskHapAlone", t)} /\ Calls(e) = {"watchTaskHapAlone"}
  BY <1>11, <1>12, SameQueue DEF SameHooks
<1>15. Breaks(e, kernel)
  <2> SUFFICES ASSUME NEW u \in Thread PROVE BreakOK(e, kernel, u)
    BY DEF Breaks
  <2>1. g.bp \in [Thread -> Status]
    BY <1>7 DEF Well, Manager
  <2>2. e.bp = w.bp /\ e.hap = g.hap
    BY <1>8, <1>12 DEF SameHooks
  <2>3. CASE u = t
    BY <1>1, <1>4, <1>5, <1>7, <1>10, <1>13, <1>14, <2>1, <2>2, <2>3 DEF BreakOK
  <2>4. CASE u # t
    <3>1. BreakOK(d, kernel, u)
      BY <1>4 DEF Breaks
    <3>2. e.bp[u] = d.bp[u] /\ e.hap[u] = d.hap[u]
      BY <1>1, <1>7, <1>10, <2>1, <2>2, <2>4
    <3> QED
      BY <1>5, <1>13, <3>1, <3>2 DEF BreakOK
  <2> QED
    BY <2>3, <2>4
<1>16. CacheOK(e, kernel) /\ ClonesOK(e, kernel) /\ ExitOK(e, kernel)
  BY <1>3, <1>13 DEF CacheOK, ClonesOK, ExitOK
<1>17. QueueOK(e, kernel)
  BY <1>13, <1>14 DEF QueueOK, Single, Alone
<1>18. DebugOK(e)
  BY <1>3, <1>13, <1>14 DEF DebugOK
<1>19. ContextOK(e, kernel)
  BY <1>4, <1>5, <1>13, <1>14 DEF ContextOK, Leaving
<1> QED
  BY <1>12, <1>15, <1>16, <1>17, <1>18, <1>19 DEF Right

\* resetAlone of a thread that is gone: rmTask finds no record, so nothing is removed, its
\* exit is noted, and the breakpoints are to be cleared (deadParrot).
LEMMA ResetGoneFacts ==
  ASSUME NEW c, NEW kernel, KernelOK(kernel), Right(c, kernel), c.queue # <<>>,
         NEW t \in Thread \ kernel.alive, Head(c.queue) = Alone("resetAlone", t),
         NEW e, e = Cleared(Noted(Queued(Popped(c), "clearExitBreaksAlone", None), t), t)
  PROVE  Right(e, kernel)
<1> DEFINE d == Popped(c)
           f == Head(c.queue)
           g == Queued(d, "clearExitBreaksAlone", None)
           w == Noted(g, t)
<1>1. f.fn = "resetAlone" /\ f.fn \in Single
  BY DEF Alone, Single
<1>2. /\ f \in Queueable /\ f.fn \in Calls(c)
      /\ Well(d) /\ Frame(c, d) /\ d.watch = c.watch /\ d.cache = c.cache /\ d.dbg = c.dbg
      /\ d.context = c.context /\ d.bp = c.bp /\ d.hap = c.hap
      /\ Entries(c) = {f} \cup Entries(d) /\ Calls(d) \subseteq Calls(c)
      /\ Calls(d) \cap Single = {}
      /\ f.fn \in Single => d.queue = <<>> /\ Entries(d) = {} /\ Calls(c) = {f.fn}
      /\ \A u \in c.demise : f = Alone("resetAlone", u)
  BY PoppedFacts
<1>3. /\ CacheOK(d, kernel) /\ DebugOK(d) /\ ClonesOK(d, kernel) /\ ExitOK(d, kernel)
      /\ f.fn # "resetAlone" => QueueOK(d, kernel) /\ d.demise = {}
      /\ f.fn # "restoreDebugContext" => ContextOK(d, kernel)
      /\ f.fn # "watchTaskHapAlone" => Breaks(d, kernel)
  BY RestFacts
<1>4. ContextOK(d, kernel) /\ Breaks(d, kernel) /\ BreakOK(d, kernel, t)
  BY <1>1, <1>3 DEF Breaks
<1>5. t \in kernel.born /\ d.queue = <<>> /\ Entries(d) = {} /\ Calls(d) = {}
  <2>1. f \in Entries(c) /\ QueueOK(c, kernel)
    BY <1>2 DEF Right
  <2>2. d.bp[t] = "set"
    BY <1>2, <2>1 DEF QueueOK
  <2> QED
    BY <1>1, <1>2, <1>4, <2>2 DEF Calls, BreakOK
<1>6. d.demise \subseteq {t}
  <2>1. d.demise = c.demise /\ \A u \in c.demise : f = Alone("resetAlone", u)
    BY <1>2 DEF Frame
  <2>2. ASSUME NEW u \in d.demise PROVE u = t
    <3>1. Alone("resetAlone", u) = Alone("resetAlone", t)
      BY <2>1
    <3> QED
      BY <3>1 DEF Alone
  <2> QED
    BY <2>2
<1> HIDE DEF d
<1>7. /\ Well(g) /\ Frame(d, g) /\ Adds(d, g, "clearExitBreaksAlone", None)
      /\ g.bp = d.bp /\ g.hap = d.hap /\ g.dbg = d.dbg /\ g.context = d.context
      /\ g.watch = d.watch /\ g.cache = d.cache
  <2>1. Alone("clearExitBreaksAlone", None) \in Queueable
    BY DEF Alone, Queueable
  <2> QED
    BY <1>2, <2>1, QueuedKeeps
<1> HIDE DEF g
<1>8. /\ Well(w) /\ w.exit_tid = t /\ SameHooks(g, w)
      /\ w.watch = g.watch /\ w.cache = g.cache /\ w.task_hap = g.task_hap
      /\ w.demise = g.demise /\ w.clones = g.clones /\ w.susp = g.susp
      /\ w.pending = g.pending
  BY <1>7, NotedFacts
<1>9. e = Cleared(w, t)
  BY DEF w, g, d
<1> HIDE DEF w
<1>10. /\ Well(e) /\ e.demise = w.demise \ {t} /\ SameHooks(w, e)
       /\ e.watch = w.watch /\ e.cache = w.cache /\ e.task_hap = w.task_hap
       /\ e.susp = w.susp /\ e.clones = w.clones /\ e.exit_tid = w.exit_tid
  BY <1>8, <1>9, UnsuspectFacts
<1>11. /\ e.watch = d.watch /\ e.cache = d.cache /\ e.task_hap = d.task_hap
       /\ e.susp = d.susp /\ e.clones = d.clones /\ e.exit_tid = t
       /\ e.dbg = d.dbg /\ e.context = d.context /\ e.demise = {}
       /\ e.bp = d.bp /\ e.hap = d.hap /\ e.queue = g.queue
  BY <1>6, <1>7, <1>8, <1>10 DEF Frame, SameHooks
<1>12. /\ Entries(e) = {Alone("clearExitBreaksAlone", None)}
       /\ Calls(e) = {"clearExitBreaksAlone"} /\ Len(e.queue) = 1
  BY <1>5, <1>7, <1>11, SameQueue DEF Adds
<1>13. Breaks(e, kernel)
  BY <1>4, <1>5, <1>11, SameBreaks
<1>14. CacheOK(e, kernel) /\ ClonesOK(e, kernel) /\ ExitOK(e, kernel)
  BY <1>3, <1>5, <1>11 DEF CacheOK, ClonesOK, ExitOK
<1>15. QueueOK(e, kernel)
  BY <1>11, <1>12 DEF QueueOK, Alone
<1>16. DebugOK(e)
  BY <1>3, <1>11, <1>12 DEF DebugOK
<1>17. ContextOK(e, kernel)
  BY <1>4, <1>5, <1>11, <1>12 DEF ContextOK, Leaving
<1> QED
  BY <1>10, <1>13, <1>14, <1>15, <1>16, <1>17 DEF Right

LEMMA ResetAloneFacts ==
  ASSUME NEW c, NEW kernel, KernelOK(kernel), Right(c, kernel), c.queue # <<>>,
         NEW t \in Thread, Head(c.queue) = Alone("resetAlone", t),
         NEW swap, NEW e \in resetAlone(Popped(c), kernel, t, swap)
  PROVE  Right(e, kernel)
<1> DEFINE d == Popped(c)
           f == Head(c.queue)
<1>1. f.fn = "resetAlone"
  BY DEF Alone
<1>2. d.bp = c.bp /\ d.exit_tid = c.exit_tid /\ Entries(c) = {f} \cup Entries(d)
  BY PoppedFacts DEF Frame
<1>3. d.bp[t] = "set" /\ d.exit_tid # t /\ kernel.cur # t
  <2>1. Alone("resetAlone", t) \in Entries(c) /\ QueueOK(c, kernel)
    BY <1>2 DEF Right
  <2> QED
    BY <1>2, <2>1 DEF QueueOK
<1>4. HasRec(kernel, t) <=> t \in kernel.alive
  BY <1>3 DEF HasRec
<1> HIDE DEF d
<1>5. CASE t \in kernel.alive
  <2>1. e = Cleared(watchExit(Dropped(d, t), kernel, t), t)
    BY <1>3, <1>4, <1>5 DEF resetAlone, Cleared, Dropped, d
  <2> QED
    BY <1>5, <2>1, ResetLiveFacts DEF d
<1>6. CASE t \notin kernel.alive
  <2>1. \E x \in deadParrot(d, kernel, t, swap) : e = Cleared(x, t)
    BY <1>3, <1>4, <1>6 DEF resetAlone, Cleared, d
  <2>2. deadParrot(d, kernel, t, swap) =
          {Noted(Queued(r, "clearExitBreaksAlone", None), t) : r \in Removal(d, kernel, t, swap)}
    BY <1>3 DEF deadParrot, tidExit, Noted, Removal
  <2>3. Removal(d, kernel, t, swap) = {d}
    BY <1>4, <1>6, RemovalNothing
  <2>4. e = Cleared(Noted(Queued(d, "clearExitBreaksAlone", None), t), t)
    BY <2>1, <2>2, <2>3
  <2> QED
    BY <1>6, <2>4, ResetGoneFacts DEF d
<1> QED
  BY <1>5, <1>6

LEMMA RunAloneFacts ==
  ASSUME KernelOK(k), Right(cm, k), RunAlone
  PROVE  Right(cm', k)
<1> DEFINE f == Head(cm.queue)
           d == Popped(cm)
<1>1. cm.queue # <<>>
  BY DEF RunAlone
<1>2. f \in Queueable
  BY <1>1, PoppedFacts
<1>3. f.fn \in {"watchTaskHapAlone", "resetAlone"} => f.arg \in Thread /\ f = Alone(f.fn, f.arg)
  BY <1>2 DEF Queueable, Alone
<1>4. \/ f.fn = "watchTaskHapAlone" /\ cm' = watchTaskHapAlone(d, f.arg)
      \/ f.fn = "restoreDefaultContext" /\ cm' = InContext(d, "default")
      \/ f.fn = "restoreDebugContext" /\ cm' = InContext(d, "debug")
      \/ f.fn = "restoreSuspendContext" /\ cm' = InContext(d, "suspend")
      \/ f.fn = "stopWatchTasksAlone" /\ cm' = stopWatchTasksAlone(d)
      \/ f.fn = "clearExitBreaksAlone" /\ cm' = clearExitBreaksAlone(d)
      \/ f.fn = "resetAlone" /\ \E swap \in BOOLEAN : cm' \in resetAlone(d, k, f.arg, swap)
  BY DEF RunAlone, InContext, Popped
<1>5. CASE f.fn = "watchTaskHapAlone" /\ cm' = watchTaskHapAlone(d, f.arg)
  BY <1>1, <1>3, <1>5, HapAloneFacts
<1>6. CASE f.fn = "restoreDefaultContext" /\ cm' = InContext(d, "default")
  BY <1>1, <1>6, RestoredFacts
<1>7. CASE f.fn = "restoreDebugContext" /\ cm' = InContext(d, "debug")
  BY <1>1, <1>7, RestoredFacts
<1>8. CASE f.fn = "restoreSuspendContext" /\ cm' = InContext(d, "suspend")
  BY <1>1, <1>8, RestoredFacts
<1>9. CASE f.fn = "stopWatchTasksAlone" /\ cm' = stopWatchTasksAlone(d)
  BY <1>1, <1>9, StopAloneFacts
<1>10. CASE f.fn = "clearExitBreaksAlone" /\ cm' = clearExitBreaksAlone(d)
  BY <1>1, <1>10, ClearAloneFacts
<1>11. CASE f.fn = "resetAlone" /\ \E swap \in BOOLEAN : cm' \in resetAlone(d, k, f.arg, swap)
  BY <1>1, <1>3, <1>11, ResetAloneFacts
<1> QED
  BY <1>4, <1>5, <1>6, <1>7, <1>8, <1>9, <1>10, <1>11

-----------------------------------------------------------------------------
(* The steps keep the invariant.                                           *)

LEMMA FreshFacts ==
  ASSUME NEW c, c = Fresh
  PROVE  /\ Stopped(c) /\ c.saved = {} /\ c.bp = NoBreaks /\ c.hap = NoBreaks
         /\ c.queue = <<>> /\ c.demise = {} /\ c.clones = {} /\ c.exit_tid = None
         /\ c.susp = {} /\ c.dbg = None /\ c.task_hap = FALSE
<1>1. NoBreaks \in [Thread -> Status]
  BY DEF NoBreaks, Status
<1>2. c \in Manager
  BY <1>1 DEF Fresh, Manager
<1>3. NoDup(c.cache)
  BY DEF Fresh, NoDup
<1> QED
  BY <1>2, <1>3 DEF Fresh, Stopped, Well

LEMMA InitHolds == Init => IInv
<1> SUFFICES ASSUME Init PROVE IInv
  OBVIOUS
<1>1. KernelOK(k) /\ backs \in 0 .. MaxBacks
  BY TaskAssumption DEF Init, KernelOK, Kernel, Task
<1>2. cm = Fresh /\ origin = None
  BY DEF Init, Fresh
<1>3. /\ Stopped(cm) /\ cm.bp = NoBreaks /\ cm.hap = NoBreaks
      /\ cm.queue = <<>> /\ cm.demise = {} /\ cm.exit_tid = None
  BY <1>2, FreshFacts
<1>4. Breaks(cm, k)
  BY <1>3, NoBreaksFacts
<1>5. ExitOK(cm, k)
  BY <1>1, <1>3, TaskAssumption DEF ExitOK, KernelOK, Kernel, Task
<1>6. Right(cm, k)
  BY <1>3, <1>4, <1>5, StoppedFacts
<1> QED
  BY <1>1, <1>2, <1>6 DEF IInv

\* What a step has to show that leaves the origin alone.
LEMMA StepKeeps ==
  ASSUME IInv, KernelOK(k'), Right(cm', k'), Kept, origin = None => cm' = cm
  PROVE  IInv'
BY DEF IInv, Kept

LEMMA DebugKeeps ==
  ASSUME IInv, Debug
  PROVE  IInv'
<1>1. /\ KernelOK(k) /\ cm = Fresh /\ k.cur \in Thread \ (k.exiting \cup k.execed \cup Forked)
      /\ k' = k /\ origin' = k /\ backs' = backs
  BY DEF IInv, Debug
<1>2. CanDebug(k)
  BY <1>1, TaskAssumption DEF CanDebug, KernelOK
<1>3. /\ Stopped(cm) /\ cm.saved = {} /\ cm.bp = NoBreaks /\ cm.hap = NoBreaks
      /\ cm.queue = <<>> /\ cm.demise = {} /\ cm.clones = {} /\ cm.exit_tid = None
  BY <1>1, FreshFacts
<1>4. PICK w \in watchTasks(cm, k, k.cur, FALSE) :
         LET d == setDebugTid(w, k, FALSE) IN cm' \in {d} \cup addGroup(d, k)
  BY DEF Debug
<1>5. PICK r \in restoreDebug(Restart(cm)) : w = Joined(r, k, k.cur)
  BY <1>3 DEF watchTasks, Joined, Watching, Restart, Stopped
<1>6. Well(r) /\ r.dbg = None
  BY <1>3, RestoreDebugFacts
<1>7. w.dbg = None
  <2> DEFINE v == Joined(r, k, k.cur)
  <2>1. k.cur \in Id
    BY <1>1 DEF Id
  <2>2. v.dbg = r.dbg
    BY <1>1, <1>6, <2>1, JoinedFacts
  <2> QED
    BY <1>5, <1>6, <2>2
<1>8. setDebugTid(w, k, FALSE) = Debugging(w, k)
  BY <1>7 DEF setDebugTid, Debugging
<1>9. cm' \in Begun(r, k)
  BY <1>4, <1>5, <1>8 DEF Begun
<1>10. Right(cm', k)
  BY <1>2, <1>3, <1>9, DebugFacts
<1>11. origin' # None
  BY <1>1, TaskAssumption DEF KernelOK
<1> QED
  BY <1>1, <1>2, <1>10, <1>11 DEF IInv

LEMMA CloneKeeps ==
  ASSUME IInv, NEW n \in Thread, Clone(n)
  PROVE  IInv'
<1>1. /\ KernelOK(k) /\ Right(cm, k) /\ cm.queue = <<>> /\ n \in Thread \ k.born
      /\ k' = [k EXCEPT !.alive = @ \cup {n}, !.born = @ \cup {n}] /\ Kept
  BY DEF IInv, Clone, Idle
<1>2. cm' = cm \/ (cm.dbg # None /\ cm' = Added(cm, k, Number(n)))
  BY DEF Clone, Hooked, Added
<1>3. /\ k'.cur = k.cur /\ k'.alive = k.alive \cup {n} /\ k'.execed = k.execed
      /\ k'.born = k.born \cup {n} /\ KernelOK(k')
  BY <1>1 DEF KernelOK, Kernel
<1>4. Right(cm', k')
  BY <1>1, <1>2, <1>3, CloneCallFacts
<1>5. origin = None => cm' = cm
  BY <1>2, FreshFacts DEF IInv
<1> QED
  BY <1>1, <1>3, <1>4, <1>5, StepKeeps

LEMMA ExecKeeps ==
  ASSUME Seen, Unsuspended, IInv, Exec
  PROVE  IInv'
<1>1. /\ KernelOK(k) /\ Right(cm, k) /\ cm.queue = <<>> /\ k.cur \in Forked \ (k.exiting \cup k.execed)
      /\ k' = [k EXCEPT !.execed = @ \cup {k.cur}] /\ Kept
  BY DEF IInv, Exec, Idle
<1>2. k.cur \in Thread
  BY <1>1, TaskAssumption
<1>3. /\ k'.cur = k.cur /\ k'.alive = k.alive /\ k'.execed = k.execed \cup {k.cur}
      /\ k'.born = k.born /\ KernelOK(k')
  BY <1>1, <1>2, TaskAssumption DEF KernelOK, Kernel
<1>4. \/ /\ cm.dbg # None
         /\ \E swap \in BOOLEAN : \E r \in execveHap(cm, k, k.cur, swap) :
               cm' = parseExecve(r, k, k.cur)
      \/ (cm.dbg = None \/ cm.context # "debug") /\ cm' = cm
  BY DEF Exec, Hooked
<1>5. Right(cm', k')
  <2>1. ASSUME cm.dbg # None, NEW swap \in BOOLEAN,
               NEW r \in execveHap(cm, k, k.cur, swap), cm' = parseExecve(r, k, k.cur)
        PROVE  Right(cm', k')
    BY <1>1, <1>2, <1>3, <2>1, ExecHookedFacts
  <2>2. cm.dbg = None \/ cm.context # "debug" => Right(cm, k')
    BY <1>1, <1>3, ExecUnhookedFacts
  <2> QED
    BY <1>4, <2>1, <2>2
<1>6. origin = None => cm' = cm
  BY <1>4, FreshFacts DEF IInv
<1> QED
  BY <1>1, <1>3, <1>5, <1>6, StepKeeps

LEMMA SyscallKeeps ==
  ASSUME IInv, Syscall
  PROVE  IInv'
<1>1. /\ KernelOK(k) /\ Right(cm, k) /\ cm.queue = <<>> /\ k.cur \in Thread /\ cm.dbg # None
      /\ cm' = stopClone(cm, k, k.cur) /\ k' = k /\ Kept
  BY DEF IInv, Syscall, Idle, Hooked
<1>2. Right(cm', k)
  BY <1>1, SyscallFacts
<1>3. origin # None
  BY <1>1, FreshFacts DEF IInv
<1> QED
  BY <1>1, <1>2, <1>3, StepKeeps

LEMMA ExitSyscallKeeps ==
  ASSUME IInv, ExitSyscall
  PROVE  IInv'
<1>1. /\ KernelOK(k) /\ Right(cm, k) /\ cm.queue = <<>> /\ k.cur \in Thread \ k.exiting
      /\ k' = [k EXCEPT !.exiting = @ \cup {k.cur}] /\ Kept
  BY DEF IInv, ExitSyscall, Idle
<1>2. /\ k'.cur = k.cur /\ k'.alive = k.alive /\ k'.execed = k.execed
      /\ k'.born = k.born /\ KernelOK(k')
  BY <1>1, TaskAssumption DEF KernelOK, Kernel
<1>3. \/ /\ cm.dbg # None
         /\ \E swap \in BOOLEAN : \E h \in handleExit(cm, k, k.cur, swap) :
               cm' = Asked(Noted(h, k.cur), k, k.cur)
      \/ cm' = cm
  BY DEF ExitSyscall, Hooked, Asked, Noted, tidExit
<1>4. Right(cm', k')
  <2>1. ASSUME cm.dbg # None, NEW swap \in BOOLEAN,
               NEW h \in handleExit(cm, k, k.cur, swap),
               cm' = Asked(Noted(h, k.cur), k, k.cur)
        PROVE  Right(cm', k')
    BY <1>1, <1>2, <2>1, ExitSyscallFacts
  <2>2. Right(cm, k')
    BY <1>1, <1>2, KeptSmaller
  <2> QED
    BY <1>3, <2>1, <2>2
<1>5. origin = None => cm' = cm
  BY <1>3, FreshFacts DEF IInv
<1> QED
  BY <1>1, <1>2, <1>4, <1>5, StepKeeps

LEMMA ScheduleKeeps ==
  ASSUME IInv, NEW n \in Task, Schedule(n)
  PROVE  IInv'
<1>1. /\ KernelOK(k) /\ Right(cm, k) /\ cm.queue = <<>> /\ n \in k.alive \cup {Other}
      /\ k' = [k EXCEPT !.cur = n] /\ Kept
      /\ cm' = IF cm.task_hap THEN changedThread(cm, k, n) ELSE cm
  BY DEF IInv, Schedule, Idle
<1>2. KernelOK(k') /\ Right(cm', k')
  BY <1>1, ScheduleFacts
<1>3. origin = None => cm' = cm
  BY <1>1, FreshFacts DEF IInv
<1> QED
  BY <1>1, <1>2, <1>3, StepKeeps

LEMMA LinkWrittenKeeps ==
  ASSUME IInv, NEW t \in Thread, LinkWritten(t)
  PROVE  IInv'
<1>1. /\ KernelOK(k) /\ Right(cm, k) /\ cm.queue = <<>> /\ Kept
  BY DEF IInv, LinkWritten, Idle
<1>2. PICK swap \in BOOLEAN : cm' \in taskRecHap(cm, k, t, swap)
  BY DEF LinkWritten
<1>3. \/ k' = k
      \/ k' = [k EXCEPT !.alive = @ \ {t}] /\ (t # k.cur \/ t \in k.exiting)
  BY DEF LinkWritten
<1>4. /\ k'.cur = k.cur /\ k'.alive \subseteq k.alive /\ k'.execed = k.execed
      /\ k'.born = k.born /\ KernelOK(k')
  <2>1. CASE k' = k
    BY <1>1, <2>1
  <2>2. CASE k' = [k EXCEPT !.alive = @ \ {t}] /\ (t # k.cur \/ t \in k.exiting)
    BY <1>1, <2>2 DEF KernelOK, Kernel
  <2> QED
    BY <1>3, <2>1, <2>2
<1>5. Right(cm', k')
  BY <1>1, <1>2, <1>4, LinkWrittenFacts
<1>6. ASSUME origin = None PROVE cm' = cm
  <2>1. cm.hap = NoBreaks
    BY <1>6, FreshFacts DEF IInv
  <2>2. cm.hap[t] # "set"
    BY <2>1 DEF NoBreaks
  <2> QED
    BY <1>2, <2>2 DEF taskRecHap
<1> QED
  BY <1>1, <1>4, <1>5, <1>6, StepKeeps

LEMMA AddSuspendKeeps ==
  ASSUME IInv, addSuspendWatch
  PROVE  IInv'
<1>1. /\ KernelOK(k) /\ Right(cm, k) /\ cm.queue = <<>> /\ cm.dbg # None /\ Kept
      /\ k.cur \in cm.watch \cap Suspendable /\ k' = k
  BY DEF IInv, addSuspendWatch, Idle
<1>2. cm' = InContext(SuspendSet(cm, cm.susp \cup {k.cur}), "suspend")
  BY DEF addSuspendWatch, InContext, SuspendSet
<1>3. Right(cm', k)
  BY <1>1, <1>2, AddSuspendFacts
<1>4. origin # None
  BY <1>1, FreshFacts DEF IInv
<1> QED
  BY <1>1, <1>3, <1>4, StepKeeps

LEMMA RmSuspendKeeps ==
  ASSUME IInv, rmSuspendWatch
  PROVE  IInv'
<1> DEFINE fn == IF cm.dbg # None THEN "restoreDebugContext" ELSE "restoreDefaultContext"
<1>1. /\ KernelOK(k) /\ Right(cm, k) /\ cm.queue = <<>> /\ k.cur \in cm.susp /\ k' = k /\ Kept
  BY DEF IInv, rmSuspendWatch, Idle
<1>2. cm' = Queued(SuspendSet(cm, cm.susp \ {k.cur}), fn, None)
  BY DEF rmSuspendWatch, SuspendSet
<1>3. Right(cm', k)
  BY <1>1, <1>2, RmSuspendFacts
<1>4. origin # None
  BY <1>1, FreshFacts DEF IInv
<1> QED
  BY <1>1, <1>3, <1>4, StepKeeps

LEMMA GoToOriginKeeps ==
  ASSUME IInv, goToOrigin
  PROVE  IInv'
<1> DEFINE d == clearExitBreaksAlone(stopWatchTasksAlone(cm))
<1>1. /\ Right(cm, k) /\ cm.queue = <<>> /\ origin # None /\ CanDebug(origin)
      /\ k' = origin /\ origin' = origin /\ backs' \in 0 .. MaxBacks
  BY TaskAssumption DEF IInv, goToOrigin, Idle
<1>2. PICK r \in resetWatchTasks(Noted(d, None), origin) :
         cm' \in watchTasks(stopWatchTasksAlone(r), origin, origin.cur, TRUE)
  BY DEF goToOrigin, Noted
<1>3. KernelOK(origin) /\ origin.cur \in origin.alive
  BY <1>1 DEF CanDebug
<1>4. Right(cm', origin)
  BY <1>1, <1>2, <1>3, GoBackFacts
<1> QED
  BY <1>1, <1>3, <1>4 DEF IInv

LEMMA StopDebuggingKeeps ==
  ASSUME IInv, stopDebugging
  PROVE  IInv'
<1>1. /\ KernelOK(k) /\ Right(cm, k) /\ cm.queue = <<>> /\ origin # None /\ k' = k /\ Kept
      /\ cm' = stopDebug(clearExitBreaksAlone(stopWatchTasksAlone(cm)))
  BY DEF IInv, stopDebugging, Idle
<1>2. Right(cm', k)
  BY <1>1, StopDebuggingFacts
<1> QED
  BY <1>1, <1>2, StepKeeps

LEMMA RunAloneKeeps ==
  ASSUME IInv, RunAlone
  PROVE  IInv'
<1>1. KernelOK(k) /\ Right(cm, k) /\ k' = k /\ Kept /\ cm.queue # <<>>
  BY DEF IInv, RunAlone
<1>2. Right(cm', k)
  BY <1>1, RunAloneFacts
<1>3. origin # None
  BY <1>1, FreshFacts DEF IInv
<1> QED
  BY <1>1, <1>2, <1>3, StepKeeps

LEMMA NextHolds ==
  ASSUME Seen, Unsuspended, IInv, [Next]_vars
  PROVE  IInv'
<1>1. CASE Debug
  BY <1>1, DebugKeeps
<1>2. CASE Exec
  BY <1>2, ExecKeeps
<1>3. CASE Syscall
  BY <1>3, SyscallKeeps
<1>4. CASE ExitSyscall
  BY <1>4, ExitSyscallKeeps
<1>5. CASE \E t \in Thread : Clone(t) \/ LinkWritten(t)
  BY <1>5, CloneKeeps, LinkWrittenKeeps
<1>6. CASE \E n \in Task : Schedule(n)
  BY <1>6, ScheduleKeeps
<1>7. CASE addSuspendWatch
  BY <1>7, AddSuspendKeeps
<1>8. CASE rmSuspendWatch
  BY <1>8, RmSuspendKeeps
<1>9. CASE goToOrigin
  BY <1>9, GoToOriginKeeps
<1>10. CASE stopDebugging
  BY <1>10, StopDebuggingKeeps
<1>11. CASE RunAlone
  BY <1>11, RunAloneKeeps
<1>12. CASE UNCHANGED vars
  BY <1>12 DEF vars, IInv
<1> QED
  BY <1>1, <1>2, <1>3, <1>4, <1>5, <1>6, <1>7, <1>8, <1>9, <1>10, <1>11, <1>12 DEF Next

-----------------------------------------------------------------------------
(* What every run keeps.                                                   *)

LEMMA TypesHold == IInv => TypeOK
<1> SUFFICES ASSUME IInv PROVE TypeOK
  OBVIOUS
<1>1. /\ KernelOK(k) /\ Right(cm, k) /\ backs \in 0 .. MaxBacks /\ cm \in Manager
      /\ Breaks(cm, k) /\ QueueOK(cm, k)
  BY DEF IInv, Right, Well
<1>2. k.cur \in Task /\ k.alive \cup k.exiting \cup k.execed \subseteq k.born
  BY <1>1 DEF KernelOK, Kernel
<1>3. /\ cm.watch \cup cm.saved \subseteq Task /\ cm.susp \cup cm.clones \subseteq Thread
      /\ cm.context \in {"default", "debug", "suspend"}
  BY <1>1, TaskAssumption DEF Manager, Task
<1>4. ASSUME NEW t \in Thread
      PROVE  /\ cm.bp[t] = "absent" => cm.hap[t] = "absent"
             /\ cm.hap[t] = "set" => cm.bp[t] = "set"
  <2>1. BreakOK(cm, k, t) /\ cm.bp[t] \in Status
    BY <1>1 DEF Breaks, Manager
  <2> QED
    BY <2>1 DEF BreakOK, Status
<1>5. \A t \in cm.demise : Alone("resetAlone", t) \in ToSet(cm.queue)
  BY <1>1 DEF QueueOK, Entries
<1>6. ToSet(cm.queue) \subseteq Queueable
  BY <1>1, SetOfList DEF Manager
<1> QED
  BY <1>1, <1>2, <1>3, <1>4, <1>5, <1>6 DEF TypeOK

LEMMA ContextsHold == IInv => WatchedInDebugContext /\ OthersNotInDebug
<1> SUFFICES ASSUME IInv PROVE WatchedInDebugContext /\ OthersNotInDebug
  OBVIOUS
<1>1. Right(cm, k) /\ ContextOK(cm, k)
  BY DEF IInv, Right
<1>2. WatchedInDebugContext
  BY <1>1, IdleFacts DEF WatchedInDebugContext, Idle
<1>3. OthersNotInDebug
  BY <1>1 DEF ContextOK, OthersNotInDebug
<1> QED
  BY <1>2, <1>3

LEMMA WatchesHold == IInv => BreaksWatched /\ CachedWatched
<1> SUFFICES ASSUME IInv PROVE BreaksWatched /\ CachedWatched
  OBVIOUS
<1>1. Right(cm, k) /\ Breaks(cm, k) /\ CacheOK(cm, k) /\ cm \in Manager
  BY DEF IInv, Right, Well
<1>2. BreaksWatched
  <2> SUFFICES ASSUME NEW t \in Thread, cm.hap[t] = "set" PROVE t \in cm.watch
    BY DEF BreaksWatched
  <2>1. BreakOK(cm, k, t) /\ cm.bp[t] \in Status
    BY <1>1 DEF Breaks, Manager
  <2> QED
    BY <2>1 DEF BreakOK, Status
<1>3. CachedWatched
  <2>1. ToSet(cm.cache) \subseteq Id
    BY <1>1, SetOfList DEF Manager
  <2>2. ToSet(cm.cache) \cap Task \subseteq Thread
    BY <2>1, IdFacts DEF Id, Task
  <2> QED
    BY <1>1, <2>2 DEF CacheOK, CachedWatched
<1> QED
  BY <1>2, <1>3

LEMMA NothingRaisedHolds == IInv => NothingRaised
BY DEF IInv, Right, Well, Manager, NothingRaised

\* What the properties below rest on, in every run of a session whose execs trackThreads sees
\* and that suspends the watching of no forked process: breakpoints, caches, contexts and the
\* queue agree between any two calls, also while something waits to run alone.
THEOREM Invariant ==
  ASSUME Seen, Unsuspended
  PROVE  Spec => []IInv
<1>1. IInv /\ [Next]_vars => IInv'
  BY NextHolds
<1> QED
  BY InitHolds, <1>1, PTL DEF Spec

\* The tables of breakpoints and haps match, a suspected thread is about to be looked at, and
\* nothing is queued but the calls with the arguments that RunAlone knows.
THEOREM TypeCorrect ==
  ASSUME Seen, Unsuspended
  PROVE  Spec => []TypeOK
<1>1. Spec => []IInv
  BY Invariant
<1> QED
  BY <1>1, TypesHold, PTL

\* A watched thread that runs is in the debug context whenever the program runs: switches,
\* clones, exits, execs, suspensions and going back to the origin leave no gap
\* (alterWatches, restoreDebugContext, watchTasks).
THEOREM WatchedInContext ==
  ASSUME Seen, Unsuspended
  PROVE  Spec => []WatchedInDebugContext
<1>1. Spec => []IInv
  BY Invariant
<1> QED
  BY <1>1, ContextsHold, PTL

\* The debugger's breakpoints never bite another program's task (alterWatches).
THEOREM OthersLeftAlone ==
  ASSUME Seen, Unsuspended
  PROVE  Spec => []OthersNotInDebug
<1>1. Spec => []IInv
  BY Invariant
<1> QED
  BY <1>1, ContextsHold, PTL

\* No breakpoint waits for the death of a thread that is no longer watched (rmTask,
\* stopWatchTid, resetAlone, clearExitBreaksAlone).
THEOREM BreaksOfWatched ==
  ASSUME Seen, Unsuspended
  PROVE  Spec => []BreaksWatched
<1>1. Spec => []IInv
  BY Invariant
<1> QED
  BY <1>1, WatchesHold, PTL

\* Whatever thread amWatching believes in has a record (tid_cache and watch_rec_list).
THEOREM CacheOfWatched ==
  ASSUME Seen, Unsuspended
  PROVE  Spec => []CachedWatched
<1>1. Spec => []IInv
  BY Invariant
<1> QED
  BY <1>1, WatchesHold, PTL

\* No handler deletes a thread's breakpoint from a table that does not have it, or takes the
\* first element of an empty cache (delTidRecAlone, stopWatchTid, resetAlone, rmTask).
THEOREM NeverRaises ==
  ASSUME Seen, Unsuspended
  PROVE  Spec => []NothingRaised
<1>1. Spec => []IInv
  BY Invariant
<1> QED
  BY <1>1, NothingRaisedHolds, PTL
=============================================================================
