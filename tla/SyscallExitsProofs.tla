------------------------- MODULE SyscallExitsProofs -------------------------
(***************************************************************************)
(* Proofs about SyscallExits for every set of threads, calls, addresses    *)
(* and Syscalls.                                                           *)
(***************************************************************************)
EXTENDS SyscallExits, TLAPS

SharedType ==
    [exit_info : [Thread -> SUBSET ExitInfo],
     exit_tids : [Thread -> [Eip -> Nat]],
     exit_hap : [Context -> [Eip -> {"none", "enabled", "disabled"}]],
     exit_names : [Thread -> Sys \cup Call \cup {None}],
     pending_execve : SUBSET Thread]

\* Threads share a hap as long as one of them is listed.
ListedEnabled(h) ==
    \A t \in Thread, e \in Eip :
        h.exit_tids[t][e] > 0 => h.exit_hap[ContextOf(t)][e] = "enabled"

PendingListed(h) ==
    \A t \in Thread : h.exit_info[t] # {} => \A e \in Exits[t] : h.exit_tids[t][e] > 0

Tracked(h) == h \in SharedType /\ ListedEnabled(h) /\ PendingListed(h)

\* g is what is left of h when returns are no longer waited for.
Less(h, g) ==
    /\ \A t \in Thread : g.exit_info[t] # {} =>
          /\ g.exit_info[t] = h.exit_info[t]
          /\ g.exit_names[t] = h.exit_names[t]
          /\ t \in h.pending_execve => t \in g.pending_execve

LEMMA ContextType == \A t \in Thread : ContextOf(t) \in Context
BY DEF ContextOf, Context

LEMMA LessSelf == \A h : Less(h, h)
BY DEF Less

LEMMA LessLess ==
    ASSUME NEW h, NEW g, NEW f, Less(h, g), Less(g, f)
    PROVE  Less(h, f)
BY DEF Less

LEMMA DisableUnlistedFields ==
    ASSUME NEW h \in SharedType
    PROVE  LET g == DisableUnlisted(h)
           IN  /\ g \in SharedType
               /\ g.exit_info = h.exit_info /\ g.exit_tids = h.exit_tids
               /\ g.exit_names = h.exit_names /\ g.pending_execve = h.pending_execve
               /\ \A c \in Context, e \in Eip :
                     g.exit_hap[c][e] = IF h.exit_hap[c][e] = "enabled" /\ ListedAt(h, c, e) = {}
                                        THEN "disabled" ELSE h.exit_hap[c][e]
BY DEF DisableUnlisted, SharedType

LEMMA DisableUnlistedTracked ==
    ASSUME NEW h \in SharedType, ListedEnabled(h)
    PROVE  ListedEnabled(DisableUnlisted(h))
<1> DEFINE g == DisableUnlisted(h)
<1> SUFFICES ASSUME NEW t \in Thread, NEW e \in Eip, g.exit_tids[t][e] > 0
             PROVE  g.exit_hap[ContextOf(t)][e] = "enabled"
  BY DEF ListedEnabled
<1>1. h.exit_tids[t][e] > 0 /\ h.exit_hap[ContextOf(t)][e] = "enabled"
  BY DisableUnlistedFields DEF ListedEnabled
<1>2. t \in ListedAt(h, ContextOf(t), e)
  BY <1>1 DEF ListedAt
<1>3. QED
  BY <1>1, <1>2, DisableUnlistedFields, ContextType

LEMMA RmExitHap ==
    ASSUME NEW h, Tracked(h), NEW tids
    PROVE  LET g == rmExitHap(h, tids)
           IN  /\ Tracked(g) /\ Less(h, g)
               /\ \A t \in tids \cap Thread : g.exit_info[t] = {}
               /\ \A t \in Thread : g.exit_info[t] \in {{}, h.exit_info[t]}
               /\ g.exit_names = h.exit_names /\ g.pending_execve = h.pending_execve
<1> DEFINE f == [h EXCEPT !.exit_info = [t \in Thread |-> IF t \in tids THEN {} ELSE @[t]],
                          !.exit_tids = [t \in Thread |-> IF t \notin tids THEN @[t]
                                             ELSE [e \in Eip |-> UnlistedOnce(@[t][e])]]]
           g == rmExitHap(h, tids)
<1>1. h \in SharedType /\ ListedEnabled(h) /\ PendingListed(h)
  BY DEF Tracked
<1>2. /\ f.exit_info = [t \in Thread |-> IF t \in tids THEN {} ELSE h.exit_info[t]]
      /\ f.exit_tids = [t \in Thread |-> IF t \notin tids THEN h.exit_tids[t]
                           ELSE [e \in Eip |-> UnlistedOnce(h.exit_tids[t][e])]]
      /\ f.exit_hap = h.exit_hap /\ f.exit_names = h.exit_names
      /\ f.pending_execve = h.pending_execve
  BY <1>1 DEF SharedType
<1>3. \A n \in Nat : UnlistedOnce(n) \in Nat /\ (UnlistedOnce(n) > 0 => n > 0)
  BY DEF UnlistedOnce
<1>4. \A t \in Thread : h.exit_tids[t] \in [Eip -> Nat]
  BY <1>1 DEF SharedType
<1>5. f.exit_tids \in [Thread -> [Eip -> Nat]]
  BY <1>2, <1>3, <1>4
<1>6. f \in SharedType
  BY <1>1, <1>5 DEF SharedType
<1>7. ListedEnabled(f)
  BY <1>1, <1>2, <1>3, <1>4 DEF ListedEnabled
<1>8. g = DisableUnlisted(f)
  BY DEF rmExitHap
<1>9. g \in SharedType /\ ListedEnabled(g)
  BY <1>6, <1>7, <1>8, DisableUnlistedFields, DisableUnlistedTracked
<1>10. /\ g.exit_info = f.exit_info /\ g.exit_tids = f.exit_tids
       /\ g.exit_names = f.exit_names /\ g.pending_execve = f.pending_execve
  BY <1>6, <1>8, DisableUnlistedFields
<1>11. PendingListed(g)
  BY <1>1, <1>2, <1>10 DEF PendingListed
<1>12. QED
  BY <1>2, <1>9, <1>10, <1>11 DEF Tracked, Less

LEMMA RmPendingExecve ==
    ASSUME NEW h, Tracked(h), NEW t \in Thread
    PROVE  LET g == rmPendingExecve(h, t)
           IN  /\ Tracked(g) /\ Less(h, g)
               /\ \A u \in Thread : g.exit_info[u] \in {{}, h.exit_info[u]}
<1>1. CASE t \notin h.pending_execve
  BY <1>1, LessSelf DEF rmPendingExecve
<1>2. CASE t \in h.pending_execve
  <2> DEFINE f == [h EXCEPT !.pending_execve = @ \ {t}]
  <2>1. /\ f \in SharedType /\ f.exit_info = h.exit_info /\ f.exit_tids = h.exit_tids
        /\ f.exit_hap = h.exit_hap /\ f.exit_names = h.exit_names
        /\ f.pending_execve = h.pending_execve \ {t}
    BY DEF Tracked, SharedType
  <2>2. Tracked(f)
    BY <2>1 DEF Tracked, ListedEnabled, PendingListed
  <2>3. rmPendingExecve(h, t) = rmExitHap(f, {t})
    BY <1>2 DEF rmPendingExecve
  <2> HIDE DEF f
  <2>4. /\ Tracked(rmExitHap(f, {t})) /\ Less(f, rmExitHap(f, {t}))
        /\ rmExitHap(f, {t}).exit_info[t] = {}
        /\ \A u \in Thread : rmExitHap(f, {t}).exit_info[u] \in {{}, f.exit_info[u]}
    BY <2>2, RmExitHap
  <2>5. QED
    BY <2>1, <2>3, <2>4 DEF Less
<1>3. QED
  BY <1>1, <1>2

LEMMA RmExitBySyscallName ==
    ASSUME NEW h, Tracked(h), NEW syscalls
    PROVE  LET g == rmExitBySyscallName(h, syscalls)
           IN  /\ Tracked(g) /\ Less(h, g)
               /\ \A t \in Thread : g.exit_info[t] # {} => g.exit_names[t] \notin syscalls \ TraceAll
               /\ \A u \in Thread : g.exit_info[u] \in {{}, h.exit_info[u]}
<1> DEFINE ExitsOf(s) == {t \in Thread : h.exit_names[t] \in {s} \cup EndsIn[s]}
           tids == UNION {ExitsOf(s) : s \in syscalls \ TraceAll}
           here == {t \in tids : \E s \in syscalls \ TraceAll :
                                     t \in ExitsOf(s) /\ Cell[s] = ContextOf(t)}
           f == rmExitHap(h, here)
           g == [f EXCEPT !.exit_info = [t \in Thread |-> IF t \in tids THEN {} ELSE @[t]],
                          !.exit_names = [t \in Thread |-> IF t \in tids THEN None ELSE @[t]]]
<1>1. rmExitBySyscallName(h, syscalls) = g
  BY DEF rmExitBySyscallName
<1>2. \A t \in Thread : h.exit_names[t] \in syscalls \ TraceAll => t \in tids
  OBVIOUS
<1> HIDE DEF here, tids
<1>3. /\ Tracked(f) /\ Less(h, f) /\ f.exit_names = h.exit_names
      /\ \A t \in Thread : f.exit_info[t] \in {{}, h.exit_info[t]}
  BY RmExitHap
<1> HIDE DEF f
<1>4. /\ g.exit_info = [t \in Thread |-> IF t \in tids THEN {} ELSE f.exit_info[t]]
      /\ g.exit_tids = f.exit_tids /\ g.exit_hap = f.exit_hap
      /\ g.pending_execve = f.pending_execve /\ g \in SharedType
      /\ g.exit_names = [t \in Thread |-> IF t \in tids THEN None ELSE f.exit_names[t]]
  BY <1>3 DEF Tracked, SharedType
<1> HIDE DEF g
<1>5. Tracked(g)
  BY <1>3, <1>4 DEF Tracked, ListedEnabled, PendingListed
<1>6. Less(h, g)
  BY <1>3, <1>4 DEF Less
<1>7. QED
  BY <1>1, <1>2, <1>3, <1>4, <1>5, <1>6

Idle(h) == \A t \in Thread : h.exit_info[t] = {}

LEMMA StopTrace ==
    ASSUME NEW h, Tracked(h)
    PROVE  Tracked(stopTrace(h)) /\ Less(h, stopTrace(h)) /\ Idle(stopTrace(h))
<1> DEFINE g == stopTrace(h)
<1>1. /\ g.exit_info = [t \in Thread |-> {}] /\ g \in SharedType
      /\ g.exit_tids = [t \in Thread |-> [e \in Eip |-> 0]]
  BY DEF stopTrace, Tracked, SharedType
<1>2. QED
  BY <1>1 DEF Tracked, ListedEnabled, PendingListed, Less, Idle

LEMMA StoppedIfLastLemma ==
    ASSUME NEW h, Tracked(h)
    PROVE  Tracked(StoppedIfLast(h)) /\ Less(h, StoppedIfLast(h))
BY StopTrace, LessSelf DEF StoppedIfLast

\* Nothing is waited for in a context.
IdleIn(h, c) == \A t \in Thread : ContextOf(t) = c => h.exit_info[t] = {}

LEMMA RmExitHaps ==
    ASSUME NEW h, Tracked(h), NEW c \in Context, IdleIn(h, c)
    PROVE  LET g == rmExitHaps(h, c)
           IN  Tracked(g) /\ Less(h, g) /\ g.exit_info = h.exit_info
<1> DEFINE f == [h EXCEPT !.exit_tids = [t \in Thread |->
                     IF ContextOf(t) = c THEN [e \in Eip |-> 0] ELSE @[t]]]
<1>1. /\ f \in SharedType /\ f.exit_info = h.exit_info /\ f.exit_hap = h.exit_hap
      /\ f.exit_names = h.exit_names /\ f.pending_execve = h.pending_execve
      /\ f.exit_tids = [t \in Thread |->
             IF ContextOf(t) = c THEN [e \in Eip |-> 0] ELSE h.exit_tids[t]]
  BY DEF Tracked, SharedType
<1>2. rmExitHaps(h, c) = DisableUnlisted(f)
  BY DEF rmExitHaps
<1> HIDE DEF f
<1>3. ListedEnabled(f)
  BY <1>1 DEF ListedEnabled, Tracked
<1>4. PendingListed(f)
  BY <1>1 DEF PendingListed, Tracked, IdleIn
<1> DEFINE g == DisableUnlisted(f)
<1>5. /\ g \in SharedType /\ ListedEnabled(g)
      /\ g.exit_info = f.exit_info /\ g.exit_tids = f.exit_tids
      /\ g.exit_names = f.exit_names /\ g.pending_execve = f.pending_execve
  BY <1>1, <1>3, DisableUnlistedFields, DisableUnlistedTracked
<1> HIDE DEF g
<1>6. QED
  BY <1>1, <1>2, <1>4, <1>5 DEF Tracked, PendingListed, Less, g

LEMMA StopHap ==
    ASSUME NEW h, Tracked(h), NEW t \in Thread, IdleIn(h, ContextOf(t))
    PROVE  LET g == stopHap(h, t)
           IN  /\ Tracked(g) /\ Less(h, g)
               /\ \A u \in Thread : g.exit_info[u] \in {{}, h.exit_info[u]}
<1> DEFINE f == rmExitHaps(h, ContextOf(t))
<1>1. Tracked(f) /\ Less(h, f) /\ f.exit_info = h.exit_info
  BY RmExitHaps, ContextType
<1>2. stopHap(h, t) = rmPendingExecve(f, t)
  BY DEF stopHap
<1> HIDE DEF f
<1>3. /\ Tracked(rmPendingExecve(f, t)) /\ Less(f, rmPendingExecve(f, t))
      /\ \A u \in Thread : rmPendingExecve(f, t).exit_info[u] \in {{}, f.exit_info[u]}
  BY <1>1, RmPendingExecve
<1>4. Less(h, rmPendingExecve(f, t))
  BY <1>1, <1>3, LessLess
<1>5. QED
  BY <1>1, <1>2, <1>3, <1>4

LEMMA AddExitHap ==
    ASSUME NEW h, Tracked(h), NEW tids \in SUBSET Thread, NEW s \in Sys,
           NEW name \in Sys \cup Call, NEW calls, \A t \in tids : calls[t] \in Call, NEW may_match \in BOOLEAN
    PROVE  LET g == addExitHap(h, tids, s, name, calls, may_match)
           IN  /\ Tracked(g)
               /\ \A t \in Thread \ tids : /\ g.exit_info[t] = h.exit_info[t]
                                           /\ g.exit_names[t] = h.exit_names[t]
               /\ \A t \in tids : /\ g.exit_names[t] = name
                                  /\ \A i \in g.exit_info[t] :
                                        i \in h.exit_info[t] \/ i.call = calls[t]
                                  /\ calls[t] \in Execve => t \in g.pending_execve
               /\ h.pending_execve \subseteq g.pending_execve
<1> DEFINE g == addExitHap(h, tids, s, name, calls, may_match)
           info(t) == [sys |-> s, call |-> calls[t], may_match |-> may_match]
<1>0. h \in SharedType /\ ListedEnabled(h) /\ PendingListed(h)
  BY DEF Tracked
<1> DEFINE infos == [t \in Thread |-> IF t \notin tids THEN h.exit_info[t]
             ELSE {i \in h.exit_info[t] : i.sys # s \/ i.call # calls[t]} \cup {info(t)}]
         names == [t \in Thread |-> IF t \in tids THEN name ELSE h.exit_names[t]]
         haps == [c \in Context |-> [e \in Eip |->
            IF ListedAt(h, c, e) = {} /\ \E t \in tids : ContextOf(t) = c /\ e \in Exits[t]
            THEN "enabled" ELSE h.exit_hap[c][e]]]
         lists == [t \in Thread |-> [e \in Eip |->
            IF t \in tids /\ e \in Exits[t] THEN h.exit_tids[t][e] + 1 ELSE h.exit_tids[t][e]]]
         execs == h.pending_execve \cup {t \in tids : calls[t] \in Execve}
<1>2. infos \in [Thread -> SUBSET ExitInfo]
  <2>1. \A t \in tids : info(t) \in ExitInfo
    <3> SUFFICES ASSUME NEW t \in tids PROVE info(t) \in ExitInfo
      OBVIOUS
    <3>1. calls[t] \in Call
      OBVIOUS
    <3> HIDE DEF info
    <3>2. \A c \in Call : [sys |-> s, call |-> c, may_match |-> may_match] \in ExitInfo
      BY Zenon DEF ExitInfo
    <3>3. QED
      BY <3>1, <3>2 DEF info
  <2>2. \A t \in Thread : h.exit_info[t] \in SUBSET ExitInfo
    BY <1>0 DEF SharedType
  <2> HIDE DEF info
  <2>3. \A t \in Thread : infos[t] \in SUBSET ExitInfo
    BY <2>1, <2>2
  <2>4. QED
    BY <2>3
<1>3. lists \in [Thread -> [Eip -> Nat]]
  BY <1>0 DEF SharedType
<1>4. haps \in [Context -> [Eip -> {"none", "enabled", "disabled"}]]
  BY <1>0 DEF SharedType
<1>5. names \in [Thread -> Sys \cup Call \cup {None}] /\ execs \in SUBSET Thread
  BY <1>0 DEF SharedType
<1>14. g = [h EXCEPT !.exit_info = infos, !.exit_names = names, !.exit_hap = haps,
                     !.exit_tids = lists, !.pending_execve = execs]
  BY DEF addExitHap
<1> HIDE DEF infos, names, haps, lists, execs, g
<1>6. /\ g.exit_info = infos /\ g.exit_names = names /\ g.exit_hap = haps
      /\ g.exit_tids = lists /\ g.pending_execve = execs /\ g \in SharedType
  BY <1>0, <1>2, <1>3, <1>4, <1>5, <1>14 DEF SharedType
<1>1. /\ \A t \in Thread \ tids : g.exit_info[t] = h.exit_info[t] /\ g.exit_names[t] = h.exit_names[t]
      /\ \A t \in tids : /\ g.exit_names[t] = name
                         /\ g.exit_info[t] \subseteq h.exit_info[t] \cup {info(t)}
      /\ \A c \in Context, e \in Eip : g.exit_hap[c][e] =
            IF ListedAt(h, c, e) = {} /\ \E t \in tids : ContextOf(t) = c /\ e \in Exits[t]
            THEN "enabled" ELSE h.exit_hap[c][e]
      /\ \A t \in Thread, e \in Eip : g.exit_tids[t][e] =
            IF t \in tids /\ e \in Exits[t] THEN h.exit_tids[t][e] + 1 ELSE h.exit_tids[t][e]
      /\ g.pending_execve = h.pending_execve \cup {t \in tids : calls[t] \in Execve}
  <2> HIDE DEF info
  <2>1. QED
    BY <1>6 DEF infos, names, haps, lists, execs
<1>7. ListedEnabled(g)
  <2> SUFFICES ASSUME NEW t \in Thread, NEW e \in Eip, g.exit_tids[t][e] > 0
               PROVE  g.exit_hap[ContextOf(t)][e] = "enabled"
    BY DEF ListedEnabled
  <2> ContextOf(t) \in Context
    BY ContextType
  <2>1. h.exit_tids[t][e] \in Nat
    BY <1>0 DEF SharedType
  <2>2. CASE h.exit_tids[t][e] > 0
    <3>1. t \in ListedAt(h, ContextOf(t), e)
      BY <2>2 DEF ListedAt
    <3>2. h.exit_hap[ContextOf(t)][e] = "enabled"
      BY <1>0, <2>2 DEF ListedEnabled
    <3>3. QED
      BY <1>1, <3>1, <3>2
  <2>3. CASE ~(h.exit_tids[t][e] > 0)
    <3>1. t \in tids /\ e \in Exits[t]
      BY <1>1, <2>1, <2>3
    <3>2. CASE ListedAt(h, ContextOf(t), e) = {}
      BY <1>1, <3>1, <3>2
    <3>3. CASE ListedAt(h, ContextOf(t), e) # {}
      <4>1. PICK u \in Thread : ContextOf(u) = ContextOf(t) /\ h.exit_tids[u][e] > 0
        BY <3>3 DEF ListedAt
      <4>2. h.exit_hap[ContextOf(t)][e] = "enabled"
        BY <1>0, <4>1 DEF ListedEnabled
      <4>3. QED
        BY <1>1, <4>2
    <3>4. QED
      BY <3>2, <3>3
  <2>4. QED
    BY <2>2, <2>3
<1>8. PendingListed(g)
  <2> SUFFICES ASSUME NEW t \in Thread, g.exit_info[t] # {}, NEW e \in Exits[t]
               PROVE  g.exit_tids[t][e] > 0
    BY DEF PendingListed
  <2>1. e \in Eip
    BY ExitAssumption
  <2>2. h.exit_tids[t][e] \in Nat
    BY <1>0, <2>1 DEF SharedType
  <2>3. CASE t \in tids
    BY <1>1, <2>1, <2>2, <2>3
  <2>4. CASE t \notin tids
    BY <1>0, <1>1, <2>1, <2>4 DEF PendingListed
  <2>5. QED
    BY <2>3, <2>4
<1>9. Tracked(g)
  BY <1>6, <1>7, <1>8 DEF Tracked
<1>10. \A t \in tids : /\ g.exit_names[t] = name
                       /\ \A i \in g.exit_info[t] : i \in h.exit_info[t] \/ i.call = calls[t]
                       /\ calls[t] \in Execve => t \in g.pending_execve
  <2> SUFFICES ASSUME NEW t \in tids
               PROVE  /\ g.exit_names[t] = name
                      /\ \A i \in g.exit_info[t] : i \in h.exit_info[t] \/ i.call = calls[t]
                      /\ calls[t] \in Execve => t \in g.pending_execve
    OBVIOUS
  <2>1. t \in Thread
    OBVIOUS
  <2>4. info(t).call = calls[t]
    OBVIOUS
  <2>2. g.exit_info[t] \subseteq h.exit_info[t] \cup {info(t)}
    BY <1>1, <2>1
  <2>3. QED
    BY <1>1, <2>1, <2>2, <2>4
<1>11. \A t \in Thread \ tids : /\ g.exit_info[t] = h.exit_info[t]
                                /\ g.exit_names[t] = h.exit_names[t]
  BY <1>1
<1>12. h.pending_execve \subseteq g.pending_execve
  BY <1>1
<1>13. QED
  BY <1>9, <1>10, <1>11, <1>12 DEF g

-----------------------------------------------------------------------------
(* The invariant *)

\* What is kept of a thread is of its call, and an exec is known to be pending.
Of(h, calls) ==
    \A t \in Thread : \A i \in h.exit_info[t] :
        i.call = calls[t] /\ (i.call \in Execve => t \in h.pending_execve)

Asked(h, syscalls) ==
    \A t \in Thread : h.exit_info[t] # {} => AskersUnder(h.exit_names[t]) \cap syscalls # {}

IInv ==
    /\ TypeOK
    /\ Tracked(shared)
    /\ Of(shared, in_call)
    /\ Asked(shared, live)
    /\ live \cap TraceAll # {} => tracing

LEMMA AskersUnderSelf == \A s \in Sys : s \in AskersUnder(s)
BY ExitAssumption DEF AskersUnder

LEMMA LessKeeps ==
    ASSUME NEW h, NEW g, Less(h, g), NEW calls, NEW syscalls
    PROVE  /\ Of(h, calls) => Of(g, calls)
           /\ Asked(h, syscalls) => Asked(g, syscalls)
BY DEF Less, Of, Asked

LEMMA TypeFromTracked ==
    TypeOK <=> /\ in_call \in [Thread -> Call \cup {None}]
               /\ shared \in SharedType
               /\ live \subseteq Sys
               /\ tracing \in BOOLEAN
BY DEF TypeOK, SharedType

\* A thread outside the kernel has nothing pending, so that it may enter a call.
LEMMA EnterKeeps ==
    ASSUME IInv, NEW t \in Thread, NEW c \in Call, Enters(t, c)
    PROVE  /\ shared.exit_info[t] = {}
           /\ in_call' \in [Thread -> Call \cup {None}]
           /\ in_call'[t] = c
           /\ \A u \in Thread \ {t} : in_call'[u] = in_call[u]
           /\ Of(shared, in_call')
<1>1. in_call \in [Thread -> Call \cup {None}] /\ shared \in SharedType
  BY DEF IInv, TypeOK, SharedType
<1>2. in_call[t] = None /\ in_call' = [in_call EXCEPT ![t] = c]
  BY DEF Enters
<1>3. \A i \in shared.exit_info[t] : i.call = None /\ i.call \in Call
  BY <1>1, <1>2 DEF IInv, Of, SharedType, ExitInfo
<1>4. shared.exit_info[t] = {}
  BY <1>3, ExitAssumption
<1>5. QED
  BY <1>1, <1>2, <1>4 DEF IInv, Of

LEMMA InitIInv == Init => IInv
<1> SUFFICES ASSUME Init PROVE IInv
  OBVIOUS
<1>1. shared \in SharedType /\ \A t \in Thread : shared.exit_info[t] = {}
  BY DEF Init, SharedType
<1>2. ListedEnabled(shared)
  BY DEF Init, ListedEnabled
<1>3. TypeOK
  BY <1>1, TypeFromTracked DEF Init
<1>4. QED
  BY <1>1, <1>2, <1>3 DEF IInv, Tracked, PendingListed, Of, Asked, Init

\* The invariant after a step, from what the step makes of each variable.
LEMMA Established ==
    ASSUME in_call' \in [Thread -> Call \cup {None}], live' \subseteq Sys, tracing' \in BOOLEAN,
           Tracked(shared'), Of(shared', in_call'), Asked(shared', live'),
           live' \cap TraceAll # {} => tracing'
    PROVE  IInv'
BY DEF IInv, TypeOK, Tracked, ListedEnabled, PendingListed, Of, Asked, SharedType

LEMMA CallIgnoredStep ==
    ASSUME IInv, NEW t \in Thread, NEW c \in Call, CallIgnored(t, c)
    PROVE  IInv'
<1>1. /\ Of(shared, in_call') /\ in_call' \in [Thread -> Call \cup {None}]
      /\ shared' = shared /\ live' = live /\ tracing' = tracing
  BY EnterKeeps DEF CallIgnored
<1>2. QED
  BY <1>1 DEF IInv, TypeOK, Tracked, ListedEnabled, PendingListed, Of, Asked, SharedType

LEMMA CallSeenStep ==
    ASSUME IInv, NEW t \in Thread, NEW c \in Call, NEW s \in Sys, NEW may_match \in BOOLEAN,
           CallSeen(t, c, s, may_match)
    PROVE  IInv'
<1>1. /\ shared.exit_info[t] = {} /\ in_call' \in [Thread -> Call \cup {None}]
      /\ in_call'[t] = c /\ Of(shared, in_call')
  BY EnterKeeps DEF CallSeen
<1>2. s \in live /\ live' = live /\ tracing' = tracing
  BY DEF CallSeen, Watching
<1> DEFINE g == addExitHap(shared, {t}, s, ExitName(s, c), in_call', may_match)
<1>3. CASE shared' = g
  <2>1. /\ Tracked(shared) /\ {t} \in SUBSET Thread /\ ExitName(s, c) \in Sys \cup Call
        /\ \A u \in {t} : in_call'[u] \in Call
    BY <1>1 DEF IInv, ExitName
  <2>7. /\ Tracked(g)
        /\ \A u \in Thread \ {t} : /\ g.exit_info[u] = shared.exit_info[u]
                                   /\ g.exit_names[u] = shared.exit_names[u]
        /\ \A u \in {t} : /\ g.exit_names[u] = ExitName(s, c)
                          /\ \A i \in g.exit_info[u] :
                                i \in shared.exit_info[u] \/ i.call = in_call'[u]
                          /\ in_call'[u] \in Execve => u \in g.pending_execve
        /\ shared.pending_execve \subseteq g.pending_execve
    BY <2>1, AddExitHap, Zenon
  <2>2. /\ Tracked(g)
        /\ \A u \in Thread \ {t} : /\ g.exit_info[u] = shared.exit_info[u]
                                   /\ g.exit_names[u] = shared.exit_names[u]
        /\ g.exit_names[t] = ExitName(s, c)
        /\ \A i \in g.exit_info[t] : i \in shared.exit_info[t] \/ i.call = in_call'[t]
        /\ in_call'[t] \in Execve => t \in g.pending_execve
        /\ shared.pending_execve \subseteq g.pending_execve
    BY <2>7
  <2> HIDE DEF g
  <2>3. Tracked(shared')
    BY <1>3, <2>2
  <2>4. Of(shared', in_call')
    BY <1>1, <1>3, <2>2 DEF Of
  <2>8. s \in AskersUnder(ExitName(s, c))
    BY ExitAssumption DEF AskersUnder, ExitName
  <2>5. Asked(shared', live')
    BY <1>2, <1>3, <2>2, <2>8 DEF Asked, IInv
  <2>6. QED
    BY <1>1, <1>2, <2>3, <2>4, <2>5, Established DEF IInv, TypeOK
<1>4. CASE shared' = shared
  BY <1>1, <1>2, <1>4 DEF IInv, TypeOK, Tracked, ListedEnabled, PendingListed, Of, Asked, SharedType
<1>5. QED
  BY <1>3, <1>4 DEF CallSeen

LEMMA RemovedAsked ==
    ASSUME NEW h, Tracked(h), NEW syscalls, Asked(h, syscalls), NEW gone
    PROVE  Asked(rmExitBySyscallName(h, gone), syscalls \ (gone \ TraceAll))
<1> DEFINE g == rmExitBySyscallName(h, gone)
<1> SUFFICES ASSUME NEW t \in Thread, g.exit_info[t] # {}
             PROVE  AskersUnder(g.exit_names[t]) \cap (syscalls \ (gone \ TraceAll)) # {}
  BY DEF Asked
<1>1. /\ g.exit_names[t] = h.exit_names[t] /\ h.exit_info[t] # {}
      /\ g.exit_names[t] \notin gone \ TraceAll
  BY RmExitBySyscallName DEF Less
<1> HIDE DEF g
<1>2. AskersUnder(g.exit_names[t]) \cap syscalls # {}
  BY <1>1 DEF Asked
<1>3. QED
  BY <1>1, <1>2 DEF AskersUnder

\* Either no Syscall stops at the entry of a call, or the debugged program has one thread:
\* whoever is stopped there leaves no other behind in a call.
StopsAlone == AtCall = {} \/ \A t, u \in Debugged : t = u

LEMMA CallStopsStep ==
    ASSUME StopsAlone, IInv, NEW t \in Thread, NEW c \in Call, NEW s \in Sys, CallStops(t, c, s)
    PROVE  IInv'
<1>1. /\ shared.exit_info[t] = {} /\ in_call' \in [Thread -> Call \cup {None}]
      /\ in_call'[t] = c /\ Of(shared, in_call')
  BY EnterKeeps DEF CallStops
<1>2. /\ s \in live /\ s \in AtCall /\ live' = live \ {s} /\ tracing' = tracing
      /\ Cell[s] = ContextOf(t)
  BY DEF CallStops, Watching
<1>3. Tracked(shared) /\ Asked(shared, live) /\ {t} \in SUBSET Thread /\ TRUE \in BOOLEAN
      /\ \A u \in {t} : in_call'[u] \in Call
  BY <1>1 DEF IInv
<1> DEFINE f == StoppedIfLast(shared)
           g == addExitHap(f, {t}, s, s, in_call', TRUE)
           h == rmExitBySyscallName(g, {s})
<1>4. Tracked(f) /\ Less(shared, f)
  BY <1>3, StoppedIfLastLemma
<1>5. shared' = stopHap(h, t)
  BY DEF CallStops
<1> HIDE DEF f
<1>6. Of(f, in_call') /\ Asked(f, live)
  BY <1>1, <1>3, <1>4, LessKeeps
<1>7. /\ Tracked(g)
      /\ \A u \in Thread \ {t} : /\ g.exit_info[u] = f.exit_info[u]
                                 /\ g.exit_names[u] = f.exit_names[u]
      /\ \A u \in {t} : /\ g.exit_names[u] = s
                        /\ \A i \in g.exit_info[u] :
                              i \in f.exit_info[u] \/ i.call = in_call'[u]
                        /\ in_call'[u] \in Execve => u \in g.pending_execve
      /\ f.pending_execve \subseteq g.pending_execve
  BY <1>3, <1>4, AddExitHap, Zenon
<1> HIDE DEF g
<1>8. Of(g, in_call') /\ Asked(g, live)
  BY <1>2, <1>6, <1>7, AskersUnderSelf DEF Of, Asked
<1>9. /\ Tracked(h) /\ Less(g, h) /\ Asked(h, live \ ({s} \ TraceAll))
      /\ \A u \in Thread : h.exit_info[u] # {} => h.exit_names[u] \notin {s} \ TraceAll
  BY <1>7, <1>8, RmExitBySyscallName, RemovedAsked
<1> HIDE DEF h
<1>10. {s} \ TraceAll = {s}
  BY <1>2, ExitAssumption
<1>11. h.exit_info[t] = {}
  BY <1>7, <1>9, <1>10 DEF Less
<1>12. IdleIn(h, ContextOf(t))
  <2>1. ContextOf(t) = "resim" /\ t \in Debugged
    BY <1>2, ExitAssumption DEF ContextOf
  <2>2. \A u \in Thread : ContextOf(u) = ContextOf(t) => u = t
    BY <1>2, <2>1 DEF StopsAlone, ContextOf
  <2>3. QED
    BY <1>11, <2>2 DEF IdleIn
<1>13. Tracked(shared') /\ Less(h, shared')
  BY <1>5, <1>9, <1>12, StopHap
<1>14. Of(shared', in_call') /\ Asked(shared', live')
  BY <1>2, <1>8, <1>9, <1>10, <1>13, LessKeeps
<1>15. QED
  BY <1>1, <1>2, <1>13, <1>14, Established DEF IInv, TypeOK

LEMMA IdleKeeps ==
    ASSUME NEW h, Idle(h), NEW calls, NEW syscalls
    PROVE  Of(h, calls) /\ Asked(h, syscalls)
BY DEF Idle, Of, Asked

LEMMA HandleExit ==
    ASSUME NEW h, Tracked(h), NEW t \in Thread, NEW handled, NEW stops
    PROVE  LET g == handleExit(h, t, handled, stops)
           IN  /\ Tracked(g) /\ Less(h, g) /\ g.exit_info[t] = {}
               /\ Stopping(stops) # {} => Idle(g)
<1> DEFINE f == IF \E i \in handled : i.call \in Execve THEN rmPendingExecve(h, t) ELSE h
           k == IF Stopping(stops) = {} THEN f ELSE stopTrace(f)
<1>1. Tracked(f) /\ Less(h, f)
  BY RmPendingExecve, LessSelf
<1> HIDE DEF f
<1>2. Tracked(k) /\ Less(f, k) /\ (Stopping(stops) # {} => Idle(k))
  BY <1>1, StopTrace, LessSelf
<1>3. handleExit(h, t, handled, stops) = rmExitHap(k, {t})
  BY DEF handleExit, f
<1> HIDE DEF k
<1>4. /\ Tracked(rmExitHap(k, {t})) /\ Less(k, rmExitHap(k, {t}))
      /\ rmExitHap(k, {t}).exit_info[t] = {}
      /\ \A u \in Thread : rmExitHap(k, {t}).exit_info[u] \in {{}, k.exit_info[u]}
  BY <1>2, RmExitHap
<1>5. Less(h, rmExitHap(k, {t}))
  BY <1>1, <1>2, <1>4, LessLess
<1>6. QED
  BY <1>2, <1>3, <1>4, <1>5 DEF Idle

\* The other Syscalls' removals leave nothing where nothing is waited for.
LEMMA StopsIdle ==
    ASSUME NEW h, Tracked(h), Idle(h), NEW t \in Thread, NEW syscalls
    PROVE  LET g == StoppedIfLast(rmExitBySyscallName(stopHap(h, t), syscalls))
           IN  Tracked(g) /\ Idle(g)
<1>1. Tracked(stopHap(h, t)) /\ Idle(stopHap(h, t))
  BY StopHap DEF Idle, IdleIn
<1> DEFINE f == rmExitBySyscallName(stopHap(h, t), syscalls)
<1>2. Tracked(f) /\ Idle(f)
  BY <1>1, RmExitBySyscallName DEF Idle
<1> HIDE DEF f
<1>3. QED
  BY <1>2, StoppedIfLastLemma, StopTrace DEF StoppedIfLast, f

\* What leaves the kernel has nothing pending any more.
LEMMA ReturnStep ==
    ASSUME IInv, NEW t \in Thread, NEW e \in Eip, Return(t, e)
    PROVE  IInv'
<1>1. /\ in_call' = [in_call EXCEPT ![t] = None] /\ e \in Exits[t] /\ tracing' = tracing
      /\ in_call \in [Thread -> Call \cup {None}] /\ live \subseteq Sys /\ tracing \in BOOLEAN
  BY DEF Return, IInv, TypeOK
<1>2. /\ in_call' \in [Thread -> Call \cup {None}]
      /\ \A u \in Thread \ {t} : in_call'[u] = in_call[u]
  BY <1>1
<1>3. Tracked(shared) /\ Of(shared, in_call) /\ Asked(shared, live)
  BY DEF IInv
<1>4. ASSUME NEW h, Less(shared, h), h.exit_info[t] = {}
      PROVE  Of(h, in_call') /\ Asked(h, live)
  BY <1>2, <1>3, <1>4 DEF Less, Of, Asked
<1>5. live \cap TraceAll # {} => tracing
  BY DEF IInv
<1>6. CASE shared.exit_hap[ContextOf(t)][e] # "enabled"
  <2>1. shared' = shared /\ live' = live
    BY <1>6 DEF Return
  <2>2. shared.exit_info[t] = {}
    BY <1>1, <1>3, <1>6 DEF Tracked, ListedEnabled, PendingListed
  <2>3. Of(shared, in_call')
    BY <1>4, <2>2, LessSelf
  <2>4. QED
    BY <1>1, <1>2, <1>3, <1>5, <2>1, <2>3, Established
<1>7. CASE shared.exit_hap[ContextOf(t)][e] = "enabled"
  <2>1. PICK handled \in SUBSET shared.exit_info[t] :
             \E stops \in SUBSET {i \in handled : i.may_match} : exitHap(t, handled, stops)
    BY <1>7 DEF Return
  <2>2. PICK stops \in SUBSET {i \in handled : i.may_match} : exitHap(t, handled, stops)
    BY <2>1
  <2> DEFINE h == IF handled = {} THEN shared ELSE handleExit(shared, t, handled, stops)
  <2>3. handled = {} => shared.exit_info[t] = {}
    BY <2>2 DEF exitHap, Handled
  <2>4. handled = {} => Stopping(stops) = {}
    BY DEF Stopping
  <2>5. /\ Tracked(h) /\ Less(shared, h) /\ h.exit_info[t] = {}
        /\ Stopping(stops) # {} => Idle(h)
    BY <1>3, <2>3, <2>4, HandleExit, LessSelf
  <2>6. /\ live' = live \ Stopping(stops)
        /\ shared' = IF Stopping(stops) = {} THEN h
                     ELSE IF Stopping(stops) \cap live = {} THEN stopHap(h, t)
                     ELSE StoppedIfLast(rmExitBySyscallName(stopHap(h, t), Stopping(stops)))
    BY <2>2 DEF exitHap
  <2> HIDE DEF h
  <2>7. Tracked(shared') /\ Of(shared', in_call') /\ Asked(shared', live')
    <3>1. CASE Stopping(stops) = {}
      BY <1>4, <2>5, <2>6, <3>1
    <3>2. CASE Stopping(stops) # {}
      <4>1. Tracked(shared') /\ Idle(shared')
        BY <2>5, <2>6, <3>2, StopHap, StopsIdle DEF Idle, IdleIn
      <4>2. QED
        BY <4>1, IdleKeeps
    <3>3. QED
      BY <3>1, <3>2
  <2>8. QED
    BY <1>1, <1>2, <1>5, <2>6, <2>7, Established
<1>8. QED
  BY <1>6, <1>7

\* runTo asks for the returns of threads that are in calls.
LEMMA SetExits ==
    ASSUME IInv, NEW s \in Sys, NEW tids \in SUBSET Debugged, setExits(s, tids),
           NEW syscalls, live \subseteq syscalls, s \in syscalls
    PROVE  Tracked(shared') /\ Of(shared', in_call) /\ Asked(shared', syscalls)
<1>1. Tracked(shared) /\ Of(shared, in_call) /\ Asked(shared, live)
  BY DEF IInv
<1>2. tids \in SUBSET Thread /\ \A t \in tids : in_call[t] \in Call
  BY ExitAssumption DEF setExits, Waiting
<1>3. CASE tids = {}
  BY <1>1, <1>3 DEF setExits, Asked
<1>4. CASE tids # {}
  <2> DEFINE g == addExitHap(shared, tids, s, s, in_call, TRUE)
  <2>1. shared' = g
    BY <1>4 DEF setExits
  <2>2. /\ Tracked(g)
        /\ \A t \in Thread \ tids : /\ g.exit_info[t] = shared.exit_info[t]
                                    /\ g.exit_names[t] = shared.exit_names[t]
        /\ \A t \in tids : /\ g.exit_names[t] = s
                           /\ \A i \in g.exit_info[t] :
                                 i \in shared.exit_info[t] \/ i.call = in_call[t]
                           /\ in_call[t] \in Execve => t \in g.pending_execve
        /\ shared.pending_execve \subseteq g.pending_execve
    BY <1>1, <1>2, AddExitHap, Zenon
  <2> HIDE DEF g
  <2>3. Of(g, in_call)
    BY <1>1, <2>2 DEF Of
  <2>4. Asked(g, syscalls)
    BY <1>1, <2>2, AskersUnderSelf DEF Asked
  <2>5. QED
    BY <2>1, <2>2, <2>3, <2>4
<1>5. QED
  BY <1>3, <1>4

LEMMA WatchSyscallStep ==
    ASSUME IInv, NEW s \in Sys, watchSyscall(s)
    PROVE  IInv'
<1>1. /\ live' = live \cup {s} /\ in_call' = in_call /\ tracing' = tracing /\ s \notin TraceAll
      /\ \E tids \in SUBSET Debugged : setExits(s, tids)
  BY DEF watchSyscall
<1>2. Tracked(shared') /\ Of(shared', in_call) /\ Asked(shared', live \cup {s})
  BY <1>1, SetExits
<1>3. QED
  BY <1>1, <1>2, Established DEF IInv, TypeOK

LEMMA AddCallParamsStep ==
    ASSUME IInv, NEW s \in Sys, addCallParams(s)
    PROVE  IInv'
<1>1. /\ live' = live /\ in_call' = in_call /\ tracing' = tracing /\ s \in live
      /\ \E tids \in SUBSET Debugged : setExits(s, tids)
  BY DEF addCallParams
<1>2. Tracked(shared') /\ Of(shared', in_call) /\ Asked(shared', live)
  BY <1>1, SetExits
<1>3. QED
  BY <1>1, <1>2, Established DEF IInv, TypeOK

LEMMA SyscallStopTraceLemma ==
    ASSUME IInv, NEW s \in Sys, s \notin TraceAll
    PROVE  LET g == SyscallStopTrace(shared, s)
           IN  Tracked(g) /\ Of(g, in_call) /\ Asked(g, live \ {s})
<1> DEFINE f == rmExitBySyscallName(shared, {s})
<1>1. Tracked(shared) /\ Of(shared, in_call) /\ Asked(shared, live)
  BY DEF IInv
<1>2. Tracked(f) /\ Less(shared, f) /\ Asked(f, live \ ({s} \ TraceAll))
  BY <1>1, RmExitBySyscallName, RemovedAsked
<1>3. {s} \ TraceAll = {s}
  OBVIOUS
<1>4. SyscallStopTrace(shared, s) = StoppedIfLast(f)
  BY DEF SyscallStopTrace
<1> HIDE DEF f
<1>5. Tracked(StoppedIfLast(f)) /\ Less(f, StoppedIfLast(f))
  BY <1>2, StoppedIfLastLemma
<1>6. Of(f, in_call) /\ Asked(f, live \ {s})
  BY <1>1, <1>2, <1>3, LessKeeps
<1>7. QED
  BY <1>4, <1>5, <1>6, LessKeeps

LEMMA RedoStep ==
    ASSUME IInv, NEW s \in Sys, Redo(s)
    PROVE  IInv'
<1>1. /\ shared' = SyscallStopTrace(shared, s) /\ s \notin TraceAll
      /\ in_call' = in_call /\ live' = live /\ tracing' = tracing
  BY DEF Redo, Instances
<1>2. Tracked(shared') /\ Of(shared', in_call) /\ Asked(shared', live \ {s})
  BY <1>1, SyscallStopTraceLemma
<1>3. Asked(shared', live)
  BY <1>2 DEF Asked
<1>4. QED
  BY <1>1, <1>2, <1>3, Established DEF IInv, TypeOK

LEMMA RmSyscallStep ==
    ASSUME IInv, NEW s \in Sys, rmSyscall(s)
    PROVE  IInv'
<1>1. /\ shared' = SyscallStopTrace(shared, s) /\ s \notin TraceAll
      /\ in_call' = in_call /\ live' = live \ {s} /\ tracing' = tracing
  BY DEF rmSyscall, Instances
<1>2. Tracked(shared') /\ Of(shared', in_call) /\ Asked(shared', live \ {s})
  BY <1>1, SyscallStopTraceLemma
<1>3. QED
  BY <1>1, <1>2, Established DEF IInv, TypeOK

LEMMA TraceAllStep ==
    ASSUME IInv, NEW s \in Sys, traceAll(s)
    PROVE  IInv'
<1> DEFINE gone == {o \in live : Cell[o] = Cell[s]}
<1>1. /\ shared' = rmExitBySyscallName(shared, gone) /\ live' = (live \ gone) \cup {s}
      /\ tracing' = TRUE /\ in_call' = in_call /\ live \cap TraceAll = {}
  BY DEF traceAll, IInv
<1> HIDE DEF gone
<1>2. Tracked(shared) /\ Of(shared, in_call) /\ Asked(shared, live)
  BY DEF IInv
<1>3. /\ Tracked(shared') /\ Less(shared, shared')
      /\ Asked(shared', live \ (gone \ TraceAll))
  BY <1>1, <1>2, RmExitBySyscallName, RemovedAsked
<1>4. Of(shared', in_call')
  BY <1>1, <1>2, <1>3, LessKeeps
<1>5. Asked(shared', live')
  BY <1>1, <1>3 DEF Asked
<1>6. QED
  BY <1>1, <1>3, <1>4, <1>5, Established DEF IInv, TypeOK

LEMMA RmAllSyscallsStep ==
    ASSUME IInv, rmAllSyscalls
    PROVE  IInv'
<1> DEFINE f == rmExitBySyscallName(shared, Instances)
<1>1. /\ shared' = IF live \cap TraceAll # {} THEN stopTrace(f) ELSE StoppedIfLast(f)
      /\ live' = {} /\ in_call' = in_call /\ tracing' = tracing
  BY DEF rmAllSyscalls
<1>2. Tracked(shared) /\ Asked(shared, live)
  BY DEF IInv
<1>3. Tracked(f) /\ Asked(f, live \ (Instances \ TraceAll))
  BY <1>2, RmExitBySyscallName, RemovedAsked
<1> HIDE DEF f
<1>4. Tracked(shared') /\ Idle(shared')
  <2>1. CASE live \cap TraceAll # {}
    BY <1>1, <1>3, <2>1, StopTrace
  <2>2. CASE live \cap TraceAll = {}
    <3>1. live \ (Instances \ TraceAll) = {}
      BY <2>2 DEF Instances
    <3>2. Idle(f)
      BY <1>3, <3>1 DEF Asked, Idle
    <3>3. QED
      BY <1>1, <1>3, <2>2, <3>2, StopTrace DEF StoppedIfLast
  <2>3. QED
    BY <2>1, <2>2
<1>5. Of(shared', in_call') /\ Asked(shared', live')
  BY <1>4, IdleKeeps
<1>6. QED
  BY <1>1, <1>4, <1>5, Established DEF IInv, TypeOK

LEMMA NextIInv ==
    ASSUME StopsAlone, IInv, [Next]_vars
    PROVE  IInv'
<1>1. CASE UNCHANGED vars
  BY <1>1 DEF vars, IInv, TypeOK, Tracked, ListedEnabled, PendingListed, Of, Asked, SharedType
<1>2. QED
  BY <1>1, CallIgnoredStep, CallSeenStep, CallStopsStep, ReturnStep, WatchSyscallStep,
     AddCallParamsStep, RedoStep, RmSyscallStep, TraceAllStep, RmAllSyscallsStep DEF Next

LEMMA IInvImplies ==
    ASSUME IInv
    PROVE  TypeOK /\ PendingIsSeen /\ PendingIsCurrent /\ AskerLives /\ ExecveKnown
<1>1. PendingIsSeen
  <2> SUFFICES ASSUME NEW t \in Thread, shared.exit_info[t] # {}, NEW e \in Exits[t]
               PROVE  /\ shared.exit_tids[t][e] > 0
                      /\ shared.exit_hap[ContextOf(t)][e] = "enabled"
    BY DEF PendingIsSeen
  <2>1. e \in Eip
    BY ExitAssumption
  <2>2. QED
    BY <2>1 DEF IInv, Tracked, ListedEnabled, PendingListed
<1>2. QED
  BY <1>1 DEF IInv, Of, Asked, PendingIsCurrent, AskerLives, ExecveKnown

-----------------------------------------------------------------------------
(* Theorems, all where a stop at the entry of a call leaves nobody behind. *)

\* The invariant holds in every reachable state.
THEOREM Invariance ==
    ASSUME StopsAlone
    PROVE  Spec => []IInv
<1>1. Init => IInv
  BY InitIInv
<1>2. IInv /\ [Next]_vars => IInv'
  BY NextIInv
<1>3. QED
  BY <1>1, <1>2, PTL DEF Spec

\* The state of syscall.py and sharedSyscall.py has its types.
THEOREM TypeCorrect ==
    ASSUME StopsAlone
    PROVE  Spec => []TypeOK
BY Invariance, IInvImplies, PTL

\* However many threads share the exit haps, and whichever Syscalls come and go, a return
\* that is waited for trips an enabled hap (sharedSyscall.py, addExitHap and rmExitHap).
THEOREM ReturnsSeen ==
    ASSUME StopsAlone
    PROVE  Spec => []PendingIsSeen
BY Invariance, IInvImplies, PTL

\* What exitHap hands to handleExit is of the call that the thread returns from.
THEOREM ReturnsCurrent ==
    ASSUME StopsAlone
    PROVE  Spec => []PendingIsCurrent
BY Invariance, IInvImplies, PTL

\* No return is waited for on behalf of a Syscall that was removed (rmExitBySyscallName).
THEOREM AskersLive ==
    ASSUME StopsAlone
    PROVE  Spec => []AskerLives
BY Invariance, IInvImplies, PTL

\* An exec whose return is waited for is in pending_execve.
THEOREM ExecvesKnown ==
    ASSUME StopsAlone
    PROVE  Spec => []ExecveKnown
BY Invariance, IInvImplies, PTL
=============================================================================
