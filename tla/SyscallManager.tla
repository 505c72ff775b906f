--------------------------- MODULE SyscallManager ---------------------------
(***************************************************************************)
(* Which Syscall object serves which request to watch system calls         *)
(* (syscallManager.py, on Linux targets).  A request is a call parameter:  *)
(* a module (runToIO, trackSO, a dmod, ...) watches a list of calls       *)
(* under the parameter's name and later removes it by that name.  One      *)
(* Syscall per context serves all the requests whose lists have calls in   *)
(* common; it is rebuilt when requests come and go.                        *)
(*                                                                         *)
(* Python lists are shared by reference, and methods here change lists     *)
(* that others hold.  So a list of calls or of parameters is an object     *)
(* with an identity, and the fields below hold identities:                 *)
(*   call_lists   the lists of calls,      call_params  those of parameters*)
(*   syscalls     the Syscall objects that have their haps set             *)
(*   syscall_dict the SyscallInstances of a context, in insertion order    *)
(*   trace_all    the Syscall that traces all calls of a context           *)
(*   raised       the Python exception that ends a method, if one did      *)
(* Haps, callbacks, kbuffers, flists and the other arguments that are      *)
(* only handed on are left out, and so are VxWorks and Windows.  Of the    *)
(* clients of watchAllSyscalls, runToSyscall stands for all.               *)
(***************************************************************************)
EXTENDS Integers, FiniteSets, SequencesExt

CONSTANTS
    Contexts,      \* the sequence of contexts, as getContexts lists them
    RESimContext,  \* the context of the debugged threads
    Call,          \* system call names
    Param,         \* names of call parameters
    Dmod,          \* the parameters that are dmods
    TrackIO,       \* the parameters that stopTrackIO removes
    AllContexts,   \* the parameters watched by runTo(..., all_contexts=True)
    CallList,      \* the list of calls a parameter is watched with
    InstanceName,  \* the name its module gives to watchSyscall
    MaxSyscalls    \* bound on the Syscall objects alive at a time

Context == ToSet(Contexts)

ASSUME SyscallAssumption ==
    /\ Contexts \in Seq(Context) /\ RESimContext \in Context
    /\ IsFiniteSet(Call) /\ IsFiniteSet(Param)
    /\ Dmod \subseteq Param /\ TrackIO \subseteq Param /\ AllContexts \subseteq Param
    /\ CallList \in [Param -> Seq(Call) \ {<<>>}]
    /\ MaxSyscalls \in Nat

VARIABLES
    mgr,           \* the manager and the objects it holds
    wanted         \* what callers asked for and did not take back, by context

vars == <<mgr, wanted>>

NoSyscall == 0

\* The list that is the default value of call_params_list: one object for all calls.
DefaultParams == 0

Init ==
    /\ mgr = [call_lists |-> <<>>, call_params |-> [l \in {DefaultParams} |-> <<>>],
              syscalls |-> <<>>, syscall_dict |-> [c \in Context |-> <<>>],
              trace_all |-> [c \in Context |-> NoSyscall], raised |-> FALSE]
    /\ wanted = [c \in Context |-> {}]

-----------------------------------------------------------------------------
(* Objects *)

Fresh(objects) ==
    CHOOSE i \in 1 .. Cardinality(DOMAIN objects) + 1 :
        /\ i \notin DOMAIN objects
        /\ \A j \in 1 .. i - 1 : j \in DOMAIN objects

With(objects, value) ==
    LET new == Fresh(objects)
    IN  [i \in DOMAIN objects \cup {new} |-> IF i = new THEN value ELSE objects[i]]

Calls(m, list) == ToSet(m.call_lists[list])

ParamsOf(m, s) == m.call_params[m.syscalls[s].call_params]

hasCallParam(m, s, p) == Contains(ParamsOf(m, s), p)

\* A Syscall built for an empty list has no syscall_info: its getCallParams returns None.
HasParams(m, i) == m.syscalls[i.syscall].hooks # {}

stopTrace(m, gone) ==
    [m EXCEPT !.syscalls = Restrict(@, DOMAIN @ \ gone)]

\* The elements of a list that are in a set, in their order.
Keep(seq, S) ==
    LET kept[n \in 0 .. Len(seq)] ==
            IF n = 0 THEN <<>>
            ELSE IF seq[n] \in S THEN Append(kept[n - 1], seq[n])
            ELSE kept[n - 1]
    IN  kept[Len(seq)]

Drop(m, s, p) ==
    [m EXCEPT !.call_params[m.syscalls[s].call_params] = Keep(@, Param \ {p})]

AppendNew(seq, more) ==
    LET joined[n \in 0 .. Len(more)] ==
            IF n = 0 THEN seq
            ELSE IF Contains(joined[n - 1], more[n]) THEN joined[n - 1]
            ELSE Append(joined[n - 1], more[n])
    IN  joined[Len(more)]

SyscallAddCallParams(m, s, params) ==
    [m EXCEPT !.call_params[m.syscalls[s].call_params] = AppendNew(@, params)]

Instances(m, c) == ToSet(m.syscall_dict[c])

Place(seq, e) == SelectInSeq(seq, LAMBDA x : x = e)

\* The manager with the objects that are listed, each known by its place in the list.
Numbered(m, lists, params, syscalls) ==
    [call_lists |-> [k \in DOMAIN lists |-> m.call_lists[lists[k]]],
     call_params |-> [k \in DOMAIN params \cup {DefaultParams} |->
         m.call_params[IF k = DefaultParams THEN DefaultParams ELSE params[k]]],
     syscalls |-> [k \in DOMAIN syscalls |->
         [m.syscalls[syscalls[k]] EXCEPT !.call_params = Place(params, @)]],
     syscall_dict |-> [c \in Context |-> [k \in DOMAIN m.syscall_dict[c] |->
         [m.syscall_dict[c][k] EXCEPT
             !.call_names = Place(lists, @), !.syscall = Place(syscalls, @),
             !.param_call_list = [p \in DOMAIN @ |-> Place(lists, @[p])]]]],
     trace_all |-> [c \in Context |-> Place(syscalls, m.trace_all[c])],
     raised |-> FALSE]

ListsOf(i) ==
    LET names == SetToSeq(DOMAIN i.param_call_list)
    IN  <<i.call_names>> \o [k \in DOMAIN names |-> i.param_call_list[names[k]]]

AllInstances(m) == FlattenSeq([k \in DOMAIN Contexts |-> m.syscall_dict[Contexts[k]]])

\* Objects that nothing refers to any more vanish; a Syscall lives on through its haps.
\* The others are numbered in the order in which the manager's dicts lead to them, so
\* that states that differ in the numbers alone are one.
Collected(m) ==
    LET instances == AllInstances(m)
        held == Keep([k \in DOMAIN instances |-> instances[k].syscall]
                         \o [k \in DOMAIN Contexts |-> m.trace_all[Contexts[k]]],
                     DOMAIN m.syscalls)
        hooked == {s \in DOMAIN m.syscalls : m.syscalls[s].hooks # {}}
        syscalls == AppendNew(AppendNew(<<>>, held), SetToSeq(hooked))
        lists == AppendNew(<<>>, FlattenSeq([k \in DOMAIN instances |-> ListsOf(instances[k])]))
        params == AppendNew(<<>>, [k \in DOMAIN syscalls |-> m.syscalls[syscalls[k]].call_params])
    IN  Numbered(m, lists, Keep(params, DOMAIN m.call_params \ {DefaultParams}), syscalls)

-----------------------------------------------------------------------------
(* SyscallInstance *)

Instance(m, c, name) == CHOOSE i \in Instances(m, c) : i.name = name

DelInstance(m, c, names) ==
    [m EXCEPT !.syscall_dict[c] = Keep(@, {i \in ToSet(@) : i.name \notin names})]

\* A Python dict: a known name keeps its place and its old value is lost.
PutInstance(m, c, inst) ==
    [m EXCEPT !.syscall_dict[c] =
        IF \E i \in ToSet(@) : i.name = inst.name
        THEN [k \in 1 .. Len(@) |-> IF @[k].name = inst.name THEN inst ELSE @[k]]
        ELSE Append(@, inst)]

\* A new Syscall for the calls of a list, and the instance that records it.
NewInstance(m, c, name, list, params) ==
    LET s == Fresh(m.syscalls)
        m1 == [m EXCEPT !.syscalls =
                 With(@, [context |-> c, hooks |-> Calls(m, list), call_params |-> params])]
    IN  PutInstance(m1, c, [name |-> name, call_names |-> list, syscall |-> s,
                            param_call_list |-> [p \in ToSet(m.call_params[params]) |-> list]])

addCallParams(m, c, name, params, list) ==
    LET inst == Instance(m, c, name)
        known == DOMAIN inst.param_call_list
        m1 == [m EXCEPT !.call_lists[inst.call_names] = AppendNew(@, m.call_lists[list])]
        m2 == PutInstance(m1, c, [inst EXCEPT !.param_call_list =
                 [p \in known \cup ToSet(params) |-> IF p \in known THEN @[p] ELSE list]])
    IN  SyscallAddCallParams(m2, inst.syscall, params)

\* The parameters of an instance that is replaced, one after the other, with their lists.
AddBack(m, c, name, params, lists) ==
    LET added[n \in 0 .. Len(params)] ==
            IF n = 0 THEN m
            ELSE addCallParams(added[n - 1], c, name, <<params[n]>>, lists[params[n]])
    IN  added[Len(params)]

-----------------------------------------------------------------------------
(* watchSyscall, watchAllSyscalls *)

findCalls(m, c, list) ==
    Keep(m.syscall_dict[c],
         {i \in Instances(m, c) : Calls(m, i.call_names) \cap Calls(m, list) # {}})

\* Mutation: the new list has the calls asked for alone.
MutNewCallListAsked(m, list, found) == m.call_lists[list]

\* The calls asked for, then the others that the instances found serve.
NewCallList(m, list, found) ==
    LET served == UNION {Calls(m, i.call_names) : i \in ToSet(found)}
    IN  m.call_lists[list] \o SetToSeq(served \ Calls(m, list))

\* Mutation: the instances that the new one replaces are left.
MutRetiredNone(m, c, found) == m

Retired(m, c, found) ==
    DelInstance(stopTrace(m, {i.syscall : i \in ToSet(found)}), c, {i.name : i \in ToSet(found)})

\* A parameter that several of the instances found record keeps the first's list.
ListsFound(found) ==
    [p \in UNION {DOMAIN i.param_call_list : i \in ToSet(found)} |->
        LET first == SelectInSeq(found, LAMBDA i : p \in DOMAIN i.param_call_list)
        IN  found[first].param_call_list[p]]

\* Some calls are served and some are not, or by several: one new instance takes all.
Consolidate(m, c, name, found, list, params) ==
    LET new_call_list == Fresh(m.call_lists)
        old_call_params == AppendNew(<<>>,
            FlattenSeq([k \in DOMAIN found |-> ParamsOf(m, found[k].syscall)]))
        existing == ListsFound(found)
        m1 == [Retired(m, c, found) EXCEPT
                 !.call_lists = With(@, NewCallList(m, list, found))]
        m2 == NewInstance(m1, c, name, new_call_list, params)
    IN  AddBack(m2, c, name, Keep(old_call_params, DOMAIN existing), existing)

watchSyscall(m, c, name, list, params) ==
    LET found == findCalls(m, c, list)
        hasAllCalls == Calls(m, list) \subseteq Calls(m, found[1].call_names)
    IN  IF found = <<>> /\ m.trace_all[c] # NoSyscall
        THEN SyscallAddCallParams(m, m.trace_all[c], m.call_params[params])
        ELSE IF found = <<>>
        THEN NewInstance(m, c, name, list, params)
        ELSE IF Len(found) = 1 /\ hasAllCalls
        THEN addCallParams(m, c, found[1].name, m.call_params[params], list)
        ELSE Consolidate(m, c, name, found, list, params)

\* Mutation: the instances are stopped and left in the dict.
MutRmByContextStopsOnly(m, c) ==
    stopTrace([m EXCEPT !.trace_all[c] = NoSyscall], {m.trace_all[c]})

rmSyscallByContext(m, c) ==
    LET stopped == {i \in Instances(m, c) : HasParams(m, i)}
    IN  [stopTrace(m, {i.syscall : i \in stopped} \cup {m.trace_all[c]})
            EXCEPT !.syscall_dict[c] = <<>>, !.trace_all[c] = NoSyscall]

removed_params(m, c) ==
    FlattenSeq([k \in DOMAIN m.syscall_dict[c] |->
        LET i == m.syscall_dict[c][k] IN IF HasParams(m, i) THEN ParamsOf(m, i.syscall) ELSE <<>>])

watchAllSyscalls(m, c) ==
    LET m1 == rmSyscallByContext(m, c)
        s == Fresh(m1.syscalls)
        m2 == [m1 EXCEPT !.trace_all[c] = s, !.syscalls =
                 With(@, [context |-> c, hooks |-> Call, call_params |-> DefaultParams])]
    IN  SyscallAddCallParams(m2, s, removed_params(m, c))

-----------------------------------------------------------------------------
(* rmSyscall, rmAllSyscalls, rmAllDmods *)

findInstanceByParams(m, c, p) ==
    Keep(m.syscall_dict[c], {i \in Instances(m, c) : hasCallParam(m, i.syscall, p)})

\* got__one is assigned and got_one is read: each call of the parameter goes, whether or
\* not another parameter has it.  A list that is walked while it shrinks keeps every
\* second of its elements.
CallsLeft(m, inst, p) ==
    LET list == inst.param_call_list[p]
        names == m.call_lists[inst.call_names]
    IN  IF list = inst.call_names
        THEN [k \in 1 .. Len(names) \div 2 |-> names[2 * k]]
        ELSE Keep(names, Call \ Calls(m, list))

\* REDO_SYSCALLS: a new Syscall for the calls of the parameters that are left.
Redo(m, c, inst, left) ==
    LET old_call_params == ParamsOf(m, inst.syscall)
        new_call_list == UNION {Calls(m, left[p]) : p \in DOMAIN left}
        list == Fresh(m.call_lists)
        params == Fresh(m.call_params)
        m1 == Retired(m, c, <<inst>>)
        m2 == [m1 EXCEPT !.call_lists = With(@, SetToSeq(new_call_list)),
                         !.call_params = With(@, <<>>)]
        m3 == NewInstance(m2, c, inst.name, list, params)
        unknown == SelectInSeq(old_call_params, LAMBDA p : p \notin DOMAIN left)
        back == IF unknown = 0 THEN old_call_params ELSE SubSeq(old_call_params, 1, unknown - 1)
        m4 == AddBack(m3, c, inst.name, back, left)
    IN  IF ~HasParams(m, inst) THEN [m EXCEPT !.raised = TRUE]
        ELSE IF unknown = 0 THEN m4
        ELSE [DelInstance(m4, c, {inst.name}) EXCEPT !.raised = TRUE]

rmCallParam(m, c, inst, p) ==
    LET m1 == Drop(m, inst.syscall, p)
        known == DOMAIN inst.param_call_list
        left == Restrict(inst.param_call_list, known \ {p})
        m2 == PutInstance(m1, c, [inst EXCEPT !.param_call_list = left])
        m3 == [m2 EXCEPT !.call_lists[inst.call_names] = CallsLeft(m, inst, p)]
    IN  IF p \notin known
        THEN [m1 EXCEPT !.raised = Cardinality(known) # 1]
        ELSE IF known = {p}
        THEN Retired(m1, c, <<inst>>)
        ELSE IF Calls(m, inst.param_call_list[p]) = {}
        THEN m2
        ELSE Redo(m3, c, inst, left)

rmSyscall(m, c, p) ==
    LET found == findInstanceByParams(m, c, p)
    IN  IF found = <<>> THEN DelInstance(m, c, {p}) ELSE rmCallParam(m, c, found[1], p)

\* genMonitor's rmSyscall(..., all_contexts=True): an exception ends the loop.
rmSyscallEverywhere(m, p) ==
    LET done[n \in 0 .. Len(Contexts)] ==
            IF n = 0 THEN m
            ELSE IF done[n - 1].raised THEN done[n - 1]
            ELSE rmSyscall(done[n - 1], Contexts[n], p)
    IN  done[Len(Contexts)]

rmAllSyscalls(m) ==
    LET instances == UNION {Instances(m, c) : c \in Context}
    IN  [stopTrace(m, {i.syscall : i \in instances} \cup Range(m.trace_all))
            EXCEPT !.syscall_dict = [c \in Context |-> <<>>],
                   !.trace_all = [c \in Context |-> NoSyscall]]

\* Mutation: an instance without parameters is stopped and left in the dict.
MutRmAllDmodsStopsOnly(m) ==
    stopTrace(m, {s \in DOMAIN m.syscalls : ToSet(ParamsOf(m, s)) \subseteq Dmod})

rmAllDmods(m) ==
    LET Having(c) == {i \in Instances(m, c) : ToSet(ParamsOf(m, i.syscall)) \cap Dmod # {}}
        lists == {m.syscalls[i.syscall].call_params : i \in UNION {Having(c) : c \in Context}}
        m1 == [m EXCEPT !.call_params = [l \in DOMAIN @ |->
                 IF l \in lists THEN Keep(@[l], Param \ Dmod) ELSE @[l]]]
        Idle(c) == {i \in Having(c) : ParamsOf(m1, i.syscall) = <<>>}
    IN  [stopTrace(m1, {i.syscall : i \in UNION {Idle(c) : c \in Context}})
            EXCEPT !.syscall_dict = [c \in Context |->
                Keep(@[c], Instances(m, c) \ Idle(c))]]

-----------------------------------------------------------------------------
(* Requests, as the monitor and its modules make them *)

CanCreate == Cardinality(DOMAIN mgr.syscalls) + Len(Contexts) <= MaxSyscalls

WatchInTurn(m, contexts, name, list, params) ==
    LET watched[n \in 0 .. Len(contexts)] ==
            IF n = 0 THEN m
            ELSE watchSyscall(watched[n - 1], contexts[n], name, list, params)
    IN  watched[Len(contexts)]

\* One list of calls and one of parameters, handed to each context in turn.
runTo(m, p, contexts) ==
    LET list == Fresh(m.call_lists)
        params == Fresh(m.call_params)
        m1 == [m EXCEPT !.call_lists = With(@, CallList[p]), !.call_params = With(@, <<p>>)]
    IN  WatchInTurn(m1, contexts, InstanceName[p], list, params)

Watch(p, contexts) ==
    /\ CanCreate
    /\ \A c \in ToSet(contexts) : p \notin wanted[c]
    /\ mgr' = Collected(runTo(mgr, p, contexts))
    /\ wanted' = [c \in Context |-> IF c \in ToSet(contexts) THEN wanted[c] \cup {p}
                                                           ELSE wanted[c]]

Unwatch(p, c) ==
    /\ p \in wanted[c]
    /\ mgr' = Collected(rmSyscall(mgr, c, p))
    /\ wanted' = [wanted EXCEPT ![c] = @ \ {p}]

\* stopTrackIO with a page fault pending: the instance goes with all its parameters.
StopTrackIO(p) ==
    LET c == RESimContext
        found == findInstanceByParams(mgr, c, p)
    IN  /\ found # <<>>
        /\ mgr' = Collected(Retired(mgr, c, SubSeq(found, 1, 1)))
        /\ wanted' = [wanted EXCEPT ![c] = @ \ ToSet(ParamsOf(mgr, found[1].syscall))]

\* sharedSyscall: the last substitution of a dmod has been done.
DmodDone(s, p) ==
    /\ p \in Dmod /\ hasCallParam(mgr, s, p)
    /\ LET remainingDmod == (ToSet(ParamsOf(mgr, s)) \cap Dmod) \ {p} # {}
       IN  mgr' = Collected(IF remainingDmod THEN Drop(mgr, s, p) ELSE rmSyscallEverywhere(mgr, p))
    /\ wanted' = [c \in Context |-> wanted[c] \ {p}]

runToSyscall(c) ==
    /\ CanCreate
    /\ mgr' = Collected(watchAllSyscalls(mgr, c))
    /\ UNCHANGED wanted

StopTrace ==
    /\ mgr' = Collected(rmAllSyscalls(mgr))
    /\ wanted' = [c \in Context |-> {}]

RmAllDmods ==
    /\ \A c \in Context : \A i \in Instances(mgr, c) : HasParams(mgr, i)
    /\ mgr' = Collected(rmAllDmods(mgr))
    /\ wanted' = [c \in Context |-> wanted[c] \ Dmod]

Next ==
    \/ \E p \in AllContexts : Watch(p, Contexts)
    \/ \E p \in Param \ AllContexts, c \in Context : Watch(p, <<c>>)
    \/ \E p \in Param, c \in Context : Unwatch(p, c)
    \/ \E p \in TrackIO : StopTrackIO(p)
    \/ \E s \in DOMAIN mgr.syscalls, p \in Dmod : DmodDone(s, p)
    \/ \E c \in Context : runToSyscall(c)
    \/ StopTrace
    \/ RmAllDmods

Spec == Init /\ [][Next]_vars

-----------------------------------------------------------------------------
(* Properties *)

ObjectOK(m) ==
    /\ \A s \in DOMAIN m.syscalls :
          /\ m.syscalls[s].context \in Context /\ m.syscalls[s].hooks \subseteq Call
          /\ m.syscalls[s].call_params \in DOMAIN m.call_params
    /\ \A l \in DOMAIN m.call_lists : Calls(m, l) \subseteq Call
    /\ \A l \in DOMAIN m.call_params : ToSet(m.call_params[l]) \subseteq Param

\* Every reference the manager holds is to an object in use: the Syscall of an instance,
\* or of a trace of all calls, has not been stopped, and its lists exist.
TypeOK ==
    /\ ObjectOK(mgr)
    /\ wanted \in [Context -> SUBSET Param]
    /\ \A c \in Context :
          /\ mgr.trace_all[c] \in DOMAIN mgr.syscalls \cup {NoSyscall}
          /\ \A i \in Instances(mgr, c) :
                /\ i.syscall \in DOMAIN mgr.syscalls
                /\ i.call_names \in DOMAIN mgr.call_lists
                /\ Range(i.param_call_list) \subseteq DOMAIN mgr.call_lists

\* What an instance records for a parameter is hooked by its Syscall, however often the
\* Syscall was rebuilt for lists that came, went and were changed under it, as long as
\* contexts share no lists.
RecordedCallsHooked ==
    \A c \in Context : \A i \in Instances(mgr, c) : \A p \in DOMAIN i.param_call_list :
        Calls(mgr, i.param_call_list[p]) \subseteq mgr.syscalls[i.syscall].hooks

\* A parameter is in one Syscall of a context at most: findInstanceByParams, which every
\* removal starts from, "assumes only one".  It holds in one context.  With the several that
\* getContexts yields it fails: runTo hands one list of parameters to all of them, and what
\* one context adds to it is in the others' Syscalls too; without a shared list it still
\* fails when a dmod is done that is in several contexts.
ParamInOneSyscall ==
    \A c \in Context : \A i, j \in Instances(mgr, c) :
        i # j => ToSet(ParamsOf(mgr, i.syscall)) \cap ToSet(ParamsOf(mgr, j.syscall)) = {}

\* A context that traces all calls has no instance besides: watchAllSyscalls takes over
\* the parameters, so that no call is handled twice, and later requests join it.
TraceAllAlone ==
    \A c \in Context : mgr.trace_all[c] # NoSyscall => mgr.syscall_dict[c] = <<>>

\* Every request is served: a Syscall of its context has the parameter and hooks its
\* calls ("If the call parameter includes syscalls that are not part of any other call
\* parameter, remove the instance and recreate it", rmSyscall).
RequestsTraced ==
    \A c \in Context : \A p \in wanted[c] :
        \E s \in DOMAIN mgr.syscalls :
            /\ mgr.syscalls[s].context = c /\ hasCallParam(mgr, s, p)
            /\ ToSet(CallList[p]) \subseteq mgr.syscalls[s].hooks

\* No Syscall acts for a request that its context does not have ("Assumes all of the
\* call_params have the same call parameter name", watchSyscall).
NoUnrequestedParam ==
    \A s \in DOMAIN mgr.syscalls :
        ToSet(ParamsOf(mgr, s)) \subseteq wanted[mgr.syscalls[s].context]

=============================================================================
