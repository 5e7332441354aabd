------------------------------- MODULE Trace -------------------------------
(***************************************************************************)
(* The trace log: src/trace.c, the hooks of src/hooks.c that write to it,  *)
(* and the context switches they record.                                   *)
(*                                                                         *)
(* The log is a ring of entries.  Everybody writes to it: tasks, interrupt *)
(* handlers and the exception that switches tasks.  Tasks disable          *)
(* interrupts to do so, except to clear the log, which takes one entry     *)
(* after the other and may be preempted at each of them.  The context hook *)
(* relies on the exception entry of the port, which masks interrupts on    *)
(* the ARM ports and does not on Cortex-M.  What an entry says is reduced to its kind, its task and its  *)
(* extra information; time stamps and the address of the log are left out. *)
(***************************************************************************)
EXTENDS GyrosServices

CONSTANTS
    LogSize,     \* entries in the log
    MaxWhen,     \* most traces gyros_trace_off is asked to wait for
    HookAtomic,  \* interrupts are masked from the context hook to the switch
    LoopShared   \* the build keeps the static loop variable of
                 \* gyros_trace_clear in memory, where all its callers share it

ASSUME TraceAssumption ==
    /\ LogSize \in Nat \ {0} /\ MaxWhen \in Nat
    /\ HookAtomic \in BOOLEAN /\ LoopShared \in BOOLEAN

VARIABLES
    log,       \* the memory between s_log_begin and s_log_end
    pos,       \* s_log_pos - s_log_begin
    enabled,   \* gyros__trace_enabled
    when,      \* the argument of the gyros_trace_off a task is in
    hook,      \* how far gyros__context_hook has got, and its variables
    loop       \* the loop variable of gyros_trace_clear, as each task has it

logVars == <<log, pos, enabled>>
traceVars == <<logVars, when, hook, loop>>

\* An entry; nothing of it matters when its kind is EMPTY.
Entry(kind, task, info) == [kind |-> kind, task |-> task, info |-> info]
Empty == Entry("EMPTY", NoTask, 0)

\* The pointer that gyros_trace_string stores.
Text == 0

Settings == -MaxWhen..1

Entries ==
    {Empty}
    \cup {Entry("TRACE", t, s) : t \in Tasks, s \in Settings}
    \cup {Entry("STRING", t, info) : t \in Tasks, info \in Tasks \cup {Text}}
    \cup {Entry("IRQ", NoTask, 0)}
    \cup {Entry("CONTEXT", t, u) : t, u \in Tasks}

NoHook == [step |-> "none", next |-> NoTask, slot |-> 0]

\* gyros_trace_init leaves what the log contains: here it has been cleared.
TraceInit ==
    /\ gyros \in Started
    /\ pc = [t \in Tasks |-> "task"]
    /\ log = [i \in 0..LogSize - 1 |-> Empty]
    /\ pos = 0
    /\ enabled = 0
    /\ when = [t \in Tasks |-> 0]
    /\ hook = NoHook
    \* Where a clear leaves it; before the first one nobody reads it.
    /\ loop = [t \in Tasks |-> LogSize]

\* if (s_log_pos == s_log_end) s_log_pos = s_log_begin
Wrapped(p) == IF p = LogSize THEN 0 ELSE p

\* A traced event counts towards the end of tracing.
Counted(e) == IF e < 0 THEN e + 1 ELSE e

\* alloc_trace, and the caller's assignment to the entry it returns.
alloc_trace(state, entry) ==
    [log |-> [state.log EXCEPT ![state.pos] = entry],
     pos |-> Wrapped(state.pos + 1),
     enabled |-> Counted(state.enabled)]

\* One entry after the other.
AllocAll(state, entries) ==
    LET after[n \in 0..Len(entries)] ==
            IF n = 0 THEN state ELSE alloc_trace(after[n - 1], entries[n])
    IN  after[Len(entries)]

State == [log |-> log, pos |-> pos, enabled |-> enabled]

Becomes(state) == log' = state.log /\ pos' = state.pos /\ enabled' = state.enabled

\* gyros__trace with interrupts disabled, by the current task.
TraceByTask(kind, info) == alloc_trace(State, Entry(kind, gyros.current, info))

-----------------------------------------------------------------------------
(* The calls.  Two of them look at gyros__trace_enabled before they        *)
(* disable interrupts.                                                     *)

LoopBecomes(t, i) ==
    loop' = [u \in Tasks |-> IF LoopShared \/ u = t THEN i ELSE loop[u]]

\* Asked of the application: tracing is off when it is called.  It may be on
\* again before it returns.
gyros_trace_clear(t) ==
    /\ Calls(t)
    /\ enabled = 0
    /\ LoopBecomes(t, 0)
    /\ Goto(t, "trace_clear")
    /\ UNCHANGED <<gyros, logVars, when, hook>>

\* Interrupts are enabled between one entry and the next.
ClearEntry(t) ==
    /\ Continues(t, "trace_clear") /\ loop[t] < LogSize
    /\ log' = [log EXCEPT ![loop[t]] = Empty]
    /\ LoopBecomes(t, loop[t] + 1)
    /\ UNCHANGED <<gyros, pc, pos, enabled, when, hook>>

ClearReturn(t) ==
    /\ Continues(t, "trace_clear") /\ loop[t] = LogSize
    /\ pos' = 0
    /\ Goto(t, "task")
    /\ UNCHANGED <<gyros, log, enabled, when, hook, loop>>

\* To any position that gyros_trace_iterate returns; asked of the application:
\* only while tracing is off, to find the end of a log from before a reset.
gyros_trace_seek(p) ==
    /\ \E t \in AppTasks : Calls(t)
    /\ enabled = 0
    /\ pos' = p
    /\ UNCHANGED <<gyros, pc, log, enabled, when, hook, loop>>

gyros_trace_on(t) ==
    /\ Calls(t)
    /\ Becomes([TraceByTask("TRACE", 1) EXCEPT !.enabled = 1])
    /\ UNCHANGED <<gyros, pc, when, hook, loop>>

gyros_trace_off(t, n) ==
    /\ Calls(t) /\ enabled # 0
    /\ Goto(t, "trace_off")
    /\ when' = [when EXCEPT ![t] = n]
    /\ UNCHANGED <<gyros, logVars, hook, loop>>

TraceOff(t) ==
    /\ Continues(t, "trace_off")
    /\ Becomes([TraceByTask("TRACE", -when[t]) EXCEPT !.enabled = -when[t]])
    /\ Goto(t, "task")
    /\ when' = [when EXCEPT ![t] = 0]
    /\ UNCHANGED <<gyros, hook, loop>>

gyros_trace_string(t) ==
    /\ Calls(t) /\ enabled # 0
    /\ Goto(t, "trace_string")
    /\ UNCHANGED <<gyros, traceVars>>

TraceString(t) ==
    /\ Continues(t, "trace_string")
    /\ Becomes(TraceByTask("STRING", Text))
    /\ Goto(t, "task")
    /\ UNCHANGED <<gyros, when, hook, loop>>

\* One entry for each running task, whether tracing is enabled or not, and of
\* kind GYROS_TRACE_STRING although it is the task that is stored.
RunningEntries ==
    [i \in 1..Len(gyros.lists[Running]) |->
        Entry("STRING", gyros.current, gyros.lists[Running][i])]

gyros_trace_running_tasks(t) ==
    /\ Calls(t)
    /\ Becomes(AllocAll(State, RunningEntries))
    /\ UNCHANGED <<gyros, pc, when, hook, loop>>

\* The end of the memory is taken for its last entry.
Faulty_gyros_trace_iterate(end, prev) ==
    IF prev = end THEN -1
    ELSE LET p == IF prev = -1 THEN end ELSE prev
         IN  (IF p = 0 THEN LogSize - 1 ELSE p) - 1

\* From and to a position, -1 for NULL; end is s_log_pos.
gyros_trace_iterate(end, prev) ==
    IF prev = end THEN -1
    ELSE LET p == IF prev = -1 THEN end ELSE prev
         IN  (IF p = 0 THEN LogSize ELSE p) - 1

-----------------------------------------------------------------------------
(* The exceptions.                                                         *)

\* Interrupts come in between any two steps of the context hook.
Faulty_Interruptible == TRUE

Interruptible == HookAtomic => hook.step = "none"

\* gyros__irq_hook, at the beginning of every interrupt of the ARM ports; it
\* has no task.
gyros__irq_hook ==
    IF enabled = 0
    THEN UNCHANGED logVars
    ELSE Becomes(alloc_trace(State, Entry("IRQ", NoTask, 0)))

\* An interrupt whose handler resumes a task,
TraceResume(t) ==
    /\ Interruptible
    /\ gyros__irq_hook
    /\ Resume(t)
    /\ UNCHANGED <<when, hook, loop>>

\* and one that does nothing to the kernel.
Interrupt ==
    /\ Interruptible
    /\ enabled # 0
    /\ gyros__irq_hook
    /\ UNCHANGED <<gyros, pc, when, hook, loop>>

TraceRest(t) == Rest(t) /\ UNCHANGED traceVars

\* The exception that switches tasks calls gyros__context_hook, which looks
\* whom it will switch to and whether to trace that.
gyros__context_hook ==
    LET next == Head(gyros.lists[Running])
    IN  /\ gyros.pendsv /\ hook.step = "none"
        /\ hook' = IF next = gyros.current \/ enabled = 0
                   THEN [NoHook EXCEPT !.step = "switch"]
                   ELSE [NoHook EXCEPT !.step = "trace", !.next = next]
        /\ UNCHANGED <<gyros, pc, logVars, when, loop>>

\* gyros__trace_context: alloc_trace moves the position on,
HookAllocates ==
    /\ hook.step = "trace"
    /\ pos' = pos + 1
    /\ hook' = [hook EXCEPT !.step = "fill", !.slot = pos]
    /\ UNCHANGED <<gyros, pc, log, enabled, when, loop>>

\* counts, wraps the position and fills the entry in.
HookFills ==
    /\ hook.step = "fill"
    /\ enabled' = Counted(enabled)
    /\ pos' = Wrapped(pos)
    /\ log' = [log EXCEPT ![hook.slot] = Entry("CONTEXT", gyros.current, hook.next)]
    /\ hook' = [NoHook EXCEPT !.step = "switch"]
    /\ UNCHANGED <<gyros, pc, when, loop>>

\* The rest of the exception makes the switch.
TraceSwitch ==
    /\ hook.step = "switch"
    /\ ContextSwitch
    /\ hook' = NoHook
    /\ UNCHANGED <<logVars, when, loop>>

TraceCall(t) ==
    \/ gyros_trace_on(t)
    \/ \E n \in 0..MaxWhen : gyros_trace_off(t, n)
    \/ TraceOff(t)
    \/ gyros_trace_string(t)
    \/ TraceString(t)
    \/ gyros_trace_running_tasks(t)

TraceEvent ==
    \/ \E t \in AppTasks : TraceCall(t) \/ TraceRest(t) \/ TraceResume(t)
    \/ Interrupt
    \/ gyros__context_hook
    \/ HookAllocates
    \/ HookFills
    \/ TraceSwitch

-----------------------------------------------------------------------------
(* Correctness properties, and what they have to know of the past.         *)

VARIABLES
    torn,    \* the log need not show every switch: since it was cleared it has
             \* been turned, or another clear has been at work in it
    alone    \* tasks whose clear nothing has touched the log during, except
             \* for other clears

traceAll == <<gyros, pc, traceVars, torn, alone>>

TraceStart == TraceInit /\ torn = FALSE /\ alone = {}

\* Where the next entry goes.  An entry that the context hook has taken and
\* not filled in counts from the moment it is filled in.
End == IF hook.step = "fill" THEN hook.slot ELSE pos

Clearing == {t \in Tasks : pc[t] = "trace_clear"}

Touches == alone' = IF <<log, End>>' = <<log, End>> THEN alone ELSE {}

TraceNext ==
    \/ TraceEvent /\ Touches /\ UNCHANGED torn
    \/ \E p \in 0..LogSize - 1 : gyros_trace_seek(p) /\ Touches /\ torn' = TRUE
    \/ \E t \in AppTasks :
        \/ gyros_trace_clear(t) /\ alone' = alone \cup {t} /\ torn' = TRUE
        \/ ClearEntry(t) /\ UNCHANGED <<torn, alone>>
        \/ /\ ClearReturn(t)
           /\ alone' = alone \ {t}
           /\ torn' = (t \notin alone \/ Clearing' # {})

TraceSpec == TraceStart /\ [][TraceNext]_traceAll

\* The positions that gyros_trace_iterate returns, called again and again.
Listing(end) ==
    LET p[i \in 1..LogSize] ==
            gyros_trace_iterate(end, IF i = 1 THEN -1 ELSE p[i - 1])
    IN  p

\* What somebody who iterates is shown, turned round: oldest entry first.
\* Memory beyond the log has no entries of it.
Show(memory, end) ==
    LET positions == Listing(end)
        entry(p) == IF p \in DOMAIN memory THEN memory[p] ELSE Empty
    IN  [i \in 1..LogSize |-> entry(positions[LogSize + 1 - i])]

Shown == Show(log, End)

Events == Entries \ {Empty}

\* The entries of gyros_trace_running_tasks, or the last ones of them.
Listings ==
    {[i \in 1..Len(order) |-> Entry("STRING", t, order[i])] :
        t \in Tasks, order \in UNION {SetToSeqs(s) : s \in SUBSET Tasks}}

History == INSTANCE TraceHistory WITH
    history <- Shown, on <- (enabled # 0), clearing <- Clearing, alone <- alone,
    Size <- LogSize, Reports <- Listings, NoEvent <- Empty, Clears <- Tasks

\* Whoever iterates the log is shown the latest events in the order in which
\* they happened, wherever the position wraps, and whether an entry is written
\* by a task, in an interrupt, by the context hook in the middle of a switch or
\* while a task is clearing the log, with interrupts enabled (trace.c:60).
ImplementsHistory == History!Spec

\* The entries after the i-th one record every context switch: tracing has
\* not been off meanwhile.
Unbroken(i, j) ==
    \A k \in i + 1..j - 1 : Shown[k].kind \notin {"TRACE", "CONTEXT"}

Switch(i) == Shown[i].kind = "CONTEXT"

\* "Next task to run" (trace.h:143): the task a context entry names is the one
\* that is switched from next, and the last one is the task that executes,
\* although interrupts make other tasks runnable at any time.
SwitchesChain ==
    \A i \in 1..LogSize : Switch(i) /\ ~torn =>
        /\ \A j \in i + 1..LogSize :
               Switch(j) /\ Unbroken(i, j) => Shown[j].task = Shown[i].info
        /\ Unbroken(i, LogSize + 1) /\ enabled # 0 /\ hook.step = "none"
               => gyros.current = Shown[i].info
=============================================================================
