------------------------------- MODULE Kernel -------------------------------
(***************************************************************************)
(* The tmOS kernel: the task table (kernel/src/task.c), the list of up     *)
(* counters the system tick advances (driver/src/_timer.c) and the main    *)
(* loop that runs the tasks that are due (kernel/src/app.c).               *)
(*                                                                         *)
(* Three contexts share the table and none of them locks it:               *)
(*   main   Run_App and the tasks it calls; a task may create or destroy   *)
(*          tasks, one store at a time;                                    *)
(*   tick   SysTick_ISR, between any two stores of main;                   *)
(*   host   an interrupt handler that serves the studio (USB or Ethernet)  *)
(*          and edits the table to install a configuration.                *)
(* Interrupts have one priority, so a handler runs to its end before       *)
(* another handler or main goes on: "isr" is TRUE while the host's does.   *)
(***************************************************************************)
EXTENDS Integers, FiniteSets

CONSTANTS
    PerType,      \* MAXTASK_TYPE: slots of each task type
    MaxType,      \* MAX_TASKTYPE
    LoopType,     \* TASK_WHILELOOP: the type Run_App serves
    MaxCounter,   \* MAX_COUNTER: capacity of the up counter list
    Descs,        \* the TASK descriptors the program passes to Create_Task
    None,         \* a zeroed m_task
    DescType,     \* wType of a descriptor
    DescRun,      \* the pair pRun, pParam of a descriptor
    DescTimer,    \* period.tTimer
    DescCounter,  \* period.tCounter
    DebugDescs,   \* the descriptors of TaskDebug, which run in single steps
    MaxCount      \* m_tCounter is not counted beyond this bound

MaxTask == PerType * MaxType
Types   == 0 .. MaxType - 1
Slots   == 0 .. MaxTask - 1
NoSlot  == MaxTask
Places  == 0 .. MaxCounter - 1
Statuses == {"NONE", "NORMAL", "SUSPEND"}

ASSUME SizeAssumption ==
    /\ PerType \in Nat \ {0} /\ MaxType \in Nat \ {0}
    /\ LoopType \in Types
    /\ MaxCounter \in Nat /\ MaxCounter >= MaxTask
    /\ MaxCount \in Nat

ASSUME DescAssumption ==
    /\ None \notin Descs
    /\ DescType \in [Descs -> Types]
    /\ DescTimer \in [Descs -> 0 .. MaxCount]
    /\ DescCounter \in [Descs -> 0 .. MaxCount]
    /\ DOMAIN DescRun = Descs
    /\ DebugDescs \subseteq Descs

VARIABLES
    handle,   \* m_htaskme of each slot, 0 when the slot is free
    status,   \* m_wStatus
    task,     \* m_task
    ticks,    \* m_tCounter
    count,    \* u_aTasksCount
    upList,   \* u_ptUpCounter, each entry named by the slot it points into
    nUp,      \* u_nUpCounter
    runFlag,  \* g_wRunFlag
    stepTask, \* g_wStepFlag with the descriptor of the task being debugged
    pc,       \* where main is
    cursor,   \* the slot Run_App looks at
    ret,      \* where main returns to after an edit of the table
    slot,     \* the slot main's edit is about
    desc,     \* pTask of main's Create_Task
    j,        \* the index AddUpCounter or DeleteUpCounter has in a register
    owner,    \* history: since RunLookup the task in the cursor's slot is
              \* the "same", it is "gone", or a "new" one was put there
    isr,      \* the host's interrupt handler is running
    torn      \* history: a host edit landed in the middle of one of main's

table == <<handle, status, task, ticks, count>>
list  == <<upList, nUp>>
flags == <<runFlag, stepTask>>
main  == <<pc, cursor, ret, slot, desc, j>>
vars  == <<table, list, flags, main, owner, isr, torn>>

AddSteps    == {"addBoth", "addInc", "addStore"}
CreateSteps == AddSteps \cup {"write", "copy", "count"}
EditSteps   == CreateSteps \cup {"shift", "zero", "uncount"}
RunSteps    == {"compare", "call", "body"}
PCs         == EditSteps \cup RunSteps \cup {"boot", "loop", "fault"}

TypeOf(s)      == s \div PerType
SlotsOf(t)     == PerType * t .. PerType * (t + 1) - 1
Live           == {s \in Slots : handle[s] # 0}
Min2(a, b)     == IF a <= b THEN a ELSE b

-----------------------------------------------------------------------------
(* Operations on the table that every caller shares.                       *)

\* Create_Task returns the handle of a task it takes for the same one: same
\* function and parameter, and the timer or the start count the same.
SameTask(s, d) ==
    /\ task[s] # None
    /\ DescRun[task[s]] = DescRun[d]
    /\ \/ DescTimer[task[s]] = DescTimer[d]
       \/ DescCounter[task[s]] = DescCounter[d]

\* Mutant: the search for an equal task left out.
CreatableAny(d) == count[DescType[d]] < PerType

\* Create_Task goes on to take a slot.
Creatable(d) ==
    /\ count[DescType[d]] < PerType
    /\ \A s \in SlotsOf(DescType[d]) : ~SameTask(s, d)

\* The first free slot of the type.  When none is free although the count
\* says so, the search ends on the slot after the type's last one.
IsFreeSlot(s, t) ==
    LET free == {x \in SlotsOf(t) : handle[x] = 0}
    IN  IF free = {} THEN s = PerType * (t + 1)
                     ELSE s \in free /\ \A x \in free : s <= x

\* Mutant: the test for an empty slot dropped.
RunnableAlways(s) == status[s] # "SUSPEND"

\* GetTask_Task: the task to run, if the slot holds one.
Runnable(s) == handle[s] = s + 1 /\ status[s] = "NORMAL"

Registered(s)  == {k \in 0 .. nUp - 1 : upList[k] = s}
Timer(s)       == IF task[s] = None THEN 0 ELSE DescTimer[task[s]]
Period(s)      == IF task[s] = None THEN 0 ELSE DescCounter[task[s]]

\* An entry of the list; what lies behind the array is no slot's counter.
Entry(k) == IF k \in Places THEN upList[k] ELSE NoSlot

\* The entries of the list after the loop of DeleteUpCounter has run to its
\* end from index i, with n the new number of entries.
Shifted(i, n) ==
    [k \in Places |-> IF i <= k /\ k < n THEN Entry(k + 1) ELSE upList[k]]

\* What the slot Run_App looks at holds after slot s was destroyed ("gone")
\* or filled ("new").
OwnerAfter(s, w) ==
    IF s = cursor /\ pc # "loop" THEN w ELSE owner

-----------------------------------------------------------------------------
Init ==
    /\ handle = [s \in Slots |-> 0]
    /\ status = [s \in Slots |-> "NONE"]
    /\ task   = [s \in Slots |-> None]
    /\ ticks  = [s \in Slots |-> 0]
    /\ count  = [t \in Types |-> 0]
    /\ upList = [k \in Places |-> NoSlot]
    /\ nUp = 0
    /\ runFlag = TRUE /\ stepTask = None
    /\ pc = "boot" /\ cursor = PerType * LoopType
    /\ ret = "boot" /\ slot = NoSlot /\ desc = None /\ j = 0
    /\ owner = "same" /\ isr = FALSE /\ torn = FALSE

(***************************************************************************)
(* main: Create_Task, one store at a time.  A call that only returns (a    *)
(* full type, a task that exists) changes nothing and is not a step.       *)
(***************************************************************************)
CreateCheck(d) ==
    /\ ~isr /\ pc \in {"boot", "body"}
    /\ Creatable(d)
    /\ \E s \in Slots : IsFreeSlot(s, DescType[d]) /\ slot' = s
    /\ desc' = d /\ ret' = pc /\ pc' = "write"
    /\ UNCHANGED <<table, list, flags, cursor, j, owner, isr, torn>>

\* Mutant: the slot's index stored as its handle.
CreateWriteIndex ==
    /\ ~isr /\ pc = "write"
    /\ handle' = [handle EXCEPT ![slot] = slot]
    /\ status' = [status EXCEPT ![slot] = "NORMAL"]
    /\ ticks'  = [ticks  EXCEPT ![slot] = DescCounter[desc]]
    /\ pc' = "addBoth" /\ j' = nUp
    /\ owner' = OwnerAfter(slot, "new")
    /\ UNCHANGED <<task, count, list, flags, cursor, ret, slot, desc, isr, torn>>

CreateWrite ==
    /\ ~isr /\ pc = "write"
    /\ handle' = [handle EXCEPT ![slot] = slot + 1]
    /\ status' = [status EXCEPT ![slot] = "NORMAL"]
    /\ ticks'  = [ticks  EXCEPT ![slot] = DescCounter[desc]]
    /\ IF nUp < MaxCounter THEN pc' = "addBoth" /\ j' = nUp
                           ELSE pc' = "copy" /\ j' = j
    /\ owner' = OwnerAfter(slot, "new")
    /\ UNCHANGED <<task, count, list, flags, cursor, ret, slot, desc, isr, torn>>

\* u_ptUpCounter[u_nUpCounter++] = ptCounter: the language leaves the order
\* of the two stores open.
AddInc ==
    /\ ~isr /\ pc \in {"addBoth", "addInc"}
    /\ nUp' = j + 1
    /\ pc' = IF pc = "addBoth" THEN "addStore" ELSE "copy"
    /\ UNCHANGED <<table, upList, flags, cursor, ret, slot, desc, j, owner, isr, torn>>

AddStore ==
    /\ ~isr /\ pc \in {"addBoth", "addStore"}
    /\ upList' = [upList EXCEPT ![j] = slot]
    /\ pc' = IF pc = "addBoth" THEN "addInc" ELSE "copy"
    /\ UNCHANGED <<table, nUp, flags, cursor, ret, slot, desc, j, owner, isr, torn>>

CreateCopy ==
    /\ ~isr /\ pc = "copy"
    /\ task' = [task EXCEPT ![slot] = desc]
    /\ pc' = "count"
    /\ UNCHANGED <<handle, status, ticks, count, list, flags, cursor, ret, slot, desc, j, owner, isr, torn>>

CreateCount ==
    /\ ~isr /\ pc = "count"
    /\ count' = [count EXCEPT ![DescType[desc]] = @ + 1]
    /\ pc' = ret /\ slot' = NoSlot /\ desc' = None /\ j' = 0
    /\ UNCHANGED <<handle, status, task, ticks, list, flags, cursor, ret, owner, isr, torn>>

(***************************************************************************)
(* main: Destroy_Task.  The search of DeleteUpCounter and its decrement    *)
(* are one step; every move of the shift is one.                           *)
(***************************************************************************)
DestroyCheck(s) ==
    /\ ~isr /\ pc = "body"
    /\ handle[s] = s + 1
    /\ slot' = s /\ ret' = pc
    /\ IF Registered(s) = {}
       THEN pc' = "zero" /\ UNCHANGED <<nUp, j>>
       ELSE /\ pc' = "shift" /\ nUp' = nUp - 1
            /\ j' \in Registered(s) /\ \A k \in Registered(s) : j' <= k
    /\ UNCHANGED <<table, upList, flags, cursor, desc, owner, isr, torn>>

\* Mutant: the last move of the shift left out.
DeleteShiftShort ==
    /\ ~isr /\ pc = "shift"
    /\ IF j + 1 < nUp
       THEN /\ upList' = [upList EXCEPT ![j] = Entry(j + 1)]
            /\ j' = j + 1 /\ pc' = "shift"
       ELSE pc' = "zero" /\ UNCHANGED <<upList, j>>
    /\ UNCHANGED <<table, nUp, flags, cursor, ret, slot, desc, owner, isr, torn>>

DeleteShift ==
    /\ ~isr /\ pc = "shift"
    /\ IF j < nUp
       THEN /\ upList' = [upList EXCEPT ![j] = Entry(j + 1)]
            /\ j' = j + 1 /\ pc' = "shift"
       ELSE pc' = "zero" /\ UNCHANGED <<upList, j>>
    /\ UNCHANGED <<table, nUp, flags, cursor, ret, slot, desc, owner, isr, torn>>

\* Mutant: the handle cleared, the descriptor left behind.
DestroyZeroHandle ==
    /\ ~isr /\ pc = "zero"
    /\ handle' = [handle EXCEPT ![slot] = 0]
    /\ pc' = "uncount"
    /\ owner' = OwnerAfter(slot, "gone")
    /\ UNCHANGED <<status, task, ticks, count, list, flags, cursor, ret, slot, desc, j, isr, torn>>

DestroyZero ==
    /\ ~isr /\ pc = "zero"
    /\ handle' = [handle EXCEPT ![slot] = 0]
    /\ status' = [status EXCEPT ![slot] = "NONE"]
    /\ task'   = [task   EXCEPT ![slot] = None]
    /\ ticks'  = [ticks  EXCEPT ![slot] = 0]
    /\ pc' = "uncount"
    /\ owner' = OwnerAfter(slot, "gone")
    /\ UNCHANGED <<count, list, flags, cursor, ret, slot, desc, j, isr, torn>>

\* Mutant: the count of the type not taken back.
DestroyCountLost ==
    /\ ~isr /\ pc = "uncount"
    /\ pc' = ret /\ slot' = NoSlot /\ j' = 0
    /\ UNCHANGED <<table, list, flags, cursor, ret, desc, owner, isr, torn>>

DestroyCount ==
    /\ ~isr /\ pc = "uncount"
    /\ count' = [count EXCEPT ![TypeOf(slot)] = @ - 1]
    /\ pc' = ret /\ slot' = NoSlot /\ j' = 0
    /\ UNCHANGED <<handle, status, task, ticks, list, flags, cursor, ret, desc, owner, isr, torn>>

\* SetStatus_Task, by a task.
SetStatus(s, w) ==
    /\ ~isr /\ pc = "body"
    /\ handle[s] = s + 1
    /\ status' = [status EXCEPT ![s] = w]
    /\ UNCHANGED <<handle, task, ticks, count, list, flags, main, owner, isr, torn>>

(***************************************************************************)
(* main: Run_App.  The pointer is fetched (RunLookup), the counter behind  *)
(* it compared (RunCompare), the function behind it called (RunCall), and  *)
(* after the call the counter of the same slot is reloaded from whatever   *)
(* the slot holds then (RunReturn).  A slot the host has destroyed in the  *)
(* meantime is all zeros: 0 >= 0 is due and its function is NULL, which    *)
(* ends in the endless loop of FaultISR that no interrupt leaves.          *)
(***************************************************************************)
\* Mutant: the loop of Run_App stops one slot early.
NextSlotShort(s) == IF s + 2 < PerType * (LoopType + 1) THEN s + 1 ELSE PerType * LoopType

NextSlot(s) == IF s + 1 < PerType * (LoopType + 1) THEN s + 1 ELSE PerType * LoopType

BootDone ==
    /\ ~isr /\ pc = "boot" /\ pc' = "loop" /\ owner' = "same"
    /\ UNCHANGED <<table, list, flags, cursor, ret, slot, desc, j, isr, torn>>

RunLookup ==
    /\ ~isr /\ pc = "loop"
    /\ IF Runnable(cursor)
       THEN pc' = "compare" /\ cursor' = cursor
       ELSE pc' = "loop" /\ cursor' = NextSlot(cursor)
    /\ UNCHANGED <<table, list, flags, ret, slot, desc, j, owner, isr, torn>>

RunCompare ==
    /\ ~isr /\ pc = "compare"
    /\ IF ticks[cursor] >= Timer(cursor)
       THEN pc' = "call" /\ UNCHANGED <<cursor, owner>>
       ELSE pc' = "loop" /\ cursor' = NextSlot(cursor) /\ owner' = "same"
    /\ UNCHANGED <<table, list, flags, ret, slot, desc, j, isr, torn>>

RunCall ==
    /\ ~isr /\ pc = "call"
    /\ pc' = IF task[cursor] = None THEN "fault" ELSE "body"
    /\ UNCHANGED <<table, list, flags, cursor, ret, slot, desc, j, owner, isr, torn>>

FaultISR == pc = "fault" /\ UNCHANGED vars

\* Mutant: the reload after the move to the next slot.
RunReturnNext ==
    /\ ~isr /\ pc = "body"
    /\ ticks' = [ticks EXCEPT ![NextSlot(cursor)] = Period(NextSlot(cursor))]
    /\ pc' = "loop" /\ cursor' = NextSlot(cursor) /\ owner' = "same"
    /\ UNCHANGED <<handle, status, task, count, list, flags, ret, slot, desc, j, isr, torn>>

RunReturn ==
    /\ ~isr /\ pc = "body"
    /\ ticks' = [ticks EXCEPT ![cursor] = Period(cursor)]
    /\ pc' = "loop" /\ cursor' = NextSlot(cursor) /\ owner' = "same"
    /\ UNCHANGED <<handle, status, task, count, list, flags, ret, slot, desc, j, isr, torn>>

(***************************************************************************)
(* tick: SysTick_ISR.  Every entry of the list is advanced by one, an      *)
(* entry that occurs twice twice.  A pending single step gives the task    *)
(* being debugged a whole period; it runs whether or not the tick counts.  *)
(***************************************************************************)
StepSlot(s) ==
    /\ s \in SlotsOf(LoopType) /\ stepTask # None
    /\ task[s] = stepTask
    /\ \A x \in SlotsOf(LoopType) : task[x] = stepTask => s <= x

Advance(s) ==
    (IF runFlag THEN Cardinality(Registered(s)) ELSE 0)
        + (IF StepSlot(s) THEN DescTimer[stepTask] ELSE 0)

Tick ==
    /\ ~isr /\ pc # "fault"
    /\ ticks' = [s \in Slots |-> Min2(MaxCount, ticks[s] + Advance(s))]
    /\ stepTask' = None
    /\ UNCHANGED <<handle, status, task, count, list, runFlag, main, owner, isr, torn>>

(***************************************************************************)
(* host: the studio's interrupt handler.  It destroys and creates tasks    *)
(* (a new configuration, debug mode on or off) and sets the debug flags;   *)
(* main and the tick wait until it leaves.  At most one edit that tears    *)
(* main's own edit is explored.                                            *)
(***************************************************************************)
HostEnter ==
    /\ ~isr /\ pc # "fault" /\ isr' = TRUE
    /\ UNCHANGED <<table, list, flags, main, owner, torn>>

HostLeave ==
    /\ isr /\ isr' = FALSE
    /\ UNCHANGED <<table, list, flags, main, owner, torn>>

Editing == pc \in EditSteps

HostCreate(d) ==
    /\ isr /\ Creatable(d) /\ ~(Editing /\ torn)
    /\ \E s \in Slots :
          /\ IsFreeSlot(s, DescType[d])
          /\ handle' = [handle EXCEPT ![s] = s + 1]
          /\ status' = [status EXCEPT ![s] = "NORMAL"]
          /\ ticks'  = [ticks  EXCEPT ![s] = DescCounter[d]]
          /\ task'   = [task   EXCEPT ![s] = d]
          /\ owner'  = OwnerAfter(s, "new")
          /\ IF nUp < MaxCounter
             THEN /\ upList' = [upList EXCEPT ![nUp] = s]
                  /\ nUp' = nUp + 1
             ELSE UNCHANGED list
    /\ count' = [count EXCEPT ![DescType[d]] = @ + 1]
    /\ torn' = (torn \/ Editing)
    /\ UNCHANGED <<flags, main, isr>>

\* Mutant: the counter left in the list.
HostDestroyKeepsCounter(s) ==
    /\ isr /\ handle[s] = s + 1 /\ ~(Editing /\ torn)
    /\ handle' = [handle EXCEPT ![s] = 0]
    /\ status' = [status EXCEPT ![s] = "NONE"]
    /\ task'   = [task   EXCEPT ![s] = None]
    /\ ticks'  = [ticks  EXCEPT ![s] = 0]
    /\ count'  = [count  EXCEPT ![TypeOf(s)] = @ - 1]
    /\ owner'  = OwnerAfter(s, "gone")
    /\ torn' = (torn \/ Editing)
    /\ UNCHANGED <<list, flags, main, isr>>

HostDestroy(s) ==
    /\ isr /\ handle[s] = s + 1 /\ ~(Editing /\ torn)
    /\ IF Registered(s) = {}
       THEN UNCHANGED list
       ELSE /\ \E i \in Registered(s) :
                  /\ \A k \in Registered(s) : i <= k
                  /\ upList' = Shifted(i, nUp - 1)
            /\ nUp' = nUp - 1
    /\ handle' = [handle EXCEPT ![s] = 0]
    /\ status' = [status EXCEPT ![s] = "NONE"]
    /\ task'   = [task   EXCEPT ![s] = None]
    /\ ticks'  = [ticks  EXCEPT ![s] = 0]
    /\ count'  = [count  EXCEPT ![TypeOf(s)] = @ - 1]
    /\ owner'  = OwnerAfter(s, "gone")
    /\ torn' = (torn \/ Editing)
    /\ UNCHANGED <<flags, main, isr>>

HostPause ==
    /\ isr /\ runFlag' = FALSE /\ stepTask' = None
    /\ UNCHANGED <<table, list, main, owner, isr, torn>>

HostRun ==
    /\ isr /\ runFlag' = TRUE /\ stepTask' = None
    /\ UNCHANGED <<table, list, main, owner, isr, torn>>

HostStep(d) ==
    /\ isr /\ d \in DebugDescs
    /\ runFlag' = FALSE /\ stepTask' = d
    /\ UNCHANGED <<table, list, main, owner, isr, torn>>

-----------------------------------------------------------------------------
MainCreate  == (\E d \in Descs : CreateCheck(d)) \/ CreateWrite \/ AddInc
                   \/ AddStore \/ CreateCopy \/ CreateCount
MainDestroy == (\E s \in Slots : DestroyCheck(s)) \/ DeleteShift
                   \/ DestroyZero \/ DestroyCount
MainStatus  == \E s \in Slots, w \in {"NORMAL", "SUSPEND"} : SetStatus(s, w)
MainRun     == BootDone \/ RunLookup \/ RunCompare \/ RunCall
                   \/ FaultISR \/ RunReturn
Host        == \/ HostEnter \/ HostLeave \/ HostPause \/ HostRun
               \/ \E d \in Descs : HostCreate(d) \/ HostStep(d)
               \/ \E s \in Slots : HostDestroy(s)

Next == MainCreate \/ MainDestroy \/ MainStatus \/ MainRun \/ Tick \/ Host

Spec == Init /\ [][Next]_vars

(***************************************************************************)
(* Fairness.  Interrupts do not take the whole processor, the functions    *)
(* of the tasks return, the host's handler returns, and not every tick     *)
(* falls into an edit of the table.                                        *)
(***************************************************************************)
EditGoesOn == CreateWrite \/ AddInc \/ AddStore \/ CreateCopy \/ CreateCount
                  \/ DeleteShift \/ DestroyZero \/ DestroyCount

Fairness ==
    /\ SF_vars(BootDone) /\ SF_vars(RunLookup)
    /\ SF_vars(RunCompare) /\ SF_vars(RunCall) /\ SF_vars(RunReturn)
    /\ SF_vars(EditGoesOn)
    /\ SF_vars(Tick /\ pc \notin EditSteps)
    /\ WF_vars(HostLeave)

FairSpec == Spec /\ Fairness

-----------------------------------------------------------------------------
(* The type of every variable; a handle is 0 or names its own slot, which  *)
(* is what lets Destroy_Task and GetTask_Task go from a handle to a slot.  *)
TypeOK ==
    /\ handle \in [Slots -> 0 .. MaxTask] /\ \A s \in Slots : handle[s] \in {0, s + 1}
    /\ status \in [Slots -> Statuses]
    /\ task \in [Slots -> Descs \cup {None}]
    /\ ticks \in [Slots -> 0 .. MaxCount]
    /\ count \in [Types -> Int]
    /\ upList \in [Places -> Slots \cup {NoSlot}] /\ nUp \in 0 .. MaxCounter
    /\ runFlag \in BOOLEAN
    /\ stepTask \in DebugDescs \cup {None}
    /\ pc \in PCs /\ cursor \in SlotsOf(LoopType) /\ ret \in {"boot", "body"}
    /\ slot \in Slots \cup {NoSlot} /\ desc \in Descs \cup {None}
    /\ j \in 0 .. MaxCounter
    /\ owner \in {"same", "gone", "new"}
    /\ isr \in BOOLEAN /\ torn \in BOOLEAN
    /\ pc \in EditSteps => slot \in Slots
    /\ pc \in AddSteps => j < MaxCounter
    /\ pc \in CreateSteps => desc \in Descs

(* What main has in hand while it edits the table.                         *)
EditOK ==
    /\ pc \in CreateSteps => slot \in SlotsOf(DescType[desc])
    /\ pc \in {"write", "uncount"} => handle[slot] = 0
    /\ pc \in EditSteps \ {"write", "uncount"} => handle[slot] # 0
    /\ pc \in {"write", "addBoth", "addInc", "addStore", "copy"} =>
           \A s \in SlotsOf(DescType[desc]) : ~SameTask(s, desc)

\* The entries of the list that name a registered counter: while an entry
\* is added the ones before it, while the list closes up all but the hole.
GoodPlaces ==
    IF pc = "shift" THEN (0 .. nUp) \ {j}
    ELSE IF pc \in AddSteps THEN 0 .. j - 1
    ELSE 0 .. nUp - 1

\* The slots whose counter must be registered at this point of main's edit.
Expected ==
    IF pc \in AddSteps \cup {"shift", "zero"} THEN Live \ {slot} ELSE Live

(* The list names the counter of every live task, each once and no other:  *)
(* Create_Task's AddUpCounter and Destroy_Task's DeleteUpCounter, stopped  *)
(* after any store.                                                        *)
ListOK ==
    /\ pc = "shift" => nUp < MaxCounter /\ j \in 0 .. nUp
    /\ pc = "addBoth" => nUp = j
    /\ pc = "addStore" => nUp = j + 1
    /\ pc = "addInc" => nUp = j /\ upList[j] = slot
    /\ \A k, l \in GoodPlaces : upList[k] = upList[l] => k = l
    /\ \A k \in GoodPlaces : upList[k] \in Expected
    /\ \A s \in Expected : \E k \in GoodPlaces : upList[k] = s

(* u_aTasksCount is the number of live tasks of the type, up to the one    *)
(* main is adding or removing.                                             *)
CountOK ==
    \A t \in Types :
        Cardinality(Live \cap SlotsOf(t)) =
            count[t]
            + (IF pc \in AddSteps \cup {"copy", "count"} /\ slot \in SlotsOf(t) THEN 1 ELSE 0)
            - (IF pc = "uncount" /\ slot \in SlotsOf(t) THEN 1 ELSE 0)

(* A slot holds a descriptor, of the slot's own type, exactly when it is   *)
(* live, but for the slot Create_Task has claimed and not yet filled.      *)
TaskOK ==
    /\ \A s \in Slots : task[s] # None => s \in SlotsOf(DescType[task[s]])
    /\ \A s \in Slots :
          (task[s] # None) <=> (s \in Live /\ ~(pc \in AddSteps \cup {"copy"} /\ s = slot))

(* Create_Task never makes a second task of one it would take for the same. *)
UniqueOK ==
    \A s, x \in Slots :
        s # x /\ TypeOf(s) = TypeOf(x) /\ task[x] # None => ~SameTask(s, task[x])

-----------------------------------------------------------------------------
(* The next five hold as long as no host edit lands in the middle of an    *)
(* edit of main's: nothing in the code keeps it from landing there, and    *)
(* then they do not.  Host edits at any other point of main are included.  *)

\* Destroy_Task and AddUpCounter keep the list in step with the table.
RegisteredOnce == ~torn => ListOK

\* The count Create_Task trusts when it looks for a free slot.
CountExact == ~torn => CountOK

\* Create_Task finds its free slot inside the range of the task's own type.
SlotInRange == ~torn => EditOK /\ TaskOK

\* No task is created twice.
NoTwins == ~torn => UniqueOK

\* What one tick does to the tasks that are not being edited: each counter
\* advances once; while the list closes up behind a destroyed task
\* (_timer.c:219-220) one task may miss the tick and one may get it twice,
\* and never more than one of each.
TickFair ==
    ~torn =>
      LET others == Live \ (IF pc \in EditSteps THEN {slot} ELSE {})
          missed  == {s \in others : Registered(s) = {}}
          doubled == {s \in others : Cardinality(Registered(s)) > 1}
      IN  /\ Cardinality(missed) <= 1 /\ Cardinality(doubled) <= 1
          /\ \A s \in others : Cardinality(Registered(s)) <= 2
          /\ pc # "shift" => missed = {}
          /\ pc \notin {"shift", "addStore"} => doubled = {}

\* Run_App (app.c:74-79) calls the task it looked up, once it is due, although
\* tick and host run between the lookup, the compare and the call and may edit
\* the table there: only when the host itself has put another task in the slot
\* is one called that nobody compared, and only when the host has destroyed the
\* very task and put none in its place is NULL called and the processor stops.
\* Torn edits are included.
CallDue ==
    /\ pc = "call" /\ owner = "same" => task[cursor] # None /\ ticks[cursor] >= Timer(cursor)
    /\ pc = "call" /\ owner = "new" => task[cursor] # None
    /\ pc = "fault" => owner = "gone"

\* A live task loses time it has waited at one point only, the return of a
\* task's function (app.c:81), and only in the slot Run_App called through: the
\* task that was called, or one that was created in its place while it ran,
\* which starts to wait again from its own tCounter.  No task in another slot
\* loses any, whoever is created, destroyed or run meanwhile.  Torn edits are
\* left out.
WaitKept ==
    [][\A s \in Slots :
         s \in Live /\ handle'[s] # 0 /\ ~torn' /\ ticks'[s] < ticks[s] =>
             /\ pc = "body" /\ pc' = "loop" /\ cursor = s
             /\ owner \in {"same", "new"}
             /\ ticks'[s] = Period(s)]_vars

\* A task that stays runnable while the system is not paused runs again and
\* again, whatever the other tasks and the host do, unless a call of NULL stops
\* the processor.
Served ==
    \A s \in SlotsOf(LoopType) :
        <>[](Runnable(s) /\ runFlag /\ ~torn /\ pc # "fault") => []<>(pc = "body" /\ cursor = s)
=============================================================================
