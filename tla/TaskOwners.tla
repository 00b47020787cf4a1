----------------------------- MODULE TaskOwners -----------------------------
(***************************************************************************)
(* Who owns the slots of the task table.  The kernel hands a slot out by   *)
(* handle and hands it out again once the task is gone; the application    *)
(* keeps handles in globals and never forgets them:                        *)
(*   g_htask_Calculations[i]  the runner of configured task i, or, in      *)
(*                            debug mode, its debug runner;                *)
(*   u_wDtask                 the task that reconnects the TCP link;       *)
(*   g_htask_ModbusTCP, g_htask_iNet   the two protocols over that link.   *)
(* The studio's frames (handled by an interrupt) and the tasks themselves  *)
(* (called by main) create and destroy tasks through these handles.        *)
(* Kernel.tla models what one call of Create_Task or Destroy_Task does to  *)
(* the table store by store; here each call is one step.                   *)
(***************************************************************************)
EXTENDS Integers

CONSTANTS
    NSlots,  \* slots of the type left by the tasks that are never destroyed
    N,       \* MaxTask: entries of g_htask_Calculations
    Configs, \* the task lists the studio may send: their number and classes
    INetModes \* the modes of iNet a configuration may choose

ASSUME SizeAssumption == NSlots \in Nat \ {0} /\ N \in Nat
ASSUME ModeAssumption ==
    /\ Configs \subseteq [total : 0 .. N, class : [0 .. N - 1 -> {"init", "cycle"}]]
    /\ INetModes \subseteq {"off", "tcp", "udp"} /\ "off" \in INetModes

Idx   == 0 .. N - 1
Slots == 1 .. NSlots         \* a slot is named by its handle; 0 is HTASK_NULL

Run(i)   == <<"run", i>>     \* RunFunctionBlock for configured task i
Debug(i) == <<"debug", i>>   \* RunFunctionBlock_Debug for configured task i
Link     == <<"link", 0>>    \* RunLwipTcpMeg
Modbus   == <<"modbus", 0>>  \* RunLwipTcp
INet     == <<"inet", 0>>    \* RuniNetAppIoTSever
None     == <<"none", 0>>

NetTasks == {Link, Modbus, INet}
Runs     == {Run(i) : i \in Idx}
Debugs   == {Debug(i) : i \in Idx}
Owners   == Runs \cup Debugs \cup NetTasks

\* The global that keeps the handle of a task.
Calc(i)   == <<"calc", i>>
Globals   == {Calc(i) : i \in Idx} \cup NetTasks
Global(o) == IF o \in NetTasks THEN o ELSE Calc(o[2])

VARIABLES
    slot,     \* the task in each slot
    h,        \* the handle in each global
    full,     \* history: Create_Task has found the table full
    total,    \* g_cTaskTotalCount
    class,    \* TaskData[i].Class
    modbusOn, \* pTotalMode is MODBUSTCP_MASTER or MODBUSTCP_SLAVE
    net,      \* iNetModeMeg: not used, over TCP or over UDP
    relink,   \* g_byiNetTaskFlag is 0x55
    op,       \* the studio's operation that is creating the runners
    next,     \* the index it has reached
    pc,       \* where main is
    cur       \* the index of the runner main is in

table  == <<slot, h, full>>
config == <<total, class>>
netcfg == <<modbusOn, net, relink>>
host   == <<op, next>>
main   == <<pc, cur>>
vars   == <<table, config, netcfg, host, main>>

Live(o) == \E s \in Slots : slot[s] = o

-----------------------------------------------------------------------------
(* The table as a record, so that calls can be put one after another.      *)
Table == [slot |-> slot, h |-> h, full |-> full]

Becomes(t) == slot' = t.slot /\ h' = t.h /\ full' = t.full

Free(t)     == {s \in Slots : t.slot[s] = None}
First(S)    == CHOOSE s \in S : \A x \in S : s <= x
Holding(t, o) == {s \in Slots : t.slot[s] = o}

\* Mutant: the search for an equal task left out.
CreateAlways(t, o) ==
    IF Free(t) = {}
    THEN [t EXCEPT !.h[Global(o)] = 0, !.full = TRUE]
    ELSE [t EXCEPT !.slot[First(Free(t))] = o, !.h[Global(o)] = First(Free(t))]

\* Mutant: no handle for a task that is there already.
CreateNull(t, o) ==
    IF Free(t) = {}
    THEN [t EXCEPT !.h[Global(o)] = 0, !.full = TRUE]
    ELSE IF Holding(t, o) # {}
    THEN [t EXCEPT !.h[Global(o)] = 0]
    ELSE [t EXCEPT !.slot[First(Free(t))] = o, !.h[Global(o)] = First(Free(t))]

\* g = Create_Task(o): nothing when the type is full, the task's own handle
\* when it is there already, else the first free slot.
Create(t, o) ==
    IF Free(t) = {}
    THEN [t EXCEPT !.h[Global(o)] = 0, !.full = TRUE]
    ELSE IF Holding(t, o) # {}
    THEN [t EXCEPT !.h[Global(o)] = First(Holding(t, o))]
    ELSE [t EXCEPT !.slot[First(Free(t))] = o, !.h[Global(o)] = First(Free(t))]

\* Destroy_Task(g): whatever task the slot holds by now.
Destroy(t, g) ==
    [t EXCEPT !.slot = [s \in Slots |-> IF s = t.h[g] THEN None ELSE t.slot[s]]]

\* Mutant: the loop ends at the number of tasks now configured.
DestroyConfigured(t) ==
    [t EXCEPT !.slot =
        [s \in Slots |-> IF \E i \in 0 .. total - 1 : s = t.h[Calc(i)] THEN None ELSE t.slot[s]]]

\* The loop over g_htask_Calculations that destroys what it names.
DestroyRunners(t) ==
    [t EXCEPT !.slot =
        [s \in Slots |-> IF \E i \in Idx : s = t.h[Calc(i)] THEN None ELSE t.slot[s]]]

\* CreateLwipTcp with the given modes: the link task when it is asked for,
\* then a task for each protocol in use.
LinkWanted(asked, md, nt) == asked /\ (md \/ nt # "off")

CreateLink(t, asked, md, nt) == IF LinkWanted(asked, md, nt) THEN Create(t, Link) ELSE t
CreateModbus(t, md)          == IF md THEN Create(t, Modbus) ELSE t
CreateINet(t, nt)            == IF nt # "off" THEN Create(t, INet) ELSE t

CreateLwipTcp(t, asked, md, nt) ==
    CreateINet(CreateModbus(CreateLink(t, asked, md, nt), md), nt)

\* RuniNetAppFunctionType, with the request for the link task it leaves.
RuniNet(t) ==
    CASE net = "tcp" -> CreateLwipTcp(t, TRUE, modbusOn, net)
      [] net = "udp" -> CreateINet(t, net)
      [] OTHER       -> t
AskedAfterRuniNet == IF net = "tcp" THEN FALSE ELSE relink

-----------------------------------------------------------------------------
(* Power-up: the modes read from flash, perhaps those of both protocols     *)
(* (ExclusiveInFlash of NetConfig fails), then CreateTask of main.c.        *)
Empty == [slot |-> [s \in Slots |-> None], h |-> [g \in Globals |-> 0], full |-> FALSE]

Init ==
    /\ modbusOn \in BOOLEAN
    /\ net \in INetModes
    /\ relink = ~LinkWanted(TRUE, modbusOn, net)
    /\ LET t == CreateLwipTcp(Empty, TRUE, modbusOn, net)
       IN  slot = t.slot /\ h = t.h /\ full = t.full
    /\ \E c \in Configs : total = c.total /\ class = c.class
    /\ op = "end" /\ next = 0     \* Create_Idataconf is about to run
    /\ pc = "idle" /\ cur = 0

(***************************************************************************)
(* host: the handlers of the studio's frames.  Main waits until a handler  *)
(* has returned (op = "none").                                             *)
(***************************************************************************)
\* ApplyTaskData takes the list over at once; the runners stay until the end
\* frame.
TaskDataFrame(c) ==
    /\ op = "none"
    /\ total' = c.total /\ class' = c.class
    /\ UNCHANGED <<table, netcfg, host, main>>

EndFrame ==
    /\ op = "none" /\ op' = "end" /\ next' = 0
    /\ Becomes(DestroyRunners(Table))
    /\ UNCHANGED <<config, netcfg, main>>

DebugStart ==
    /\ op = "none" /\ op' = "start" /\ next' = 0
    /\ Becomes(DestroyRunners(Table))
    /\ UNCHANGED <<config, netcfg, main>>

\* Mutant: the normal runners' handles destroyed.
DebugStopKills ==
    /\ op = "none" /\ op' = "stop" /\ next' = 0
    /\ Becomes(DestroyRunners(Table))
    /\ UNCHANGED <<config, netcfg, main>>

\* The handles destroyed are those of g_htask_Calculations_Debug, which
\* nothing ever assigns: no task is destroyed.
DebugStop ==
    /\ op = "none" /\ op' = "stop" /\ next' = 0
    /\ UNCHANGED <<table, config, netcfg, main>>

\* Mutant: one runner too many.
CreateRunnerPast ==
    /\ op # "none" /\ next <= total
    /\ Becomes(Create(Table, IF op = "start" THEN Debug(next) ELSE Run(next)))
    /\ next' = next + 1
    /\ UNCHANGED <<config, netcfg, op, main>>

\* Create_Idataconf, or after DebugStart Create_Idataconf_Debug.
CreateRunner ==
    /\ op # "none" /\ next < total
    /\ Becomes(Create(Table, IF op = "start" THEN Debug(next) ELSE Run(next)))
    /\ next' = next + 1
    /\ UNCHANGED <<config, netcfg, op, main>>

RunnersCreated ==
    /\ op # "none" /\ next = total
    /\ op' = "none" /\ next' = 0
    /\ UNCHANGED <<table, config, netcfg, main>>

\* Mutant: the iNet task is not destroyed.
ModbusEndKeepsINet(m) ==
    /\ op = "none" /\ modbusOn' = m /\ net' = "off"
    /\ relink' = IF m THEN FALSE ELSE relink
    /\ Becomes(IF m THEN CreateLwipTcp(Table, TRUE, TRUE, net) ELSE Table)
    /\ UNCHANGED <<config, host, main>>

\* The end frame of a Modbus TCP configuration; m, its mode, is in the buffer
\* the frames before it have filled (or a save has cleared).
ModbusEndFrame(m) ==
    /\ op = "none" /\ modbusOn' = m /\ net' = "off"
    /\ relink' = IF m THEN FALSE ELSE relink
    /\ Becomes(Destroy(IF m THEN CreateLwipTcp(Table, TRUE, TRUE, net) ELSE Table, INet))
    /\ UNCHANGED <<config, host, main>>

INetParaFrame(n) ==
    /\ op = "none" /\ net' = n
    /\ UNCHANGED <<table, config, modbusOn, relink, host, main>>

INetEndFrame ==
    /\ op = "none" /\ modbusOn' = FALSE
    /\ relink' = AskedAfterRuniNet
    /\ Becomes(Destroy(RuniNet(Table), Modbus))
    /\ UNCHANGED <<config, net, host, main>>

INetIPFrame ==
    /\ op = "none"
    /\ relink' = IF modbusOn THEN FALSE ELSE AskedAfterRuniNet
    /\ Becomes(IF modbusOn THEN CreateLwipTcp(RuniNet(Table), TRUE, TRUE, net)
                           ELSE RuniNet(Table))
    /\ UNCHANGED <<config, modbusOn, net, host, main>>

(***************************************************************************)
(* main: what a task does to the table when Run_App calls it.  A handler   *)
(* may run between any two of these steps.                                 *)
(***************************************************************************)
\* RunFunctionBlock has found that its task is to run only once ...
RunOnce(i) ==
    /\ op = "none" /\ pc = "idle" /\ Live(Run(i)) /\ class[i] = "init"
    /\ pc' = "stop" /\ cur' = i
    /\ UNCHANGED <<table, config, netcfg, host>>

\* ... and destroys what the global names.
StopRunner ==
    /\ op = "none" /\ pc = "stop"
    /\ pc' = "idle" /\ cur' = 0
    /\ Becomes(Destroy(Table, Calc(cur)))
    /\ UNCHANGED <<config, netcfg, host>>

\* RunLwipTcpMeg has found the link up ...
LinkUp ==
    /\ op = "none" /\ pc = "idle" /\ Live(Link) /\ pc' = "drop"
    /\ UNCHANGED <<table, config, netcfg, host, cur>>

\* ... and ends itself.
DropLink ==
    /\ op = "none" /\ pc = "drop" /\ pc' = "idle"
    /\ Becomes(Destroy(Table, Link))
    /\ UNCHANGED <<config, netcfg, host, cur>>

\* RunLwipTcpMeg with the link down: CreateLwipTcp again, one task at a time.
LinkDown ==
    /\ op = "none" /\ pc = "idle" /\ Live(Link) /\ pc' = "link"
    /\ UNCHANGED <<table, config, netcfg, host, cur>>

MakeLink ==
    /\ op = "none" /\ pc = "link" /\ pc' = "modbus"
    /\ Becomes(CreateLink(Table, relink, modbusOn, net))
    /\ relink' = (relink /\ ~LinkWanted(relink, modbusOn, net))
    /\ UNCHANGED <<config, modbusOn, net, host, cur>>

MakeModbus ==
    /\ op = "none" /\ pc = "modbus" /\ pc' = "inet"
    /\ Becomes(CreateModbus(Table, modbusOn))
    /\ UNCHANGED <<config, netcfg, host, cur>>

MakeINet ==
    /\ op = "none" /\ pc = "inet" /\ pc' = "idle"
    /\ Becomes(CreateINet(Table, net))
    /\ UNCHANGED <<config, netcfg, host, cur>>

-----------------------------------------------------------------------------
RunnerFrames == \/ EndFrame \/ DebugStart \/ DebugStop \/ CreateRunner \/ RunnersCreated
                \/ \E c \in Configs : TaskDataFrame(c)
NetFrames    == \/ \E m \in BOOLEAN : ModbusEndFrame(m)
                \/ \E n \in INetModes : INetParaFrame(n)
                \/ INetEndFrame \/ INetIPFrame
Main         == \/ \E i \in Idx : RunOnce(i)
                \/ StopRunner \/ LinkUp \/ DropLink \/ LinkDown
                \/ MakeLink \/ MakeModbus \/ MakeINet

Next == RunnerFrames \/ NetFrames \/ Main

Spec == Init /\ [][Next]_vars

-----------------------------------------------------------------------------
TypeOK ==
    /\ slot \in [Slots -> Owners \cup {None}]
    /\ h \in [Globals -> Slots \cup {0}]
    /\ full \in BOOLEAN
    /\ total \in 0 .. N /\ class \in [Idx -> {"init", "cycle"}]
    /\ modbusOn \in BOOLEAN 
    /\ net \in INetModes /\ relink \in BOOLEAN
    /\ op \in {"none", "end", "start", "stop"} /\ next \in 0 .. N
    /\ pc \in {"idle", "stop", "drop", "link", "modbus", "inet"} /\ cur \in Idx \cup {0}

\* No task is in the table twice, whoever asks for it and however often.
OneSlotEach ==
    \A s, x \in Slots : s # x /\ slot[s] = slot[x] => slot[s] = None

\* Until Create_Task has once found the table full, every task but the debug
\* runners can be reached: the global that stands for it names its slot, so
\* the next download, end frame or link event finds the task to destroy it.
Held ==
    ~full => \A o \in Owners \ Debugs :
                 Live(o) => h[Global(o)] # 0 /\ slot[h[Global(o)]] = o

\* Once the runners have been created (Create_Idataconf) and no Create_Task
\* failed: after an end frame exactly the configured tasks run, none of an
\* older configuration; after a stop at least those; in debug mode none of
\* the normal ones, and a debug runner for each configured task.
Installed ==
    [][op # "none" /\ op' = "none" /\ ~full =>
         /\ op = "end" => \A i \in Idx : Live(Run(i)) <=> i < total
         /\ op = "stop" => \A i \in 0 .. total - 1 : Live(Run(i))
         /\ op = "start" => /\ \A i \in Idx : ~Live(Run(i))
                            /\ \A i \in 0 .. total - 1 : Live(Debug(i))]_vars

\* A global that names a slot which has since gone to another task.
Stale(g) == h[g] # 0 /\ slot[h[g]] # None /\ Global(slot[h[g]]) # g

\* A cyclic runner is stopped by an end frame or the start of debugging.  What
\* else stops it is an operation on a task long gone whose handle the code has
\* kept, or main, when the runner took the place of one main was about to stop.
StoppedByStudio ==
    [][\A i \in Idx :
         Live(Run(i)) /\ ~Live(Run(i))' /\ class[i] = "cycle" =>
           \/ op' \in {"end", "start"}
           \/ pc = "stop" /\ (cur = i \/ Stale(Calc(cur)))
           \/ \E g \in NetTasks : Stale(g) /\ slot[h[g]] = Run(i)]_vars

\* main.c:123: with one Ethernet port, iNet and Modbus TCP exclude each
\* other.  They do when the configuration of either has been taken over.
ExclusiveAtEnd ==
    [][(INetEndFrame \/ \E m \in BOOLEAN : ModbusEndFrame(m)) /\ ~full' => ~(Live(Modbus)' /\ Live(INet)')]_vars

\* studioprotocol.c:1232: when debugging stops, the debug runners are killed.
StopKillsDebug ==
    [][op = "stop" /\ op' = "none" => \A i \in Idx : ~Live(Debug(i))']_vars
=============================================================================
