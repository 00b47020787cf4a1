-------------------------- MODULE TaskOwnersProofs --------------------------
(***************************************************************************)
(* Who owns the slots of the task table, proved for every number of slots, *)
(* configured tasks, configurations and modes of iNet.  The handlers are   *)
(* chains of calls on the table as a record, so there is one lemma for     *)
(* each call and one for each handler.                                     *)
(***************************************************************************)
EXTENDS TaskOwners, CommonLemmas

USE SizeAssumption, ModeAssumption

Tables == [slot : [Slots -> Owners \cup {None}], h : [Globals -> Slots \cup {0}], full : BOOLEAN]

\* The task named by no global but its own, and no configured task, is a
\* network task's.
LEMMA Names ==
    /\ None \notin Owners /\ Link \in NetTasks /\ Modbus \in NetTasks /\ INet \in NetTasks
    /\ NetTasks \subseteq Owners /\ NetTasks \cap (Runs \cup Debugs) = {}
    /\ Runs \cap Debugs = {}
    /\ \A i \in Idx : /\ Run(i) \in Owners /\ Debug(i) \in Owners
                      /\ Run(i) \notin NetTasks /\ Debug(i) \notin NetTasks
                      /\ Global(Run(i)) = Calc(i) /\ Global(Debug(i)) = Calc(i)
                      /\ Calc(i) \in Globals /\ Calc(i) \notin NetTasks
    /\ \A i, k \in Idx : Run(i) # Debug(k) /\ (Run(i) = Run(k) => i = k)
                            /\ (Calc(i) = Calc(k) => i = k)
    /\ \A o \in NetTasks : Global(o) = o /\ o \in Globals
    /\ Link # Modbus /\ Link # INet /\ Modbus # INet
  BY DEF None, Owners, NetTasks, Runs, Debugs, Run, Debug, Link, Modbus, INet, Global,
         Calc, Globals

LEMMA GlobalType == \A o \in Owners : Global(o) \in Globals
  BY DEF Owners, NetTasks, Runs, Debugs, Run, Debug, Link, Modbus, INet, Global,
         Calc, Globals

\* Two tasks with the same global are one, or the runner and the debug runner
\* of a configured task.
LEMMA GlobalShared ==
    ASSUME NEW o \in Owners, NEW p \in Owners, Global(o) = Global(p), o # p
    PROVE  o \in Debugs \/ p \in Debugs
  BY DEF Owners, NetTasks, Runs, Debugs, Run, Debug, Link, Modbus, INet, Global,
         Calc, Globals

-----------------------------------------------------------------------------
(* One call of Create_Task or Destroy_Task.                                 *)

LEMMA FirstIn ==
    ASSUME NEW S, S \subseteq Slots, S # {}
    PROVE  First(S) \in S
<1>1. S \subseteq Nat
  BY DEF Slots
<1>2. \E s \in S : \A x \in S : s <= x
  BY <1>1, SmallestNat
<1> QED BY <1>2 DEF First

\* Create_Task: the table is full, or the task is in it and named.  Nothing
\* else changes: it takes a free slot at most, and none if it is there.
Made(t, u, o) ==
    /\ u \in Tables
    /\ t.full => u.full
    /\ \A g \in Globals \ {Global(o)} : u.h[g] = t.h[g]
    /\ \A s \in Slots : u.slot[s] = t.slot[s] \/ (t.slot[s] = None /\ u.slot[s] = o
                                                  /\ u.h[Global(o)] = s
                                                  /\ \A x \in Slots : t.slot[x] # o)
    /\ \/ u.full /\ u.h[Global(o)] = 0
       \/ u.h[Global(o)] \in Slots /\ u.slot[u.h[Global(o)]] = o

LEMMA CreateMade ==
    ASSUME NEW t \in Tables, NEW o \in Owners
    PROVE  Made(t, Create(t, o), o)
<1> SUFFICES ASSUME NEW u, u = Create(t, o) PROVE Made(t, u, o)
  OBVIOUS
<1>1. Global(o) \in Globals
  BY GlobalType
<1>2. CASE Free(t) = {}
  <2>1. u = [t EXCEPT !.h[Global(o)] = 0, !.full = TRUE]
    BY <1>2 DEF Create
  <2>2. /\ u.slot = t.slot /\ u.h = [t.h EXCEPT ![Global(o)] = 0] /\ u.full
        /\ u \in Tables
    BY <2>1, <1>1, ZenonT(60) DEF Tables
  <2> QED BY <2>2, <1>1 DEF Made, Tables
<1>3. CASE Free(t) # {} /\ Holding(t, o) # {}
  <2>1. PICK f \in Slots : t.slot[f] = o /\ f = First(Holding(t, o))
    BY <1>3, FirstIn DEF Holding
  <2>2. u = [t EXCEPT !.h[Global(o)] = f]
    BY <1>3, <2>1 DEF Create
  <2>3. /\ u.slot = t.slot /\ u.h = [t.h EXCEPT ![Global(o)] = f] /\ u.full = t.full
        /\ u \in Tables
    BY <2>1, <2>2, <1>1 DEF Tables
  <2> QED BY <2>1, <2>3, <1>1 DEF Made, Tables
<1>4. CASE Free(t) # {} /\ Holding(t, o) = {}
  <2>1. PICK f \in Slots : t.slot[f] = None /\ f = First(Free(t))
    BY <1>4, FirstIn DEF Free
  <2>2. u = [t EXCEPT !.slot[f] = o, !.h[Global(o)] = f]
    BY <1>4, <2>1 DEF Create
  <2>3. \A x \in Slots : t.slot[x] # o
    BY <1>4 DEF Holding
  <2>4. u.slot = [t.slot EXCEPT ![f] = o]
    BY <2>2 DEF Tables
  <2>5. u.h = [t.h EXCEPT ![Global(o)] = f] /\ u.full = t.full
    BY <2>2 DEF Tables
  <2>6. u \in Tables
    <3>1. u.slot \in [Slots -> Owners \cup {None}]
      BY <2>4 DEF Tables
    <3>2. u.h \in [Globals -> Slots \cup {0}] /\ u.full \in BOOLEAN
      BY <2>5, <1>1 DEF Tables
    <3> QED BY <2>2, <3>1, <3>2 DEF Tables
  <2> QED BY <2>1, <2>3, <2>4, <2>5, <2>6, <1>1 DEF Made, Tables
<1> QED BY <1>2, <1>3, <1>4

\* What a handler leaves after destroying the slots in a set.
Gone(t, u, D) ==
    /\ u \in Tables /\ u.h = t.h /\ u.full = t.full
    /\ \A s \in Slots : u.slot[s] = IF s \in D THEN None ELSE t.slot[s]

LEMMA DestroyGone ==
    ASSUME NEW t \in Tables, NEW g
    PROVE  Gone(t, Destroy(t, g), {t.h[g]})
  BY DEF Gone, Destroy, Tables

LEMMA RunnersGone ==
    ASSUME NEW t \in Tables
    PROVE  Gone(t, DestroyRunners(t), {t.h[Calc(i)] : i \in Idx})
  BY DEF Gone, DestroyRunners, Tables

-----------------------------------------------------------------------------
(* No task twice, and every task but the debug runners named.               *)

Once(t) == \A s, x \in Slots : s # x /\ t.slot[s] = t.slot[x] => t.slot[s] = None

Named(t) == ~t.full => \A s \in Slots : t.slot[s] \in Owners \ Debugs => t.h[Global(t.slot[s])] = s

Sound(t) == t \in Tables /\ Once(t) /\ Named(t)

\* A runner is never made while its debug runner or another task that shares
\* its global needs it.
LEMMA MadeSound ==
    ASSUME NEW t, NEW u, NEW o \in Owners, Sound(t), Made(t, u, o),
           o \in Debugs => (~t.full => \A s \in Slots : t.slot[s] \notin Runs)
    PROVE  Sound(u)
<1>1. t \in Tables /\ u \in Tables
  BY DEF Sound, Made
<1>2. Once(u)
  BY <1>1 DEF Sound, Once, Made, Tables
<1>3. ASSUME ~u.full, NEW s \in Slots, u.slot[s] \in Owners \ Debugs
      PROVE  u.h[Global(u.slot[s])] = s
  <2> DEFINE p == u.slot[s]
  <2>1. ~t.full /\ u.h[Global(o)] \in Slots /\ u.slot[u.h[Global(o)]] = o
    BY <1>3, <1>1 DEF Made
  <2>2. CASE p = o
    BY <2>1, <2>2, <1>2, <1>3, Names DEF Once
  <2>3. CASE p # o
    <3>1. t.slot[s] = p
      BY <2>3 DEF Made
    <3>2. t.h[Global(p)] = s
      BY <3>1, <2>1, <1>3 DEF Sound, Named
    <3>3. CASE Global(p) # Global(o)
      BY <3>2, <3>3, <1>3, GlobalType DEF Made
    <3>4. CASE Global(p) = Global(o)
      <4>1. o \in Debugs
        BY <3>4, <2>3, <1>3, GlobalShared
      <4>2. p \notin Runs
        BY <4>1, <3>1, <2>1
      <4>3. p \in NetTasks
        BY <4>2, <1>3 DEF Owners
      <4> QED BY <4>1, <4>3, <3>4 DEF Debugs, Debug, NetTasks, Link, Modbus, INet, Global, Calc
    <3> QED BY <3>3, <3>4
  <2> QED BY <2>2, <2>3
<1> QED BY <1>1, <1>2, <1>3 DEF Sound, Named

LEMMA GoneSound ==
    ASSUME NEW t, NEW u, NEW D, Sound(t), Gone(t, u, D)
    PROVE  Sound(u)
  BY Names DEF Sound, Once, Named, Gone

LEMMA CreateSound ==
    ASSUME NEW t, NEW o \in Owners, Sound(t),
           o \in Debugs => (~t.full => \A s \in Slots : t.slot[s] \notin Runs)
    PROVE  Sound(Create(t, o)) /\ Made(t, Create(t, o), o)
  BY CreateMade, MadeSound DEF Sound

LEMMA DestroySound ==
    ASSUME NEW t, NEW g, Sound(t)
    PROVE  Sound(Destroy(t, g)) /\ Gone(t, Destroy(t, g), {t.h[g]})
  BY DestroyGone, GoneSound DEF Sound

LEMMA RunnersSound ==
    ASSUME NEW t, Sound(t)
    PROVE  /\ Sound(DestroyRunners(t))
           /\ Gone(t, DestroyRunners(t), {t.h[Calc(i)] : i \in Idx})
  BY RunnersGone, GoneSound DEF Sound

-----------------------------------------------------------------------------
(* CreateLwipTcp and its callers add network tasks and nothing else.        *)

Linked(t, u) ==
    /\ Sound(u) /\ (t.full => u.full)
    /\ \A g \in Globals \ NetTasks : u.h[g] = t.h[g]
    /\ \A g \in NetTasks :
          u.h[g] = t.h[g] \/ u.h[g] = 0 \/ (u.h[g] \in Slots /\ u.slot[u.h[g]] = g)
    /\ \A s \in Slots :
          u.slot[s] = t.slot[s] \/ (t.slot[s] = None /\ u.slot[s] \in NetTasks)

LEMMA LinkedSame == ASSUME NEW t, Sound(t) PROVE Linked(t, t)
  BY DEF Linked

LEMMA LinkedTwice ==
    ASSUME NEW t, NEW u, NEW v, Linked(t, u), Linked(u, v)
    PROVE  Linked(t, v)
<1>1. ASSUME NEW g \in NetTasks
      PROVE  v.h[g] = t.h[g] \/ v.h[g] = 0 \/ (v.h[g] \in Slots /\ v.slot[v.h[g]] = g)
  BY Names DEF Linked
<1> QED BY <1>1, Names DEF Linked

LEMMA CreateLinked ==
    ASSUME NEW t, Sound(t), NEW o \in NetTasks
    PROVE  Linked(t, Create(t, o))
<1>1. Sound(Create(t, o)) /\ Made(t, Create(t, o), o)
  BY CreateSound, Names
<1>2. Global(o) = o
  BY Names
<1> QED BY <1>1, <1>2, Names DEF Linked, Made

LEMMA LwipLinked ==
    ASSUME NEW t, Sound(t), NEW asked, NEW md, NEW nt
    PROVE  /\ Linked(t, CreateLink(t, asked, md, nt)) /\ Linked(t, CreateModbus(t, md))
           /\ Linked(t, CreateINet(t, nt)) /\ Linked(t, CreateLwipTcp(t, asked, md, nt))
<1>1. \A u : Sound(u) => /\ Linked(u, CreateLink(u, asked, md, nt))
                        /\ Linked(u, CreateModbus(u, md)) /\ Linked(u, CreateINet(u, nt))
  BY CreateLinked, LinkedSame, Names DEF CreateLink, CreateModbus, CreateINet
<1> DEFINE a == CreateLink(t, asked, md, nt)
           b == CreateModbus(a, md)
<1>2. Linked(t, a)
  BY <1>1
<1>3. Linked(a, b)
  BY <1>1, <1>2 DEF Linked
<1>4. Linked(b, CreateINet(b, nt))
  BY <1>1, <1>3 DEF Linked
<1> HIDE DEF a, b
<1>5. Linked(t, CreateINet(b, nt))
  BY <1>2, <1>3, <1>4, LinkedTwice
<1> QED BY <1>1, <1>5 DEF CreateLwipTcp, a, b

LEMMA RuniNetLinked == ASSUME NEW t, Sound(t) PROVE Linked(t, RuniNet(t))
  BY LwipLinked, LinkedSame DEF RuniNet

-----------------------------------------------------------------------------
(* What every handler does to the table.                                    *)

\* The studio's loops over the runners have got as far as next.
Created ==
    ~full =>
      /\ op = "end"   => \A i \in Idx : Live(Run(i)) <=> i < next
      /\ op = "stop"  => \A i \in Idx : i < next => Live(Run(i))
      /\ op = "start" => \A i \in Idx : ~Live(Run(i)) /\ (i < next => Live(Debug(i)))

OwnersInv ==
    /\ Sound(Table) /\ Created
    /\ op # "none" => next <= total
    /\ pc = "stop" => cur \in Idx

LEMMA BecomesTable == ASSUME NEW t \in Tables, Becomes(t) PROVE Table' = t
  BY DEF Becomes, Table, Tables

LEMMA TableParts == Table.slot = slot /\ Table.h = h /\ Table.full = full
  BY DEF Table

\* The network frames and main add network tasks and destroy at most what one
\* global names.
NetFrameStep ==
    \/ \E m \in BOOLEAN : ModbusEndFrame(m)
    \/ INetEndFrame \/ INetIPFrame

LEMMA NetFrameTable ==
    ASSUME Sound(Table), NetFrameStep
    PROVE  \E u : /\ Linked(Table, u)
                  /\ Table' = u \/ \E g \in {INet, Modbus} : Gone(u, Table', {u.h[g]})
<1>1. ASSUME NEW u, Linked(Table, u), NEW g \in {INet, Modbus}, Becomes(Destroy(u, g))
      PROVE  Gone(u, Table', {u.h[g]})
  <2>1. Gone(u, Destroy(u, g), {u.h[g]})
    BY <1>1, DestroySound DEF Linked
  <2> QED BY <1>1, <2>1, BecomesTable DEF Gone
<1>2. ASSUME NEW u, Linked(Table, u), Becomes(u)
      PROVE  Table' = u
  BY <1>2, BecomesTable DEF Linked, Sound
<1>3. ASSUME NEW m \in BOOLEAN, ModbusEndFrame(m)
      PROVE  \E u : Linked(Table, u) /\ Gone(u, Table', {u.h[INet]})
  <2> DEFINE u == IF m THEN CreateLwipTcp(Table, TRUE, TRUE, net) ELSE Table
  <2>1. Linked(Table, u)
    BY LwipLinked, LinkedSame
  <2>2. Becomes(Destroy(u, INet))
    BY <1>3 DEF ModbusEndFrame
  <2> HIDE DEF u
  <2> QED BY <2>1, <2>2, <1>1
<1>4. ASSUME INetEndFrame PROVE \E u : Linked(Table, u) /\ Gone(u, Table', {u.h[Modbus]})
  BY <1>4, RuniNetLinked, <1>1 DEF INetEndFrame
<1>5. ASSUME INetIPFrame PROVE \E u : Linked(Table, u) /\ Table' = u
  <2> DEFINE r == RuniNet(Table)
             u == IF modbusOn THEN CreateLwipTcp(r, TRUE, TRUE, net) ELSE r
  <2>1. Linked(Table, r)
    BY RuniNetLinked
  <2>2. Linked(Table, u)
    <3> HIDE DEF r
    <3>1. Sound(r)
      BY <2>1 DEF Linked
    <3>2. Linked(r, CreateLwipTcp(r, TRUE, TRUE, net))
      BY <3>1, LwipLinked
    <3> QED BY <2>1, <3>2, LinkedTwice
  <2>3. Becomes(u)
    BY <1>5 DEF INetIPFrame
  <2> HIDE DEF u
  <2> QED BY <2>2, <2>3, <1>2
<1> QED BY <1>3, <1>4, <1>5 DEF NetFrameStep

LEMMA MainTable ==
    ASSUME Sound(Table), StopRunner \/ DropLink \/ MakeLink \/ MakeModbus \/ MakeINet
    PROVE  \/ Linked(Table, Table')
           \/ DropLink /\ Gone(Table, Table', {h[Link]})
           \/ StopRunner /\ Gone(Table, Table', {h[Calc(cur)]})
<1>1. ASSUME NEW g, Becomes(Destroy(Table, g)) PROVE Gone(Table, Table', {h[g]})
  <2>1. Gone(Table, Destroy(Table, g), {h[g]})
    BY DestroySound, TableParts
  <2> QED BY <1>1, <2>1, BecomesTable DEF Gone
<1>2. ASSUME NEW u, Linked(Table, u), Becomes(u) PROVE Linked(Table, Table')
  BY <1>2, BecomesTable DEF Linked, Sound
<1> QED BY <1>1, <1>2, LwipLinked DEF StopRunner, DropLink, MakeLink, MakeModbus, MakeINet

-----------------------------------------------------------------------------
(* The specification.                                                       *)

\* A global keeps its value or gets a slot; the rest keeps its type.
LEMMA TypeStep ==
    ASSUME TypeOK, Table' \in Tables, pc = "stop" => cur \in Idx, [Next]_vars
    PROVE  TypeOK'
<1>1. slot' \in [Slots -> Owners \cup {None}] /\ h' \in [Globals -> Slots \cup {0}]
      /\ full' \in BOOLEAN
  BY DEF Table, Tables
<1>2. CASE RunnerFrames
  <2>1. CASE EndFrame \/ DebugStart \/ DebugStop \/ RunnersCreated
    BY <1>1, <2>1 DEF EndFrame, DebugStart, DebugStop, RunnersCreated, TypeOK, table, config,
       netcfg, main
  <2>2. CASE CreateRunner
    BY <1>1, <2>2 DEF CreateRunner, TypeOK, table, config, netcfg, main
  <2>3. ASSUME NEW c \in Configs, TaskDataFrame(c) PROVE TypeOK'
    <3>1. c.total \in 0 .. N /\ c.class \in [Idx -> {"init", "cycle"}]
      BY DEF Idx
    <3> QED BY <1>1, <2>3, <3>1 DEF TaskDataFrame, TypeOK, table, netcfg, host, main
  <2> QED BY <1>2, <2>1, <2>2, <2>3 DEF RunnerFrames
<1>3. CASE NetFrames
  <2>1. relink \in BOOLEAN /\ AskedAfterRuniNet \in BOOLEAN
    BY DEF TypeOK, AskedAfterRuniNet
  <2>2. ASSUME NEW m \in BOOLEAN, ModbusEndFrame(m) PROVE TypeOK'
    BY <1>1, <2>1, <2>2 DEF ModbusEndFrame, TypeOK, config, host, main
  <2>3. ASSUME NEW n \in INetModes, INetParaFrame(n) PROVE TypeOK'
    BY <1>1, <2>3 DEF INetParaFrame, TypeOK, table, config, host, main
  <2>4. CASE INetEndFrame
    BY <1>1, <2>1, <2>4 DEF INetEndFrame, TypeOK, config, host, main
  <2>5. CASE INetIPFrame
    BY <1>1, <2>1, <2>5 DEF INetIPFrame, TypeOK, config, host, main
  <2> QED BY <1>3, <2>2, <2>3, <2>4, <2>5 DEF NetFrames
<1>4. CASE Main
  <2>1. ASSUME NEW i \in Idx, RunOnce(i) PROVE TypeOK'
    BY <1>1, <2>1 DEF RunOnce, TypeOK, table, config, netcfg, host
  <2>2. CASE StopRunner \/ LinkUp \/ DropLink \/ LinkDown
    BY <1>1, <2>2 DEF StopRunner, LinkUp, DropLink, LinkDown, TypeOK, table, config, netcfg, host
  <2>3. CASE MakeLink \/ MakeModbus \/ MakeINet
    BY <1>1, <2>3 DEF MakeLink, MakeModbus, MakeINet, TypeOK, table, config, netcfg, host
  <2> QED BY <1>4, <2>1, <2>2, <2>3 DEF Main
<1>5. CASE UNCHANGED vars
  BY <1>5 DEF vars, table, config, netcfg, host, main, TypeOK
<1> QED BY <1>2, <1>3, <1>4, <1>5 DEF Next


\* A configured task is in the table or not, by its slot.
LEMMA LiveTable == \A o : Live(o) <=> \E s \in Slots : Table.slot[s] = o
  BY TableParts DEF Live

LEMMA LiveTableAfter ==
    ASSUME NEW u \in Tables, Becomes(u)
    PROVE  /\ Table' = u /\ full' = u.full
           /\ \A o : Live(o)' <=> \E s \in Slots : u.slot[s] = o
  BY BecomesTable DEF Live, Becomes

\* The loop that destroys the runners leaves none, unless Create_Task has failed.
LEMMA RunnersGoneAll ==
    ASSUME NEW t, Sound(t), ~t.full, NEW i \in Idx, NEW s \in Slots
    PROVE  DestroyRunners(t).slot[s] # Run(i)
<1> DEFINE D == {t.h[Calc(k)] : k \in Idx}
           u == DestroyRunners(t)
<1>1. Gone(t, u, D)
  BY RunnersSound
<1>2. ASSUME t.slot[s] = Run(i) PROVE s \in D
  <2>1. Run(i) \in Owners \ Debugs /\ Global(Run(i)) = Calc(i)
    BY Names DEF Runs
  <2>2. t.h[Calc(i)] = s
    BY <2>1, <1>2 DEF Sound, Named
  <2> QED BY <2>2
<1> HIDE DEF D, u
<1>3. u.slot[s] # Run(i)
  BY <1>1, <1>2, Names DEF Gone
<1> QED BY <1>3 DEF u

LEMMA EndFrameInv ==
    ASSUME TypeOK, OwnersInv, EndFrame \/ DebugStart
    PROVE  OwnersInv'
<1> DEFINE u == DestroyRunners(Table)
<1>1. Sound(u) /\ u.full = full
  BY RunnersSound, TableParts DEF OwnersInv, Gone
<1>2. Becomes(u) /\ op' \in {"end", "start"} /\ next' = 0 /\ UNCHANGED <<total, pc, cur>>
  BY DEF EndFrame, DebugStart, config, main
<1>3. ~full => \A i \in Idx, s \in Slots : u.slot[s] # Run(i)
  BY RunnersGoneAll, TableParts DEF OwnersInv
<1>4. Table' = u /\ full' = u.full /\ \A o : Live(o)' <=> \E s \in Slots : u.slot[s] = o
  <2> HIDE DEF u
  <2> QED BY <1>1, <1>2, LiveTableAfter DEF Sound
<1> HIDE DEF u
<1>5. Created'
  BY <1>1, <1>2, <1>3, <1>4 DEF Created, Idx
<1> QED BY <1>1, <1>2, <1>4, <1>5 DEF OwnersInv, TypeOK

LEMMA CreateRunnerInv ==
    ASSUME TypeOK, OwnersInv, CreateRunner
    PROVE  OwnersInv'
<1> DEFINE o == IF op = "start" THEN Debug(next) ELSE Run(next)
           u == Create(Table, o)
<1>1. next \in Idx /\ next < total /\ op # "none" /\ next' = next + 1
      /\ UNCHANGED <<op, total, pc, cur>>
  BY DEF CreateRunner, TypeOK, Idx, config, main
<1>2. o \in Owners /\ (o \in Debugs => op = "start")
  BY <1>1, Names DEF Runs
<1>3. o \in Debugs => (~full => \A s \in Slots : slot[s] \notin Runs)
  BY <1>2 DEF OwnersInv, Created, Live, Runs
<1>4. Sound(u) /\ Made(Table, u, o)
  <2> HIDE DEF o
  <2> QED BY <1>2, <1>3, CreateSound, TableParts DEF OwnersInv
<1>5. Becomes(u)
  BY DEF CreateRunner
<1> HIDE DEF u
<1>6. Table' = u /\ full' = u.full /\ \A p : Live(p)' <=> \E s \in Slots : u.slot[s] = p
  BY <1>4, <1>5, LiveTableAfter DEF Sound
<1>7. ASSUME ~full'
      PROVE  ~full /\ \A p \in Owners : Live(p)' <=> Live(p) \/ p = o
  <2> HIDE DEF o
  <2>1. ~full /\ u.h[Global(o)] \in Slots /\ u.slot[u.h[Global(o)]] = o
    BY <1>7, <1>6, <1>4, TableParts DEF Made
  <2>2. ASSUME NEW p \in Owners PROVE Live(p)' <=> Live(p) \/ p = o
    BY <1>6, <1>4, <2>1, LiveTable, Names DEF Made
  <2> QED BY <2>1, <2>2
<1>8. Created'
  <2> SUFFICES ASSUME ~full' PROVE Created'
    BY DEF Created
  <2>1. ~full /\ Created
    BY <1>7 DEF OwnersInv
  <2>2. CASE op = "start"
    <3>1. \A i \in Idx : ~Live(Run(i))'
      BY <2>1, <2>2, <1>1, <1>7, Names DEF Created
    <3>2. \A i \in Idx : i < next + 1 => Live(Debug(i))'
      BY <2>1, <2>2, <1>1, <1>7, Names DEF Created, Idx
    <3> QED BY <2>2, <3>1, <3>2, <1>1 DEF Created
  <2>3. CASE op # "start"
    <3>1. \A i \in Idx : Live(Run(i))' <=> Live(Run(i)) \/ i = next
      BY <2>3, <1>1, <1>7, Names
    <3>2. \A i \in Idx : i < next + 1 <=> i < next \/ i = next
      BY <1>1 DEF Idx
    <3> QED BY <2>1, <2>3, <3>1, <3>2, <1>1 DEF Created
  <2> QED BY <2>2, <2>3
<1> QED BY <1>1, <1>4, <1>6, <1>8 DEF OwnersInv, TypeOK


\* Network tasks come and go without touching a runner's place in Created;
\* they are created and destroyed only between two downloads.
LEMMA QuietInv ==
    ASSUME TypeOK, OwnersInv, Sound(Table'), op' = "none", pc' = "stop" => cur' \in Idx
    PROVE  OwnersInv'
  BY DEF OwnersInv, Created

LEMMA NetFramesInv ==
    ASSUME TypeOK, OwnersInv, NetFrames
    PROVE  OwnersInv'
<1>1. op = "none" /\ op' = "none" /\ UNCHANGED <<pc, cur>>
  BY DEF NetFrames, ModbusEndFrame, INetParaFrame, INetEndFrame, INetIPFrame, host, main
<1>2. Sound(Table')
  <2>1. CASE NetFrameStep
    <3>1. PICK u : /\ Linked(Table, u)
                   /\ Table' = u \/ \E g \in {INet, Modbus} : Gone(u, Table', {u.h[g]})
      <4>1. Sound(Table)
        BY DEF OwnersInv
      <4> QED BY <2>1, <4>1, NetFrameTable
    <3>2. Sound(u)
      BY <3>1 DEF Linked
    <3>3. CASE Table' = u
      BY <3>2, <3>3
    <3>4. ASSUME NEW g \in {INet, Modbus}, Gone(u, Table', {u.h[g]}) PROVE Sound(Table')
      BY <3>2, <3>4, GoneSound
    <3> QED BY <3>1, <3>3, <3>4
  <2>2. ASSUME NEW n \in INetModes, INetParaFrame(n) PROVE Sound(Table')
    BY <2>2 DEF INetParaFrame, table, Table, OwnersInv
  <2> QED BY <2>1, <2>2 DEF NetFrames, NetFrameStep
<1> QED BY <1>1, <1>2, QuietInv DEF OwnersInv

LEMMA MainInv ==
    ASSUME TypeOK, OwnersInv, Main
    PROVE  OwnersInv'
<1>1. op' = "none" /\ (pc' = "stop" => cur' \in Idx)
  BY DEF Main, RunOnce, StopRunner, LinkUp, DropLink, LinkDown, MakeLink, MakeModbus,
         MakeINet, host
<1>2. Sound(Table')
  <2>1. CASE StopRunner \/ DropLink \/ MakeLink \/ MakeModbus \/ MakeINet
    BY <2>1, MainTable, GoneSound DEF Linked, OwnersInv
  <2>2. CASE LinkUp \/ LinkDown \/ \E i \in Idx : RunOnce(i)
    BY <2>2 DEF LinkUp, LinkDown, RunOnce, table, Table, OwnersInv
  <2> QED BY <2>1, <2>2 DEF Main
<1> QED BY <1>1, <1>2, QuietInv

LEMMA StepInv ==
    ASSUME TypeOK, OwnersInv, [Next]_vars
    PROVE  TypeOK' /\ OwnersInv'
<1>1. OwnersInv'
  <2>1. CASE EndFrame \/ DebugStart
    BY <2>1, EndFrameInv
  <2>2. CASE DebugStop
    BY <2>2 DEF DebugStop, OwnersInv, Created, Table, Live, table, config, main, TypeOK, Idx
  <2>3. CASE CreateRunner
    BY <2>3, CreateRunnerInv
  <2>4. CASE RunnersCreated \/ \E c \in Configs : TaskDataFrame(c)
    BY <2>4 DEF RunnersCreated, TaskDataFrame, OwnersInv, Created, Table, table, main, host
  <2>5. CASE NetFrames \/ Main
    BY <2>5, NetFramesInv, MainInv
  <2>6. CASE UNCHANGED vars
    BY <2>6 DEF vars, table, config, host, main, OwnersInv, Created, Table, Live
  <2> QED BY <2>1, <2>2, <2>3, <2>4, <2>5, <2>6 DEF Next, RunnerFrames
<1> QED BY <1>1, TypeStep DEF OwnersInv, Sound

LEMMA InitInv == Init => TypeOK /\ OwnersInv
<1> SUFFICES ASSUME Init PROVE TypeOK /\ OwnersInv
  OBVIOUS
<1> DEFINE u == CreateLwipTcp(Empty, TRUE, modbusOn, net)
<1>1. Sound(Empty)
  BY Names DEF Sound, Tables, Once, Named, Empty
<1>2. Linked(Empty, u)
  BY <1>1, LwipLinked
<1>3. slot = u.slot /\ h = u.h /\ full = u.full /\ op = "end" /\ next = 0 /\ pc = "idle"
  BY DEF Init
<1> HIDE DEF u
<1>4. Table = u /\ u \in Tables
  BY <1>2, <1>3 DEF Table, Linked, Sound, Tables
<1>5. \A i \in Idx : ~Live(Run(i))
  BY <1>2, <1>4, LiveTable, Names DEF Linked, Empty
<1>6. PICK c \in Configs : total = c.total /\ class = c.class
  BY DEF Init
<1>7. total \in 0 .. N /\ class \in [Idx -> {"init", "cycle"}]
  BY <1>6 DEF Idx
<1>8. TypeOK
  <2>1. slot \in [Slots -> Owners \cup {None}] /\ h \in [Globals -> Slots \cup {0}]
        /\ full \in BOOLEAN
    BY <1>4 DEF Table, Tables
  <2>2. modbusOn \in BOOLEAN /\ net \in INetModes
    BY DEF Init
  <2>3. relink \in BOOLEAN
    BY DEF Init, LinkWanted
  <2>4. op = "end" /\ next = 0 /\ pc = "idle" /\ cur = 0
    BY DEF Init
  <2> QED BY <2>1, <2>2, <2>3, <2>4, <1>7 DEF TypeOK
<1>9. OwnersInv
  BY <1>2, <1>3, <1>4, <1>5, <1>7 DEF OwnersInv, Created, Idx, Linked
<1> QED BY <1>8, <1>9

LEMMA OwnersAlways == Spec => [](TypeOK /\ OwnersInv)
<1>1. TypeOK /\ OwnersInv /\ [Next]_vars => TypeOK' /\ OwnersInv'
  BY StepInv
<1> QED BY <1>1, InitInv, PTL DEF Spec

\* Every global that keeps a handle keeps one of this table or none.
THEOREM TypeCorrect == Spec => []TypeOK
  BY OwnersAlways, PTL

\* Whoever asks Create_Task for a task and however often, the studio between
\* any two steps of main: no task gets two slots.
THEOREM OneSlotCorrect == Spec => []OneSlotEach
<1>1. OwnersInv => OneSlotEach
  BY TableParts DEF OwnersInv, Sound, Once, OneSlotEach
<1> QED BY <1>1, OwnersAlways, PTL

\* Every task but the debug runners can be reached through its global, until
\* the table has been full.
THEOREM HeldCorrect == Spec => []Held
<1>1. OwnersInv => Held
  <2> SUFFICES ASSUME OwnersInv, ~full, NEW o \in Owners \ Debugs, Live(o)
               PROVE  h[Global(o)] # 0 /\ slot[h[Global(o)]] = o
    BY DEF Held
  <2>1. PICK s \in Slots : slot[s] = o
    BY DEF Live
  <2>2. h[Global(o)] = s
    BY <2>1, TableParts DEF OwnersInv, Sound, Named
  <2> QED BY <2>1, <2>2 DEF Slots
<1> QED BY <1>1, OwnersAlways, PTL

\* When Create_Idataconf is done, exactly the configured tasks run.
THEOREM InstalledCorrect == Spec => Installed
<1> DEFINE Right ==
      op # "none" /\ op' = "none" /\ ~full =>
         /\ op = "end" => \A i \in Idx : Live(Run(i)) <=> i < total
         /\ op = "stop" => \A i \in 0 .. total - 1 : Live(Run(i))
         /\ op = "start" => /\ \A i \in Idx : ~Live(Run(i))
                            /\ \A i \in 0 .. total - 1 : Live(Debug(i))
<1>1. TypeOK /\ OwnersInv /\ [Next]_vars => [Right]_vars
  <2> SUFFICES ASSUME TypeOK, OwnersInv, Next, op # "none", op' = "none", ~full
               PROVE  Right
    OBVIOUS
  <2>1. next = total
    <3>1. RunnersCreated
      BY DEF Next, RunnerFrames, NetFrames, Main, EndFrame, DebugStart, DebugStop,
             CreateRunner, TaskDataFrame, ModbusEndFrame, INetParaFrame, INetEndFrame,
             INetIPFrame, RunOnce, StopRunner, LinkUp, DropLink, LinkDown, MakeLink,
             MakeModbus, MakeINet
    <3> QED BY <3>1 DEF RunnersCreated
  <2>2. 0 .. total - 1 \subseteq Idx /\ \A i \in 0 .. total - 1 : i < total
    BY DEF TypeOK, Idx
  <2> QED BY <2>1, <2>2 DEF OwnersInv, Created
<1>2. Spec => [][Right]_vars
  BY <1>1, OwnersAlways, PTL DEF Spec
<1> QED BY <1>2 DEF Installed


\* With one Ethernet port, an end frame of either protocol stops the other.
THEOREM ExclusiveCorrect == Spec => ExclusiveAtEnd
<1> DEFINE Right == (INetEndFrame \/ \E m \in BOOLEAN : ModbusEndFrame(m)) /\ ~full'
                       => ~(Live(Modbus)' /\ Live(INet)')
<1>1. TypeOK /\ OwnersInv /\ [Next]_vars => [Right]_vars
  <2>1. ASSUME OwnersInv, ~full', NEW u, Linked(Table, u), NEW g \in NetTasks, Becomes(Destroy(u, g))
        PROVE  ~Live(g)'
    <3>1. Gone(u, Destroy(u, g), {u.h[g]})
      BY <2>1, DestroySound DEF Linked
    <3>2. /\ full' = u.full
          /\ Live(g)' <=> \E s \in Slots : Destroy(u, g).slot[s] = g
      BY <3>1, <2>1, LiveTableAfter DEF Gone
    <3>3. ASSUME NEW s \in Slots, u.slot[s] = g PROVE s = u.h[g]
      BY <3>2, <3>3, <2>1, Names DEF Linked, Sound, Named
    <3> QED BY <3>1, <3>2, <3>3, Names DEF Gone
  <2>2. ASSUME OwnersInv, ~full', NEW m \in BOOLEAN, ModbusEndFrame(m) PROVE ~Live(INet)'
    <3> DEFINE u == IF m THEN CreateLwipTcp(Table, TRUE, TRUE, net) ELSE Table
    <3>1. Linked(Table, u)
      BY <2>2, LwipLinked, LinkedSame DEF OwnersInv
    <3>2. Becomes(Destroy(u, INet))
      BY <2>2 DEF ModbusEndFrame
    <3> HIDE DEF u
    <3> QED BY <2>1, <2>2, <3>1, <3>2, Names
  <2>3. ASSUME OwnersInv, ~full', INetEndFrame PROVE ~Live(Modbus)'
    <3>1. Linked(Table, RuniNet(Table)) /\ Becomes(Destroy(RuniNet(Table), Modbus))
      BY <2>3, RuniNetLinked DEF OwnersInv, INetEndFrame
    <3> QED BY <2>1, <2>3, <3>1, Names
  <2> QED BY <2>2, <2>3
<1>2. Spec => [][Right]_vars
  BY <1>1, OwnersAlways, PTL DEF Spec
<1> QED BY <1>2 DEF ExclusiveAtEnd

-----------------------------------------------------------------------------
(* Who may stop a cyclic runner.                                            *)

\* Making a network task takes no runner out; destroying by a handle takes a
\* runner out only if the handle is its own or stale.
LEMMA LinkedKeepsRunner ==
    ASSUME NEW u, Linked(Table, u), NEW i \in Idx, Live(Run(i))
    PROVE  \E s \in Slots : slot[s] = Run(i) /\ u.slot[s] = Run(i)
<1>1. PICK s \in Slots : slot[s] = Run(i)
  BY DEF Live
<1> QED BY <1>1, TableParts, Names DEF Linked

LEMMA StopsStale ==
    ASSUME NEW u, Linked(Table, u), NEW i \in Idx, Live(Run(i)), ~Live(Run(i))',
           NEW g \in NetTasks, Gone(u, Table', {u.h[g]})
    PROVE  Stale(g) /\ slot[h[g]] = Run(i)
<1>1. PICK s \in Slots : slot[s] = Run(i) /\ u.slot[s] = Run(i)
  BY LinkedKeepsRunner
<1>2. slot'[s] # Run(i) /\ slot' = Table'.slot
  BY DEF Live, Table
<1>3. s = u.h[g]
  BY <1>1, <1>2 DEF Gone
<1>4. s = h[g]
  BY <1>1, <1>3, TableParts, Names DEF Linked, Slots
<1>5. s # 0 /\ Run(i) # None /\ Global(Run(i)) # g
  BY Names DEF Slots
<1> QED BY <1>1, <1>4, <1>5 DEF Stale

LEMMA StopsOwn ==
    ASSUME NEW i \in Idx, Live(Run(i)), ~Live(Run(i))', cur \in Idx, cur # i,
           Gone(Table, Table', {h[Calc(cur)]})
    PROVE  Stale(Calc(cur))
<1>1. PICK s \in Slots : slot[s] = Run(i)
  BY DEF Live
<1>2. slot'[s] # Run(i) /\ slot' = Table'.slot
  BY <1>1 DEF Live, Table
<1>3. s = h[Calc(cur)]
  BY <1>1, <1>2, TableParts DEF Gone
<1>4. s # 0 /\ Run(i) # None /\ Global(Run(i)) # Calc(cur)
  BY Names DEF Slots
<1> QED BY <1>1, <1>3, <1>4 DEF Stale

\* A cyclic runner stops with an end frame or the start of debugging, with main
\* stopping it or the task whose place it took, or with a network frame whose
\* handle is stale.
THEOREM StoppedCorrect == Spec => StoppedByStudio
<1> DEFINE Cause(i) == \/ op' \in {"end", "start"}
                       \/ pc = "stop" /\ (cur = i \/ Stale(Calc(cur)))
                       \/ \E g \in NetTasks : Stale(g) /\ slot[h[g]] = Run(i)
           Right == \A i \in Idx :
                       Live(Run(i)) /\ ~Live(Run(i))' /\ class[i] = "cycle" => Cause(i)
<1>1. TypeOK /\ OwnersInv /\ [Next]_vars => [Right]_vars
  <2> SUFFICES ASSUME TypeOK, OwnersInv, Next, NEW i \in Idx, Live(Run(i)), ~Live(Run(i))'
               PROVE  Cause(i)
    OBVIOUS
  <2>1. ASSUME NEW u, Linked(Table, u), Table' = u PROVE FALSE
    <3>1. PICK s \in Slots : u.slot[s] = Run(i)
      BY <2>1, LinkedKeepsRunner
    <3>2. slot' = u.slot
      BY <2>1 DEF Table
    <3> QED BY <3>1, <3>2 DEF Live
  <2>2. ASSUME slot' = slot PROVE FALSE
    BY <2>2 DEF Live
  <2>3. CASE RunnerFrames
    <3>1. CASE CreateRunner /\ op = "stop"
      <4> DEFINE u == Create(Table, Run(next))
      <4>1. Run(next) \in Owners /\ Run(next) \notin Debugs
        BY <3>1, Names DEF CreateRunner, TypeOK, Idx, Runs
      <4>2. Sound(u) /\ Made(Table, u, Run(next)) /\ Becomes(u)
        BY <3>1, <4>1, CreateSound DEF OwnersInv, CreateRunner
      <4> HIDE DEF u
      <4>3. PICK s \in Slots : slot[s] = Run(i)
        BY DEF Live
      <4>4. u.slot[s] = Run(i)
        BY <4>2, <4>3, TableParts, Names DEF Made
      <4> QED BY <4>2, <4>4 DEF Becomes, Live
    <3>2. CASE CreateRunner /\ op # "stop"
      BY <3>2 DEF CreateRunner, TypeOK
    <3>3. CASE EndFrame \/ DebugStart
      BY <3>3 DEF EndFrame, DebugStart
    <3>4. CASE DebugStop \/ RunnersCreated \/ \E c \in Configs : TaskDataFrame(c)
      BY <3>4, <2>2 DEF DebugStop, RunnersCreated, TaskDataFrame, table
    <3> QED BY <2>3, <3>1, <3>2, <3>3, <3>4 DEF RunnerFrames
  <2>4. CASE NetFrames
    <3>1. CASE NetFrameStep
      <4>1. Sound(Table)
        BY DEF OwnersInv
      <4>2. PICK u : /\ Linked(Table, u)
                     /\ Table' = u \/ \E g \in {INet, Modbus} : Gone(u, Table', {u.h[g]})
        BY <3>1, <4>1, NetFrameTable
      <4>3. PICK g \in {INet, Modbus} : Gone(u, Table', {u.h[g]})
        BY <4>2, <2>1
      <4>4. g \in NetTasks
        BY <4>3, Names
      <4>5. Stale(g) /\ slot[h[g]] = Run(i)
        BY <4>2, <4>3, <4>4, StopsStale
      <4> QED BY <4>4, <4>5
    <3>2. ASSUME NEW n \in INetModes, INetParaFrame(n) PROVE FALSE
      BY <3>2, <2>2 DEF INetParaFrame, table
    <3> QED BY <2>4, <3>1, <3>2 DEF NetFrames, NetFrameStep
  <2>5. CASE Main
    <3>1. CASE StopRunner \/ DropLink \/ MakeLink \/ MakeModbus \/ MakeINet
      <4>1. CASE DropLink /\ Gone(Table, Table', {h[Link]})
        <5>1. Linked(Table, Table)
          BY LinkedSame DEF OwnersInv
        <5>2. Gone(Table, Table', {Table.h[Link]})
          BY <4>1, TableParts
        <5>3. Stale(Link) /\ slot[h[Link]] = Run(i)
          BY <5>1, <5>2, StopsStale, Names
        <5> QED BY <5>3, Names
      <4>2. CASE StopRunner /\ Gone(Table, Table', {h[Calc(cur)]})
        BY <4>2, StopsOwn DEF StopRunner, OwnersInv
      <4> QED BY <3>1, <4>1, <4>2, <2>1, MainTable DEF OwnersInv
    <3>2. CASE LinkUp \/ LinkDown \/ \E k \in Idx : RunOnce(k)
      BY <3>2, <2>2 DEF LinkUp, LinkDown, RunOnce, table
    <3> QED BY <2>5, <3>1, <3>2 DEF Main
  <2> QED BY <2>3, <2>4, <2>5 DEF Next
<1>2. Spec => [][Right]_vars
  BY <1>1, OwnersAlways, PTL DEF Spec
<1> QED BY <1>2 DEF StoppedByStudio

=============================================================================
