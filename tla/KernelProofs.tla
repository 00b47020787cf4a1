---------------------------- MODULE KernelProofs ----------------------------
(* Proofs about the kernel, for every size of the task table and every set  *)
(* of task descriptors.                                                     *)
EXTENDS Kernel, FiniteSetTheorems, TLAPS

USE SizeAssumption, DescAssumption

-----------------------------------------------------------------------------
(* Arithmetic of slots and types.                                           *)

\* A product with a larger factor is at least a whole row larger.
LEMMA RowsApart ==
    ASSUME NEW a \in Int, NEW b \in Int, a < b
    PROVE  PerType * (a + 1) <= PerType * b
<1>1. PICK c \in Nat : b = a + 1 + c
  <2>1. b - a - 1 \in Nat /\ b = a + 1 + (b - a - 1)
    OBVIOUS
  <2> QED BY <2>1
<1>2. PerType * b = PerType * (a + 1) + PerType * c
  BY <1>1
<1>3. PerType * c >= 0
  BY <1>1
<1> QED BY <1>2, <1>3

\* The ranges of slots of two types have no slot in common.
LEMMA RowUnique ==
    ASSUME NEW s \in Int, NEW t \in Int, NEW u \in Int, s \in SlotsOf(t), s \in SlotsOf(u)
    PROVE  t = u
<1>1. ~(t < u)
  BY RowsApart DEF SlotsOf
<1>2. ~(u < t)
  BY RowsApart DEF SlotsOf
<1> QED BY <1>1, <1>2

LEMMA RowOfSlot ==
    ASSUME NEW s \in Slots
    PROVE  TypeOf(s) \in Types /\ s \in SlotsOf(TypeOf(s))
<1> DEFINE q == s \div PerType
<1>1. q \in Int /\ PerType * q <= s /\ s < PerType * q + PerType
  BY DEF Slots
<1>2. q >= 0
  <2>1. ASSUME q < 0 PROVE FALSE
    <3>1. PerType * (q + 1) <= PerType * 0
      BY RowsApart, <2>1, <1>1
    <3> QED BY <3>1, <1>1 DEF Slots
  <2> QED BY <2>1, <1>1
<1>3. q < MaxType
  <2>1. ASSUME MaxType <= q PROVE FALSE
    <3>1. PerType * MaxType <= PerType * q
      <4>1. CASE MaxType = q
        BY <4>1
      <4>2. CASE MaxType < q
        <5>1. PerType * (MaxType + 1) <= PerType * q
          BY RowsApart, <1>1, <4>2
        <5>2. PerType * (MaxType + 1) = PerType * MaxType + PerType
          OBVIOUS
        <5> QED BY <5>1, <5>2, <1>1
      <4> QED BY <4>1, <4>2, <2>1, <1>1
    <3> QED BY <3>1, <1>1 DEF Slots, MaxTask
  <2> QED BY <2>1, <1>1
<1>4. PerType * (q + 1) = PerType * q + PerType
  BY <1>1
<1> QED BY <1>1, <1>2, <1>3, <1>4 DEF TypeOf, Types, SlotsOf, Slots

LEMMA RowInTable ==
    ASSUME NEW t \in Types
    PROVE  SlotsOf(t) \subseteq Slots
<1>1. PerType * t >= 0
  BY DEF Types
<1>2. PerType * (t + 1) <= PerType * MaxType
  BY RowsApart DEF Types
<1>3. PerType * t \in Int /\ PerType * (t + 1) \in Int
  BY DEF Types
<1> QED BY <1>1, <1>2, <1>3 DEF SlotsOf, Slots, MaxTask

LEMMA RowSize ==
    ASSUME NEW t \in Types
    PROVE  IsFiniteSet(SlotsOf(t)) /\ Cardinality(SlotsOf(t)) = PerType
<1>1. PerType * t \in Int /\ PerType * (t + 1) \in Int /\ PerType * (t + 1) = PerType * t + PerType
  BY DEF Types
<1>2. PICK a \in Int, b \in Int : a = PerType * t /\ b = PerType * (t + 1) - 1
  BY <1>1
<1>3. b = a + PerType - 1
  BY <1>1, <1>2
<1>4. IsFiniteSet(a .. b) /\ Cardinality(a .. b) = PerType
  BY <1>3, FS_Interval
<1> QED BY <1>2, <1>4 DEF SlotsOf

\* A type's row is the set of the slots of that type.
LEMMA RowIsType ==
    ASSUME NEW s \in Slots, NEW t \in Types
    PROVE  s \in SlotsOf(t) <=> t = TypeOf(s)
<1>1. s \in Int /\ t \in Int /\ TypeOf(s) \in Int
  BY RowOfSlot DEF Slots, Types
<1> QED BY <1>1, RowOfSlot, RowUnique

LEMMA SlotsFinite ==
    IsFiniteSet(Slots) /\ Cardinality(Slots) = MaxTask /\ MaxTask \in Nat \ {0}
<1>1. MaxTask \in Nat \ {0}
  BY DEF MaxTask
<1> QED BY <1>1, FS_Interval DEF Slots


-----------------------------------------------------------------------------
(* Type correctness.                                                        *)

LEMMA TicksType ==
    ASSUME TypeOK, NEW s \in Slots
    PROVE  Cardinality(Registered(s)) \in Nat
<1>1. IsFiniteSet(0 .. nUp - 1)
  BY FS_Interval DEF TypeOK
<1>2. Registered(s) \in SUBSET (0 .. nUp - 1)
  BY DEF Registered
<1> QED BY <1>1, <1>2, FS_Subset, FS_CardinalityType

LEMMA AdvanceType ==
    ASSUME TypeOK, NEW s \in Slots
    PROVE  Advance(s) \in Nat
<1>1. stepTask # None => DescTimer[stepTask] \in Nat
  BY DEF TypeOK
<1>2. Cardinality(Registered(s)) \in Nat
  BY TicksType
<1> QED BY <1>1, <1>2 DEF Advance, StepSlot

LEMMA CursorType ==
    ASSUME TypeOK
    PROVE  cursor \in Slots /\ NextSlot(cursor) \in SlotsOf(LoopType)
<1>1. PerType * LoopType \in Int /\ PerType * (LoopType + 1) = PerType * LoopType + PerType
  BY DEF Types
<1> QED BY <1>1, RowInTable DEF TypeOK, NextSlot, SlotsOf

\* Before the first step every variable has its type.
LEMMA TypeInit == Init => TypeOK
<1>1. PerType * LoopType \in Int /\ PerType * (LoopType + 1) = PerType * LoopType + PerType
  BY DEF Types
<1>2. PerType * LoopType \in SlotsOf(LoopType)
  BY <1>1 DEF SlotsOf
<1>3. MaxTask \in Nat \ {0}
  BY SlotsFinite
<1> SUFFICES ASSUME Init PROVE TypeOK
  OBVIOUS
<1> USE DEF Init
<1>4. /\ handle \in [Slots -> 0 .. MaxTask] /\ \A s \in Slots : handle[s] \in {0, s + 1}
      /\ status \in [Slots -> Statuses] /\ task \in [Slots -> Descs \cup {None}]
      /\ ticks \in [Slots -> 0 .. MaxCount] /\ count \in [Types -> Int]
  BY <1>3 DEF Statuses
<1>5. upList \in [Places -> Slots \cup {NoSlot}] /\ nUp \in 0 .. MaxCounter /\ j \in 0 .. MaxCounter
  BY DEF Places
<1>6. pc \in PCs /\ pc \notin EditSteps /\ pc \notin CreateSteps /\ pc \notin AddSteps
  BY DEF PCs, EditSteps, CreateSteps, AddSteps
<1>7. cursor \in SlotsOf(LoopType)
  BY <1>2
<1> QED BY <1>4, <1>5, <1>6, <1>7 DEF TypeOK

\* Every step keeps the types.
LEMMA TypeStep == TypeOK /\ [Next]_vars => TypeOK'
<1> SUFFICES ASSUME TypeOK, [Next]_vars PROVE TypeOK'
  OBVIOUS
<1> USE DEF TypeOK, PCs, EditSteps, RunSteps, CreateSteps, AddSteps, Statuses, OwnerAfter, table, list, flags, main
<1>a. MaxTask \in Nat \ {0} /\ \A s \in Slots : s + 1 \in 0 .. MaxTask /\ s + 1 # 0
  BY SlotsFinite DEF Slots
<1>1. CASE UNCHANGED vars
  BY <1>1 DEF vars
<1>2. ASSUME NEW d \in Descs, CreateCheck(d) PROVE TypeOK'
  BY <1>2 DEF CreateCheck
<1>3. CASE CreateWrite
  BY <1>3, <1>a DEF CreateWrite
<1>4. CASE AddInc
  BY <1>4 DEF AddInc
<1>5. CASE AddStore
  BY <1>5 DEF AddStore, Places
<1>6. CASE CreateCopy
  BY <1>6 DEF CreateCopy
<1>7. CASE CreateCount
  BY <1>7 DEF CreateCount
<1>8. ASSUME NEW s \in Slots, DestroyCheck(s) PROVE TypeOK'
  BY <1>8 DEF DestroyCheck, Registered
<1>9. CASE DeleteShift
  <2>1. Entry(j + 1) \in Slots \cup {NoSlot}
    BY DEF Entry
  <2>2. j < nUp => j + 1 \in 0 .. MaxCounter
    OBVIOUS
  <2> QED BY <1>9, <2>1, <2>2 DEF DeleteShift
<1>10. CASE DestroyZero
  BY <1>10, <1>a DEF DestroyZero
<1>11. CASE DestroyCount
  BY <1>11, RowOfSlot DEF DestroyCount
<1>12. ASSUME NEW s \in Slots, NEW w \in {"NORMAL", "SUSPEND"}, SetStatus(s, w) PROVE TypeOK'
  BY <1>12 DEF SetStatus
<1>13. CASE BootDone
  BY <1>13 DEF BootDone
<1>14. CASE RunLookup
  BY <1>14, CursorType DEF RunLookup
<1>15. CASE RunCompare \/ RunCall \/ FaultISR
  BY <1>15, CursorType DEF RunCompare, RunCall, FaultISR, vars
<1>16. CASE RunReturn
  <2>1. Period(cursor) \in 0 .. MaxCount
    BY CursorType DEF Period
  <2> QED BY <1>16, <2>1, CursorType DEF RunReturn
<1>17. CASE Tick
  <2>1. \A s \in Slots : Advance(s) \in Nat
    BY AdvanceType
  <2>2. \A s \in Slots : Min2(MaxCount, ticks[s] + Advance(s)) \in 0 .. MaxCount
    BY <2>1 DEF Min2
  <2> QED BY <1>17, <2>2 DEF Tick
<1>18. CASE HostEnter \/ HostLeave
  <2>1. isr' \in BOOLEAN /\ UNCHANGED <<table, list, flags, main, owner, torn>>
    BY <1>18 DEF HostEnter, HostLeave
  <2> QED BY <2>1
<1>19. CASE HostPause \/ HostRun
  BY <1>19 DEF HostPause, HostRun
<1>20. ASSUME NEW d \in Descs, HostCreate(d) PROVE TypeOK'
  <2>1. PICK s \in Slots :
          /\ handle' = [handle EXCEPT ![s] = s + 1]
          /\ status' = [status EXCEPT ![s] = "NORMAL"]
          /\ ticks'  = [ticks  EXCEPT ![s] = DescCounter[d]]
          /\ task'   = [task   EXCEPT ![s] = d]
          /\ owner'  = OwnerAfter(s, "new")
          /\ IF nUp < MaxCounter
             THEN upList' = [upList EXCEPT ![nUp] = s] /\ nUp' = nUp + 1
             ELSE UNCHANGED list
    BY <1>20 DEF HostCreate
  <2>2. upList' \in [Places -> Slots \cup {NoSlot}] /\ nUp' \in 0 .. MaxCounter
    <3>1. CASE nUp < MaxCounter
      <4>1. nUp \in Places
        BY <3>1 DEF Places
      <4> QED BY <2>1, <3>1, <4>1
    <3>2. CASE ~(nUp < MaxCounter)
      BY <2>1, <3>2
    <3> QED BY <3>1, <3>2
  <2> QED BY <1>20, <2>1, <2>2, <1>a DEF HostCreate
<1>21. ASSUME NEW d \in Descs, HostStep(d) PROVE TypeOK'
  BY <1>21 DEF HostStep
<1>22. ASSUME NEW s \in Slots, HostDestroy(s) PROVE TypeOK'
  <2>1. \A i, n \in Int : Shifted(i, n) \in [Places -> Slots \cup {NoSlot}]
    BY DEF Shifted, Entry
  <2>2. Registered(s) \subseteq 0 .. nUp - 1
    BY DEF Registered
  <2>3. upList' \in [Places -> Slots \cup {NoSlot}] /\ nUp' \in 0 .. MaxCounter
    <3>1. upList' = upList \/ \E i \in Registered(s) : upList' = Shifted(i, nUp - 1)
      BY <1>22 DEF HostDestroy
    <3>2. nUp' = nUp \/ (nUp' = nUp - 1 /\ Registered(s) # {})
      BY <1>22 DEF HostDestroy
    <3>3. nUp \in 0 .. MaxCounter /\ upList \in [Places -> Slots \cup {NoSlot}]
      OBVIOUS
    <3>4. upList' \in [Places -> Slots \cup {NoSlot}]
      BY <3>1, <3>3, <2>1, <2>2
    <3>5. nUp' \in 0 .. MaxCounter
      BY <3>2, <3>3, <2>2
    <3> QED BY <3>4, <3>5
  <2>4. TypeOf(s) \in Types
    BY RowOfSlot
  <2> QED BY <1>22, <2>3, <2>4, <1>a DEF HostDestroy
<1> QED BY <1>1, <1>2, <1>3, <1>4, <1>5, <1>6, <1>7, <1>8, <1>9, <1>10, <1>11, <1>12, <1>13, <1>14,
           <1>15, <1>16, <1>17, <1>18, <1>19, <1>20, <1>21, <1>22
        DEF Next, MainCreate, MainDestroy, MainStatus, MainRun, Host

\* Every handle is 0 or its slot's own, and every variable has its type, in
\* every reachable state.
THEOREM TypeCorrect == Spec => []TypeOK
<1>1. Init => TypeOK
  BY TypeInit
<1>2. TypeOK /\ [Next]_vars => TypeOK'
  BY TypeStep
<1> QED BY <1>1, <1>2, PTL DEF Spec

-----------------------------------------------------------------------------
(* The inductive invariant: what the table, the counts and the list of up   *)
(* counters have to do with each other at every step of an edit.            *)

TableInv == EditOK /\ ListOK /\ CountOK /\ TaskOK /\ UniqueOK

IInv == TypeOK /\ (~torn => TableInv)

LEMMA LiveFinite ==
    ASSUME NEW t \in Types
    PROVE  IsFiniteSet(Live \cap SlotsOf(t)) /\ Cardinality(Live \cap SlotsOf(t)) \in Nat
<1>1. Live \cap SlotsOf(t) \in SUBSET SlotsOf(t)
  OBVIOUS
<1> QED BY <1>1, RowSize, FS_Subset, FS_CardinalityType

\* A slot that is claimed adds one to its type and nothing to another.
LEMMA LiveAdd ==
    ASSUME TypeOK, NEW s \in Slots, handle[s] = 0, handle' = [handle EXCEPT ![s] = s + 1],
           NEW t \in Types
    PROVE  Cardinality(Live' \cap SlotsOf(t)) =
               Cardinality(Live \cap SlotsOf(t)) + (IF s \in SlotsOf(t) THEN 1 ELSE 0)
<1>1. s \notin Live /\ Live' = Live \cup {s}
  BY DEF Live, TypeOK, Slots
<1>2. CASE s \in SlotsOf(t)
  <2>1. Live' \cap SlotsOf(t) = (Live \cap SlotsOf(t)) \cup {s}
    BY <1>1, <1>2
  <2>2. Cardinality((Live \cap SlotsOf(t)) \cup {s}) = Cardinality(Live \cap SlotsOf(t)) + 1
    <3>1. IsFiniteSet(Live \cap SlotsOf(t)) /\ s \notin Live \cap SlotsOf(t)
      BY <1>1, LiveFinite
    <3> QED BY <3>1, FS_AddElement, Zenon
  <2> QED BY <2>1, <2>2, <1>2
<1>3. CASE s \notin SlotsOf(t)
  <2>1. Live' \cap SlotsOf(t) = Live \cap SlotsOf(t)
    BY <1>1, <1>3
  <2>2. Cardinality(Live' \cap SlotsOf(t)) = Cardinality(Live \cap SlotsOf(t))
    BY <2>1, Zenon
  <2>3. Cardinality(Live \cap SlotsOf(t)) \in Nat
    BY LiveFinite
  <2> QED BY <2>2, <2>3, <1>3
<1> QED BY <1>2, <1>3

\* A slot that is zeroed takes one from its type and nothing from another.
LEMMA LiveRemove ==
    ASSUME TypeOK, NEW s \in Slots, handle[s] # 0, handle' = [handle EXCEPT ![s] = 0],
           NEW t \in Types
    PROVE  Cardinality(Live' \cap SlotsOf(t)) =
               Cardinality(Live \cap SlotsOf(t)) - (IF s \in SlotsOf(t) THEN 1 ELSE 0)
<1>1. s \in Live /\ Live' = Live \ {s}
  BY DEF Live, TypeOK
<1>2. CASE s \in SlotsOf(t)
  <2>1. Live' \cap SlotsOf(t) = (Live \cap SlotsOf(t)) \ {s}
    BY <1>1, <1>2
  <2>2. Cardinality((Live \cap SlotsOf(t)) \ {s}) = Cardinality(Live \cap SlotsOf(t)) - 1
    <3>1. IsFiniteSet(Live \cap SlotsOf(t)) /\ s \in Live \cap SlotsOf(t)
      BY <1>1, <1>2, LiveFinite
    <3> QED BY <3>1, FS_RemoveElement, Zenon
  <2> QED BY <2>1, <2>2, <1>2
<1>3. CASE s \notin SlotsOf(t)
  <2>1. Live' \cap SlotsOf(t) = Live \cap SlotsOf(t)
    BY <1>1, <1>3
  <2>2. Cardinality(Live' \cap SlotsOf(t)) = Cardinality(Live \cap SlotsOf(t))
    BY <2>1, Zenon
  <2>3. Cardinality(Live \cap SlotsOf(t)) \in Nat
    BY LiveFinite
  <2> QED BY <2>2, <2>3, <1>3
<1> QED BY <1>2, <1>3

\* The search of Create_Task ends on a free slot of the type it looks for.
LEMMA FreeSlotFound ==
    ASSUME TypeOK, CountOK, pc \notin EditSteps,
           NEW d \in Descs, Creatable(d), NEW s \in Slots, IsFreeSlot(s, DescType[d])
    PROVE  s \in SlotsOf(DescType[d]) /\ handle[s] = 0
<1> DEFINE t == DescType[d]
<1>1. t \in Types /\ count[t] < PerType
  BY DEF Creatable
<1>2. Cardinality(Live \cap SlotsOf(t)) < PerType
  BY <1>1 DEF CountOK, EditSteps, CreateSteps, AddSteps, TypeOK
<1>3. {x \in SlotsOf(t) : handle[x] = 0} # {}
  <2>1. ASSUME {x \in SlotsOf(t) : handle[x] = 0} = {} PROVE FALSE
    <3>1. Live \cap SlotsOf(t) = SlotsOf(t)
      BY <2>1, <1>1, RowInTable DEF Live
    <3>2. Cardinality(Live \cap SlotsOf(t)) = PerType
      BY <3>1, <1>1, RowSize, Zenon
    <3> QED BY <3>2, <1>2
  <2> QED BY <2>1
<1> QED BY <1>3 DEF IsFreeSlot

\* There are n numbers from 0 up to n.
LEMMA UpTo ==
    ASSUME NEW n \in Nat
    PROVE  IsFiniteSet(0 .. n - 1) /\ Cardinality(0 .. n - 1) = n
<1>1. PICK a \in Int, b \in Int : a = 0 /\ b = n - 1
  OBVIOUS
<1>2. IsFiniteSet(a .. b) /\ Cardinality(a .. b) = IF a > b THEN 0 ELSE b - a + 1
  BY FS_Interval
<1>3. (IF a > b THEN 0 ELSE b - a + 1) = n
  BY <1>1
<1> QED BY <1>1, <1>2, <1>3

\* While a slot is free the list of up counters has room for one more, so
\* AddUpCounter never drops a counter.
LEMMA RoomInList ==
    ASSUME TypeOK, ListOK, pc \notin AddSteps \cup {"shift", "zero"},
           NEW s \in Slots, handle[s] = 0
    PROVE  nUp < MaxCounter
<1> DEFINE f == [k \in 0 .. nUp - 1 |-> upList[k]]
<1>1. nUp \in Nat /\ \A k \in 0 .. nUp - 1 : k \in Places
  BY DEF TypeOK, Places
<1>2. /\ \A k, l \in 0 .. nUp - 1 : upList[k] = upList[l] => k = l
      /\ \A k \in 0 .. nUp - 1 : upList[k] \in Live
  BY DEF ListOK, GoodPlaces, Expected, AddSteps
<1>3. IsFiniteSet(Slots \ {s}) /\ Cardinality(Slots \ {s}) = MaxTask - 1
  BY SlotsFinite, FS_RemoveElement
<1>4. f \in [0 .. nUp - 1 -> Slots \ {s}]
  BY <1>2 DEF Live
<1>5. IsFiniteSet(0 .. nUp - 1) /\ Cardinality(0 .. nUp - 1) = nUp
  BY <1>1, UpTo
<1>6. ~(MaxTask - 1 < nUp)
  <2>1. ASSUME MaxTask - 1 < nUp PROVE FALSE
    <3>1. \E x, y \in 0 .. nUp - 1 : x # y /\ f[x] = f[y]
      <4>1. PICK S, T : S = 0 .. nUp - 1 /\ T = Slots \ {s}
        OBVIOUS
      <4>2. PICK g \in [S -> T] : g = f
        BY <4>1, <1>4
      <4>3. IsFiniteSet(S) /\ IsFiniteSet(T) /\ Cardinality(T) < Cardinality(S)
        BY <1>3, <1>5, <2>1, <4>1
      <4>4. \E x, y \in S : x # y /\ g[x] = g[y]
        BY <4>3, FS_PigeonHole
      <4> QED BY <4>1, <4>2, <4>4
    <3> QED BY <3>1, <1>2
  <2> QED BY <2>1
<1> QED BY <1>6, <1>1, SlotsFinite

-----------------------------------------------------------------------------
(* Every step keeps the invariant, one lemma for each step of an edit.      *)

\* A step that touches neither the table nor the list nor main's edit.
LEMMA StillKeeps ==
    ASSUME TypeOK, TypeOK', TableInv,
           UNCHANGED <<handle, task, count, upList, nUp, slot, desc, j>>,
           pc' = pc \/ (pc \notin EditSteps /\ pc' \notin EditSteps)
    PROVE  TableInv'
<1> USE DEF EditSteps, CreateSteps, AddSteps
<1>1. EditOK'
  BY DEF TableInv, EditOK, SameTask
<1>2. ListOK'
  BY DEF TableInv, ListOK, GoodPlaces, Expected, Live
<1>3. CountOK'
  BY DEF TableInv, CountOK, Live
<1>4. TaskOK'
  BY DEF TableInv, TaskOK, Live
<1>5. UniqueOK'
  BY DEF TableInv, UniqueOK, SameTask
<1> QED BY <1>1, <1>2, <1>3, <1>4, <1>5 DEF TableInv

LEMMA CreateCheckKeeps ==
    ASSUME TypeOK, TypeOK', TableInv, NEW d \in Descs, CreateCheck(d)
    PROVE  TableInv'
<1> USE DEF EditSteps, CreateSteps, AddSteps
<1>0. pc \in {"boot", "body"} /\ pc' = "write" /\ desc' = d /\ Creatable(d)
      /\ UNCHANGED <<handle, task, count, upList, nUp, j>>
  BY DEF CreateCheck, table, list
<1>1. slot' \in SlotsOf(DescType[d]) /\ handle[slot'] = 0
  <2>1. PICK s \in Slots : IsFreeSlot(s, DescType[d]) /\ slot' = s
    BY DEF CreateCheck
  <2> QED BY <1>0, <2>1, FreeSlotFound DEF TableInv
<1>2. EditOK'
  BY <1>0, <1>1 DEF EditOK, Creatable, SameTask
<1>3. ListOK'
  BY <1>0 DEF TableInv, ListOK, GoodPlaces, Expected, Live
<1>4. CountOK'
  BY <1>0 DEF TableInv, CountOK, Live
<1>5. TaskOK'
  BY <1>0 DEF TableInv, TaskOK, Live
<1>6. UniqueOK'
  BY <1>0 DEF TableInv, UniqueOK, SameTask
<1> QED BY <1>2, <1>3, <1>4, <1>5, <1>6 DEF TableInv

LEMMA CreateWriteKeeps ==
    ASSUME TypeOK, TypeOK', TableInv, CreateWrite
    PROVE  TableInv'
<1> USE DEF EditSteps, CreateSteps, AddSteps
<1>0. /\ pc = "write" /\ slot \in Slots /\ desc \in Descs /\ handle[slot] = 0
      /\ handle' = [handle EXCEPT ![slot] = slot + 1]
      /\ slot \in SlotsOf(DescType[desc])
      /\ UNCHANGED <<task, count, upList, nUp, slot, desc>>
  BY DEF CreateWrite, TypeOK, list, TableInv, EditOK
<1>1. pc' = "addBoth" /\ j' = nUp
  BY <1>0, RoomInList DEF CreateWrite, TableInv
<1>2. Live' = Live \cup {slot} /\ slot \notin Live /\ handle'[slot] # 0
  <2>1. handle \in [Slots -> 0 .. MaxTask]
    BY DEF TypeOK
  <2>2. slot + 1 # 0
    BY <1>0 DEF Slots
  <2> QED BY <2>1, <2>2, <1>0 DEF Live
<1>3. EditOK'
  BY <1>0, <1>1, <1>2 DEF TableInv, EditOK, SameTask
<1>4. ListOK'
  <2>1. GoodPlaces' = GoodPlaces /\ Expected' = Expected
    BY <1>0, <1>1, <1>2 DEF GoodPlaces, Expected
  <2> QED BY <2>1, <1>0, <1>1 DEF TableInv, ListOK
<1>5. CountOK'
  <2> SUFFICES ASSUME NEW t \in Types
               PROVE  Cardinality(Live' \cap SlotsOf(t)) = count[t] + (IF slot \in SlotsOf(t) THEN 1 ELSE 0)
    BY <1>0, <1>1 DEF CountOK
  <2>1. Cardinality(Live \cap SlotsOf(t)) = count[t]
    BY <1>0 DEF TableInv, CountOK, TypeOK
  <2> QED BY <1>0, <2>1, LiveAdd
<1>6. TaskOK'
  BY <1>0, <1>1, <1>2 DEF TableInv, TaskOK
<1>7. UniqueOK'
  BY <1>0, <1>1 DEF TableInv, UniqueOK, SameTask
<1> QED BY <1>3, <1>4, <1>5, <1>6, <1>7 DEF TableInv

\* The list with one more entry at its end.
LEMMA ListGrows ==
    ASSUME TypeOK, TypeOK', ListOK, pc \in AddSteps, slot \in Live, pc' = "copy",
           UNCHANGED <<handle, slot>>, nUp' = j + 1, upList'[j] = slot,
           \A k \in 0 .. j - 1 : upList'[k] = upList[k]
    PROVE  ListOK'
<1> USE DEF AddSteps
<1>1. j \in Nat /\ GoodPlaces = 0 .. j - 1 /\ GoodPlaces' = 0 .. j /\ Expected = Live \ {slot} /\ Expected' = Live
  <2>0. j \in Nat
    BY DEF TypeOK
  <2>1. GoodPlaces = 0 .. j - 1 /\ Expected = Live \ {slot}
    <3>1. pc # "shift" /\ pc \in AddSteps \cup {"shift", "zero"}
      OBVIOUS
    <3> QED BY <3>1 DEF GoodPlaces, Expected
  <2>2. Live' = Live
    BY DEF Live
  <2>3. GoodPlaces' = 0 .. nUp' - 1 /\ nUp' - 1 = j /\ Expected' = Live'
    BY <2>0 DEF GoodPlaces, Expected
  <2> QED BY <2>0, <2>1, <2>2, <2>3
<1>2. \A k \in 0 .. j : k = j \/ k \in 0 .. j - 1
  BY <1>1
<1>3. \A k, l \in 0 .. j : upList'[k] = upList'[l] => k = l
  BY <1>1, <1>2 DEF ListOK
<1>4. /\ \A k \in 0 .. j : upList'[k] \in Live
      /\ \A x \in Live : \E k \in 0 .. j : upList'[k] = x
  <2>1. \A k \in 0 .. j : upList'[k] \in Live
    BY <1>1, <1>2 DEF ListOK
  <2>2. ASSUME NEW x \in Live PROVE \E k \in 0 .. j : upList'[k] = x
    <3>1. CASE x = slot
      BY <3>1, <1>1
    <3>2. CASE x # slot
      <4>1. PICK k \in 0 .. j - 1 : upList[k] = x
        BY <3>2, <1>1 DEF ListOK
      <4>2. k \in 0 .. j /\ upList'[k] = x
        BY <4>1, <1>1
      <4> QED BY <4>2
    <3> QED BY <3>1, <3>2
  <2> QED BY <2>1, <2>2
<1> QED BY <1>1, <1>3, <1>4 DEF ListOK

LEMMA AddKeeps ==
    ASSUME TypeOK, TypeOK', TableInv, AddInc \/ AddStore
    PROVE  TableInv'
<1> USE DEF EditSteps, CreateSteps, AddSteps
<1>0. /\ pc \in AddSteps /\ pc' \in {"addInc", "addStore", "copy"}
      /\ UNCHANGED <<handle, task, count, slot, desc, j>>
      /\ slot \in Slots /\ j \in 0 .. MaxCounter - 1 /\ handle[slot] # 0
  BY DEF AddInc, AddStore, TypeOK, table, TableInv, EditOK
<1>1. EditOK'
  BY <1>0 DEF TableInv, EditOK, SameTask
<1>2. ListOK'
  <2>1. CASE AddInc /\ pc = "addBoth"
    BY <2>1, <1>0 DEF AddInc, TableInv, ListOK, GoodPlaces, Expected, Live
  <2>2. CASE AddInc /\ pc = "addInc"
    <3>1. pc' = "copy" /\ nUp' = j + 1 /\ upList' = upList /\ upList[j] = slot
      BY <2>2 DEF AddInc, TableInv, ListOK
    <3> QED BY <3>1, <1>0, ListGrows DEF TableInv, Live
  <2>3. CASE AddStore /\ pc = "addBoth"
    <3>1. pc' = "addInc" /\ upList' = [upList EXCEPT ![j] = slot] /\ nUp' = nUp /\ nUp = j
      BY <2>3 DEF AddStore, TableInv, ListOK
    <3>2. upList'[j] = slot /\ \A k \in 0 .. j - 1 : upList'[k] = upList[k]
      BY <3>1, <1>0 DEF TypeOK, Places
    <3>3. GoodPlaces = 0 .. j - 1 /\ GoodPlaces' = 0 .. j - 1 /\ Expected' = Expected
      BY <2>3, <3>1, <1>0 DEF GoodPlaces, Expected, Live
    <3> QED BY <3>1, <3>2, <3>3, <1>0 DEF TableInv, ListOK
  <2>4. CASE AddStore /\ pc = "addStore"
    <3>1. pc' = "copy" /\ upList' = [upList EXCEPT ![j] = slot] /\ nUp' = j + 1
      BY <2>4 DEF AddStore, TableInv, ListOK
    <3>2. upList'[j] = slot /\ \A k \in 0 .. j - 1 : upList'[k] = upList[k]
      BY <3>1, <1>0 DEF TypeOK, Places
    <3> QED BY <3>1, <3>2, <1>0, ListGrows DEF TableInv, Live
  <2> QED BY <2>1, <2>2, <2>3, <2>4 DEF AddInc, AddStore
<1>3. CountOK'
  BY <1>0 DEF TableInv, CountOK, Live
<1>4. TaskOK'
  BY <1>0 DEF TableInv, TaskOK, Live
<1>5. UniqueOK'
  BY <1>0 DEF TableInv, UniqueOK, SameTask
<1> QED BY <1>1, <1>2, <1>3, <1>4, <1>5 DEF TableInv

LEMMA CreateCopyKeeps ==
    ASSUME TypeOK, TypeOK', TableInv, CreateCopy
    PROVE  TableInv'
<1> USE DEF EditSteps, CreateSteps, AddSteps
<1>0. /\ pc = "copy" /\ pc' = "count" /\ slot \in Slots /\ desc \in Descs
      /\ task' = [task EXCEPT ![slot] = desc] /\ handle[slot] # 0
      /\ slot \in SlotsOf(DescType[desc])
      /\ UNCHANGED <<handle, count, upList, nUp, slot, desc, j>>
  BY DEF CreateCopy, TypeOK, list, TableInv, EditOK
<1>1. EditOK'
  BY <1>0 DEF TableInv, EditOK
<1>2. ListOK'
  BY <1>0 DEF TableInv, ListOK, GoodPlaces, Expected, Live
<1>3. CountOK'
  BY <1>0 DEF TableInv, CountOK, Live
<1>4. TaskOK'
  BY <1>0 DEF TableInv, TaskOK, Live, TypeOK
<1>5. UniqueOK'
  <2>1. DescType[desc] \in Types
    BY <1>0
  <2>2. \A s \in Slots : TypeOf(s) = TypeOf(slot) => ~SameTask(s, desc)
    BY <1>0, <2>1, RowIsType DEF TableInv, EditOK
  <2>3. \A s \in Slots : task'[s] = IF s = slot THEN desc ELSE task[s]
    BY <1>0 DEF TypeOK
  <2> SUFFICES ASSUME NEW s \in Slots, NEW x \in Slots, s # x, TypeOf(s) = TypeOf(x), task'[x] # None,
                      task'[s] # None, DescRun[task'[s]] = DescRun[task'[x]],
                      \/ DescTimer[task'[s]] = DescTimer[task'[x]]
                      \/ DescCounter[task'[s]] = DescCounter[task'[x]]
               PROVE  FALSE
    BY DEF UniqueOK, SameTask
  <2>4. CASE x = slot
    BY <2>2, <2>3, <2>4 DEF SameTask
  <2>5. CASE s = slot
    BY <2>2, <2>3, <2>5 DEF SameTask
  <2>6. CASE s # slot /\ x # slot
    BY <2>3, <2>6 DEF SameTask, UniqueOK, TableInv
  <2> QED BY <2>4, <2>5, <2>6
<1> QED BY <1>1, <1>2, <1>3, <1>4, <1>5 DEF TableInv

LEMMA CreateCountKeeps ==
    ASSUME TypeOK, TypeOK', TableInv, CreateCount
    PROVE  TableInv'
<1> USE DEF EditSteps, CreateSteps, AddSteps
<1>0. /\ pc = "count" /\ pc' \in {"boot", "body"} /\ slot \in Slots /\ desc \in Descs
      /\ count' = [count EXCEPT ![DescType[desc]] = @ + 1]
      /\ slot \in SlotsOf(DescType[desc]) /\ DescType[desc] \in Types
      /\ UNCHANGED <<handle, task, upList, nUp>>
  BY DEF CreateCount, TypeOK, list, TableInv, EditOK
<1>1. EditOK'
  BY <1>0 DEF EditOK
<1>2. ListOK'
  BY <1>0 DEF TableInv, ListOK, GoodPlaces, Expected, Live
<1>3. CountOK'
  <2> SUFFICES ASSUME NEW t \in Types PROVE Cardinality(Live \cap SlotsOf(t)) = count'[t]
    BY <1>0 DEF CountOK, Live, TypeOK
  <2>1. slot \in SlotsOf(t) <=> t = DescType[desc]
    BY <1>0, RowUnique DEF Slots, Types
  <2>2. Cardinality(Live \cap SlotsOf(t)) = count[t] + (IF slot \in SlotsOf(t) THEN 1 ELSE 0)
    BY <1>0 DEF TableInv, CountOK, TypeOK
  <2> QED BY <1>0, <2>1, <2>2 DEF TypeOK
<1>4. TaskOK'
  BY <1>0 DEF TableInv, TaskOK, Live
<1>5. UniqueOK'
  BY <1>0 DEF TableInv, UniqueOK, SameTask
<1> QED BY <1>1, <1>2, <1>3, <1>4, <1>5 DEF TableInv

\* While no edit is under way a live slot has exactly one entry.
LEMMA OneEntry ==
    ASSUME TypeOK, ListOK, pc \notin AddSteps \cup {"shift", "zero"},
           NEW s \in Slots, handle[s] # 0
    PROVE  \E i \in 0 .. nUp - 1 :
               Registered(s) = {i} /\ \A k \in 0 .. nUp - 1 : k # i => upList[k] # s
<1>1. GoodPlaces = 0 .. nUp - 1 /\ Expected = Live /\ s \in Live
  BY DEF GoodPlaces, Expected, AddSteps, Live
<1>2. PICK i \in 0 .. nUp - 1 : upList[i] = s
  BY <1>1 DEF ListOK
<1>3. \A k \in 0 .. nUp - 1 : upList[k] = s => k = i
  BY <1>1, <1>2 DEF ListOK
<1>4. Registered(s) = {i}
  BY <1>2, <1>3 DEF Registered
<1> QED BY <1>2, <1>3, <1>4

LEMMA DestroyCheckKeeps ==
    ASSUME TypeOK, TypeOK', TableInv, NEW s \in Slots, DestroyCheck(s)
    PROVE  TableInv'
<1> USE DEF EditSteps, CreateSteps, AddSteps
<1>0. /\ pc = "body" /\ slot' = s /\ handle[s] # 0 /\ handle[s] = s + 1
      /\ UNCHANGED <<handle, task, count, upList>>
  BY DEF DestroyCheck, table, Slots
<1>1. PICK i \in 0 .. nUp - 1 :
         Registered(s) = {i} /\ \A k \in 0 .. nUp - 1 : k # i => upList[k] # s
  BY <1>0, OneEntry DEF TableInv
<1>2. pc' = "shift" /\ nUp' = nUp - 1 /\ j' = i
  BY <1>1 DEF DestroyCheck
<1>3. EditOK'
  BY <1>0, <1>2 DEF EditOK
<1>4. ListOK'
  <2>1. nUp \in 0 .. MaxCounter /\ upList[i] = s
    BY <1>1 DEF TypeOK, Registered
  <2>2. /\ GoodPlaces = 0 .. nUp - 1 /\ GoodPlaces' = (0 .. nUp - 1) \ {i}
        /\ Expected = Live /\ Expected' = Live \ {s}
    BY <1>0, <1>2, <2>1 DEF GoodPlaces, Expected, Live
  <2>3. \A k, l \in GoodPlaces' : upList[k] = upList[l] => k = l
    BY <2>2 DEF TableInv, ListOK
  <2>4. \A k \in GoodPlaces' : upList[k] \in Expected'
    BY <1>1, <2>2 DEF TableInv, ListOK
  <2>5. ASSUME NEW x \in Expected' PROVE \E k \in GoodPlaces' : upList[k] = x
    <3>1. PICK k \in 0 .. nUp - 1 : upList[k] = x
      BY <2>2 DEF TableInv, ListOK
    <3>2. k \in GoodPlaces'
      BY <3>1, <2>1, <2>2
    <3> QED BY <3>1, <3>2
  <2>6. nUp' < MaxCounter /\ j' \in 0 .. nUp'
    BY <1>1, <1>2, <2>1
  <2> QED BY <1>0, <1>2, <2>3, <2>4, <2>5, <2>6 DEF ListOK
<1>5. CountOK'
  BY <1>0, <1>2 DEF TableInv, CountOK, Live
<1>6. TaskOK'
  BY <1>0, <1>2 DEF TableInv, TaskOK, Live
<1>7. UniqueOK'
  BY <1>0, <1>2 DEF TableInv, UniqueOK, SameTask
<1> QED BY <1>3, <1>4, <1>5, <1>6, <1>7 DEF TableInv

LEMMA DeleteShiftKeeps ==
    ASSUME TypeOK, TypeOK', TableInv, DeleteShift
    PROVE  TableInv'
<1> USE DEF EditSteps, CreateSteps, AddSteps
<1>0. /\ pc = "shift" /\ pc' \in {"shift", "zero"} /\ slot \in Slots
      /\ UNCHANGED <<handle, task, count, slot, desc, nUp>>
      /\ nUp \in Nat /\ nUp < MaxCounter /\ j \in 0 .. nUp
  BY DEF DeleteShift, TypeOK, table, TableInv, ListOK
<1>1. EditOK'
  BY <1>0 DEF TableInv, EditOK
<1>2. ListOK'
  <2>1. GoodPlaces = (0 .. nUp) \ {j} /\ Expected = Live \ {slot} /\ Expected' = Live \ {slot}
    BY <1>0 DEF GoodPlaces, Expected, Live
  <2>2. CASE j < nUp
    <3>1. pc' = "shift" /\ j' = j + 1 /\ upList' = [upList EXCEPT ![j] = upList[j + 1]]
      BY <2>2, <1>0 DEF DeleteShift, Entry, Places
    <3>2. \A k \in 0 .. nUp : upList'[k] = IF k = j THEN upList[j + 1] ELSE upList[k]
      <4>1. upList \in [Places -> Slots \cup {NoSlot}]
        BY DEF TypeOK
      <4>2. \A k \in 0 .. nUp : k \in Places
        BY <1>0 DEF Places
      <4> QED BY <4>1, <4>2, <3>1
    <3>3. GoodPlaces' = (0 .. nUp) \ {j + 1}
      BY <3>1, <1>0 DEF GoodPlaces
    <3>4. \A k, l \in GoodPlaces' : upList'[k] = upList'[l] => k = l
      BY <2>1, <2>2, <1>0, <3>2, <3>3 DEF TableInv, ListOK
    <3>5. \A k \in GoodPlaces' : upList'[k] \in Expected'
      BY <2>1, <2>2, <1>0, <3>2, <3>3 DEF TableInv, ListOK
    <3>6. ASSUME NEW x \in Expected' PROVE \E k \in GoodPlaces' : upList'[k] = x
      <4>1. PICK k \in (0 .. nUp) \ {j} : upList[k] = x
        BY <2>1 DEF TableInv, ListOK
      <4>2. CASE k = j + 1
        <5>1. j \in GoodPlaces' /\ upList'[j] = x
          BY <4>1, <4>2, <3>2, <3>3, <2>2, <1>0
        <5> QED BY <5>1
      <4>3. CASE k # j + 1
        <5>1. k \in GoodPlaces' /\ upList'[k] = x
          BY <4>1, <4>3, <3>2, <3>3
        <5> QED BY <5>1
      <4> QED BY <4>2, <4>3
    <3>7. nUp' < MaxCounter /\ j' \in 0 .. nUp'
      BY <3>1, <2>2, <1>0
    <3> QED BY <3>1, <3>4, <3>5, <3>6, <3>7 DEF ListOK
  <2>3. CASE ~(j < nUp)
    <3>1. pc' = "zero" /\ upList' = upList /\ j = nUp
      BY <2>3, <1>0 DEF DeleteShift
    <3>2. GoodPlaces' = GoodPlaces
      BY <3>1, <2>1, <1>0 DEF GoodPlaces
    <3> QED BY <3>1, <3>2, <2>1 DEF TableInv, ListOK
  <2> QED BY <2>2, <2>3
<1>3. CountOK'
  BY <1>0 DEF TableInv, CountOK, Live
<1>4. TaskOK'
  BY <1>0 DEF TableInv, TaskOK, Live
<1>5. UniqueOK'
  BY <1>0 DEF TableInv, UniqueOK, SameTask
<1> QED BY <1>1, <1>2, <1>3, <1>4, <1>5 DEF TableInv

LEMMA DestroyZeroKeeps ==
    ASSUME TypeOK, TypeOK', TableInv, DestroyZero
    PROVE  TableInv'
<1> USE DEF EditSteps, CreateSteps, AddSteps
<1>c. count \in [Types -> Int] /\ count' \in [Types -> Int]
  BY DEF TypeOK
<1>0. /\ pc = "zero" /\ pc' = "uncount" /\ slot \in Slots /\ handle[slot] # 0
      /\ handle' = [handle EXCEPT ![slot] = 0] /\ task' = [task EXCEPT ![slot] = None]
      /\ UNCHANGED <<count, upList, nUp, slot, desc, j>>
  BY DEF DestroyZero, TypeOK, list, TableInv, EditOK
<1>1. Live' = Live \ {slot} /\ handle'[slot] = 0
  BY <1>0 DEF Live, TypeOK
<1>2. EditOK'
  BY <1>0, <1>1 DEF EditOK
<1>3. ListOK'
  BY <1>0, <1>1 DEF TableInv, ListOK, GoodPlaces, Expected
<1>4. CountOK'
  <2> SUFFICES ASSUME NEW t \in Types
               PROVE  Cardinality(Live' \cap SlotsOf(t)) = count[t] - (IF slot \in SlotsOf(t) THEN 1 ELSE 0)
    BY <1>0, <1>c DEF CountOK
  <2>1. Cardinality(Live \cap SlotsOf(t)) = count[t]
    BY <1>0, <1>c, SMTT(30) DEF TableInv, CountOK
  <2> QED BY <1>0, <1>c, <2>1, LiveRemove
<1>5. TaskOK'
  BY <1>0, <1>1 DEF TableInv, TaskOK, TypeOK
<1>6. UniqueOK'
  BY <1>0 DEF TableInv, UniqueOK, SameTask, TypeOK
<1> QED BY <1>2, <1>3, <1>4, <1>5, <1>6 DEF TableInv

LEMMA DestroyCountKeeps ==
    ASSUME TypeOK, TypeOK', TableInv, DestroyCount
    PROVE  TableInv'
<1> USE DEF EditSteps, CreateSteps, AddSteps
<1>c. count \in [Types -> Int] /\ count' \in [Types -> Int]
  BY DEF TypeOK
<1>0. /\ pc = "uncount" /\ pc' \in {"boot", "body"} /\ slot \in Slots
      /\ count' = [count EXCEPT ![TypeOf(slot)] = @ - 1]
      /\ UNCHANGED <<handle, task, upList, nUp>>
  BY DEF DestroyCount, TypeOK, list
<1>1. EditOK'
  BY <1>0 DEF EditOK
<1>2. ListOK'
  BY <1>0 DEF TableInv, ListOK, GoodPlaces, Expected, Live
<1>3. CountOK'
  <2> SUFFICES ASSUME NEW t \in Types PROVE Cardinality(Live \cap SlotsOf(t)) = count'[t]
    BY <1>0, <1>c DEF CountOK, Live
  <2>1. slot \in SlotsOf(t) <=> t = TypeOf(slot)
    BY <1>0, RowIsType
  <2>2. Cardinality(Live \cap SlotsOf(t)) = count[t] - (IF slot \in SlotsOf(t) THEN 1 ELSE 0)
    BY <1>0, <1>c DEF TableInv, CountOK
  <2> QED BY <1>0, <1>c, <2>1, <2>2
<1>4. TaskOK'
  BY <1>0 DEF TableInv, TaskOK, Live
<1>5. UniqueOK'
  BY <1>0 DEF TableInv, UniqueOK, SameTask
<1> QED BY <1>1, <1>2, <1>3, <1>4, <1>5 DEF TableInv

\* An edit of the host's handler that lands between main's edits.
LEMMA HostCreateKeeps ==
    ASSUME TypeOK, TypeOK', TableInv, NEW d \in Descs, HostCreate(d), ~torn'
    PROVE  TableInv'
<1> USE DEF EditSteps, CreateSteps, AddSteps
<1>c. count \in [Types -> Int] /\ count' \in [Types -> Int]
  BY DEF TypeOK
<1>0. /\ pc \notin EditSteps /\ Creatable(d)
      /\ UNCHANGED <<pc, slot, desc, j, cursor>>
      /\ count' = [count EXCEPT ![DescType[d]] = @ + 1]
      /\ DescType[d] \in Types
  BY DEF HostCreate, Editing, main
<1>1. PICK s \in Slots :
         /\ IsFreeSlot(s, DescType[d])
         /\ handle' = [handle EXCEPT ![s] = s + 1]
         /\ task'   = [task   EXCEPT ![s] = d]
         /\ IF nUp < MaxCounter
            THEN upList' = [upList EXCEPT ![nUp] = s] /\ nUp' = nUp + 1
            ELSE UNCHANGED list
  BY DEF HostCreate
<1>2. s \in SlotsOf(DescType[d]) /\ handle[s] = 0
  BY <1>0, <1>1, FreeSlotFound DEF TableInv
<1>3. nUp < MaxCounter
  BY <1>0, <1>2, RoomInList DEF TableInv
<1>4. Live' = Live \cup {s} /\ s \notin Live
  <2>1. handle \in [Slots -> 0 .. MaxTask]
    BY DEF TypeOK
  <2>2. s + 1 # 0
    BY DEF Slots
  <2> QED BY <2>1, <2>2, <1>1, <1>2 DEF Live
<1>5. EditOK'
  BY <1>0 DEF EditOK
<1>6. ListOK'
  <2>1. /\ nUp \in Nat /\ GoodPlaces = 0 .. nUp - 1 /\ GoodPlaces' = 0 .. nUp
        /\ Expected = Live /\ Expected' = Live \cup {s} /\ nUp' = nUp + 1
    <3>1. nUp \in Nat /\ nUp' = nUp + 1 /\ nUp' - 1 = nUp
      BY <1>1, <1>3 DEF TypeOK
    <3> QED BY <3>1, <1>0, <1>4 DEF GoodPlaces, Expected
  <2>2. upList'[nUp] = s /\ \A k \in 0 .. nUp - 1 : upList'[k] = upList[k]
    BY <1>1, <1>3, <2>1 DEF TypeOK, Places
  <2>3. \A k \in 0 .. nUp : k = nUp \/ k \in 0 .. nUp - 1
    BY <2>1
  <2>4. \A k, l \in GoodPlaces' : upList'[k] = upList'[l] => k = l
    BY <2>1, <2>2, <2>3, <1>4 DEF TableInv, ListOK
  <2>5. \A k \in GoodPlaces' : upList'[k] \in Expected'
    BY <2>1, <2>2, <2>3 DEF TableInv, ListOK
  <2>6. ASSUME NEW x \in Expected' PROVE \E k \in GoodPlaces' : upList'[k] = x
    <3>1. CASE x = s
      <4>1. nUp \in GoodPlaces' /\ upList'[nUp] = x
        BY <3>1, <2>1, <2>2
      <4> QED BY <4>1
    <3>2. CASE x # s
      <4>1. PICK k \in 0 .. nUp - 1 : upList[k] = x
        BY <3>2, <2>1 DEF TableInv, ListOK
      <4>2. k \in GoodPlaces' /\ upList'[k] = x
        BY <4>1, <2>1, <2>2
      <4> QED BY <4>2
    <3> QED BY <3>1, <3>2
  <2> QED BY <1>0, <2>4, <2>5, <2>6 DEF ListOK
<1>7. CountOK'
  <2> SUFFICES ASSUME NEW t \in Types PROVE Cardinality(Live' \cap SlotsOf(t)) = count'[t]
    BY <1>0, <1>c DEF CountOK
  <2>1. s \in SlotsOf(t) <=> t = DescType[d]
    BY <1>0, <1>2, RowUnique DEF Slots, Types
  <2>2. Cardinality(Live \cap SlotsOf(t)) = count[t]
    BY <1>0, <1>c DEF TableInv, CountOK
  <2>3. Cardinality(Live' \cap SlotsOf(t)) = count[t] + (IF s \in SlotsOf(t) THEN 1 ELSE 0)
    BY <1>1, <1>2, <2>2, LiveAdd
  <2> QED BY <1>0, <1>c, <2>1, <2>3
<1>8. \A x \in Slots : task'[x] = IF x = s THEN d ELSE task[x]
  BY <1>1 DEF TypeOK
<1>9. TaskOK'
  BY <1>0, <1>2, <1>4, <1>8 DEF TableInv, TaskOK
<1>10. UniqueOK'
  <2>1. \A x \in Slots : TypeOf(x) = TypeOf(s) => ~SameTask(x, d)
    BY <1>0, <1>2, RowIsType DEF Creatable
  <2> SUFFICES ASSUME NEW y \in Slots, NEW x \in Slots, y # x, TypeOf(y) = TypeOf(x), task'[x] # None,
                      task'[y] # None, DescRun[task'[y]] = DescRun[task'[x]],
                      \/ DescTimer[task'[y]] = DescTimer[task'[x]]
                      \/ DescCounter[task'[y]] = DescCounter[task'[x]]
               PROVE  FALSE
    BY DEF UniqueOK, SameTask
  <2>2. CASE x = s
    BY <2>1, <1>8, <2>2 DEF SameTask
  <2>3. CASE y = s
    BY <2>1, <1>8, <2>3 DEF SameTask
  <2>4. CASE y # s /\ x # s
    BY <1>8, <2>4 DEF SameTask, UniqueOK, TableInv
  <2> QED BY <2>2, <2>3, <2>4
<1> QED BY <1>5, <1>6, <1>7, <1>9, <1>10 DEF TableInv

LEMMA HostDestroyKeeps ==
    ASSUME TypeOK, TypeOK', TableInv, NEW s \in Slots, HostDestroy(s), ~torn'
    PROVE  TableInv'
<1> USE DEF EditSteps, CreateSteps, AddSteps
<1>c. count \in [Types -> Int] /\ count' \in [Types -> Int]
  BY DEF TypeOK
<1>0. /\ pc \notin EditSteps  /\ handle[s] = s + 1 /\ handle[s] # 0
      /\ handle' = [handle EXCEPT ![s] = 0] /\ task' = [task EXCEPT ![s] = None]
      /\ count' = [count EXCEPT ![TypeOf(s)] = @ - 1]
      /\ UNCHANGED <<pc, slot, desc, j, cursor>>
  <2>1. s + 1 # 0
    BY DEF Slots
  <2> QED BY <2>1 DEF HostDestroy, Editing, main
<1>1. PICK i \in 0 .. nUp - 1 :
         Registered(s) = {i} /\ \A k \in 0 .. nUp - 1 : k # i => upList[k] # s
  BY <1>0, OneEntry DEF TableInv
<1>2. upList' = Shifted(i, nUp - 1) /\ nUp' = nUp - 1
  BY <1>1 DEF HostDestroy
<1>3. Live' = Live \ {s}
  <2>1. handle \in [Slots -> 0 .. MaxTask]
    BY DEF TypeOK
  <2> QED BY <2>1, <1>0 DEF Live
<1>4. EditOK'
  BY <1>0 DEF EditOK
<1>5. ListOK'
  <2>1. nUp \in 1 .. MaxCounter /\ upList[i] = s
    BY <1>1 DEF TypeOK, Registered
  <2>2. /\ GoodPlaces = 0 .. nUp - 1 /\ GoodPlaces' = 0 .. nUp - 2
        /\ Expected = Live /\ Expected' = Live \ {s}
    <3>1. nUp' - 1 = nUp - 2
      BY <1>2, <2>1
    <3> QED BY <3>1, <1>0, <1>3 DEF GoodPlaces, Expected
  <2>3. \A k \in 0 .. nUp - 2 : upList'[k] = IF k < i THEN upList[k] ELSE upList[k + 1]
    <3>1. \A k \in 0 .. nUp - 2 : k \in Places /\ k + 1 \in Places
      BY <2>1 DEF Places
    <3> QED BY <3>1, <1>1, <1>2, <2>1 DEF Shifted, Entry
  <2>4. \A k, l \in GoodPlaces' : upList'[k] = upList'[l] => k = l
    BY <2>1, <2>2, <2>3, <1>1 DEF TableInv, ListOK
  <2>5. \A k \in GoodPlaces' : upList'[k] \in Expected'
    BY <2>1, <2>2, <2>3, <1>1 DEF TableInv, ListOK
  <2>6. ASSUME NEW x \in Expected' PROVE \E k \in GoodPlaces' : upList'[k] = x
    <3>1. PICK k \in 0 .. nUp - 1 : upList[k] = x
      BY <2>2 DEF TableInv, ListOK
    <3>2. CASE k < i
      <4>1. k \in GoodPlaces' /\ upList'[k] = x
        BY <3>1, <3>2, <2>1, <2>2, <2>3, <1>1
      <4> QED BY <4>1
    <3>3. CASE k > i
      <4>1. k - 1 \in GoodPlaces' /\ upList'[k - 1] = x
        BY <3>1, <3>3, <2>1, <2>2, <2>3, <1>1
      <4> QED BY <4>1
    <3>4. k # i
      BY <3>1, <2>1, <2>2
    <3> QED BY <3>2, <3>3, <3>4, <1>1, <2>1
  <2> QED BY <1>0, <2>4, <2>5, <2>6 DEF ListOK
<1>6. CountOK'
  <2> SUFFICES ASSUME NEW t \in Types PROVE Cardinality(Live' \cap SlotsOf(t)) = count'[t]
    BY <1>0, <1>c DEF CountOK
  <2>1. s \in SlotsOf(t) <=> t = TypeOf(s)
    BY RowIsType
  <2>2. Cardinality(Live \cap SlotsOf(t)) = count[t]
    <3>1. pc \notin AddSteps \cup {"copy", "count"} /\ pc # "uncount" /\ count[t] \in Int
      BY <1>0, <1>c
    <3>2. Cardinality(Live \cap SlotsOf(t)) = count[t] + 0 - 0
      BY <3>1 DEF TableInv, CountOK
    <3> QED BY <3>1, <3>2
  <2>3. Cardinality(Live' \cap SlotsOf(t)) = count[t] - (IF s \in SlotsOf(t) THEN 1 ELSE 0)
    BY <1>0, <2>2, LiveRemove
  <2> QED BY <1>0, <1>c, <2>1, <2>3
<1>7. TaskOK'
  BY <1>0, <1>3 DEF TableInv, TaskOK, TypeOK
<1>8. UniqueOK'
  BY <1>0 DEF TableInv, UniqueOK, SameTask, TypeOK
<1> QED BY <1>4, <1>5, <1>6, <1>7, <1>8 DEF TableInv

-----------------------------------------------------------------------------
(* The invariant as a whole.                                                *)

LEMMA InvInit == Init => IInv
<1> SUFFICES ASSUME Init PROVE IInv
  OBVIOUS
<1>1. TypeOK
  BY TypeInit
<1>2. pc = "boot" /\ Live = {} /\ nUp = 0
  BY DEF Init, Live
<1>3. EditOK /\ UniqueOK
  BY <1>2 DEF Init, EditOK, UniqueOK, SameTask, EditSteps, CreateSteps, AddSteps
<1>4. ListOK
  BY <1>2 DEF ListOK, GoodPlaces, Expected, AddSteps
<1>5. CountOK
  <2> SUFFICES ASSUME NEW t \in Types PROVE Cardinality(Live \cap SlotsOf(t)) = 0
    BY <1>2 DEF CountOK, Init, AddSteps
  <2>1. Live \cap SlotsOf(t) = {}
    BY <1>2
  <2> QED BY <2>1, FS_EmptySet, Zenon
<1>6. TaskOK
  BY <1>2 DEF Init, TaskOK, AddSteps
<1> QED BY <1>1, <1>3, <1>4, <1>5, <1>6 DEF IInv, TableInv

LEMMA InvStep == IInv /\ [Next]_vars => IInv'
<1> SUFFICES ASSUME IInv, [Next]_vars, ~torn' PROVE TableInv'
  BY TypeStep DEF IInv
<1>1. TypeOK /\ TypeOK'
  BY TypeStep DEF IInv
<1>2. ~torn
  BY DEF Next, MainCreate, MainDestroy, MainStatus, MainRun, Host, vars, main, CreateCheck, CreateWrite,
         AddInc, AddStore, CreateCopy, CreateCount, DestroyCheck, DeleteShift, DestroyZero, DestroyCount,
         SetStatus, BootDone, RunLookup, RunCompare, RunCall, FaultISR, RunReturn, Tick, HostEnter, HostLeave,
         HostCreate, HostDestroy, HostPause, HostRun, HostStep
<1>3. TableInv
  BY <1>2 DEF IInv
<1> USE <1>1, <1>3
<1>4. CASE UNCHANGED vars
  BY <1>4, StillKeeps DEF vars, table, list, main
<1>5. CASE MainCreate
  BY <1>5, CreateCheckKeeps, CreateWriteKeeps, AddKeeps, CreateCopyKeeps, CreateCountKeeps DEF MainCreate
<1>6. CASE MainDestroy
  BY <1>6, DestroyCheckKeeps, DeleteShiftKeeps, DestroyZeroKeeps, DestroyCountKeeps DEF MainDestroy
<1>7. CASE MainStatus
  <2>1. PICK s \in Slots, w \in {"NORMAL", "SUSPEND"} : SetStatus(s, w)
    BY <1>7 DEF MainStatus
  <2> QED BY <2>1, StillKeeps DEF SetStatus, main, list
<1>8. CASE MainRun
  <2>1. /\ UNCHANGED <<handle, task, count, upList, nUp, slot, desc, j>>
        /\ pc \notin EditSteps /\ pc' \notin EditSteps
    BY <1>8 DEF MainRun, BootDone, RunLookup, RunCompare, RunCall, FaultISR, RunReturn, vars, main,
                table, list, EditSteps, CreateSteps, AddSteps
  <2> QED BY <2>1, StillKeeps
<1>9. CASE Tick
  BY <1>9, StillKeeps DEF Tick, main, list
<1>10. CASE Host
  <2>2. CASE HostEnter \/ HostLeave \/ HostPause \/ HostRun \/ \E d \in Descs : HostStep(d)
    <3>1. UNCHANGED <<table, list, main>>
      BY <2>2 DEF HostEnter, HostLeave, HostPause, HostRun, HostStep
    <3> QED BY <3>1, StillKeeps DEF table, list, main
  <2>3. CASE \E d \in Descs : HostCreate(d)
    BY <2>3, HostCreateKeeps
  <2>4. CASE \E s \in Slots : HostDestroy(s)
    BY <2>4, HostDestroyKeeps
  <2> QED BY <1>10, <2>2, <2>3, <2>4 DEF Host
<1> QED BY <1>4, <1>5, <1>6, <1>7, <1>8, <1>9, <1>10 DEF Next

LEMMA InvCorrect == Spec => []IInv
<1>1. Init => IInv
  BY InvInit
<1>2. IInv /\ [Next]_vars => IInv'
  BY InvStep
<1> QED BY <1>1, <1>2, PTL DEF Spec

\* Whatever order main, the tick and the host run in, the list of up counters
\* holds each live task once, as long as no host edit tears an edit of main.
THEOREM ListCorrect == Spec => []RegisteredOnce
<1>1. IInv => RegisteredOnce
  BY DEF IInv, TableInv, RegisteredOnce
<1> QED BY <1>1, InvCorrect, PTL

\* The count that Create_Task trusts is the number of live tasks of the type.
THEOREM CountCorrect == Spec => []CountExact
<1>1. IInv => CountExact
  BY DEF IInv, TableInv, CountExact
<1> QED BY <1>1, InvCorrect, PTL

\* Create_Task never claims a slot outside its type's range or in use.
THEOREM SlotCorrect == Spec => []SlotInRange
<1>1. IInv => SlotInRange
  BY DEF IInv, TableInv, SlotInRange
<1> QED BY <1>1, InvCorrect, PTL

\* No two live tasks are ones that Create_Task takes for the same.
THEOREM TwinsCorrect == Spec => []NoTwins
<1>1. IInv => NoTwins
  BY DEF IInv, TableInv, NoTwins
<1> QED BY <1>1, InvCorrect, PTL

-----------------------------------------------------------------------------
(* What Run_App calls, with torn edits included: none of the facts above    *)
(* survives those, so this is an invariant of its own.                      *)

\* A live slot holds a task, but for the one main is filling.
LiveHasTask ==
    \A s \in Slots : handle[s] # 0 =>
        task[s] # None \/ (pc \in AddSteps \cup {"copy"} /\ s = slot)

\* Main knows of no task in the slot it looks at once it is destroyed.
GoneIsFree == owner = "gone" => handle[cursor] = 0

CallInv ==
    /\ LiveHasTask /\ GoneIsFree
    /\ pc = "loop" => owner = "same"
    /\ pc = "fault" => ~isr
    /\ pc = "compare" /\ owner # "gone" => task[cursor] # None
    /\ CallDue

LEMMA LiveHasTaskStep ==
    ASSUME TypeOK, TypeOK', LiveHasTask, [Next]_vars
    PROVE  LiveHasTask'
<1> USE DEF LiveHasTask, AddSteps
<1>0. /\ handle \in [Slots -> 0 .. MaxTask] /\ task \in [Slots -> Descs \cup {None}]
      /\ pc \in CreateSteps => desc \in Descs
  BY DEF TypeOK
<1>1. ASSUME UNCHANGED <<handle, task, slot>>, pc' = pc \/ pc \notin AddSteps \cup {"copy"}
      PROVE  LiveHasTask'
  BY <1>1
<1>2. CASE UNCHANGED vars
  BY <1>1, <1>2 DEF vars, table, main
<1>3. CASE \E d \in Descs : CreateCheck(d)
  BY <1>3 DEF CreateCheck, table
<1>4. CASE CreateWrite
  BY <1>4, <1>0 DEF CreateWrite
<1>5. CASE AddInc \/ AddStore
  BY <1>5 DEF AddInc, AddStore, table
<1>6. CASE CreateCopy
  BY <1>6, <1>0 DEF CreateCopy, CreateSteps
<1>7. CASE CreateCount
  BY <1>7 DEF CreateCount
<1>8. CASE \E s \in Slots : DestroyCheck(s)
  BY <1>8 DEF DestroyCheck, table
<1>9. CASE DeleteShift
  BY <1>9 DEF DeleteShift, table
<1>10. CASE DestroyZero
  BY <1>10, <1>0 DEF DestroyZero
<1>11. CASE DestroyCount
  BY <1>11 DEF DestroyCount
<1>12. CASE MainStatus
  BY <1>1, <1>12 DEF MainStatus, SetStatus, main
<1>13. CASE MainRun
  BY <1>1, <1>13 DEF MainRun, BootDone, RunLookup, RunCompare, RunCall, FaultISR, RunReturn, vars, table, main
<1>14. CASE Tick
  BY <1>1, <1>14 DEF Tick, main
<1>15. CASE HostEnter \/ HostLeave \/ HostPause \/ HostRun \/ \E d \in Descs : HostStep(d)
  BY <1>1, <1>15 DEF HostEnter, HostLeave, HostPause, HostRun, HostStep, table, main
<1>16. ASSUME NEW d \in Descs, HostCreate(d) PROVE LiveHasTask'
  <2>1. PICK s \in Slots : handle' = [handle EXCEPT ![s] = s + 1] /\ task' = [task EXCEPT ![s] = d]
    BY <1>16 DEF HostCreate
  <2> QED BY <1>16, <2>1, <1>0 DEF HostCreate, main
<1>17. ASSUME NEW s \in Slots, HostDestroy(s) PROVE LiveHasTask'
  BY <1>17, <1>0 DEF HostDestroy, main
<1> QED BY <1>2, <1>3, <1>4, <1>5, <1>6, <1>7, <1>8, <1>9, <1>10, <1>11, <1>12, <1>13, <1>14, <1>15, <1>16,
           <1>17 DEF Next, MainCreate, MainDestroy, Host

LEMMA GoneIsFreeStep ==
    ASSUME TypeOK, TypeOK', GoneIsFree, pc = "loop" => owner = "same", [Next]_vars
    PROVE  GoneIsFree'
<1> USE DEF GoneIsFree, OwnerAfter
<1>0. handle \in [Slots -> 0 .. MaxTask] /\ cursor \in Slots
  BY CursorType DEF TypeOK
<1>1. CASE UNCHANGED <<handle, cursor, owner>>
  BY <1>1
<1>2. CASE owner' = "same"
  BY <1>2
<1>3. CASE CreateWrite
  BY <1>3, <1>0 DEF CreateWrite
<1>4. CASE DestroyZero
  BY <1>4, <1>0 DEF DestroyZero
<1>5. ASSUME NEW d \in Descs, HostCreate(d) PROVE GoneIsFree'
  <2>1. PICK s \in Slots : handle' = [handle EXCEPT ![s] = s + 1] /\ owner' = OwnerAfter(s, "new")
    BY <1>5 DEF HostCreate
  <2>2. UNCHANGED cursor
    BY <1>5 DEF HostCreate, main
  <2> QED BY <2>1, <2>2, <1>0
<1>6. ASSUME NEW s \in Slots, HostDestroy(s) PROVE GoneIsFree'
  <2>1. handle' = [handle EXCEPT ![s] = 0] /\ owner' = OwnerAfter(s, "gone") /\ UNCHANGED cursor
    BY <1>6 DEF HostDestroy, main
  <2> QED BY <2>1, <1>0
<1>7. \/ UNCHANGED <<handle, cursor, owner>> \/ owner' = "same" \/ CreateWrite \/ DestroyZero
      \/ \E d \in Descs : HostCreate(d)
      \/ \E s \in Slots : HostDestroy(s)
  <2>1. CASE MainCreate
    BY <2>1 DEF MainCreate, CreateCheck, AddInc, AddStore, CreateCopy, CreateCount, table
  <2>2. CASE MainDestroy
    BY <2>2 DEF MainDestroy, DestroyCheck, DeleteShift, DestroyCount, table
  <2>3. CASE MainStatus \/ Tick
    BY <2>3 DEF MainStatus, SetStatus, Tick, main
  <2>4. CASE MainRun
    BY <2>4 DEF MainRun, BootDone, RunLookup, RunCompare, RunCall, FaultISR, RunReturn, vars, table, main
  <2>5. CASE Host
    BY <2>5 DEF Host, HostEnter, HostLeave, HostPause, HostRun, HostStep, table, main
  <2>6. CASE UNCHANGED vars
    BY <2>6 DEF vars, table, main
  <2> QED BY <2>1, <2>2, <2>3, <2>4, <2>5, <2>6 DEF Next
<1> QED BY <1>1, <1>2, <1>3, <1>4, <1>5, <1>6, <1>7

LEMMA CallStep ==
    ASSUME TypeOK, TypeOK', CallInv, [Next]_vars
    PROVE  CallInv'
<1>0. LiveHasTask' /\ GoneIsFree'
  BY LiveHasTaskStep, GoneIsFreeStep DEF CallInv
<1>a. /\ cursor \in Slots /\ ticks \in [Slots -> 0 .. MaxCount] /\ task \in [Slots -> Descs \cup {None}]
  BY CursorType DEF TypeOK
<1> USE DEF CallDue, EditSteps, CreateSteps, AddSteps, RunSteps, OwnerAfter
<1>1. CASE UNCHANGED vars \/ FaultISR
  BY <1>1, <1>0 DEF CallInv, Timer, FaultISR, vars, table, main
<1>2. CASE MainCreate \/ MainDestroy
  <2>1. pc \notin {"loop", "compare", "call", "fault"} /\ pc' \notin {"loop", "compare", "call", "fault"}
    BY <1>2 DEF MainCreate, CreateCheck, CreateWrite, AddInc, AddStore, CreateCopy, CreateCount,
                MainDestroy, DestroyCheck, DeleteShift, DestroyZero, DestroyCount, TypeOK
  <2> QED BY <2>1, <1>0 DEF CallInv
<1>3. CASE MainStatus
  BY <1>3, <1>0 DEF MainStatus, SetStatus, main, CallInv
<1>4. CASE BootDone \/ RunReturn
  BY <1>4, <1>0 DEF BootDone, RunReturn, CallInv
<1>5. CASE RunLookup
  <2>1. Runnable(cursor) => task[cursor] # None
    BY <1>5, <1>a DEF RunLookup, Runnable, CallInv, LiveHasTask, Slots
  <2>2. UNCHANGED <<task, owner>> /\ owner = "same"
    BY <1>5 DEF RunLookup, table, CallInv
  <2> QED BY <1>5, <1>0, <2>1, <2>2 DEF RunLookup, CallInv
<1>6. CASE RunCompare
  <2>1. UNCHANGED <<task, ticks>>
    BY <1>6 DEF RunCompare, table
  <2> QED BY <1>6, <1>0, <2>1 DEF RunCompare, CallInv, Timer, TypeOK
<1>7. CASE RunCall
  BY <1>7, <1>0 DEF RunCall, CallInv, TypeOK
<1>8. CASE Tick
  <2>1. Advance(cursor) \in Nat
    BY AdvanceType, <1>a
  <2>2. ticks'[cursor] = Min2(MaxCount, ticks[cursor] + Advance(cursor))
    BY <1>8, <1>a DEF Tick
  <2>3. Timer(cursor) \in 0 .. MaxCount
    BY <1>a DEF Timer
  <2>4. ticks[cursor] >= Timer(cursor) => ticks'[cursor] >= Timer(cursor)
    BY <2>1, <2>2, <2>3, <1>a DEF Min2
  <2>5. UNCHANGED <<pc, cursor, owner, task, isr>>
    BY <1>8 DEF Tick, main
  <2>6. Timer(cursor)' = Timer(cursor)
    BY <2>5 DEF Timer
  <2> QED BY <1>0, <2>4, <2>5, <2>6 DEF CallInv
<1>9. CASE HostEnter \/ HostLeave \/ HostPause \/ HostRun \/ \E d \in Descs : HostStep(d)
  <2>1. UNCHANGED <<pc, cursor, owner, task, ticks>> /\ (pc = "fault" => isr' = isr \/ ~isr')
    BY <1>9 DEF HostEnter, HostLeave, HostPause, HostRun, HostStep, table, main
  <2>2. Timer(cursor)' = Timer(cursor)
    BY <2>1 DEF Timer
  <2> QED BY <1>0, <2>1, <2>2 DEF CallInv
<1>10. ASSUME NEW d \in Descs, HostCreate(d) PROVE CallInv'
  <2>1. PICK s \in Slots : /\ task' = [task EXCEPT ![s] = d] /\ owner' = OwnerAfter(s, "new")
                           /\ ticks' = [ticks EXCEPT ![s] = DescCounter[d]]
    BY <1>10 DEF HostCreate
  <2>2. UNCHANGED <<pc, cursor, isr>> /\ isr
    BY <1>10 DEF HostCreate, main
  <2>3. CASE s = cursor
    <3>1. task'[cursor] # None
      BY <2>1, <2>3, <1>a
    <3>2. pc \in {"compare", "call"} => owner' = "new"
      BY <2>1, <2>3
    <3>3. (pc = "loop" => owner' = owner) /\ pc # "fault"
      BY <2>1, <2>2 DEF CallInv
    <3> QED BY <3>1, <3>2, <3>3, <2>2, <1>0 DEF CallInv
  <2>4. CASE s # cursor
    <3>1. owner' = owner /\ task'[cursor] = task[cursor] /\ ticks'[cursor] = ticks[cursor]
      BY <2>1, <2>4, <1>a
    <3>2. Timer(cursor)' = Timer(cursor)
      BY <3>1, <2>2 DEF Timer
    <3> QED BY <3>1, <3>2, <2>2, <1>0 DEF CallInv
  <2> QED BY <2>3, <2>4
<1>11. ASSUME NEW s \in Slots, HostDestroy(s) PROVE CallInv'
  <2>1. /\ task' = [task EXCEPT ![s] = None] /\ owner' = OwnerAfter(s, "gone")
        /\ ticks' = [ticks EXCEPT ![s] = 0] /\ UNCHANGED <<pc, cursor, isr>>
    BY <1>11 DEF HostDestroy, main
  <2>2. CASE s = cursor
    <3>1. pc \in {"compare", "call"} => owner' = "gone"
      BY <2>1, <2>2
    <3>2. (pc = "loop" => owner' = owner) /\ pc # "fault"
      BY <1>11, <2>1 DEF CallInv, HostDestroy
    <3> QED BY <3>1, <3>2, <2>1, <1>0 DEF CallInv
  <2>3. CASE s # cursor
    <3>1. owner' = owner /\ task'[cursor] = task[cursor] /\ ticks'[cursor] = ticks[cursor]
      BY <2>1, <2>3, <1>a
    <3>2. Timer(cursor)' = Timer(cursor)
      BY <3>1, <2>1 DEF Timer
    <3> QED BY <3>1, <3>2, <2>1, <1>0 DEF CallInv
  <2> QED BY <2>2, <2>3
<1> QED BY <1>1, <1>2, <1>3, <1>4, <1>5, <1>6, <1>7, <1>8, <1>9, <1>10, <1>11 DEF Next, MainRun, Host

LEMMA CallInvCorrect == Spec => []CallInv
<1>1. Init => TypeOK /\ CallInv
  BY TypeInit DEF Init, CallInv, CallDue, LiveHasTask, GoneIsFree
<1>2. TypeOK /\ CallInv /\ [Next]_vars => TypeOK' /\ CallInv'
  BY TypeStep, CallStep
<1> QED BY <1>1, <1>2, PTL DEF Spec

\* Run_App calls the task it looked up, and only when it is due, unless the
\* host has replaced it since; it calls NULL only after the host has destroyed
\* that task, whatever else tears the table.
THEOREM CallCorrect == Spec => []CallDue
<1>1. CallInv => CallDue
  BY DEF CallInv
<1> QED BY <1>1, CallInvCorrect, PTL

-----------------------------------------------------------------------------
(* What a tick does to the tasks that are not being edited.                 *)

LEMMA AtMostOne ==
    ASSUME NEW S, NEW x, \A y \in S : y = x
    PROVE  IsFiniteSet(S) /\ Cardinality(S) <= 1
<1>1. S \in SUBSET {x}
  OBVIOUS
<1>2. IsFiniteSet({x}) /\ Cardinality({x}) = 1
  BY FS_Singleton
<1>3. IsFiniteSet(S) /\ Cardinality(S) <= Cardinality({x})
  BY <1>1, <1>2, FS_Subset
<1> QED BY <1>2, <1>3

LEMMA AtMostTwo ==
    ASSUME NEW S, NEW x, NEW y, \A z \in S : z = x \/ z = y
    PROVE  IsFiniteSet(S) /\ Cardinality(S) <= 2
<1>1. IsFiniteSet({x}) /\ Cardinality({x}) = 1
  BY FS_Singleton
<1>2. IsFiniteSet({x} \cup {y}) /\ Cardinality({x} \cup {y}) <= 2
  <2>1. PICK X : X = {x}
    OBVIOUS
  <2>2. /\ IsFiniteSet(X \cup {y})
        /\ Cardinality(X \cup {y}) = IF y \in X THEN Cardinality(X) ELSE Cardinality(X) + 1
    BY <1>1, <2>1, FS_AddElement
  <2> QED BY <1>1, <2>1, <2>2
<1>3. S \in SUBSET ({x} \cup {y})
  OBVIOUS
<1>4. IsFiniteSet(S) /\ Cardinality(S) <= Cardinality({x} \cup {y})
  BY <1>2, <1>3, FS_Subset
<1>5. Cardinality(S) \in Nat /\ Cardinality({x} \cup {y}) \in Nat
  BY <1>2, <1>4, FS_CardinalityType
<1> QED BY <1>2, <1>4, <1>5

\* The slots whose task main is not editing.
Others == Live \ (IF pc \in EditSteps THEN {slot} ELSE {})

\* The list names the counter of such a slot at one place that counts, and
\* beyond it at most at the place main's edit is at.
LEMMA OnePlace ==
    ASSUME TypeOK, ListOK, NEW s \in Others
    PROVE  \E k \in GoodPlaces :
              /\ upList[k] = s
              /\ \A m \in Registered(s) : m = k \/ m = j
              /\ k \in Registered(s) \/ (pc = "shift" /\ k = nUp)
              /\ pc \notin {"shift", "addStore"} => \A m \in Registered(s) : m = k
<1> USE DEF EditSteps, CreateSteps, AddSteps
<1>1. s \in Expected
  BY DEF Others, Expected
<1>2. PICK k \in GoodPlaces : upList[k] = s
  BY <1>1 DEF ListOK
<1>3. \A l \in GoodPlaces : upList[l] = s => l = k
  BY <1>2 DEF ListOK
<1>4. nUp \in Nat /\ j \in Nat
  BY DEF TypeOK
<1>5. CASE pc = "shift"
  <2>1. GoodPlaces = (0 .. nUp) \ {j}
    BY <1>5 DEF GoodPlaces
  <2> QED BY <2>1, <1>2, <1>3, <1>4, <1>5 DEF Registered
<1>6. CASE pc = "addStore"
  <2>1. GoodPlaces = 0 .. j - 1 /\ nUp = j + 1
    BY <1>6 DEF GoodPlaces, ListOK
  <2> QED BY <2>1, <1>2, <1>3, <1>4, <1>6 DEF Registered
<1>7. CASE pc \notin {"shift", "addStore"}
  <2>1. GoodPlaces = 0 .. nUp - 1
    BY <1>7 DEF GoodPlaces, ListOK
  <2> QED BY <2>1, <1>2, <1>3, <1>4, <1>7 DEF Registered
<1> QED BY <1>5, <1>6, <1>7

\* One tick advances each of them once; while the list closes up one may miss
\* the tick, and one may get it twice, whatever the sizes of table and list.
THEOREM TickCorrect == Spec => []TickFair
<1>1. ASSUME IInv, ~torn PROVE TickFair
  <2> DEFINE missed  == {s \in Others : Registered(s) = {}}
             doubled == {s \in Others : Cardinality(Registered(s)) > 1}
  <2>1. TypeOK /\ ListOK
    BY <1>1 DEF IInv, TableInv
  <2>2. \A s \in missed : s = upList[nUp] /\ pc = "shift"
    BY <2>1, OnePlace
  <2>3. \A s \in doubled : s = upList[j] /\ pc \in {"shift", "addStore"}
    <3> SUFFICES ASSUME NEW s \in Others, Cardinality(Registered(s)) > 1
                 PROVE  s = upList[j] /\ pc \in {"shift", "addStore"}
      OBVIOUS
    <3>1. PICK k \in GoodPlaces :
              /\ \A m \in Registered(s) : m = k \/ m = j
              /\ pc \notin {"shift", "addStore"} => \A m \in Registered(s) : m = k
      BY <2>1, OnePlace
    <3>2. Cardinality(Registered(s)) \in Nat
      BY <2>1, TicksType DEF Others, Live
    <3>3. ~(\A m \in Registered(s) : m = k)
      <4>1. ASSUME \A m \in Registered(s) : m = k PROVE FALSE
        <5>1. Cardinality(Registered(s)) <= 1
          BY <4>1, AtMostOne
        <5> QED BY <5>1, <3>2
      <4> QED BY <4>1
    <3>4. j \in Registered(s)
      BY <3>1, <3>3
    <3> QED BY <3>1, <3>3, <3>4 DEF Registered
  <2>4. \A s \in Others : Cardinality(Registered(s)) <= 2
    <3> SUFFICES ASSUME NEW s \in Others PROVE Cardinality(Registered(s)) <= 2
      OBVIOUS
    <3>1. PICK k \in GoodPlaces : \A m \in Registered(s) : m = k \/ m = j
      BY <2>1, OnePlace
    <3> QED BY <3>1, AtMostTwo
  <2>5. Cardinality(missed) <= 1 /\ Cardinality(doubled) <= 1
    <3>1. PICK x, y : x = upList[nUp] /\ y = upList[j]
      OBVIOUS
    <3>2. \A s \in missed : s = x
      BY <2>2, <3>1
    <3>3. \A s \in doubled : s = y
      BY <2>3, <3>1
    <3>4. Cardinality(missed) <= 1
      BY <3>2, AtMostOne
    <3>5. Cardinality(doubled) <= 1
      BY <3>3, AtMostOne
    <3> QED BY <3>4, <3>5
  <2>6. pc # "shift" => missed = {}
    BY <2>2
  <2>7. pc \notin {"shift", "addStore"} => doubled = {}
    BY <2>3
  <2> QED BY <2>4, <2>5, <2>6, <2>7 DEF TickFair, Others
<1>2. IInv => TickFair
  BY <1>1 DEF TickFair
<1> QED BY <1>2, InvCorrect, PTL

-----------------------------------------------------------------------------
\* As long as no host edit tears one of main's, a live task loses time it has
\* waited only when a function returns, in the slot Run_App called through: the
\* task called, or one created there while it ran.
THEOREM WaitCorrect == Spec => WaitKept
<1> DEFINE Kept == \A s \in Slots :
                      s \in Live /\ handle'[s] # 0 /\ ~torn' /\ ticks'[s] < ticks[s] =>
                         /\ pc = "body" /\ pc' = "loop" /\ cursor = s
                         /\ owner \in {"same", "new"}
                         /\ ticks'[s] = Period(s)
<1>1. IInv /\ CallInv /\ [Next]_vars => [Kept]_vars
  <2> SUFFICES ASSUME IInv, CallInv, Next, NEW s \in Slots, s \in Live, handle'[s] # 0, ~torn',
                      ticks'[s] < ticks[s]
               PROVE  /\ pc = "body" /\ pc' = "loop" /\ cursor = s
                      /\ owner \in {"same", "new"}
                      /\ ticks'[s] = Period(s)
    OBVIOUS
  <2>1. TypeOK /\ ticks \in [Slots -> 0 .. MaxCount] /\ ticks[s] \in 0 .. MaxCount
    BY DEF IInv, TypeOK
  <2>2. ticks' # ticks
    BY <2>1
  <2>3. CASE CreateWrite
    <3>1. ~torn /\ pc = "write" /\ ticks' = [ticks EXCEPT ![slot] = DescCounter[desc]]
      BY <2>3 DEF CreateWrite
    <3>2. handle[slot] = 0
      BY <3>1 DEF IInv, TableInv, EditOK
    <3> QED BY <3>1, <3>2, <2>1 DEF Live
  <2>4. CASE DestroyZero
    <3>1. ticks' = [ticks EXCEPT ![slot] = 0] /\ handle' = [handle EXCEPT ![slot] = 0]
      BY <2>4 DEF DestroyZero
    <3> QED BY <3>1, <2>1 DEF IInv, TypeOK
  <2>5. CASE RunReturn
    <3>1. /\ pc = "body" /\ pc' = "loop" /\ ticks' = [ticks EXCEPT ![cursor] = Period(cursor)]
          /\ UNCHANGED task
      BY <2>5 DEF RunReturn
    <3>2. s = cursor /\ ticks'[s] = Period(s)
      BY <3>1, <2>1
    <3>3. owner \in {"same", "new"}
      BY <3>2 DEF CallInv, GoneIsFree, Live, IInv, TypeOK
    <3> QED BY <3>1, <3>2, <3>3
  <2>6. CASE Tick
    <3>1. ticks'[s] = Min2(MaxCount, ticks[s] + Advance(s))
      BY <2>6 DEF Tick
    <3>2. Advance(s) \in Nat
      BY <2>1, AdvanceType
    <3> QED BY <3>1, <3>2, <2>1 DEF Min2
  <2>7. ASSUME NEW d \in Descs, HostCreate(d) PROVE FALSE
    <3>1. ~torn /\ pc \notin EditSteps
      BY <2>7 DEF HostCreate, Editing
    <3>2. PICK x \in Slots : IsFreeSlot(x, DescType[d]) /\ ticks' = [ticks EXCEPT ![x] = DescCounter[d]]
      BY <2>7 DEF HostCreate
    <3>3. handle[x] = 0
      BY <2>1, <2>7, <3>1, <3>2, FreeSlotFound DEF HostCreate, IInv, TableInv
    <3> QED BY <3>2, <3>3, <2>1 DEF Live
  <2>8. ASSUME NEW x \in Slots, HostDestroy(x) PROVE FALSE
    <3>1. ticks' = [ticks EXCEPT ![x] = 0] /\ handle' = [handle EXCEPT ![x] = 0]
      BY <2>8 DEF HostDestroy
    <3> QED BY <3>1, <2>1 DEF IInv, TypeOK
  <2>9. \/ CreateWrite \/ DestroyZero \/ RunReturn \/ Tick
        \/ \E d \in Descs : HostCreate(d)
        \/ \E x \in Slots : HostDestroy(x)
    <3>1. CASE MainCreate
      BY <3>1, <2>2 DEF MainCreate, CreateCheck, AddInc, AddStore, CreateCopy, CreateCount, table
    <3>2. CASE MainDestroy
      BY <3>2, <2>2 DEF MainDestroy, DestroyCheck, DeleteShift, DestroyCount, table
    <3>3. CASE MainStatus \/ MainRun
      BY <3>3, <2>2 DEF MainStatus, SetStatus, MainRun, BootDone, RunLookup, RunCompare, RunCall, FaultISR, vars, table
    <3>4. CASE Host
      BY <3>4, <2>2 DEF Host, HostEnter, HostLeave, HostPause, HostRun, HostStep, table
    <3> QED BY <3>1, <3>2, <3>3, <3>4 DEF Next
  <2> QED BY <2>3, <2>4, <2>5, <2>6, <2>7, <2>8, <2>9
<1>2. Spec => [][Kept]_vars
  BY <1>1, InvCorrect, CallInvCorrect, PTL DEF Spec
<1> QED BY <1>2 DEF WaitKept
=============================================================================
