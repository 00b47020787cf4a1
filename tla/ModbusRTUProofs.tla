--------------------------- MODULE ModbusRTUProofs ---------------------------
(* Proofs about the Modbus RTU master, for every table, every length of a   *)
(* request and every set of values.                                         *)
EXTENDS ModbusRTU, CommonLemmas

Entry == [id : Nat, cmd : Commands, addr : Nat]

Message == [start : Entries, end : Entries, values : [Entries -> Values],
            served : BOOLEAN, last : BOOLEAN]

-----------------------------------------------------------------------------
(* The inductive invariant.                                                 *)

Types ==
    /\ TypeOK
    /\ od \in Tables
    /\ wire \in Seq(Message)

\* The message sent last is the last one under way; the devices have obeyed a
\* first part of the messages; and when the master listens, its window is that
\* of the message it sent last.
WireInv ==
    /\ \A k \in DOMAIN wire : wire[k].last => k = Len(wire)
    /\ \A k \in DOMAIN wire : wire[k].served => \A h \in 1 .. k - 1 : wire[h].served
    /\ pc = "idle" => \A k \in DOMAIN wire : wire[k].last =>
                          wire[k].start = window.start /\ wire[k].end = window.end

\* The master has no change of the entry under way and is not in doubt about it.
Quiet(i) == ~update[i] /\ i \notin doubt

\* What the device has then is the old value, and a request it has not obeyed
\* yet writes no other; a request it has obeyed, and none was sent after it,
\* has left its values there.
ValueInv ==
    /\ \A i \in Writes : update[i] /\ i \notin doubt => old[i] # want[i]
    /\ \A i \in Writes : Quiet(i) /\ old[i] # Never => reg[i] = old[i]
    /\ \A k \in DOMAIN wire : \A i \in Writes : i \in wire[k].start .. wire[k].end =>
          /\ wire[k].served /\ wire[k].last => reg[i] = wire[k].values[i]
          /\ ~wire[k].served /\ Quiet(i) => wire[k].values[i] = old[i]

Inv == Types /\ WireInv /\ ValueInv /\ ReadOwn

-----------------------------------------------------------------------------
(* A window of the table.                                                   *)

LEMMA TableShape ==
    ASSUME od \in Tables
    PROVE  /\ Entries = 1 .. Len(od) /\ Len(od) \in Nat \ {0}
           /\ \A i \in Entries : od[i] \in Entry
<1>1. od \in Seq(Entry) /\ Len(od) > 0
  BY TableAssumption DEF Entry
<1> QED BY <1>1 DEF Entries

\* A window starts where Setp_Modbus says, stays in the table, and its entries
\* have one command.
LEMMA WindowShape ==
    ASSUME od \in Tables, NEW s \in Entries
    PROVE  /\ End(s) \in Entries /\ s <= End(s)
           /\ \A i \in s .. End(s) : od[i].cmd = od[s].cmd
<1> DEFINE S == {h \in s .. Len(od) : h = Len(od) \/ Splits(s, h)}
           e == End(s)
<1>1. Entries = 1 .. Len(od) /\ Len(od) \in Nat \ {0} /\ s \in Nat
  BY TableShape
<1>2. Len(od) \in S /\ S \subseteq Nat
  BY <1>1
<1>3. \E x \in S : \A y \in S : x <= y
  <2> HIDE DEF S
  <2> QED BY <1>2, SmallestNat
<1>4. e \in S /\ \A y \in S : e <= y
  <2>1. e = CHOOSE x \in S : \A y \in S : x <= y
    BY DEF End, Min
  <2> HIDE DEF S, e
  <2> QED BY <1>3, <2>1
<1>5. e \in s .. Len(od) /\ \A h \in s .. e - 1 : ~Splits(s, h)
  <2>1. e \in s .. Len(od)
    BY <1>4
  <2> SUFFICES ASSUME NEW h \in s .. e - 1, Splits(s, h) PROVE FALSE
    BY <2>1
  <2>2. h \in S
    BY <2>1, <1>1
  <2> HIDE DEF S, e
  <2> QED BY <2>1, <2>2, <1>1, <1>4
<1>6. \A i \in s .. e : od[i].cmd = od[s].cmd
  <2> DEFINE B == {i \in s .. e : od[i].cmd # od[s].cmd}
  <2> SUFFICES B = {}
    OBVIOUS
  <2> SUFFICES ASSUME B # {} PROVE FALSE
    OBVIOUS
  <2> HIDE DEF e
  <2>1. B \subseteq Nat
    BY <1>1, <1>5
  <2>2. PICK x \in B : \A y \in B : x <= y
    <3> HIDE DEF B
    <3> QED BY <2>1, SmallestNat
  <2>3. x \in s .. e /\ x # s /\ x \in Nat
    BY <2>1, <2>2
  <2>4. x - 1 \in s .. e - 1 /\ x - 1 \notin B
    BY <2>2, <2>3, <1>1, <1>5
  <2>5. od[x - 1].cmd = od[x - 1 + 1].cmd
    BY <2>4, <1>5 DEF Splits
  <2> QED BY <2>2, <2>3, <2>4, <2>5, <1>1, <1>5
<1> QED BY <1>1, <1>5, <1>6

-----------------------------------------------------------------------------
(* The messages under way.                                                  *)

\* A sequence that has lost its k-th element.
LEMMA DropOne ==
    ASSUME NEW S, NEW s \in Seq(S), NEW k \in DOMAIN s,
           NEW t, t = [h \in 1 .. Len(s) - 1 |-> IF h < k THEN s[h] ELSE s[h + 1]]
    PROVE  t \in Seq(S) /\ Len(t) = Len(s) - 1 /\ DOMAIN t = 1 .. Len(s) - 1
<1>1. Len(s) \in Nat /\ DOMAIN s = 1 .. Len(s) /\ \A h \in DOMAIN s : s[h] \in S
  BY SeqShape
<1>2. PICK n \in Nat : n = Len(s) - 1
  <2>1. Len(s) - 1 \in Nat
    BY <1>1
  <2> QED BY <2>1
<1>3. \A h \in 1 .. n : (IF h < k THEN s[h] ELSE s[h + 1]) \in S
  BY <1>1, <1>2
<1>4. t = [h \in 1 .. n |-> IF h < k THEN s[h] ELSE s[h + 1]]
  BY <1>2
<1>5. t \in [1 .. n -> S] /\ DOMAIN t = 1 .. n
  BY <1>3, <1>4
<1> QED BY <1>2, <1>5, FunctionIsSeq

\* A sequence that has lost its first element.
LEMMA DropFirst ==
    ASSUME NEW S, NEW s \in Seq(S), s # <<>>
    PROVE  /\ Head(s) = s[1] /\ 1 \in DOMAIN s
           /\ Tail(s) = [h \in 1 .. Len(s) - 1 |-> IF h < 1 THEN s[h] ELSE s[h + 1]]
<1> DEFINE t == [h \in 1 .. Len(s) - 1 |-> IF h < 1 THEN s[h] ELSE s[h + 1]]
<1>1. Len(s) \in Nat \ {0} /\ DOMAIN s = 1 .. Len(s)
  BY SeqShape, EmptySeq
<1>2. /\ Tail(s) \in Seq(S) /\ Len(Tail(s)) = Len(s) - 1
      /\ \A i \in 1 .. Len(Tail(s)) : Tail(s)[i] = s[i + 1]
  BY HeadTailProperties
<1>3. 1 \in DOMAIN s
  BY <1>1
<1>4. t \in Seq(S) /\ Len(t) = Len(s) - 1
  BY <1>3, DropOne
<1>5. \A i \in 1 .. Len(Tail(s)) : Tail(s)[i] = t[i]
  BY <1>1, <1>2
<1> HIDE DEF t
<1>6. Tail(s) = t
  BY <1>2, <1>4, <1>5, SeqEqual
<1>7. Head(s) = s[1]
  BY <1>1
<1> QED BY <1>3, <1>6, <1>7 DEF t

LEMMA AppendShape ==
    ASSUME NEW S, NEW s \in Seq(S), NEW e \in S
    PROVE  /\ Append(s, e) \in Seq(S) /\ Len(Append(s, e)) = Len(s) + 1
           /\ \A i \in 1 .. Len(s) : Append(s, e)[i] = s[i]
           /\ Append(s, e)[Len(s) + 1] = e
  OBVIOUS

\* The second of two elements and a new one behind it.
LEMMA SecondThen ==
    ASSUME NEW S, NEW s \in Seq(S), Len(s) = 2, NEW e \in S
    PROVE  /\ Append(Tail(s), e) \in Seq(S) /\ Len(Append(Tail(s), e)) = 2
           /\ Append(Tail(s), e)[1] = s[2] /\ Append(Tail(s), e)[2] = e
<1>1. s # <<>>
  BY EmptySeq
<1>2. PICK t : t = Tail(s)
  OBVIOUS
<1>3. /\ t \in Seq(S) /\ Len(t) = Len(s) - 1
      /\ \A i \in 1 .. Len(t) : t[i] = s[i + 1]
  BY <1>1, <1>2, HeadTailProperties
<1>4. Len(t) = 1 /\ t[1] = s[2]
  <2>1. Len(t) = 1
    BY <1>3
  <2>2. t[1] = s[1 + 1]
    BY <1>3, <2>1
  <2> QED BY <2>1, <2>2
<1>5. PICK u : u = Append(t, e)
  OBVIOUS
<1>6. /\ u \in Seq(S) /\ Len(u) = Len(t) + 1
      /\ \A i \in 1 .. Len(t) : u[i] = t[i]
      /\ u[Len(t) + 1] = e
  <2>1. t \in Seq(S) /\ e \in S
    BY <1>3
  <2>2. /\ Append(t, e) \in Seq(S) /\ Len(Append(t, e)) = Len(t) + 1
        /\ \A i \in 1 .. Len(t) : Append(t, e)[i] = t[i]
        /\ Append(t, e)[Len(t) + 1] = e
    BY <2>1, AppendShape
  <2> QED BY <1>5, <2>2
<1>7. u \in Seq(S) /\ Len(u) = 2 /\ u[1] = s[2] /\ u[2] = e
  <2>1. Len(t) + 1 = 2 /\ 1 \in 1 .. Len(t)
    BY <1>4
  <2>2. u[2] = e /\ Len(u) = 2
    BY <1>6, <2>1
  <2>3. u[1] = t[1]
    BY <1>6, <2>1
  <2> QED BY <1>4, <1>6, <2>2, <2>3
<1> QED BY <1>2, <1>5, <1>7

LEMMA WireShape ==
    ASSUME Types
    PROVE  /\ Len(wire) \in 0 .. 2 /\ DOMAIN wire = 1 .. Len(wire)
           /\ \A k \in DOMAIN wire : wire[k] \in Message
<1>1. wire \in Seq(Message) /\ Len(wire) <= 2
  BY DEF Types, TypeOK
<1>2. Len(wire) \in Nat /\ DOMAIN wire = 1 .. Len(wire) /\ \A k \in DOMAIN wire : wire[k] \in Message
  BY <1>1, SeqShape
<1> QED BY <1>1, <1>2

New(w) == [start |-> w.start, end |-> w.end, values |-> want, served |-> FALSE, last |-> TRUE]

\* What Send does: it may drop the first message, the others are not the last
\* any more, and the new one comes behind them.
LEMMA SendShape ==
    ASSUME Types, NEW w, w.start \in Entries, w.end \in Entries, Send(w)
    PROVE  /\ wire' \in Seq(Message) /\ Len(wire') \in 1 .. 2 /\ DOMAIN wire' = 1 .. Len(wire')
           /\ wire'[Len(wire')] = New(w)
           /\ \E d \in {0, 1} : \A k \in 1 .. Len(wire') - 1 :
                 k + d \in DOMAIN wire /\ wire'[k] = [wire[k + d] EXCEPT !.last = FALSE]
<1>1. Len(wire) \in 0 .. 2 /\ DOMAIN wire = 1 .. Len(wire) /\ \A k \in DOMAIN wire : wire[k] \in Message
  BY WireShape
<1>2. PICK others : others = [k \in DOMAIN wire |-> [wire[k] EXCEPT !.last = FALSE]]
  OBVIOUS
<1>3. others \in Seq(Message) /\ Len(others) = Len(wire)
  <2>1. others \in [1 .. Len(wire) -> Message]
    BY <1>1, <1>2 DEF Message
  <2> QED BY <2>1, <1>1, FunctionIsSeq
<1>4. New(w) \in Message
  BY DEF New, Message, Types, TypeOK
<1>5. wire' = Append(IF Len(others) < 2 THEN others ELSE Tail(others), New(w))
  BY <1>2 DEF Send, New
<1>6. \A k \in DOMAIN wire : others[k] = [wire[k] EXCEPT !.last = FALSE]
  BY <1>2
<1>7. CASE Len(others) < 2
  <2>1. wire' = Append(others, New(w))
    BY <1>5, <1>7
  <2>2. /\ wire' \in Seq(Message) /\ Len(wire') = Len(others) + 1
        /\ \A k \in 1 .. Len(others) : wire'[k] = others[k]
        /\ wire'[Len(others) + 1] = New(w)
    BY <2>1, <1>3, <1>4, AppendProperties
  <2>3. Len(wire') \in 1 .. 2 /\ DOMAIN wire' = 1 .. Len(wire')
    BY <2>2, <1>1, <1>3, <1>7, SeqShape
  <2>4. \A k \in 1 .. Len(wire') - 1 :
           k + 0 \in DOMAIN wire /\ wire'[k] = [wire[k + 0] EXCEPT !.last = FALSE]
    BY <2>2, <1>1, <1>3, <1>6
  <2> QED BY <2>2, <2>3, <2>4
<1>8. CASE ~(Len(others) < 2)
  <2>1. Len(others) = 2 /\ Len(wire) = 2
    BY <1>1, <1>3, <1>8
  <2>2. wire' = Append(Tail(others), New(w))
    BY <1>5, <1>8
  <2>3. wire' \in Seq(Message) /\ Len(wire') = 2 /\ wire'[1] = others[2] /\ wire'[2] = New(w)
    BY <2>1, <2>2, <1>3, <1>4, SecondThen
  <2>7. DOMAIN wire' = 1 .. 2
    BY <2>3, SeqShape
  <2>8. 2 \in DOMAIN wire /\ wire'[1] = [wire[2] EXCEPT !.last = FALSE]
    BY <2>1, <2>3, <1>1, <1>6
  <2>9. \A k \in 1 .. Len(wire') - 1 :
           k + 1 \in DOMAIN wire /\ wire'[k] = [wire[k + 1] EXCEPT !.last = FALSE]
    BY <2>3, <2>8
  <2> QED BY <2>3, <2>7, <2>9
<1> QED BY <1>7, <1>8

-----------------------------------------------------------------------------
(* Every step keeps the invariant.                                          *)

LEMMA InitInv == Init => Inv
<1> SUFFICES ASSUME Init PROVE Inv
  OBVIOUS
<1>1. od \in Tables /\ Entries = 1 .. Len(od) /\ Len(od) \in Nat \ {0}
  BY TableShape DEF Init
<1>2. wire = <<>> /\ wire \in Seq(Message) /\ Len(wire) = 0
  BY DEF Init
<1>3. TypeOK
  <2>1. want \in [Entries -> Values] /\ old \in [Entries -> Values \cup {Never}]
    BY ValueAssumption DEF Init
  <2> QED BY <1>1, <1>2, <2>1 DEF Init, TypeOK
<1>4. Types
  BY <1>1, <1>2, <1>3 DEF Types
<1>5. WireInv /\ ReadOwn
  BY <1>2 DEF Init, WireInv, ReadOwn, Writes
<1>6. ValueInv
  BY <1>2 DEF Init, ValueInv, Writes, Quiet
<1> QED BY <1>4, <1>5, <1>6 DEF Inv

\* A function block sets a value.
LEMMA SetValueInv ==
    ASSUME Inv, NEW i \in Writes, NEW v \in Values, SetValue(i, v)
    PROVE  Inv'
<1>1. /\ UNCHANGED <<od, setp, window, pc, old, update, sends, read, reg, wire, wrong, swapped>>
      /\ want' = [want EXCEPT ![i] = v]
      /\ doubt' = IF update[i] /\ old[i] = v THEN doubt \cup {i} ELSE doubt
  BY DEF SetValue
<1>2. want \in [Entries -> Values] /\ i \in Entries
  BY DEF Inv, Types, TypeOK, Writes
<1>3. Types'
  <2>1. want' \in [Entries -> Values]'
    BY <1>1, <1>2 DEF Entries
  <2>2. TypeOK'
    BY <1>1, <2>1 DEF Inv, Types, TypeOK, Entries
  <2> QED BY <1>1, <2>2 DEF Inv, Types, Message, Entries
<1>4. WireInv' /\ ReadOwn'
  BY <1>1 DEF Inv, WireInv, ReadOwn, Writes, Entries
<1>5. ValueInv'
  <2>1. \A x \in Writes' : update'[x] /\ x \notin doubt' => old'[x] # want'[x]
    BY <1>1, <1>2 DEF Inv, ValueInv, Writes, Entries
  <2>2. \A x \in Writes : Quiet(x)' => Quiet(x)
    BY <1>1 DEF Quiet
  <2> QED BY <1>1, <2>1, <2>2 DEF Inv, ValueInv, Writes, Entries
<1> QED BY <1>3, <1>4, <1>5 DEF Inv

LEMMA TxInv == ASSUME Inv, Tx PROVE Inv'
<1>1. pc' = "compose" /\ UNCHANGED <<od, setp, window, values, read, reg, wire, history>>
  BY DEF Tx
<1>2. Types'
  BY <1>1 DEF Inv, Types, TypeOK, Message, Entries, values
<1>3. WireInv' /\ ReadOwn' /\ ValueInv'
  BY <1>1 DEF Inv, WireInv, ReadOwn, ValueInv, Quiet, Writes, Entries, values, history
<1> QED BY <1>2, <1>3 DEF Inv

-----------------------------------------------------------------------------
\* The devices obey a request.
LEMMA ServeInv == ASSUME Inv, Serve PROVE Inv'
<1>1. PICK k \in DOMAIN wire :
          /\ ~wire[k].served /\ \A j \in 1 .. k - 1 : wire[j].served
          /\ wire' = [wire EXCEPT ![k].served = TRUE]
          /\ reg' = [i \in Entries |-> IF i \in Writes /\ i \in wire[k].start .. wire[k].end
                                       THEN wire[k].values[i] ELSE reg[i]]
          /\ UNCHANGED <<od, setp, window, pc, values, read, history>>
  BY DEF Serve
<1>2. Len(wire) \in 0 .. 2 /\ DOMAIN wire = 1 .. Len(wire) /\ \A h \in DOMAIN wire : wire[h] \in Message
  BY WireShape DEF Inv
<1>3. /\ wire' \in Seq(Message) /\ Len(wire') = Len(wire) /\ DOMAIN wire' = DOMAIN wire
      /\ \A h \in DOMAIN wire : /\ wire'[h].served = (IF h = k THEN TRUE ELSE wire[h].served)
                                /\ wire'[h].last = wire[h].last
                                /\ wire'[h].start = wire[h].start /\ wire'[h].end = wire[h].end
                                /\ wire'[h].values = wire[h].values
  <2>1. PICK m \in Message : m = [wire[k] EXCEPT !.served = TRUE]
    BY <1>2 DEF Message
  <2>2. wire' = [wire EXCEPT ![k] = m] /\ wire \in Seq(Message)
    BY <1>1, <2>1 DEF Inv, Types
  <2>3. /\ wire' \in Seq(Message) /\ Len(wire') = Len(wire)
        /\ \A h \in 1 .. Len(wire) : wire'[h] = IF h = k THEN m ELSE wire[h]
    BY <2>2, <1>2, ExceptSeq
  <2>4. /\ m.served = TRUE /\ m.last = wire[k].last /\ m.start = wire[k].start
        /\ m.end = wire[k].end /\ m.values = wire[k].values
    BY <2>1, <1>2 DEF Message
  <2>5. DOMAIN wire' = DOMAIN wire
    BY <2>2
  <2> QED BY <2>3, <2>4, <2>5, <1>2
<1>4. Types'
  <2>1. TypeOK'
    BY <1>1, <1>2, <1>3 DEF Inv, Types, TypeOK, Entries, values
  <2> QED BY <1>1, <1>3, <2>1 DEF Inv, Types, Message, Entries
<1>5. WireInv'
  <2>1. \A h \in DOMAIN wire' : wire'[h].last => h = Len(wire')
    BY <1>3 DEF Inv, WireInv
  <2>2. \A h \in DOMAIN wire' : wire'[h].served => \A j \in 1 .. h - 1 : wire'[j].served
    BY <1>1, <1>2, <1>3 DEF Inv, WireInv
  <2>3. pc' = "idle" => \A h \in DOMAIN wire' : wire'[h].last =>
            wire'[h].start = window'.start /\ wire'[h].end = window'.end
    BY <1>1, <1>3 DEF Inv, WireInv
  <2> QED BY <2>1, <2>2, <2>3 DEF WireInv
<1>6. ReadOwn'
  BY <1>1 DEF Inv, ReadOwn, Writes, Entries, history
<1>7. ValueInv'
  <2>1. \A i \in Writes' : update'[i] /\ i \notin doubt' => old'[i] # want'[i]
    BY <1>1 DEF Inv, ValueInv, Writes, Entries, values, history
  <2>2. \A i : Quiet(i)' <=> Quiet(i)
    BY <1>1 DEF Quiet, values, history
  <2>3. Writes' = Writes /\ Writes \subseteq Entries /\ old' = old
    BY <1>1 DEF Writes, Entries, values
  <2>4. \A i \in Writes' : Quiet(i)' /\ old'[i] # Never => reg'[i] = old'[i]
    BY <1>1, <2>2, <2>3 DEF Inv, ValueInv
  <2>5. ASSUME NEW h \in DOMAIN wire', NEW i \in Writes, i \in wire'[h].start .. wire'[h].end
        PROVE  /\ wire'[h].served /\ wire'[h].last => reg'[i] = wire'[h].values[i]
               /\ ~wire'[h].served /\ Quiet(i)' => wire'[h].values[i] = old'[i]
    <3>1. h \in DOMAIN wire /\ i \in wire[h].start .. wire[h].end /\ i \in Entries
      BY <1>3, <2>3, <2>5
    <3>2. ~wire'[h].served => h # k /\ ~wire[h].served
      BY <1>3
    <3>3. CASE h = k
      BY <1>1, <1>3, <3>1, <3>3
    <3>4. CASE h # k
      <4>1. ASSUME wire'[h].served, wire'[h].last PROVE FALSE
        <5>1. wire[h].served /\ h = Len(wire)
          BY <1>3, <3>1, <3>4, <4>1 DEF Inv, WireInv
        <5>2. k \in 1 .. h - 1
          BY <1>2, <3>4, <5>1
        <5> QED BY <1>1, <3>1, <5>1, <5>2 DEF Inv, WireInv
      <4> QED BY <1>3, <2>2, <2>3, <3>1, <3>2, <4>1, ZenonT(60) DEF Inv, ValueInv
    <3> QED BY <3>3, <3>4
  <2> QED BY <2>1, <2>3, <2>4, <2>5 DEF ValueInv
<1> QED BY <1>4, <1>5, <1>6, <1>7 DEF Inv

-----------------------------------------------------------------------------
\* A message gone from the line, lost or taken, leaves the others in order.
LEMMA DropInv ==
    ASSUME Inv, NEW k \in DOMAIN wire, UNCHANGED <<od, window, pc>>,
           wire' = [h \in 1 .. Len(wire) - 1 |-> IF h < k THEN wire[h] ELSE wire[h + 1]]
    PROVE  /\ wire' \in Seq(Message)' /\ Len(wire') <= 2 /\ WireInv'
           /\ \A h \in DOMAIN wire' : \E l \in DOMAIN wire :
                 wire'[h] = wire[l] /\ (k = 1 => l # 1)
<1>1. Len(wire) \in 0 .. 2 /\ DOMAIN wire = 1 .. Len(wire) /\ wire \in Seq(Message)
  BY WireShape DEF Inv, Types
<1>2. wire' \in Seq(Message) /\ Len(wire') = Len(wire) - 1 /\ DOMAIN wire' = 1 .. Len(wire) - 1
  BY <1>1, DropOne
<1>3. wire' \in Seq(Message)' /\ Len(wire') <= 2
  BY <1>1, <1>2 DEF Message, Entries
<1>4. \A h \in DOMAIN wire' : wire'[h] = IF h < k THEN wire[h] ELSE wire[h + 1]
  BY <1>2
<1>5. \A h \in DOMAIN wire' : h \in DOMAIN wire /\ h + 1 \in DOMAIN wire
  BY <1>1, <1>2
<1>6. \A h \in DOMAIN wire' : wire'[h].last => h = Len(wire')
  <2> SUFFICES ASSUME NEW h \in DOMAIN wire', wire'[h].last PROVE h = Len(wire')
    OBVIOUS
  <2>1. CASE h < k
    <3>1. h = Len(wire)
      BY <1>4, <1>5, <2>1 DEF Inv, WireInv
    <3> QED BY <3>1, <2>1, <1>1
  <2>2. CASE ~(h < k)
    <3>1. h + 1 = Len(wire)
      BY <1>4, <1>5, <2>2 DEF Inv, WireInv
    <3> QED BY <3>1, <1>1, <1>2
  <2> QED BY <2>1, <2>2
<1>7. \A h \in DOMAIN wire' : wire'[h].served => \A j \in 1 .. h - 1 : wire'[j].served
  <2> SUFFICES ASSUME NEW h \in DOMAIN wire', wire'[h].served, NEW j \in 1 .. h - 1
               PROVE  wire'[j].served
    OBVIOUS
  <2>1. j \in DOMAIN wire' /\ j \in Nat /\ h \in Nat
    BY <1>1, <1>2
  <2>2. CASE h < k
    <3>1. wire[h].served /\ wire'[j] = wire[j]
      BY <1>4, <2>1, <2>2, <1>1
    <3> QED BY <3>1, <1>5 DEF Inv, WireInv
  <2>3. CASE ~(h < k)
    <3>1. wire[h + 1].served
      BY <1>4, <2>3
    <3>2. wire'[j] = wire[j] \/ wire'[j] = wire[j + 1]
      BY <1>4, <2>1
    <3>3. j \in 1 .. (h + 1) - 1 /\ j + 1 \in 1 .. (h + 1) - 1
      BY <2>1
    <3> QED BY <3>1, <3>2, <3>3, <1>5 DEF Inv, WireInv
  <2> QED BY <2>2, <2>3
<1>8. \A h \in DOMAIN wire' : \E l \in DOMAIN wire : wire'[h] = wire[l] /\ (k = 1 => l # 1)
  <2> SUFFICES ASSUME NEW h \in DOMAIN wire'
               PROVE  \E l \in DOMAIN wire : wire'[h] = wire[l] /\ (k = 1 => l # 1)
    OBVIOUS
  <2>1. h \in Nat \ {0} /\ k \in Nat \ {0}
    BY <1>1, <1>2
  <2> QED BY <2>1, <1>4, <1>5
<1>9. WireInv'
  <2>1. pc' = "idle" => \A h \in DOMAIN wire' : wire'[h].last =>
            wire'[h].start = window'.start /\ wire'[h].end = window'.end
    BY <1>8 DEF Inv, WireInv
  <2> QED BY <1>6, <1>7, <2>1 DEF WireInv
<1> QED BY <1>3, <1>8, <1>9

LEMMA LoseInv == ASSUME Inv, Lose PROVE Inv'
<1>1. PICK k \in DOMAIN wire :
          wire' = [j \in 1 .. Len(wire) - 1 |-> IF j < k THEN wire[j] ELSE wire[j + 1]]
  BY DEF Lose
<1>2. UNCHANGED <<od, setp, window, pc, values, read, reg, history>>
  BY DEF Lose
<1>3. /\ wire' \in Seq(Message)' /\ Len(wire') <= 2 /\ WireInv'
      /\ \A h \in DOMAIN wire' : \E l \in DOMAIN wire : wire'[h] = wire[l]
  BY <1>1, <1>2, DropInv
<1>4. TypeOK'
  BY <1>2, <1>3 DEF Inv, Types, TypeOK, Entries, values
<1>5. Types'
  BY <1>2, <1>3, <1>4 DEF Inv, Types
<1>6. ReadOwn'
  BY <1>2 DEF Inv, ReadOwn, Writes, Entries, history
<1>7. ValueInv'
  <2>1. Writes' = Writes /\ \A i : Quiet(i)' <=> Quiet(i)
    BY <1>2 DEF Writes, Entries, Quiet, values, history
  <2>2. UNCHANGED <<old, want, update, doubt, reg>>
    BY <1>2 DEF values, history
  <2> QED BY <2>1, <2>2, <1>3 DEF Inv, ValueInv
<1> QED BY <1>3, <1>5, <1>6, <1>7 DEF Inv

-----------------------------------------------------------------------------
(* The master takes an answer.                                              *)

LEMMA RxShape ==
    ASSUME Inv, Rx
    PROVE  /\ 1 \in DOMAIN wire /\ Head(wire) = wire[1] /\ wire[1] \in Message
           /\ wire[1].served /\ pc = "idle"
           /\ UNCHANGED <<od, setp, window, pc, reg>>
           /\ wire' \in Seq(Message)' /\ Len(wire') <= 2 /\ WireInv'
           /\ \A h \in DOMAIN wire' : \E l \in DOMAIN wire : wire'[h] = wire[l] /\ l # 1
<1>1. wire # <<>> /\ Head(wire).served /\ pc = "idle" /\ wire' = Tail(wire)
  BY DEF Rx
<1>2. UNCHANGED <<od, setp, window, pc, reg>>
  BY DEF Rx
<1>3. wire \in Seq(Message)
  BY DEF Inv, Types
<1>4. /\ Head(wire) = wire[1] /\ 1 \in DOMAIN wire
      /\ wire' = [h \in 1 .. Len(wire) - 1 |-> IF h < 1 THEN wire[h] ELSE wire[h + 1]]
  BY <1>1, <1>3, DropFirst
<1>5. wire[1] \in Message
  BY <1>4, WireShape DEF Inv
<1>6. /\ wire' \in Seq(Message)' /\ Len(wire') <= 2 /\ WireInv'
      /\ \A h \in DOMAIN wire' : \E l \in DOMAIN wire : wire'[h] = wire[l] /\ (1 = 1 => l # 1)
  BY <1>2, <1>4, DropInv
<1> QED BY <1>1, <1>2, <1>4, <1>5, <1>6

\* An answer to the request sent last belongs to the window; after it nothing
\* else is under way.
LEMMA OwnAnswer ==
    ASSUME Inv, pc = "idle", 1 \in DOMAIN wire, wire[1].last
    PROVE  wire[1].start = window.start /\ wire[1].end = window.end /\ DOMAIN wire = {1}
<1>1. Len(wire) = 1 /\ DOMAIN wire = 1 .. Len(wire)
  BY WireShape DEF Inv, WireInv
<1> QED BY <1>1 DEF Inv, WireInv

\* Where the value of an entry is in an answer to the request for its window:
\* in its own place, or one byte before or behind it.
LEMMA OwnPlace ==
    ASSUME NEW m \in Message, m.start = window.start, m.end = window.end, ~Ignored(m),
           m.start \in Nat, m.end \in Nat, NEW i \in Window
    PROVE  Register(m, i) \in IF Swaps(m) THEN {i - PerByte, i + PerByte} ELSE {i}
<1> DEFINE k == i - window.start
<1>1. PerByte \in Nat \ {0} /\ i \in Nat /\ k \in Nat /\ k <= m.end - m.start
  BY ByteAssumption DEF Window
<1>2. CASE ~Swaps(m)
  BY <1>1, <1>2 DEF Register, Place
<1>3. CASE Swaps(m)
  <2>1. Coils(m) = m.end - m.start + 1
    BY <1>1, <1>3 DEF Swaps, Coils
  <2>2. k < 2 * PerByte
    BY <1>1, <2>1 DEF Ignored
  <2>3. Place(m, k) \in {k + PerByte, k - PerByte}
    BY <1>3, <2>2 DEF Place
  <2> HIDE DEF k
  <2>4. Register(m, i) \in {m.start + k + PerByte, m.start + k - PerByte}
    BY <1>1, <2>3 DEF Register, k
  <2>5. m.start + k = i
    BY <1>1 DEF k
  <2> QED BY <1>1, <1>3, <2>4, <2>5
<1> QED BY <1>2, <1>3

LEMMA ReadAnswerInv ==
    ASSUME Inv, Rx, ReadAnswer(Head(wire)), UNCHANGED <<values, doubt>>
    PROVE  Inv'
<1> DEFINE m == wire[1]
<1>1. /\ 1 \in DOMAIN wire /\ Head(wire) = m /\ m \in Message /\ pc = "idle"
      /\ UNCHANGED <<od, setp, window, pc, reg>>
      /\ wire' \in Seq(Message)' /\ Len(wire') <= 2 /\ WireInv'
      /\ \A h \in DOMAIN wire' : \E l \in DOMAIN wire : wire'[h] = wire[l]
  BY RxShape
<1>2. /\ read' = [i \in Entries |-> IF i \notin Window THEN read[i]
                                    ELSE IF Register(m, i) \in m.start .. m.end THEN Register(m, i)
                                    ELSE Unread]
      /\ wrong' = IF m.last THEN wrong \ Window ELSE wrong \cup Window
      /\ swapped' = IF Swaps(m) THEN swapped \cup Window ELSE swapped \ Window
      /\ ~Ignored(m)
  BY <1>1 DEF ReadAnswer
<1>3. Entries' = Entries /\ Writes' = Writes /\ Entries = 1 .. Len(od) /\ Len(od) \in Nat
  BY <1>1, TableShape DEF Entries, Writes, Inv, Types
<1>4. m.start \in Entries /\ m.end \in Entries /\ window.start \in Entries
  BY <1>1 DEF Message, Inv, Types, TypeOK
<1>5. TypeOK'
  <2>1. read' \in [Entries -> Entries \cup {Unread}]
    <3> SUFFICES ASSUME NEW i \in Entries PROVE read'[i] \in Entries \cup {Unread}
      BY <1>2
    <3>1. m.start .. m.end \subseteq Entries
      BY <1>3, <1>4
    <3> QED BY <1>2, <3>1 DEF Inv, Types, TypeOK
  <2> QED BY <1>1, <1>2, <1>3, <2>1 DEF Inv, Types, TypeOK, values
<1>6. Types'
  BY <1>1, <1>5 DEF Inv, Types
<1>7. ReadOwn'
  <2> SUFFICES ASSUME NEW i \in Entries \ (Writes \cup wrong')
               PROVE  read'[i] \in {Unread} \cup
                          (IF i \in swapped' THEN {i - PerByte, i + PerByte} ELSE {i})
    BY <1>3 DEF ReadOwn
  <2>1. CASE i \in Window
    <3>1. m.last
      BY <1>2, <2>1
    <3>2. m.start = window.start /\ m.end = window.end
      BY <1>1, <3>1, OwnAnswer
    <3>3. m.start \in Nat /\ m.end \in Nat
      BY <1>3, <1>4
    <3>4. Register(m, i) \in IF Swaps(m) THEN {i - PerByte, i + PerByte} ELSE {i}
      BY <1>1, <1>2, <2>1, <3>2, <3>3, OwnPlace
    <3>5. i \in swapped' <=> Swaps(m)
      BY <1>2, <2>1
    <3>6. read'[i] \in {Register(m, i), Unread}
      BY <1>2, <2>1
    <3> QED BY <3>4, <3>5, <3>6
  <2>2. CASE i \notin Window
    <3>1. i \notin wrong /\ read'[i] = read[i] /\ (i \in swapped' <=> i \in swapped)
      BY <1>2, <2>2
    <3> QED BY <3>1 DEF Inv, ReadOwn
  <2> QED BY <2>1, <2>2
<1>8. ValueInv'
  <2>1. UNCHANGED <<old, want, update, doubt, reg>> /\ \A i : Quiet(i)' <=> Quiet(i)
    BY <1>1 DEF Quiet, values
  <2> QED BY <2>1, <1>1, <1>3 DEF Inv, ValueInv
<1> QED BY <1>1, <1>6, <1>7, <1>8 DEF Inv

\* An answer that is not taken over.
LEMMA IgnoredInv == ASSUME Inv, Rx, UNCHANGED <<values, read, history>> PROVE Inv'
<1>1. /\ UNCHANGED <<od, setp, window, pc, reg>>
      /\ wire' \in Seq(Message)' /\ Len(wire') <= 2 /\ WireInv'
      /\ \A h \in DOMAIN wire' : \E l \in DOMAIN wire : wire'[h] = wire[l]
  BY RxShape
<1>2. Entries' = Entries /\ Writes' = Writes
  BY <1>1 DEF Entries, Writes
<1>3. UNCHANGED <<want, old, update, sends, read, doubt, wrong, swapped>>
  BY DEF values, history
<1>4. TypeOK'
  BY <1>1, <1>2, <1>3 DEF Inv, Types, TypeOK
<1>5. Types'
  BY <1>1, <1>4 DEF Inv, Types
<1>6. ReadOwn'
  BY <1>2, <1>3 DEF Inv, ReadOwn
<1>7. ValueInv'
  <2>1. \A i : Quiet(i)' <=> Quiet(i)
    BY <1>3 DEF Quiet
  <2> QED BY <2>1, <1>1, <1>2, <1>3 DEF Inv, ValueInv
<1> QED BY <1>1, <1>5, <1>6, <1>7 DEF Inv

LEMMA WriteAnswerInv == ASSUME Inv, Rx, WriteAnswer(Head(wire)) PROVE Inv'
<1> DEFINE m    == wire[1]
           good == {i \in Window : m.last /\ m.values[i] = want[i]}
           set  == {i \in Window : update[i]}
<1>1. /\ 1 \in DOMAIN wire /\ Head(wire) = m /\ m \in Message /\ m.served /\ pc = "idle"
      /\ UNCHANGED <<od, setp, window, pc, reg>>
      /\ wire' \in Seq(Message)' /\ Len(wire') <= 2 /\ WireInv'
      /\ \A h \in DOMAIN wire' : \E l \in DOMAIN wire : wire'[h] = wire[l] /\ l # 1
  BY RxShape
<1>2. /\ old' = [i \in Entries |-> IF i \in Window /\ update[i] THEN want[i] ELSE old[i]]
      /\ update' = [i \in Entries |-> update[i] /\ i \notin Window]
      /\ sends' = [sends EXCEPT ![window.start] = 0]
      /\ doubt' = (doubt \ (good \cap set)) \cup (set \ good)
      /\ UNCHANGED <<want, read, wrong, swapped>>
  BY <1>1 DEF WriteAnswer, Settle
<1>3. Entries' = Entries /\ Writes' = Writes /\ Writes \subseteq Entries
  BY <1>1 DEF Entries, Writes
<1>4. TypeOK'
  <2>1. old' \in [Entries -> Values \cup {Never}]
    BY <1>2 DEF Inv, Types, TypeOK
  <2>2. update' \in [Entries -> BOOLEAN]
    BY <1>2 DEF Inv, Types, TypeOK
  <2>3. sends' \in [Entries -> 0 .. 1 \cup {255}]
    BY <1>2 DEF Inv, Types, TypeOK
  <2> QED BY <1>1, <1>2, <1>3, <2>1, <2>2, <2>3 DEF Inv, Types, TypeOK
<1>5. Types'
  BY <1>1, <1>4 DEF Inv, Types
<1>6. ReadOwn'
  BY <1>2, <1>3 DEF Inv, ReadOwn
<1>7. ValueInv'
  <2>1. ASSUME NEW i \in Writes, update'[i], i \notin doubt' PROVE old'[i] # want'[i]
    <3>1. i \in Entries /\ i \notin Window /\ update[i]
      BY <1>2, <1>3, <2>1
    <3>2. i \notin doubt /\ old'[i] = old[i]
      BY <1>2, <2>1, <3>1
    <3> QED BY <1>2, <3>1, <3>2 DEF Inv, ValueInv
  \* An entry becomes quiet only when its own values have arrived.
  <2>2. ASSUME NEW i \in Writes, Quiet(i)', ~(i \in good /\ i \in set)
        PROVE  Quiet(i) /\ old'[i] = old[i]
    <3>1. i \in Entries /\ ~update'[i] /\ i \notin doubt'
      BY <1>3, <2>2 DEF Quiet
    <3>2. i \notin set /\ i \notin doubt
      BY <1>2, <2>2, <3>1
    <3>3. ~update[i]
      BY <1>2, <3>1, <3>2
    <3> QED BY <1>2, <3>1, <3>2, <3>3 DEF Quiet
  <2>3. ASSUME NEW i \in Writes, i \in good, i \in set
        PROVE  reg[i] = old'[i] /\ DOMAIN wire = {1}
    <3>1. m.last /\ m.values[i] = want[i] /\ i \in Window /\ update[i] /\ i \in Entries
      BY <1>3, <2>3
    <3>2. m.start = window.start /\ m.end = window.end /\ DOMAIN wire = {1}
      BY <1>1, <3>1, OwnAnswer
    <3>3. i \in m.start .. m.end
      BY <3>1, <3>2 DEF Window
    <3>4. reg[i] = m.values[i]
      BY <1>1, <3>1, <3>3 DEF Inv, ValueInv
    <3> QED BY <1>2, <3>1, <3>2, <3>4
  <2>4. ASSUME NEW i \in Writes, Quiet(i)', old'[i] # Never PROVE reg'[i] = old'[i]
    BY <1>1, <2>2, <2>3, <2>4 DEF Inv, ValueInv
  <2>5. ASSUME NEW h \in DOMAIN wire', NEW i \in Writes, i \in wire'[h].start .. wire'[h].end
        PROVE  /\ wire'[h].served /\ wire'[h].last => reg'[i] = wire'[h].values[i]
               /\ ~wire'[h].served /\ Quiet(i)' => wire'[h].values[i] = old'[i]
    <3>1. PICK l \in DOMAIN wire : wire'[h] = wire[l] /\ l # 1
      BY <1>1
    <3>2. ~(i \in good /\ i \in set)
      BY <2>3, <3>1
    <3> HIDE DEF good, set
    <3> QED BY <1>1, <2>2, <2>5, <3>1, <3>2 DEF Inv, ValueInv
  <2> QED BY <1>3, <2>1, <2>4, <2>5 DEF ValueInv
<1> QED BY <1>1, <1>5, <1>6, <1>7 DEF Inv

LEMMA RxInv == ASSUME Inv, Rx PROVE Inv'
  BY ReadAnswerInv, WriteAnswerInv, IgnoredInv DEF Rx

-----------------------------------------------------------------------------
(* The master composes the request for the next window.                     *)

ComposeFrame(w) ==
    /\ w.start \in Entries /\ w.end \in Entries /\ w.start <= w.end
    /\ \A i \in w.start .. w.end : i \in Entries /\ od[i].cmd = od[w.start].cmd
    /\ window' = w /\ setp' \in Entries
    /\ UNCHANGED <<od, read, reg, wrong, swapped>>

LEMMA ComposeShape ==
    ASSUME Inv, Compose
    PROVE  \E w : ComposeFrame(w) /\ (ComposeRead(w) \/ ComposeWrite(w) \/ ComposeNothing(w))
<1> DEFINE w == [start |-> setp, end |-> End(setp)]
<1>1. /\ window' = w /\ setp' = After(w.end)
      /\ ComposeRead(w) \/ ComposeWrite(w) \/ ComposeNothing(w)
      /\ UNCHANGED <<od, read, reg, wrong, swapped>>
  BY DEF Compose
<1>2. setp \in Entries /\ od \in Tables /\ Entries = 1 .. Len(od) /\ Len(od) \in Nat \ {0}
  BY TableShape DEF Inv, Types, TypeOK
<1>3. /\ w.start \in Entries /\ w.end \in Entries /\ w.start <= w.end
      /\ \A i \in w.start .. w.end : od[i].cmd = od[w.start].cmd
  BY <1>2, WindowShape
<1>4. \A i \in w.start .. w.end : i \in Entries
  BY <1>2, <1>3
<1>5. After(w.end) \in Entries
  BY <1>2, <1>3 DEF After
<1> HIDE DEF w
<1> QED BY <1>1, <1>3, <1>4, <1>5 DEF ComposeFrame

\* A request sent is the last message, and the others are not any more.
LEMMA SentInv ==
    ASSUME Inv, NEW w, ComposeFrame(w), Send(w)
    PROVE  /\ wire' \in Seq(Message)' /\ Len(wire') <= 2 /\ WireInv'
           /\ \A h \in DOMAIN wire' : \/ wire'[h] = New(w)
                                      \/ /\ ~wire'[h].last
                                         /\ \E l \in DOMAIN wire :
                                               /\ wire'[h].served = wire[l].served
                                               /\ wire'[h].start = wire[l].start
                                               /\ wire'[h].end = wire[l].end
                                               /\ wire'[h].values = wire[l].values
<1>1. w.start \in Entries /\ w.end \in Entries /\ od' = od /\ window' = w
  BY DEF ComposeFrame
<1>2. /\ wire' \in Seq(Message) /\ Len(wire') \in 1 .. 2 /\ DOMAIN wire' = 1 .. Len(wire')
      /\ wire'[Len(wire')] = New(w)
      /\ \E d \in {0, 1} : \A k \in 1 .. Len(wire') - 1 :
            k + d \in DOMAIN wire /\ wire'[k] = [wire[k + d] EXCEPT !.last = FALSE]
  BY <1>1, SendShape DEF Inv
<1>3. PICK d \in {0, 1} : \A k \in 1 .. Len(wire') - 1 :
          k + d \in DOMAIN wire /\ wire'[k] = [wire[k + d] EXCEPT !.last = FALSE]
  BY <1>2
<1>4. \A k \in 1 .. Len(wire') - 1 :
          /\ k + d \in DOMAIN wire /\ ~wire'[k].last
          /\ wire'[k].served = wire[k + d].served
          /\ wire'[k].start = wire[k + d].start /\ wire'[k].end = wire[k + d].end
          /\ wire'[k].values = wire[k + d].values
  <2> SUFFICES ASSUME NEW k \in 1 .. Len(wire') - 1
               PROVE  /\ k + d \in DOMAIN wire /\ ~wire'[k].last
                      /\ wire'[k].served = wire[k + d].served
                      /\ wire'[k].start = wire[k + d].start /\ wire'[k].end = wire[k + d].end
                      /\ wire'[k].values = wire[k + d].values
    OBVIOUS
  <2>1. k + d \in DOMAIN wire /\ wire'[k] = [wire[k + d] EXCEPT !.last = FALSE]
    BY <1>3
  <2>2. PICK m \in Message : m = wire[k + d]
    BY <2>1, WireShape DEF Inv
  <2>3. wire'[k] = [m EXCEPT !.last = FALSE]
    BY <2>1, <2>2
  <2> QED BY <2>1, <2>2, <2>3 DEF Message
<1>5. New(w).last /\ ~New(w).served /\ New(w).start = w.start /\ New(w).end = w.end
  BY DEF New
<1>6. \A h \in DOMAIN wire' : h = Len(wire') \/ h \in 1 .. Len(wire') - 1
  BY <1>2
<1>7. WireInv'
  <2>1. \A h \in DOMAIN wire' : wire'[h].last => h = Len(wire')
    BY <1>4, <1>6
  <2>2. \A h \in DOMAIN wire' : wire'[h].served => \A j \in 1 .. h - 1 : wire'[j].served
    <3> SUFFICES ASSUME NEW h \in DOMAIN wire', wire'[h].served, NEW j \in 1 .. h - 1
                 PROVE  wire'[j].served
      OBVIOUS
    <3>1. h \in 1 .. Len(wire') - 1
      BY <1>2, <1>5, <1>6
    <3>2. wire[h + d].served /\ h + d \in DOMAIN wire
      BY <3>1, <1>4
    <3>3. j \in 1 .. Len(wire') - 1 /\ j + d \in 1 .. (h + d) - 1
      BY <3>1, <1>2
    <3>4. wire[j + d].served
      BY <3>2, <3>3 DEF Inv, WireInv
    <3> QED BY <3>3, <3>4, <1>4
  <2>3. \A h \in DOMAIN wire' : wire'[h].last =>
            wire'[h].start = window'.start /\ wire'[h].end = window'.end
    BY <1>1, <1>2, <1>5, <2>1
  <2> QED BY <2>1, <2>2, <2>3 DEF WireInv
<1>8. wire' \in Seq(Message)'
  BY <1>1, <1>2 DEF Message, Entries
<1> QED BY <1>2, <1>4, <1>6, <1>7, <1>8

\* Requests under way keep to the old values through a step of Compose: an
\* entry that is quiet after it was so before, with the same old value, and
\* the new request carries that value too.
LEMMA SentValues ==
    ASSUME Inv, NEW w, ComposeFrame(w), Send(w),
           \A i \in Writes : update'[i] /\ i \notin doubt' => old'[i] # want'[i],
           \A i \in Writes : Quiet(i)' => Quiet(i) /\ old'[i] = old[i],
           \A i \in Writes : Quiet(i)' /\ i \in w.start .. w.end => want[i] = old[i]
    PROVE  ValueInv'
<1>1. Writes' = Writes /\ reg' = reg
  BY DEF ComposeFrame, Writes, Entries
<1>2. \A i \in Writes : Quiet(i)' /\ old'[i] # Never => reg'[i] = old'[i]
  BY <1>1 DEF Inv, ValueInv
<1>3. ASSUME NEW h \in DOMAIN wire', NEW i \in Writes, i \in wire'[h].start .. wire'[h].end
      PROVE  /\ wire'[h].served /\ wire'[h].last => reg'[i] = wire'[h].values[i]
             /\ ~wire'[h].served /\ Quiet(i)' => wire'[h].values[i] = old'[i]
  <2>1. CASE wire'[h] = New(w)
    BY <2>1, <1>3 DEF New
  <2>2. CASE wire'[h] # New(w)
    <3>1. PICK l \in DOMAIN wire : /\ ~wire'[h].last
                                   /\ wire'[h].served = wire[l].served
                                   /\ wire'[h].start = wire[l].start
                                   /\ wire'[h].end = wire[l].end
                                   /\ wire'[h].values = wire[l].values
      BY <2>2, SentInv
    <3> QED BY <3>1, <1>3 DEF Inv, ValueInv
  <2> QED BY <2>1, <2>2
<1> QED BY <1>1, <1>2, <1>3 DEF ValueInv

LEMMA ComposeReadInv ==
    ASSUME Inv, NEW w, ComposeFrame(w), ComposeRead(w) PROVE Inv'
<1>1. od[w.start].cmd \in Reads /\ Send(w) /\ pc' = "idle" /\ UNCHANGED <<values, doubt>>
  BY DEF ComposeRead
<1>2. wire' \in Seq(Message)' /\ Len(wire') <= 2 /\ WireInv'
  BY <1>1, SentInv
<1>3. Types'
  <2>1. TypeOK'
    BY <1>1, <1>2 DEF ComposeFrame, Inv, Types, TypeOK, Entries, values
  <2> QED BY <1>2, <2>1 DEF ComposeFrame, Inv, Types
<1>4. ReadOwn'
  BY DEF ComposeFrame, Inv, ReadOwn, Writes, Entries
<1>5. ValueInv'
  <2>1. \A i \in Writes : i \notin w.start .. w.end
    BY <1>1 DEF ComposeFrame, Writes
  <2>2. UNCHANGED <<want, old, update, doubt>> /\ \A i : Quiet(i)' <=> Quiet(i)
    BY <1>1 DEF Quiet, values
  <2>3. \A i \in Writes : update'[i] /\ i \notin doubt' => old'[i] # want'[i]
    BY <2>2 DEF Inv, ValueInv
  <2> QED BY <1>1, <2>1, <2>2, <2>3, SentValues
<1> QED BY <1>2, <1>3, <1>4, <1>5 DEF Inv

LEMMA ComposeWriteInv ==
    ASSUME Inv, NEW w, ComposeFrame(w), ComposeWrite(w) PROVE Inv'
<1> DEFINE W     == w.start .. w.end
           flags == [i \in Entries |-> update[i] \/ i \in Changed(w)]
<1>1. /\ Send(w) /\ pc' = "idle" /\ want' = want
      /\ \/ /\ Exhausted(sends[w.start])
            /\ old' = [i \in Entries |-> IF i \in W /\ flags[i] THEN want[i] ELSE old[i]]
            /\ update' = [i \in Entries |-> flags[i] /\ i \notin W]
            /\ sends' = [i \in Entries |-> IF i \in W THEN 0 ELSE sends[i]]
            /\ doubt' = doubt \cup {i \in W : flags[i]}
         \/ /\ ~Exhausted(sends[w.start])
            /\ old' = old /\ update' = flags /\ doubt' = doubt
            /\ sends' = [sends EXCEPT ![w.start] = (sends[w.start] + 1) % 256]
  BY DEF ComposeWrite, Settle
<1>2. wire' \in Seq(Message)' /\ Len(wire') <= 2 /\ WireInv'
  BY <1>1, SentInv
<1>3. /\ want \in [Entries -> Values] /\ old \in [Entries -> Values \cup {Never}]
      /\ update \in [Entries -> BOOLEAN] /\ sends \in [Entries -> 0 .. 1 \cup {255}]
      /\ w.start \in Entries
  BY DEF ComposeFrame, Inv, Types, TypeOK
<1>4. Types'
  <2>1. old' \in [Entries -> Values \cup {Never}]
    BY <1>1, <1>3
  <2>2. update' \in [Entries -> BOOLEAN]
    <3>1. flags \in [Entries -> BOOLEAN]
      OBVIOUS
    <3>2. [i \in Entries |-> flags[i] /\ i \notin W] \in [Entries -> BOOLEAN]
      OBVIOUS
    <3> QED BY <1>1, <3>1, <3>2, Zenon
  <2>3. sends' \in [Entries -> 0 .. 1 \cup {255}]
    <3>1. ~Exhausted(sends[w.start]) => (sends[w.start] + 1) % 256 \in 0 .. 1
      <4>1. sends[w.start] \in {0, 1, 255}
        BY <1>3
      <4> QED BY <4>1 DEF Exhausted
    <3> QED BY <1>1, <1>3, <3>1
  <2>4. TypeOK'
    BY <1>1, <1>2, <2>1, <2>2, <2>3 DEF ComposeFrame, Inv, Types, TypeOK, Entries
  <2> QED BY <1>2, <2>4 DEF ComposeFrame, Inv, Types
<1>5. ReadOwn'
  BY DEF ComposeFrame, Inv, ReadOwn, Writes, Entries
<1>6. ValueInv'
  <2>1. \A i \in W : i \in Changed(w) <=> want[i] # old[i]
    BY DEF Changed
  <2>2. \A i \in Writes : i \in Entries
    BY DEF Writes
  <2>3. Changed(w) \subseteq W
    BY DEF Changed
  <2>4. ASSUME NEW i \in Writes, update'[i], i \notin doubt' PROVE old'[i] # want'[i]
    <3>1. i \notin doubt /\ (update[i] \/ i \in Changed(w)) /\ old'[i] = old[i]
      BY <1>1, <2>2, <2>3, <2>4
    <3> QED BY <1>1, <2>1, <2>3, <3>1 DEF Inv, ValueInv
  <2>5. ASSUME NEW i \in Writes, Quiet(i)' PROVE Quiet(i) /\ old'[i] = old[i] /\ i \notin Changed(w)
    <3>1. ~update'[i] /\ i \notin doubt' /\ i \in Entries
      BY <2>2, <2>5 DEF Quiet
    <3>2. i \notin doubt /\ ~flags[i]
      BY <1>1, <2>3, <3>1
    <3>3. ~update[i] /\ i \notin Changed(w)
      BY <3>1, <3>2
    <3>4. old'[i] = old[i]
      BY <1>1, <3>1, <3>2
    <3> QED BY <3>2, <3>3, <3>4 DEF Quiet
  <2> HIDE DEF W, flags
  <2>6. \A i \in Writes : Quiet(i)' /\ i \in w.start .. w.end => want[i] = old[i]
    BY <2>1, <2>5 DEF W
  <2> QED BY <1>1, <2>4, <2>5, <2>6, SentValues
<1> QED BY <1>2, <1>4, <1>5, <1>6 DEF Inv

LEMMA ComposeNothingInv ==
    ASSUME Inv, pc = "compose", NEW w, ComposeFrame(w), ComposeNothing(w) PROVE Inv'
<1>1. UNCHANGED <<od, read, reg, wrong, swapped, pc, values, wire, doubt>>
  BY DEF ComposeFrame, ComposeNothing
<1>2. Types'
  <2>1. TypeOK'
    BY <1>1 DEF ComposeFrame, Inv, Types, TypeOK, Entries, values
  <2> QED BY <1>1, <2>1 DEF Inv, Types, Message, Entries
<1>3. WireInv'
  BY <1>1 DEF Inv, WireInv
<1>4. ReadOwn' /\ ValueInv'
  BY <1>1 DEF Inv, ReadOwn, ValueInv, Quiet, Writes, Entries, values
<1> QED BY <1>2, <1>3, <1>4 DEF Inv

LEMMA ComposeInv == ASSUME Inv, Compose PROVE Inv'
<1>1. PICK w : ComposeFrame(w) /\ (ComposeRead(w) \/ ComposeWrite(w) \/ ComposeNothing(w))
  BY ComposeShape
<1>2. pc = "compose"
  BY DEF Compose
<1> QED BY <1>1, <1>2, ComposeReadInv, ComposeWriteInv, ComposeNothingInv

-----------------------------------------------------------------------------
LEMMA StepInv == Inv /\ [Next]_vars => Inv'
<1> SUFFICES ASSUME Inv, [Next]_vars PROVE Inv'
  OBVIOUS
<1>1. CASE Blocks
  BY <1>1, SetValueInv DEF Blocks
<1>2. CASE Master
  BY <1>2, TxInv, ComposeInv, RxInv DEF Master
<1>3. CASE Line
  BY <1>3, ServeInv, LoseInv DEF Line
<1>4. CASE UNCHANGED vars
  <2>1. Types'
    BY <1>4 DEF Inv, Types, TypeOK, Message, Entries, vars, values
  <2>2. WireInv' /\ ReadOwn' /\ ValueInv'
    BY <1>4 DEF Inv, WireInv, ReadOwn, ValueInv, Quiet, Writes, Entries, vars, values, history
  <2> QED BY <2>1, <2>2 DEF Inv
<1> QED BY <1>1, <1>2, <1>3, <1>4 DEF Next

LEMMA InvAlways == Spec => []Inv
  BY InitInv, StepInv, PTL DEF Spec

\* Windows, counts of sendings and messages keep their types, whatever the
\* table: every window lies in it, and no more than two messages are under way.
THEOREM TypeCorrect == Spec => []TypeOK
<1>1. Inv => TypeOK
  BY DEF Inv, Types
<1> QED BY <1>1, InvAlways, PTL

\* What the master takes for written the device has, but for the writes that
\* were given up, answered late or changed in the meantime: for every table,
\* however its entries fall into windows.
THEOREM BelievedCorrect == Spec => []Believed
<1>1. Inv => Believed
  <2> SUFFICES ASSUME Inv, NEW i \in Writes, old[i] = want[i], i \notin doubt
               PROVE  reg[i] = want[i]
    BY DEF Believed
  <2>1. want[i] # Never
    BY ValueAssumption DEF Inv, Types, TypeOK, Writes
  <2>2. Quiet(i)
    BY DEF Inv, ValueInv, Quiet
  <2> QED BY <2>1, <2>2 DEF Inv, ValueInv
<1> QED BY <1>1, InvAlways, PTL

\* Unless the last answer was late a value read is that of the entry's own
\* register, or with coils in two bytes that of the coil one byte away
\* (ParseData_ReadCoils, ParseData_ReadHoldingRegister).
THEOREM ReadCorrect == Spec => []ReadOwn
<1>1. Inv => ReadOwn
  BY DEF Inv
<1> QED BY <1>1, InvAlways, PTL

=============================================================================
