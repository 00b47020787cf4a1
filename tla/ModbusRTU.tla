------------------------------ MODULE ModbusRTU ------------------------------
(***************************************************************************)
(* The Modbus RTU master of one port (taskrs485.c) and, from outside the   *)
(* code, the devices on its line.  Every 200 ms the master sends the next  *)
(* window of its table, a run of entries that one request can carry: reads *)
(* always, writes when a value differs from the one it takes the device to *)
(* have.  It does not wait for the answer: one that comes after the next   *)
(* request is entered in the window of that request.  The function blocks  *)
(* change the values at any time.                                          *)
(*                                                                         *)
(* Assumed of the devices: they answer as the Modbus protocol says, coils  *)
(* packed into bytes, the first coils in the first byte.                   *)
(***************************************************************************)
EXTENDS Integers, Sequences, FiniteSetsExt

CONSTANTS
    Tables,    \* ModbusOD_Table: sequences of [id, cmd, addr]
    Values,    \* values of the function blocks
    MaxBurst,  \* registers in one request: 32
    PerByte,   \* coils in a byte of an answer: 8
    Unread     \* stands for memory that holds no register's value

Reads    == {"coils",    \* 01, 02
             "read"}     \* 03, 04
Commands == Reads \cup
            {"write",    \* 05, 06: one register
             "writes"}   \* 0F, 10: several

ASSUME TableAssumption ==
    \A t \in Tables : Len(t) > 0 /\ t \in Seq([id : Nat, cmd : Commands, addr : Nat])

ASSUME ByteAssumption == PerByte \in Nat \ {0}

Never == -1   \* every byte 0xFF

\* A value is a word (Set_ODValueByDataID_2 swaps its two bytes) in a double
\* word, so it is never all ones; the first is 0.
ASSUME ValueAssumption == 0 \in Values /\ Never \notin Values

VARIABLES
    od,       \* ModbusOD_Table, of g_ModbusPara.wRegNum entries
    setp,     \* Setp, counted from 1
    window,   \* ModbusOffset: [start, end]
    pc,       \* "idle", or "compose" in the loop of Request_ModbusOD
    want,     \* writevalue
    old,      \* ModbusODOldValue_Table: DbValue
    update,   \* byUpdate = 1
    sends,    \* bySendCount, a byte
    read,     \* readvalue: the register whose value it is
    reg,      \* the devices' registers that the writes go to
    wire,     \* requests and answers under way, in order
    doubt,    \* history: writes the master may be wrong about
    wrong,    \* history: reads that hold a late answer
    swapped   \* history: reads that hold an answer with its bytes swapped

values  == <<want, old, update, sends>>
history == <<doubt, wrong, swapped>>
vars    == <<od, setp, window, pc, values, read, reg, wire, history>>

Entries == DOMAIN od
Writes  == {i \in Entries : od[i].cmd \notin Reads}
Window  == window.start .. window.end

-----------------------------------------------------------------------------
(* Setp_Modbus: where a window that starts at s ends.                      *)
Splits(s, h) ==
    \/ od[h].cmd # od[h + 1].cmd
    \/ od[h].id # od[h + 1].id
    \/ od[h].addr # od[h + 1].addr - 1
    \/ od[h + 1].addr - od[s].addr >= MaxBurst
    \/ od[h].cmd = "write"

End(s) == Min({h \in s .. Len(od) : h = Len(od) \/ Splits(s, h)})

\* Mutant: the last window does not lead back to the first.
AfterStuck(e) == IF e = Len(od) THEN e ELSE e + 1
After(e) == IF e = Len(od) THEN 1 ELSE e + 1

Init ==
    /\ od \in Tables /\ setp = 1 /\ window = [start |-> 1, end |-> 1] /\ pc = "idle"
    /\ want \in [Entries -> {0}]
    /\ old = [i \in Entries |-> Never] /\ update = [i \in Entries |-> FALSE]
    /\ sends = [i \in Entries |-> 255]
    /\ read = [i \in Entries |-> Unread] /\ reg = [i \in Entries |-> Unread]
    /\ wire = <<>> /\ doubt = {} /\ wrong = {} /\ swapped = {}

\* A function block.  Going back to the old value takes the change back for
\* the master, though the device may have been sent it.
SetValue(i, v) ==
    /\ pc = "idle" /\ want[i] # v
    /\ want' = [want EXCEPT ![i] = v]
    /\ doubt' = IF update[i] /\ old[i] = v THEN doubt \cup {i} ELSE doubt
    /\ UNCHANGED <<od, setp, window, pc, old, update, sends, read, reg, wire, wrong, swapped>>

\* RunRS485_1: 200 ms have passed.
Tx ==
    /\ pc = "idle" /\ pc' = "compose"
    /\ UNCHANGED <<od, setp, window, values, read, reg, wire, history>>

\* At most two messages are under way; a third destroys the first.
Send(w) ==
    LET others == [k \in DOMAIN wire |-> [wire[k] EXCEPT !.last = FALSE]]
        m      == [start |-> w.start, end |-> w.end, values |-> want,
                   served |-> FALSE, last |-> TRUE]
    IN  wire' = Append(IF Len(others) < 2 THEN others ELSE Tail(others), m)

Changed(w) == {i \in w.start .. w.end : want[i] # old[i]}

\* Mutant: the mark of a change that was sent is not asked for.
SettleAll(flags, S) ==
    /\ old' = [i \in Entries |-> IF i \in S THEN want[i] ELSE old[i]]
    /\ update' = [i \in Entries |-> flags[i] /\ i \notin S]
\* Mutant: the mark is cleared before it is asked for.
SettleNone(flags, S) ==
    /\ old' = old
    /\ update' = [i \in Entries |-> flags[i] /\ i \notin S]
\* SetValueToOldODValue for each entry of a set.
Settle(flags, S) ==
    /\ old' = [i \in Entries |-> IF i \in S /\ flags[i] THEN want[i] ELSE old[i]]
    /\ update' = [i \in Entries |-> flags[i] /\ i \notin S]

\* Mutant: the third sending gives up, not the second.
ExhaustedLater(n) == (n + 1) % 256 > 2
\* A request is given up with its second sending; the first time the byte
\* wraps from 0xFF, and it is the third.
Exhausted(n) == (n + 1) % 256 >= 2

ComposeRead(w) ==
    /\ od[w.start].cmd \in Reads
    /\ Send(w) /\ pc' = "idle"
    /\ UNCHANGED <<values, doubt>>

ComposeWrite(w) ==
    /\ od[w.start].cmd \notin Reads /\ Changed(w) # {}
    /\ Send(w) /\ pc' = "idle" /\ want' = want
    /\ LET W     == w.start .. w.end
           flags == [i \in Entries |-> update[i] \/ i \in Changed(w)]
           n     == sends[w.start]
       IN  IF Exhausted(n)
           THEN /\ Settle(flags, W)
                /\ sends' = [i \in Entries |-> IF i \in W THEN 0 ELSE sends[i]]
                /\ doubt' = doubt \cup {i \in W : flags[i]}
           ELSE /\ old' = old /\ update' = flags /\ doubt' = doubt
                /\ sends' = [sends EXCEPT ![w.start] = (n + 1) % 256]

\* Nothing to write here: Request_ModbusOD goes on to the next window.
ComposeNothing(w) ==
    /\ od[w.start].cmd \notin Reads /\ Changed(w) = {}
    /\ UNCHANGED <<pc, values, wire, doubt>>

\* Setp_Modbus and ComposeData_Package.
Compose ==
    /\ pc = "compose"
    /\ LET w == [start |-> setp, end |-> End(setp)]
       IN  /\ window' = w /\ setp' = After(w.end)
           /\ ComposeRead(w) \/ ComposeWrite(w) \/ ComposeNothing(w)
    /\ UNCHANGED <<od, read, reg, wrong, swapped>>

\* A device obeys the first request that has not been obeyed, and answers.
Serve ==
    \E k \in DOMAIN wire :
        LET m == wire[k]
        IN  /\ ~m.served /\ \A j \in 1 .. k - 1 : wire[j].served
            /\ wire' = [wire EXCEPT ![k].served = TRUE]
            /\ reg' = [i \in Entries |-> IF i \in Writes /\ i \in m.start .. m.end
                                         THEN m.values[i] ELSE reg[i]]
            /\ UNCHANGED <<od, setp, window, pc, values, read, history>>

Lose ==
    /\ \E k \in DOMAIN wire :
          wire' = [j \in 1 .. Len(wire) - 1 |-> IF j < k THEN wire[j] ELSE wire[j + 1]]
    /\ UNCHANGED <<od, setp, window, pc, values, read, reg, history>>

\* An answer with coils is taken for one word: two bytes are swapped, more are
\* ignored.
Coils(m)   == IF od[m.start].cmd = "coils" THEN m.end - m.start + 1 ELSE 0
Ignored(m) == Coils(m) > 2 * PerByte
Swaps(m)   == Coils(m) > PerByte /\ ~Ignored(m)

\* Where an answer has the value for the entry in place k of the window.
Place(m, k) == IF ~Swaps(m) THEN k
               ELSE IF k < PerByte THEN k + PerByte
               ELSE IF k < 2 * PerByte THEN k - PerByte
               ELSE k

\* Mutant: the bit of the window's second entry is entered in the first.
RegisterNext(m, i) == m.start + Place(m, i - window.start) + 1
\* The register an entry gets the value of, unless it lies behind the last one
\* asked for.
Register(m, i) == m.start + Place(m, i - window.start)

ReadAnswer(m) ==
    /\ ~Ignored(m)
    /\ read' = [i \in Entries |->
                   IF i \notin Window THEN read[i]
                   ELSE IF Register(m, i) \in m.start .. m.end THEN Register(m, i)
                   ELSE Unread]
    /\ wrong' = IF m.last THEN wrong \ Window ELSE wrong \cup Window
    /\ swapped' = IF Swaps(m) THEN swapped \cup Window ELSE swapped \ Window

\* What was sent is not kept: the values of now are taken as written.
WriteAnswer(m) ==
    /\ Settle(update, Window)
    /\ sends' = [sends EXCEPT ![window.start] = 0]
    /\ LET good == {i \in Window : m.last /\ m.values[i] = want[i]}
           set  == {i \in Window : update[i]}
       IN  doubt' = (doubt \ (good \cap set)) \cup (set \ good)
    /\ UNCHANGED <<want, read, wrong, swapped>>

\* HandleData: the window is the current one, whatever was asked.
Rx ==
    /\ pc = "idle" /\ wire # <<>> /\ Head(wire).served
    /\ wire' = Tail(wire)
    /\ LET m == Head(wire)
       IN  \/ od[m.start].cmd \notin Reads /\ WriteAnswer(m)
           \/ od[m.start].cmd \in Reads /\ ReadAnswer(m) /\ UNCHANGED <<values, doubt>>
           \/ Ignored(m) /\ UNCHANGED <<values, read, history>>
    /\ UNCHANGED <<od, setp, window, pc, reg>>

-----------------------------------------------------------------------------
Blocks == \E i \in Writes, v \in Values : SetValue(i, v)
Master == Tx \/ Compose \/ Rx
Line   == Serve \/ Lose

Next == Blocks \/ Master \/ Line

Fairness == WF_vars(Tx) /\ WF_vars(Compose)

Spec == Init /\ [][Next]_vars /\ Fairness

-----------------------------------------------------------------------------
TypeOK ==
    /\ setp \in Entries /\ window.start \in Entries /\ window.end \in Entries
    /\ window.start <= window.end /\ pc \in {"idle", "compose"}
    /\ want \in [Entries -> Values] /\ old \in [Entries -> Values \cup {Never}]
    /\ update \in [Entries -> BOOLEAN] /\ sends \in [Entries -> 0 .. 1 \cup {255}]
    /\ read \in [Entries -> Entries \cup {Unread}] /\ Len(wire) <= 2

\* When the master takes a value for written, the device has it.  The master
\* may be wrong in four cases, all of them in the code: it gave the request
\* up; the answer was late, to an earlier request; the value changed between
\* the request and its answer, which then settles the new value that was never
\* sent; or it changed back before the answer.  A later exchange without such
\* a case makes it right again.
Believed == \A i \in Writes : old[i] = want[i] /\ i \notin doubt => reg[i] = want[i]

\* A value read is that of the entry's own register, unless the last answer
\* entered there was one to an earlier request.  Of coils this holds up to eight
\* in a request; from nine to sixteen an entry gets the coil eight places before
\* or behind its own, or a bit that is no coil, and a request for more leaves all
\* its entries as they were.
ReadOwn == \A i \in Entries \ (Writes \cup wrong) :
    read[i] \in {Unread} \cup (IF i \in swapped THEN {i - PerByte, i + PerByte} ELSE {i})

\* taskrs485.c:510: requests are split at more than 32 registers.  So an answer
\* to the request last sent is entered.
AnswerEntered ==
    [][Rx /\ Head(wire).last /\ od[Head(wire).start].cmd \in Reads =>
         \A i \in Window : read'[i] # Unread]_vars

NothingToSend == Writes = Entries /\ \A i \in Writes : want[i] = old[i]

\* Request_ModbusOD returns to the main loop, unless the table has no reads
\* and no value to write: then it does not return.
TxEnds == pc = "compose" ~> pc = "idle" \/ NothingToSend

\* The device answers or not: the master stops repeating a write sooner or
\* later and goes on to the others.
Settles == \A i \in 1 .. 3 : i \in Writes /\ want[i] # old[i] ~> i \in Writes /\ want[i] = old[i]
=============================================================================
