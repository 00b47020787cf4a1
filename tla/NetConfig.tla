------------------------------ MODULE NetConfig ------------------------------
(***************************************************************************)
(* The configurations of Modbus TCP and of iNet: received in frames, taken *)
(* over by an end frame, saved by a save frame, read back at power-up      *)
(* (ModbusTCPDealRecvParm in taskmodbustcp.c, iNetDealRecvParm in          *)
(* taskiNet.c).  One Ethernet port serves both, so that taking over or     *)
(* saving the one is to switch off the other.  The studio repeats a frame  *)
(* whose answer was lost, and may abandon a session; the power may fail.   *)
(*                                                                         *)
(* "on" stands for each of the working modes (master and slave, client and *)
(* server).  The tasks the modes start are those of TaskOwners.            *)
(***************************************************************************)
EXTENDS Integers, Sequences, SequencesExt

CONSTANTS
    Configs,      \* [of : "modbus" or "inet", mode : "on" or "off", rows : sequences]
    MaxRows,      \* rows of ModbusTCPFlashData
    MaxSessions,  \* bound: sessions of the studio
    MaxRepeats,   \* bound: frames sent a second time
    MaxCuts       \* bound: power failures

ASSUME BoundAssumption == {MaxRows, MaxSessions, MaxRepeats, MaxCuts} \subseteq Nat

\* A working mode of iNet comes with points: a list of none, or of more than
\* MAX_INETODLIST, is refused.
ASSUME ConfigsAssumption ==
    /\ Configs \subseteq [of : {"modbus", "inet"}, mode : {"on", "off"}, rows : Seq(Seq(Nat))]
    /\ \A c \in Configs : c.of = "inet" =>
          /\ c.mode = "on" => c.rows # <<>>
          /\ \A k \in DOMAIN c.rows : c.rows[k] # <<>>

VARIABLES
    mode, table,    \* pTotalMode, the first pTotalCount entries of ModbusTCPOD_Table
    imode, points,  \* iNetModeMeg.byMode, the first wODNum entries of pODList
    buf,            \* ModbusTCPFlashData
    lines,          \* All_Line; ModbusTCPFlash_lOffset is as many rows
    recv,           \* wRecvOdNum
    flash,          \* ModbusTcpData_Block and iNetData_Block
    todo,           \* the calls of Flash_Write the handler has yet to make
    powered,
    cfg, at, again, \* the studio: what it sends, at which frame, sent before
    sessions, repeats, cuts,  \* counters for the bounds
    inUse, inBuf, kept,       \* history: the configurations that RAM, the
                              \* buffer and flash should hold, or Lost
    clean,          \* history: no row was sent twice or left over
    open,           \* history: flash was written since the last complete save
    restored        \* history: no list of points has been taken over since power-up

ram     == <<mode, table, imode, points, buf, lines, recv>>
studio  == <<cfg, at, again, sessions, repeats>>
history == <<inUse, inBuf, kept, clean, open, restored>>
vars    == <<ram, flash, todo, powered, studio, cuts, history>>

Zero     == 0        \* a cleared row
Garbage  == -1       \* a row of memory nobody has written
Dangling == <<-2>>   \* pODList points to memory that is not allocated
Lost     == [mode |-> "lost", rows |-> <<>>]
Off      == [mode |-> "off", rows |-> <<>>]
Blocks   == {"modbus", "inet"}

ZeroRows == [k \in 1 .. MaxRows |-> Zero]
Cleared  == [mode |-> "off", count |-> 0, rows |-> ZeroRows]
\* Every byte 0xFF.
Erased   == [modbus |-> [mode |-> "blank", count |-> -1, rows |-> [k \in 1 .. MaxRows |-> Garbage]],
             inet   |-> [mode |-> "blank", num |-> -1]]

\* The rows of a list after some have been written behind the first n.
Put(list, n, rows) ==
    [k \in DOMAIN list |-> IF k - n \in DOMAIN rows THEN rows[k - n] ELSE list[k]]

-----------------------------------------------------------------------------
(* The studio's frames: the mode, the rows in packets, end and save.       *)
LastFrame == Len(cfg.rows) + 3
Kind == CASE at = 1             -> "mode"
          [] at = LastFrame - 1 -> "end"
          [] at = LastFrame     -> "save"
          [] OTHER              -> "rows"
Packet  == cfg.rows[at - 1]
AllRows == FlattenSeq(cfg.rows)
Sent    == [mode |-> cfg.mode, rows |-> AllRows]

\* A handler of a frame for Modbus TCP or iNet.
Receive(of, kind) == powered /\ todo = <<>> /\ at > 0 /\ cfg.of = of /\ Kind = kind

\* The answer arrives, or the studio sends the frame again.
Answer ==
    /\ UNCHANGED <<cfg, sessions>>
    /\ \/ /\ at' = IF at = LastFrame THEN 0 ELSE at + 1
          /\ again' = FALSE /\ repeats' = repeats
       \/ /\ repeats < MaxRepeats /\ repeats' = repeats + 1
          /\ again' = TRUE /\ at' = at

\* A session sends a configuration, or only has one saved.
BeginSession(c, first) ==
    /\ at = 0 /\ todo = <<>> /\ sessions < MaxSessions
    /\ cfg' = c /\ again' = FALSE /\ sessions' = sessions + 1
    /\ at' = IF first THEN 1 ELSE Len(c.rows) + 3
    /\ UNCHANGED <<ram, flash, todo, powered, repeats, cuts, history>>

GiveUp ==
    /\ at > 0 /\ todo = <<>> /\ at' = 0 /\ again' = FALSE
    /\ clean' = [clean EXCEPT ![cfg.of] =
                    @ /\ (Kind \in {"rows", "end"} => at = 2 /\ ~again)]
    /\ UNCHANGED <<ram, flash, todo, powered, cfg, sessions, repeats, cuts,
                   inUse, inBuf, kept, open, restored>>

-----------------------------------------------------------------------------
(* Flash.  The "clear" calls pass the null pointer as source: they write   *)
(* the bytes at address 0, the initial stack pointer, 0x200299cc in the    *)
(* build the repository holds: a mode that is neither off nor a working    *)
(* one, and 665 rows.                                                      *)
StackRows == 665
Written(call) ==
    CASE call = "modbus mode"  -> [flash.modbus EXCEPT !.mode = buf.mode]
      [] call = "modbus wipe"  -> [flash.modbus EXCEPT !.mode = "junk", !.count = StackRows]
      [] call = "modbus save"  -> buf
      [] call = "inet ip"      -> flash.inet
      [] call = "inet clear"   -> [flash.inet EXCEPT !.mode = "junk"]
      [] call = "inet mode"    -> [flash.inet EXCEPT !.mode = imode]
      [] call = "inet points"  -> [flash.inet EXCEPT !.num = Len(points)]
      [] call = "modbus clear" -> [flash.modbus EXCEPT !.mode = "junk", !.count = StackRows]

BlockOf(call) == IF call \in {"modbus mode", "modbus wipe", "modbus save", "modbus clear"}
                 THEN "modbus" ELSE "inet"

\* A write erases its block and programs all of it again, from its beginning,
\* where the mode is (of Modbus TCP with the number of rows).
Torn(call) ==
    IF BlockOf(call) = "modbus"
    THEN {Erased.modbus, [Erased.modbus EXCEPT !.mode = Written(call).mode, !.count = Written(call).count]}
    ELSE {Erased.inet, [Erased.inet EXCEPT !.mode = Written(call).mode]}

ModbusSave == <<"modbus wipe", "modbus save", "inet clear">>
\* Mutant: the mode of Modbus TCP stays in flash.
INetSaveAlone == <<"inet mode", "inet points">>
INetSave == <<"inet mode", "inet points", "modbus clear">>

\* ModbusTCPFlashData is cleared when it has been saved.
AfterSave == IF Head(todo) = "modbus save" THEN Cleared ELSE buf

\* One call of Flash_Write; the handler answers after the last.
FlashWrite ==
    /\ powered /\ todo # <<>>
    /\ flash' = [flash EXCEPT ![BlockOf(Head(todo))] = Written(Head(todo))]
    /\ todo' = Tail(todo)
    /\ buf' = AfterSave
    /\ IF Len(todo) > 1
       THEN UNCHANGED <<studio, history>>
       ELSE /\ Answer
            /\ IF Kind = "mode"
               THEN UNCHANGED history
               ELSE /\ open' = FALSE
                    /\ kept' = IF cfg.of = "modbus" THEN [modbus |-> inBuf, inet |-> Off]
                               ELSE [modbus |-> Off, inet |-> inUse.inet]
                    /\ inBuf' = IF cfg.of = "modbus" THEN Lost ELSE inBuf
                    /\ UNCHANGED <<inUse, clean, restored>>
    /\ UNCHANGED <<mode, table, imode, points, lines, recv, powered, cuts>>

-----------------------------------------------------------------------------
(* Modbus TCP.                                                             *)
\* StorageOD_DataTable: the mode and the table in an image of the block.
\* Mutant: the mode of an erased block is taken as it is.
ModeInRaw(image) == image.mode
ModeIn(image) == IF image.mode = "blank" THEN "off" ELSE image.mode
CountIn(image) == IF image.count = -1 THEN 0 ELSE image.count
TableIn(image) == IF ModeIn(image) # "on" THEN <<>>
                  ELSE IF CountIn(image) > MaxRows THEN Dangling
                  ELSE SubSeq(image.rows, 1, CountIn(image))

\* The mode goes to flash at once.
ModbusMode ==
    /\ Receive("modbus", "mode")
    /\ buf' = [Cleared EXCEPT !.mode = cfg.mode]
    /\ todo' = <<"modbus mode">>
    /\ inBuf' = Lost /\ kept' = [kept EXCEPT !.modbus = Lost] /\ open' = TRUE
    /\ UNCHANGED <<mode, table, imode, points, lines, recv, flash, powered, studio, cuts,
                   inUse, clean, restored>>

ModbusRows ==
    /\ Receive("modbus", "rows") /\ lines + Len(Packet) <= MaxRows
    /\ buf' = [buf EXCEPT !.rows = Put(@, lines, Packet)]
    /\ lines' = lines + Len(Packet)
    /\ Answer
    /\ inBuf' = Lost /\ clean' = [clean EXCEPT !.modbus = @ /\ ~again]
    /\ UNCHANGED <<mode, table, imode, points, recv, flash, todo, powered, cuts,
                   inUse, kept, open, restored>>

\* Mutant: the number of rows is not reset.
LinesAfterEndKept == lines
LinesAfterEnd == 0

\* iNet is switched off and its points are freed.
ModbusEnd ==
    /\ Receive("modbus", "end")
    /\ LET image == [buf EXCEPT !.count = lines]
           good  == clean.modbus /\ ~again
       IN  /\ buf' = image /\ mode' = image.mode /\ table' = TableIn(image)
           /\ inBuf' = IF good THEN Sent ELSE Lost
           /\ inUse' = [modbus |-> IF good THEN Sent ELSE Lost, inet |-> Off]
    /\ imode' = "off" /\ points' = <<>>
    /\ lines' = LinesAfterEnd
    /\ Answer
    /\ clean' = [clean EXCEPT !.modbus = TRUE]
    /\ UNCHANGED <<recv, flash, todo, powered, cuts, kept, open, restored>>

Save(of, calls) ==
    /\ Receive(of, "save") /\ todo' = calls
    /\ open' = TRUE /\ kept' = [b \in Blocks |-> Lost]
    /\ UNCHANGED <<ram, flash, powered, studio, cuts, inUse, inBuf, clean, restored>>

-----------------------------------------------------------------------------
(* iNet.                                                                   *)
INetMode ==
    /\ Receive("inet", "mode")
    /\ imode' = cfg.mode
    /\ Answer
    /\ inUse' = [inUse EXCEPT !.inet = Lost]
    /\ UNCHANGED <<mode, table, points, buf, lines, recv, flash, todo, powered, cuts,
                   inBuf, kept, clean, open, restored>>

\* The first packet allocates the list; a packet that comes when all points
\* have been received is not entered.  (Rows past the list's end, which a
\* repeated packet may cause, are left out: they do not belong to it.)
INetRows ==
    /\ Receive("inet", "rows")
    /\ LET list == IF at = 2 \/ Len(points) # Len(AllRows)
                   THEN [k \in 1 .. Len(AllRows) |-> Garbage] ELSE points
       IN  IF recv < Len(AllRows)
           THEN points' = Put(list, recv, Packet) /\ recv' = recv + Len(Packet)
           ELSE points' = list /\ recv' = recv
    /\ Answer
    /\ inUse' = [inUse EXCEPT !.inet = Lost]
    /\ clean' = [clean EXCEPT !.inet = @ /\ ~again]
    /\ UNCHANGED <<mode, table, imode, buf, lines, flash, todo, powered, cuts, inBuf, kept, open,
                   restored>>

\* Mutant: the number of points received is not reset.
RecvAfterEndKept == recv
RecvAfterEnd == 0

INetEnd ==
    /\ Receive("inet", "end")
    /\ recv' = RecvAfterEnd
    /\ mode' = "off" /\ table' = <<>>
    /\ Answer
    /\ inUse' = [modbus |-> Off, inet |-> IF again THEN inUse.inet
                                          ELSE IF clean.inet THEN Sent ELSE Lost]
    /\ clean' = [clean EXCEPT !.inet = TRUE] /\ restored' = (restored /\ again)
    /\ UNCHANGED <<imode, points, buf, lines, flash, todo, powered, cuts, inBuf, kept, open>>

\* Between the frames of a session, or before one, the studio may send the
\* addresses, which its handler writes to the block of iNet.  Of that frame only
\* the write matters, and of the write only that the power may fail in it: one
\* that is completed leaves mode and number as they were.
BeingWritten == IF todo = <<>> THEN "inet ip" ELSE Head(todo)

-----------------------------------------------------------------------------
\* A cut before a write leaves its block as it was, one in it part of it.
PowerCut ==
    /\ powered /\ cuts < MaxCuts
    /\ powered' = FALSE /\ cuts' = cuts + 1 /\ todo' = <<>>
    /\ \/ flash' = flash /\ kept' = kept
       \/ /\ \E image \in Torn(BeingWritten) :
                 flash' = [flash EXCEPT ![BlockOf(BeingWritten)] = image]
          /\ kept' = [kept EXCEPT ![BlockOf(BeingWritten)] = Lost]
    /\ UNCHANGED <<ram, studio, inUse, inBuf, clean, open, restored>>

\* Read_iNetModeMeg_FromFlash and Read_ModbusTCPData_FromFlash.  Of the points
\* flash holds the number and the address they had.
PowerUp ==
    /\ ~powered /\ powered' = TRUE
    /\ buf' = flash.modbus
    /\ mode' = ModeIn(flash.modbus) /\ table' = TableIn(flash.modbus)
    /\ imode' = ModeIn(flash.inet)
    /\ points' = IF flash.inet.num > 0 THEN Dangling ELSE <<>>
    /\ lines' = 0 /\ recv' = 0
    /\ inUse' = kept /\ inBuf' = kept.modbus
    /\ clean' = [b \in Blocks |-> at = 0 \/ cfg.of # b] /\ restored' = TRUE
    /\ UNCHANGED <<flash, todo, studio, cuts, kept, open>>

Init ==
    /\ mode = "off" /\ table = <<>> /\ imode = "off" /\ points = <<>>
    /\ flash = Erased /\ buf = flash.modbus /\ lines = 0 /\ recv = 0
    /\ todo = <<>> /\ powered = TRUE
    /\ cfg \in Configs /\ at = 0 /\ again = FALSE
    /\ sessions = 0 /\ repeats = 0 /\ cuts = 0
    /\ inUse = [b \in Blocks |-> Off] /\ kept = [b \in Blocks |-> Off] /\ inBuf = Off
    /\ clean = [b \in Blocks |-> TRUE] /\ open = FALSE /\ restored = FALSE

Studio == \/ \E c \in Configs, first \in BOOLEAN : BeginSession(c, first)
          \/ GiveUp
Modbus == ModbusMode \/ ModbusRows \/ ModbusEnd \/ Save("modbus", ModbusSave)
INet   == INetMode \/ INetRows \/ INetEnd \/ Save("inet", INetSave)

Next == Studio \/ Modbus \/ INet \/ FlashWrite \/ PowerCut \/ PowerUp

Spec == Init /\ [][Next]_vars

-----------------------------------------------------------------------------
TypeOK ==
    /\ {mode, imode, flash.modbus.mode, flash.inet.mode} \subseteq {"on", "off", "junk", "blank"}
    /\ mode # "blank" /\ imode # "blank"
    /\ DOMAIN buf.rows = 1 .. MaxRows /\ lines \in 0 .. MaxRows /\ recv \in Nat
    /\ cfg \in Configs /\ at \in 0 .. LastFrame /\ Len(todo) <= 3

\* A part that should be off does not run; one that should run has its rows.
Holds(c, m, rows) == CASE c.mode = "lost" -> TRUE
                       [] c.mode = "off"  -> m # "on"
                       [] c.mode = "on"   -> m = "on" /\ rows \in {c.rows, Dangling}

\* Modbus TCP runs with exactly the table of the last end frame, or after a
\* power-up with the one last saved, whatever sessions of either kind were
\* abandoned in between and wherever the power failed; iNet likewise.  Void
\* are: an end frame after a row was sent twice or left over from a session
\* given up, a repeated end frame of Modbus TCP (which finds no rows) and a
\* repeated save (which saves the cleared buffer); the saved configuration of
\* Modbus TCP once the next session has begun, which writes its mode at once;
\* and the saved configuration of iNet once the power has failed while the
\* addresses were written, which are in the same block.  iNet's points are not
\* restored at power-up: until the next end frame the list may be dangling,
\* afterwards it is the list sent.
ModbusAsSent == powered => /\ Holds(inUse.modbus, mode, table)
                           /\ inUse.modbus # Lost => table # Dangling
INetAsSent   == powered => /\ Holds(inUse.inet, imode, points)
                           /\ inUse.inet.mode = "on" /\ ~restored => points = inUse.inet.rows

Both == mode = "on" /\ imode = "on"

\* iNet and Modbus TCP do not both start at power-up, provided that every
\* session that wrote to flash got as far as a complete save.
ExclusiveWhenSaved == [][PowerUp /\ ~open => ~Both']_vars

\* main.c:123: iNet and Modbus TCP exclude each other; who saves the one in
\* flash is to change the flag of the other there.
ExclusiveInFlash == powered /\ todo = <<>> => ~(flash.modbus.mode = "on" /\ flash.inet.mode = "on")
=============================================================================
