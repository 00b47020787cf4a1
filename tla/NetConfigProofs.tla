--------------------------- MODULE NetConfigProofs ---------------------------
(* Proofs about the configurations of Modbus TCP and iNet, for every set of *)
(* configurations in any number of packets, and any number of sessions,     *)
(* repetitions and power failures.                                          *)
EXTENDS NetConfig, CommonLemmas

-----------------------------------------------------------------------------
(* The inductive invariant.                                                 *)

Modes       == {"on", "off", "junk", "blank"}
ModbusBlock == [mode : Modes, count : Int, rows : [1 .. MaxRows -> Int]]
INetBlock   == [mode : Modes, num : Int]
Known       == [mode : {"on", "off"}, rows : Seq(Nat)] \cup {Lost}

Types ==
    /\ mode \in Modes \ {"blank"} /\ imode \in Modes \ {"blank"} /\ points \in Seq(Int)
    /\ buf \in ModbusBlock /\ flash \in [modbus : ModbusBlock, inet : INetBlock]
    /\ lines \in 0 .. MaxRows /\ recv \in Nat
    /\ cfg \in Configs /\ at \in 0 .. LastFrame /\ again \in BOOLEAN
    /\ powered \in BOOLEAN /\ open \in BOOLEAN /\ clean \in [Blocks -> BOOLEAN]
    /\ inUse \in [Blocks -> Known] /\ kept \in [Blocks -> Known] /\ inBuf \in Known

\* A handler that writes to flash has the studio wait for its answer, and what
\* flash holds in the meantime is nothing to rely on.
CallsInv ==
    /\ todo # <<>> => powered /\ open /\ kept["modbus"] = Lost
    /\ \/ todo = <<>>
       \/ todo = <<"modbus mode">> /\ at = 1 /\ cfg.of = "modbus" /\ buf.mode = cfg.mode
       \/ /\ todo \in {ModbusSave, <<"modbus save", "inet clear">>, <<"inet clear">>}
          /\ at = LastFrame /\ cfg.of = "modbus" /\ kept["inet"] = Lost
       \/ /\ todo \in {INetSave, <<"inet points", "modbus clear">>, <<"modbus clear">>}
          /\ at = LastFrame /\ cfg.of = "inet" /\ kept["inet"] = Lost

\* The packets the program has received in this session, and their rows.
Packets == IF again THEN at - 1 ELSE at - 2
Rows    == FirstOf(cfg.rows, Packets)

\* Between the mode and the end frame of a session.
Inside(of)    == cfg.of = of /\ at \in 2 .. LastFrame - 1
InSession(of) == Inside(of) /\ ~(at = LastFrame - 1 /\ again)

\* While nothing went wrong, the rows received so far are those of the packets
\* the studio has sent, behind the mode it began with.
ModbusInv ==
    /\ Inside("modbus") => flash.modbus.mode # "blank" /\ buf.mode # "blank"
    /\ clean["modbus"] /\ InSession("modbus") =>
          lines = Len(Rows) /\ SubSeq(buf.rows, 1, lines) = Rows /\ buf.mode = cfg.mode
    /\ clean["modbus"] /\ ~InSession("modbus") => lines = 0

INetInv ==
    /\ clean["inet"] /\ InSession("inet") =>
          /\ recv = Len(Rows) /\ imode = cfg.mode
          /\ Packets > 0 => Len(points) = Len(AllRows) /\ SubSeq(points, 1, recv) = Rows
    /\ clean["inet"] /\ ~InSession("inet") => recv = 0

\* What a block holds when it should hold the configuration c.
Describes(block, c) ==
    /\ c.mode = "off" => block.mode # "on"
    /\ c.mode = "on"  => /\ block.mode = "on" /\ block.count \in 0 .. MaxRows
                         /\ SubSeq(block.rows, 1, block.count) = c.rows

DescribesINet(block, c) ==
    /\ c.mode = "off" => block.mode # "on"
    /\ c.mode = "on"  => block.mode = "on" /\ (block.num > 0 \/ c.rows = <<>>)

\* Flash and the buffer hold what they should, also in the middle of a save.
FlashInv ==
    /\ Describes(flash.modbus, kept["modbus"]) /\ DescribesINet(flash.inet, kept["inet"])
    /\ powered /\ todo # <<"inet clear">> => Describes(buf, inBuf)
    /\ todo = <<"inet clear">> => Describes(flash.modbus, inBuf)
    /\ todo \in {<<"inet points", "modbus clear">>, <<"modbus clear">>} =>
          flash.inet.mode = imode
    /\ todo = <<"modbus clear">> => flash.inet.num = Len(points)
    /\ ~open => ~(flash.modbus.mode = "on" /\ flash.inet.mode = "on")

Inv == Types /\ CallsInv /\ ModbusInv /\ INetInv /\ FlashInv /\ ModbusAsSent /\ INetAsSent

-----------------------------------------------------------------------------
(* Types.                                                                   *)

LEMMA ConfigShape ==
    ASSUME NEW c \in Configs
    PROVE  /\ c.of \in Blocks /\ c.mode \in {"on", "off"} /\ c.rows \in Seq(Seq(Nat))
           /\ Len(c.rows) \in Nat
<1>1. c \in [of : {"modbus", "inet"}, mode : {"on", "off"}, rows : Seq(Seq(Nat))]
  BY ConfigsAssumption
<1>2. c.of \in Blocks /\ c.mode \in {"on", "off"} /\ c.rows \in Seq(Seq(Nat))
  BY <1>1 DEF Blocks
<1>3. Len(c.rows) \in Nat
  <2> DEFINE r == c.rows
  <2>1. r \in Seq(Seq(Nat))
    BY <1>2
  <2> HIDE DEF r
  <2>2. Len(r) \in Nat
    BY <2>1
  <2> QED BY <2>2 DEF r
<1> QED BY <1>2, <1>3

LEMMA SentKnown == ASSUME cfg \in Configs PROVE Sent \in Known /\ AllRows \in Seq(Nat)
<1>1. cfg.mode \in {"on", "off"} /\ cfg.rows \in Seq(Seq(Nat))
  BY ConfigShape
<1>2. AllRows \in Seq(Nat)
  BY <1>1, FirstOfAll DEF AllRows
<1> QED BY <1>1, <1>2 DEF Sent, Known

LEMMA OffKnown == Off \in Known /\ Lost \in Known
<1>1. <<>> \in Seq(Nat)
  OBVIOUS
<1> QED BY <1>1 DEF Off, Known

LEMMA ErasedShape ==
    /\ Erased.modbus \in ModbusBlock /\ Erased.inet \in INetBlock
    /\ Cleared \in ModbusBlock /\ Erased \in [modbus : ModbusBlock, inet : INetBlock]
  BY DEF Erased, Cleared, ModbusBlock, INetBlock, Modes, Garbage, ZeroRows, Zero

LEMMA PutShape ==
    ASSUME NEW list \in Seq(Int), NEW n \in Nat, NEW rows \in Seq(Nat)
    PROVE  /\ Put(list, n, rows) \in Seq(Int) /\ Len(Put(list, n, rows)) = Len(list)
           /\ Put(list, n, rows) \in [DOMAIN list -> Int]
           /\ \A k \in DOMAIN list : Put(list, n, rows)[k] =
                  IF k - n \in DOMAIN rows THEN rows[k - n] ELSE list[k]
<1>1. /\ DOMAIN list = 1 .. Len(list) /\ \A k \in DOMAIN list : list[k] \in Int
      /\ \A k \in DOMAIN rows : rows[k] \in Nat
      /\ Len(list) \in Nat
  BY SeqShape
<1>2. Put(list, n, rows) \in [DOMAIN list -> Int]
  BY <1>1 DEF Put
<1> QED BY <1>1, <1>2, FunctionIsSeq DEF Put

\* Rows written behind the first n.
LEMMA PutBehind ==
    ASSUME NEW list \in Seq(Int), NEW n \in Nat, NEW rows \in Seq(Nat),
           NEW first \in Seq(Nat), Len(first) = n, n + Len(rows) <= Len(list),
           SubSeq(list, 1, n) = first
    PROVE  SubSeq(Put(list, n, rows), 1, n + Len(rows)) = first \o rows
<1> DEFINE p == Put(list, n, rows)
           m == n + Len(rows)
<1>1. /\ DOMAIN list = 1 .. Len(list) /\ Len(list) \in Nat /\ Len(rows) \in Nat
      /\ DOMAIN rows = 1 .. Len(rows)
  BY SeqShape
<1>2. /\ p \in Seq(Int) /\ Len(p) = Len(list)
      /\ \A k \in DOMAIN list : p[k] = IF k - n \in DOMAIN rows THEN rows[k - n] ELSE list[k]
  BY PutShape
<1> HIDE DEF p
<1>3. m \in 0 .. Len(list) /\ m \in Nat
  BY <1>1
<1>4. \A k \in 1 .. n : list[k] = first[k]
  BY <1>1
<1>5. \A k \in 1 .. m : p[k] = (first \o rows)[k]
  <2> SUFFICES ASSUME NEW k \in 1 .. m PROVE p[k] = (first \o rows)[k]
    OBVIOUS
  <2>1. k \in DOMAIN list
    BY <1>1, <1>3
  <2>2. CASE k <= n
    <3>1. k - n \notin DOMAIN rows /\ (first \o rows)[k] = first[k]
      BY <1>1, <2>2, ConcatElement
    <3> QED BY <1>2, <1>4, <2>1, <2>2, <3>1, SMTT(30)
  <2>3. CASE k > n
    <3>1. k - n \in DOMAIN rows /\ (first \o rows)[k] = rows[k - n]
      BY <1>1, <2>3, ConcatElement, SMTT(30)
    <3> QED BY <1>2, <2>1, <3>1
  <2> QED BY <1>1, <2>2, <2>3, SMTT(30)
<1>6. /\ SubSeq(p, 1, m) \in Seq(Int) /\ Len(SubSeq(p, 1, m)) = m
      /\ \A k \in 1 .. m : SubSeq(p, 1, m)[k] = p[k]
  BY <1>2, <1>3, FirstElements
<1>7. first \o rows \in Seq(Int) /\ Len(first \o rows) = m
  <2>1. first \o rows \in Seq(Nat)
    BY ConcatShape
  <2>2. first \o rows \in Seq(Int)
    BY <2>1
  <2> QED BY <2>2, ConcatShape
<1>8. \A k \in 1 .. m : SubSeq(p, 1, m)[k] = (first \o rows)[k]
  BY <1>5, <1>6
<1> HIDE DEF m
<1>10. SubSeq(p, 1, m) = first \o rows
  BY <1>6, <1>7, <1>8, SameElements
<1> QED BY <1>10 DEF p, m

\* Where the studio is in a session, by the frame it sends.
LEMMA KindShape ==
    ASSUME Types
    PROVE  /\ LastFrame \in Nat /\ LastFrame = Len(cfg.rows) + 3 /\ LastFrame >= 3 /\ at \in Nat
           /\ Kind = "mode" <=> at = 1
           /\ at > 0 => /\ Kind = "rows" <=> at \in 2 .. LastFrame - 2
                        /\ Kind = "end" <=> at = LastFrame - 1
                        /\ Kind = "save" <=> at = LastFrame
<1>1. Len(cfg.rows) \in Nat
  BY ConfigShape DEF Types
<1>2. LastFrame \in Nat /\ LastFrame = Len(cfg.rows) + 3 /\ LastFrame >= 3
  BY <1>1 DEF LastFrame
<1>3. at \in 0 .. LastFrame
  BY DEF Types
<1>4. Kind = IF at = 1 THEN "mode" ELSE IF at = LastFrame - 1 THEN "end"
             ELSE IF at = LastFrame THEN "save" ELSE "rows"
  BY <1>2 DEF Kind
<1> HIDE DEF LastFrame
<1> QED BY <1>2, <1>3, <1>4

LEMMA AnswerShape ==
    ASSUME Types, Answer, at > 0
    PROVE  /\ cfg' = cfg /\ LastFrame' = LastFrame /\ AllRows' = AllRows
           /\ again' \in BOOLEAN /\ at' \in 0 .. LastFrame
           /\ \/ at = LastFrame /\ at' = 0 /\ again' = FALSE
              \/ at < LastFrame /\ at' = at + 1 /\ again' = FALSE
              \/ at' = at /\ again' = TRUE
<1>1. cfg' = cfg /\ LastFrame' = LastFrame /\ AllRows' = AllRows
  BY DEF Answer, LastFrame, AllRows
<1>2. LastFrame \in Nat /\ at \in 0 .. LastFrame
  BY KindShape DEF Types
<1>3. \/ at' = (IF at = LastFrame THEN 0 ELSE at + 1) /\ again' = FALSE
      \/ at' = at /\ again' = TRUE
  BY DEF Answer
<1> HIDE DEF LastFrame
<1>4. again' \in BOOLEAN
  BY <1>3
<1>5. /\ at' \in 0 .. LastFrame
      /\ \/ at = LastFrame /\ at' = 0
         \/ at < LastFrame /\ at' = at + 1
         \/ at' = at
  BY <1>2, <1>3
<1>6. \/ at = LastFrame /\ at' = 0 /\ again' = FALSE
      \/ at < LastFrame /\ at' = at + 1 /\ again' = FALSE
      \/ at' = at /\ again' = TRUE
  BY <1>2, <1>3
<1> QED BY <1>1, <1>4, <1>5, <1>6

Calls == {"modbus mode", "modbus wipe", "modbus save", "inet clear", "inet mode",
          "inet points", "modbus clear", "inet ip"}

\* The call made next, and those left after it.
Due(call, rest) == Head(todo) = call /\ Tail(todo) = rest

LEMMA Single == ASSUME NEW a PROVE Head(<<a>>) = a /\ Tail(<<a>>) = <<>> /\ Len(<<a>>) = 1
<1>1. Tail(<<a>>) = <<>>
  OBVIOUS
<1> QED BY <1>1

LEMMA Pair ==
    ASSUME NEW a, NEW b
    PROVE  Head(<<a, b>>) = a /\ Tail(<<a, b>>) = <<b>> /\ Len(<<a, b>>) = 2
<1>1. Tail(<<a, b>>) = <<b>>
  OBVIOUS
<1> QED BY <1>1

LEMMA Triple ==
    ASSUME NEW a, NEW b, NEW c
    PROVE  Head(<<a, b, c>>) = a /\ Tail(<<a, b, c>>) = <<b, c>> /\ Len(<<a, b, c>>) = 3
<1>1. Tail(<<a, b, c>>) = <<b, c>>
  OBVIOUS
<1> QED BY <1>1

LEMMA NotEmpty == ASSUME NEW a, NEW b PROVE <<a>> # <<>> /\ <<a, b>> # <<>>
  OBVIOUS

LEMMA DueShape ==
    ASSUME CallsInv, todo # <<>>
    PROVE  /\ todo = <<"modbus mode">> => Due("modbus mode", <<>>) /\ Len(todo) = 1
           /\ todo = ModbusSave =>
                 Due("modbus wipe", <<"modbus save", "inet clear">>) /\ Len(todo) = 3
           /\ todo = <<"modbus save", "inet clear">> =>
                 Due("modbus save", <<"inet clear">>) /\ Len(todo) = 2
           /\ todo = <<"inet clear">> => Due("inet clear", <<>>) /\ Len(todo) = 1
           /\ todo = INetSave =>
                 Due("inet mode", <<"inet points", "modbus clear">>) /\ Len(todo) = 3
           /\ todo = <<"inet points", "modbus clear">> =>
                 Due("inet points", <<"modbus clear">>) /\ Len(todo) = 2
           /\ todo = <<"modbus clear">> => Due("modbus clear", <<>>) /\ Len(todo) = 1
           /\ todo \in {<<"modbus mode">>, ModbusSave, <<"modbus save", "inet clear">>,
                        <<"inet clear">>, INetSave, <<"inet points", "modbus clear">>,
                        <<"modbus clear">>}
           /\ Head(todo) \in Calls /\ Len(todo) \in 1 .. 3
<1>1. todo = <<"modbus mode">> => Due("modbus mode", <<>>) /\ Len(todo) = 1
  <2> HAVE todo = <<"modbus mode">>
  <2>1. /\ Head(<<"modbus mode">>) = "modbus mode" /\ Tail(<<"modbus mode">>) = <<>>
        /\ Len(<<"modbus mode">>) = 1
    BY Single
  <2> QED BY <2>1 DEF Due
<1>2. todo = ModbusSave => Due("modbus wipe", <<"modbus save", "inet clear">>) /\ Len(todo) = 3
  <2> HAVE todo = ModbusSave
  <2>1. /\ Head(ModbusSave) = "modbus wipe" /\ Tail(ModbusSave) = <<"modbus save", "inet clear">>
        /\ Len(ModbusSave) = 3
    BY Triple DEF ModbusSave
  <2> QED BY <2>1 DEF Due
<1>3. todo = <<"modbus save", "inet clear">> => Due("modbus save", <<"inet clear">>) /\ Len(todo) = 2
  <2> HAVE todo = <<"modbus save", "inet clear">>
  <2>1. /\ Head(<<"modbus save", "inet clear">>) = "modbus save" /\ Tail(<<"modbus save", "inet clear">>) = <<"inet clear">>
        /\ Len(<<"modbus save", "inet clear">>) = 2
    BY Pair
  <2> QED BY <2>1 DEF Due
<1>4. todo = <<"inet clear">> => Due("inet clear", <<>>) /\ Len(todo) = 1
  <2> HAVE todo = <<"inet clear">>
  <2>1. /\ Head(<<"inet clear">>) = "inet clear" /\ Tail(<<"inet clear">>) = <<>>
        /\ Len(<<"inet clear">>) = 1
    BY Single
  <2> QED BY <2>1 DEF Due
<1>5. todo = INetSave => Due("inet mode", <<"inet points", "modbus clear">>) /\ Len(todo) = 3
  <2> HAVE todo = INetSave
  <2>1. /\ Head(INetSave) = "inet mode" /\ Tail(INetSave) = <<"inet points", "modbus clear">>
        /\ Len(INetSave) = 3
    BY Triple DEF INetSave
  <2> QED BY <2>1 DEF Due
<1>6. todo = <<"inet points", "modbus clear">> => Due("inet points", <<"modbus clear">>) /\ Len(todo) = 2
  <2> HAVE todo = <<"inet points", "modbus clear">>
  <2>1. /\ Head(<<"inet points", "modbus clear">>) = "inet points" /\ Tail(<<"inet points", "modbus clear">>) = <<"modbus clear">>
        /\ Len(<<"inet points", "modbus clear">>) = 2
    BY Pair
  <2> QED BY <2>1 DEF Due
<1>7. todo = <<"modbus clear">> => Due("modbus clear", <<>>) /\ Len(todo) = 1
  <2> HAVE todo = <<"modbus clear">>
  <2>1. /\ Head(<<"modbus clear">>) = "modbus clear" /\ Tail(<<"modbus clear">>) = <<>>
        /\ Len(<<"modbus clear">>) = 1
    BY Single
  <2> QED BY <2>1 DEF Due
<1>8. todo \in {<<"modbus mode">>, ModbusSave, <<"modbus save", "inet clear">>,
                <<"inet clear">>, INetSave, <<"inet points", "modbus clear">>,
                <<"modbus clear">>}
  BY DEF CallsInv
<1>9. Len(todo) \in {1, 2, 3} /\ \E call \in Calls : \E rest : Due(call, rest)
  BY <1>1, <1>2, <1>3, <1>4, <1>5, <1>6, <1>7, <1>8, Zenon DEF Calls
<1>10. Head(todo) \in Calls /\ Len(todo) \in 1 .. 3
  <2>1. Len(todo) \in 1 .. 3
    BY <1>9
  <2> QED BY <1>9, <2>1 DEF Due
<1> QED BY <1>1, <1>2, <1>3, <1>4, <1>5, <1>6, <1>7, <1>8, <1>10

\* Outside the handlers that write, the write the power may fail in is that of
\* the addresses.
LEMMA BeingWrittenShape ==
    ASSUME CallsInv
    PROVE  BeingWritten \in Calls /\ (todo = <<>> => BeingWritten = "inet ip")
<1>1. "inet ip" \in Calls
  BY DEF Calls
<1>2. todo # <<>> => Head(todo) \in Calls
  BY DueShape
<1> QED BY <1>1, <1>2 DEF BeingWritten

LEMMA JunkShape ==
    ASSUME NEW b \in ModbusBlock, NEW c, c = [b EXCEPT !.mode = "junk", !.count = StackRows]
    PROVE  c \in ModbusBlock /\ c.mode = "junk"
<1>1. /\ b.mode \in Modes /\ b.count \in Int /\ b.rows \in [1 .. MaxRows -> Int]
      /\ b = [mode |-> b.mode, count |-> b.count, rows |-> b.rows]
  BY DEF ModbusBlock
<1>2. c = [mode |-> "junk", count |-> StackRows, rows |-> b.rows]
  BY <1>1
<1> QED BY <1>1, <1>2 DEF ModbusBlock, Modes, StackRows

\* What a call leaves in its block.
LEMMA WrittenShape ==
    ASSUME Types, NEW call \in Calls
    PROVE  /\ BlockOf(call) \in Blocks
           /\ BlockOf(call) = "modbus" => Written(call) \in ModbusBlock
           /\ BlockOf(call) = "inet" => Written(call) \in INetBlock
<1>1. /\ flash.modbus \in ModbusBlock /\ flash.inet \in INetBlock
      /\ buf \in ModbusBlock /\ imode \in Modes /\ Len(points) \in Int
  BY SeqShape DEF Types
<1>2. call = "modbus mode" => Written(call) = [flash.modbus EXCEPT !.mode = buf.mode]
  BY DEF Written
<1>3. call \in {"modbus wipe", "modbus clear"} =>
          Written(call) = [flash.modbus EXCEPT !.mode = "junk", !.count = StackRows]
  BY DEF Written
<1>4. call = "modbus save" => Written(call) = buf
  BY DEF Written
<1>5. call = "inet clear" => Written(call) = [flash.inet EXCEPT !.mode = "junk"]
  BY DEF Written
<1>6. call = "inet mode" => Written(call) = [flash.inet EXCEPT !.mode = imode]
  BY DEF Written
<1>7. call = "inet points" => Written(call) = [flash.inet EXCEPT !.num = Len(points)]
  BY DEF Written
<1>10. call = "inet ip" => Written(call) = flash.inet
  BY DEF Written
<1>8. call \in {"modbus mode", "modbus wipe", "modbus clear", "modbus save"} =>
          Written(call) \in ModbusBlock
  <2>1. [flash.modbus EXCEPT !.mode = buf.mode] \in ModbusBlock
    BY <1>1 DEF ModbusBlock
  <2>2. [flash.modbus EXCEPT !.mode = "junk", !.count = StackRows] \in ModbusBlock
    BY <1>1, JunkShape
  <2> QED BY <1>1, <1>2, <1>3, <1>4, <2>1, <2>2
<1>9. call \in {"inet clear", "inet mode", "inet points", "inet ip"} =>
          Written(call) \in INetBlock
  BY <1>1, <1>5, <1>6, <1>7, <1>10 DEF INetBlock, Modes
<1> QED BY <1>8, <1>9 DEF BlockOf, Calls, Blocks

LEMMA InitTypes == Init => Types
<1> SUFFICES ASSUME Init PROVE Types
  OBVIOUS
<1>1. flash \in [modbus : ModbusBlock, inet : INetBlock] /\ buf \in ModbusBlock
  BY ErasedShape DEF Init
<1>2. points \in Seq(Int)
  <2>1. <<>> \in Seq(Int)
    OBVIOUS
  <2> QED BY <2>1 DEF Init
<1>3. cfg \in Configs /\ at \in 0 .. LastFrame
  <2>1. cfg \in Configs /\ at = 0
    BY DEF Init
  <2>2. Len(cfg.rows) \in Nat
    BY <2>1, ConfigShape
  <2> QED BY <2>1, <2>2 DEF LastFrame
<1>4. 0 \in 0 .. MaxRows
  BY BoundAssumption
<1>5. inUse \in [Blocks -> Known] /\ kept \in [Blocks -> Known] /\ inBuf \in Known
  BY OffKnown DEF Init
<1> QED BY <1>1, <1>2, <1>3, <1>4, <1>5 DEF Init, Types, Modes

\* What a history variable holds of a part.
LEMMA KnownKept ==
    ASSUME NEW f \in [Blocks -> Known], NEW c \in Known
    PROVE  /\ [f EXCEPT !.modbus = c] \in [Blocks -> Known]
           /\ [f EXCEPT !.inet = c] \in [Blocks -> Known]
           /\ [b \in Blocks |-> c] \in [Blocks -> Known]
  BY DEF Blocks

LEMMA KnownPair ==
    ASSUME NEW c \in Known, NEW d \in Known, NEW f, f = [modbus |-> c, inet |-> d]
    PROVE  f \in [Blocks -> Known] /\ f["modbus"] = c /\ f["inet"] = d
  BY DEF Blocks

LEMMA CleanKept ==
    ASSUME NEW f \in [Blocks -> BOOLEAN], NEW of \in Blocks, NEW c \in BOOLEAN
    PROVE  [f EXCEPT ![of] = c] \in [Blocks -> BOOLEAN]
  OBVIOUS

\* The part of Types about the studio.
StudioTypes == cfg \in Configs /\ at \in 0 .. LastFrame /\ again \in BOOLEAN

LEMMA AnswerTypes == ASSUME Types, Answer, at > 0 PROVE StudioTypes'
<1>1. cfg' \in Configs
  BY AnswerShape DEF Types
<1> QED BY <1>1, AnswerShape DEF StudioTypes

LEMMA BeginSessionTypes ==
    ASSUME Types, NEW c \in Configs, NEW first \in BOOLEAN, BeginSession(c, first)
    PROVE  Types'
<1>1. Len(c.rows) \in Nat
  BY ConfigShape
<1>2. LastFrame' = Len(c.rows) + 3 /\ cfg' = c /\ again' = FALSE
  BY DEF BeginSession, LastFrame
<1>3. at' \in 0 .. LastFrame'
  <2>1. at' = IF first THEN 1 ELSE Len(c.rows) + 3
    BY DEF BeginSession
  <2> QED BY <1>1, <1>2, <2>1
<1>4. UNCHANGED <<mode, imode, points, buf, flash, lines, recv, powered, open, clean,
                  inUse, kept, inBuf>>
  BY DEF BeginSession, ram, history
<1> QED BY <1>2, <1>3, <1>4 DEF Types

LEMMA GiveUpTypes == ASSUME Types, GiveUp PROVE Types'
<1>1. UNCHANGED <<mode, imode, points, buf, flash, lines, recv, powered, open, cfg,
                  inUse, kept, inBuf>>
  BY DEF GiveUp, ram
<1>2. at' \in 0 .. LastFrame' /\ again' \in BOOLEAN
  <2>1. at' = 0 /\ again' = FALSE /\ LastFrame' = LastFrame
    BY <1>1 DEF GiveUp, LastFrame
  <2>2. 0 \in 0 .. LastFrame
    BY KindShape
  <2> QED BY <2>1, <2>2
<1>3. clean' \in [Blocks -> BOOLEAN]
  BY DEF GiveUp, Types
<1> QED BY <1>1, <1>2, <1>3 DEF Types

LEMMA ModbusModeTypes == ASSUME Types, ModbusMode PROVE Types'
<1>1. UNCHANGED <<mode, imode, points, flash, lines, recv, powered, clean, inUse,
                  cfg, at, again>>
  BY DEF ModbusMode, studio
<1>2. buf' \in ModbusBlock
  <2>1. cfg.mode \in Modes
    BY ConfigShape DEF Types, Modes
  <2> QED BY <2>1, ErasedShape DEF ModbusMode, ModbusBlock
<1>3. inBuf' \in Known /\ kept' \in [Blocks -> Known] /\ open' = TRUE
  BY OffKnown, KnownKept DEF ModbusMode, Types
<1>4. LastFrame' = LastFrame
  BY <1>1 DEF LastFrame
<1> QED BY <1>1, <1>2, <1>3, <1>4 DEF Types

\* A packet of the session.
LEMMA PacketShape ==
    ASSUME Types, at > 0, Kind = "rows"
    PROVE  Packet \in Seq(Nat) /\ Len(Packet) \in Nat
<1>1. at - 1 \in 1 .. Len(cfg.rows) /\ cfg.rows \in Seq(Seq(Nat))
  <2>1. at \in 2 .. LastFrame - 2 /\ LastFrame = Len(cfg.rows) + 3 /\ LastFrame \in Nat
    BY KindShape
  <2> QED BY <2>1, ConfigShape DEF Types
<1>2. Packet \in Seq(Nat)
  BY <1>1 DEF Packet
<1> QED BY <1>2

\* The rows of a block as a sequence.
LEMMA RowsShape ==
    ASSUME NEW rows \in [1 .. MaxRows -> Int]
    PROVE  rows \in Seq(Int) /\ Len(rows) = MaxRows /\ DOMAIN rows = 1 .. MaxRows
<1>1. MaxRows \in Nat
  BY BoundAssumption
<1> QED BY <1>1, FunctionIsSeq

LEMMA ModbusRowsTypes == ASSUME Types, ModbusRows PROVE Types'
<1>1. at > 0 /\ Answer /\ Kind = "rows"
  BY DEF ModbusRows, Receive
<1>2. UNCHANGED <<mode, imode, points, flash, recv, powered, open, inUse, kept>>
  BY DEF ModbusRows
<1>3. Packet \in Seq(Nat) /\ Len(Packet) \in Nat
  BY <1>1, PacketShape
<1>4. lines' \in 0 .. MaxRows
  BY <1>3, BoundAssumption DEF ModbusRows, Types
<1>5. buf' \in ModbusBlock
  <2> DEFINE rows == Put(buf.rows, lines, Packet)
  <2>1. buf.rows \in [1 .. MaxRows -> Int] /\ lines \in Nat
    BY DEF Types, ModbusBlock
  <2>2. rows \in [1 .. MaxRows -> Int]
    BY <1>3, <2>1, PutShape, RowsShape
  <2>3. buf' = [buf EXCEPT !.rows = rows]
    BY DEF ModbusRows
  <2> HIDE DEF rows
  <2> QED BY <2>2, <2>3 DEF Types, ModbusBlock
<1>6. inBuf' \in Known
  BY OffKnown DEF ModbusRows
<1>7. clean' \in [Blocks -> BOOLEAN]
  BY DEF ModbusRows, Types
<1>8. StudioTypes'
  BY <1>1, AnswerTypes
<1> QED BY <1>2, <1>4, <1>5, <1>6, <1>7, <1>8 DEF Types, StudioTypes

\* The image that an end frame takes over.
Image == [buf EXCEPT !.count = lines]

LEMMA ImageShape ==
    ASSUME Types
    PROVE  /\ Image \in ModbusBlock /\ Image.mode = buf.mode /\ Image.count = lines
           /\ Image.rows = buf.rows
<1>1. /\ buf.mode \in Modes /\ buf.rows \in [1 .. MaxRows -> Int] /\ lines \in Int
      /\ buf = [mode |-> buf.mode, count |-> buf.count, rows |-> buf.rows]
  BY DEF Types, ModbusBlock
<1>2. Image = [mode |-> buf.mode, count |-> lines, rows |-> buf.rows]
  BY <1>1 DEF Image
<1> QED BY <1>1, <1>2 DEF ModbusBlock

LEMMA ModbusEndTypes == ASSUME Types, ModbusInv, ModbusEnd PROVE Types'
<1>1. at > 0 /\ Answer /\ Kind = "end" /\ cfg.of = "modbus"
  BY DEF ModbusEnd, Receive
<1>2. UNCHANGED <<flash, recv, powered, open, kept>>
  BY DEF ModbusEnd
<1>3. buf.mode # "blank"
  <2>1. at = LastFrame - 1 /\ LastFrame \in Nat /\ LastFrame >= 3
    BY <1>1, KindShape
  <2>2. at \in 2 .. LastFrame - 1
    BY <2>1
  <2> QED BY <1>1, <2>2 DEF ModbusInv, Inside
<1>4. Image \in ModbusBlock /\ Image.mode = buf.mode
  BY ImageShape
<1>5. buf' = Image /\ mode' = Image.mode
  BY DEF ModbusEnd, Image
<1>6. mode' \in Modes \ {"blank"} /\ buf' \in ModbusBlock
  <2>1. buf.mode \in Modes
    BY DEF Types, ModbusBlock
  <2> QED BY <1>3, <1>4, <1>5, <2>1
<1>7. imode' = "off" /\ points' = <<>> /\ lines' = 0
  BY DEF ModbusEnd, LinesAfterEnd
<1>8. imode' \in Modes \ {"blank"} /\ points' \in Seq(Int) /\ lines' \in 0 .. MaxRows
  <2>1. <<>> \in Seq(Int) /\ 0 \in 0 .. MaxRows
    BY BoundAssumption
  <2> QED BY <1>7, <2>1 DEF Modes
<1>9. inBuf' \in {Sent, Lost}
  BY DEF ModbusEnd
<1>10. \E c \in {Sent, Lost} : inUse' = [modbus |-> c, inet |-> Off]
  BY DEF ModbusEnd
<1>11. inBuf' \in Known /\ inUse' \in [Blocks -> Known]
  <2>1. Sent \in Known
    BY SentKnown DEF Types
  <2> QED BY <1>9, <1>10, <2>1, OffKnown, KnownPair
<1>12. clean' \in [Blocks -> BOOLEAN]
  BY DEF ModbusEnd, Types
<1>13. StudioTypes'
  BY <1>1, AnswerTypes
<1> QED BY <1>2, <1>6, <1>8, <1>11, <1>12, <1>13 DEF Types, StudioTypes

LEMMA SaveTypes == ASSUME Types, NEW of, NEW calls, Save(of, calls) PROVE Types'
<1>1. UNCHANGED <<mode, imode, points, buf, lines, recv, flash, powered, cfg, at, again,
                  inUse, inBuf, clean>>
  BY DEF Save, ram, studio
<1>2. open' = TRUE /\ kept' \in [Blocks -> Known]
  BY OffKnown, KnownKept DEF Save
<1>3. LastFrame' = LastFrame
  BY <1>1 DEF LastFrame
<1> QED BY <1>1, <1>2, <1>3 DEF Types

LEMMA INetModeTypes == ASSUME Types, INetMode PROVE Types'
<1>1. at > 0 /\ Answer
  BY DEF INetMode, Receive
<1>2. UNCHANGED <<mode, points, buf, lines, recv, flash, powered, inBuf, kept, clean, open>>
  BY DEF INetMode
<1>3. imode' \in Modes \ {"blank"}
  <2>1. cfg.mode \in {"on", "off"}
    BY ConfigShape DEF Types
  <2> QED BY <2>1 DEF INetMode, Modes
<1>4. inUse' \in [Blocks -> Known]
  BY OffKnown, KnownKept DEF INetMode, Types
<1>5. StudioTypes'
  BY <1>1, AnswerTypes
<1> QED BY <1>2, <1>3, <1>4, <1>5 DEF Types, StudioTypes

\* The list a packet of iNet is written to.
List == IF at = 2 \/ Len(points) # Len(AllRows)
        THEN [k \in 1 .. Len(AllRows) |-> Garbage] ELSE points

LEMMA ListShape == ASSUME Types PROVE List \in Seq(Int) /\ Len(List) = Len(AllRows)
<1>1. AllRows \in Seq(Nat) /\ points \in Seq(Int)
  BY SentKnown DEF Types
<1>2. Len(AllRows) \in Nat
  BY <1>1
<1> DEFINE g == [k \in 1 .. Len(AllRows) |-> Garbage]
<1>3. g \in [1 .. Len(AllRows) -> Int]
  BY DEF Garbage
<1>4. g \in Seq(Int) /\ Len(g) = Len(AllRows)
  <2> HIDE DEF g
  <2> QED BY <1>2, <1>3, FunctionIsSeq
<1>5. List \in {g, points} /\ (List = points => Len(List) = Len(AllRows) \/ List = g)
  BY DEF List
<1> QED BY <1>1, <1>4, <1>5

LEMMA INetRowsShape ==
    ASSUME INetRows
    PROVE  IF recv < Len(AllRows)
           THEN points' = Put(List, recv, Packet) /\ recv' = recv + Len(Packet)
           ELSE points' = List /\ recv' = recv
  BY DEF INetRows, List

LEMMA INetRowsTypes == ASSUME Types, INetRows PROVE Types'
<1>1. at > 0 /\ Answer /\ Kind = "rows"
  BY DEF INetRows, Receive
<1>2. UNCHANGED <<mode, imode, buf, lines, flash, powered, inBuf, kept, open>>
  BY DEF INetRows
<1>3. Packet \in Seq(Nat) /\ Len(Packet) \in Nat /\ recv \in Nat
  BY <1>1, PacketShape DEF Types
<1>4. Put(List, recv, Packet) \in Seq(Int) /\ List \in Seq(Int)
  BY <1>3, ListShape, PutShape
<1>5. points' \in Seq(Int) /\ recv' \in Nat
  BY <1>3, <1>4, INetRowsShape
<1>6. inUse' \in [Blocks -> Known]
  BY OffKnown, KnownKept DEF INetRows, Types
<1>7. clean' \in [Blocks -> BOOLEAN]
  BY DEF INetRows, Types
<1>8. StudioTypes'
  BY <1>1, AnswerTypes
<1> QED BY <1>2, <1>5, <1>6, <1>7, <1>8 DEF Types, StudioTypes

LEMMA INetEndTypes == ASSUME Types, INetEnd PROVE Types'
<1>1. at > 0 /\ Answer
  BY DEF INetEnd, Receive
<1>2. UNCHANGED <<imode, points, buf, lines, flash, powered, inBuf, kept, open>>
  BY DEF INetEnd
<1>3. mode' \in Modes \ {"blank"} /\ recv' \in Nat
  BY DEF INetEnd, Modes, RecvAfterEnd
<1>4. \E c \in {inUse.inet, Sent, Lost} : inUse' = [modbus |-> Off, inet |-> c]
  BY DEF INetEnd
<1>5. inUse' \in [Blocks -> Known]
  <2>1. Sent \in Known /\ inUse.inet \in Known
    BY SentKnown DEF Types, Blocks
  <2> QED BY <1>4, <2>1, OffKnown, KnownPair
<1>6. clean' \in [Blocks -> BOOLEAN]
  BY DEF INetEnd, Types
<1>7. StudioTypes'
  BY <1>1, AnswerTypes
<1> QED BY <1>2, <1>3, <1>5, <1>6, <1>7 DEF Types, StudioTypes

\* Flash after a write to a block, or an erasure of it.
LEMMA FlashKept ==
    ASSUME Types, NEW b \in Blocks, NEW image,
           b = "modbus" => image \in ModbusBlock, b = "inet" => image \in INetBlock,
           NEW f, f = [flash EXCEPT ![b] = image]
    PROVE  /\ f \in [modbus : ModbusBlock, inet : INetBlock]
           /\ b = "modbus" => f.modbus = image /\ f.inet = flash.inet
           /\ b = "inet" => f.inet = image /\ f.modbus = flash.modbus
<1>1. /\ flash.modbus \in ModbusBlock /\ flash.inet \in INetBlock
      /\ flash = [modbus |-> flash.modbus, inet |-> flash.inet]
  BY DEF Types
<1>2. b = "modbus" => f = [modbus |-> image, inet |-> flash.inet]
  BY <1>1
<1>3. b = "inet" => f = [modbus |-> flash.modbus, inet |-> image]
  BY <1>1
<1>4. f \in [modbus : ModbusBlock, inet : INetBlock]
  BY <1>1, <1>2, <1>3 DEF Blocks
<1> QED BY <1>1, <1>2, <1>3, <1>4

LEMMA FlashWriteTypes == ASSUME Types, CallsInv, FlashWrite PROVE Types'
<1>1. todo # <<>> /\ Head(todo) \in Calls
  BY DueShape DEF FlashWrite
<1>2. UNCHANGED <<mode, imode, points, lines, recv, powered>>
  BY DEF FlashWrite
<1>3. flash' \in [modbus : ModbusBlock, inet : INetBlock]
  <2>1. flash' = [flash EXCEPT ![BlockOf(Head(todo))] = Written(Head(todo))]
    BY DEF FlashWrite
  <2> QED BY <1>1, <2>1, WrittenShape, FlashKept
<1>4. buf' \in ModbusBlock
  BY ErasedShape DEF FlashWrite, AfterSave, Types
<1>5. at > 0
  <2>1. at = 1 \/ at = LastFrame
    BY <1>1 DEF CallsInv
  <2> QED BY <2>1, KindShape
<1>6. CASE Len(todo) > 1
  <2>1. UNCHANGED <<cfg, at, again, inUse, inBuf, kept, clean, open>>
    BY <1>6 DEF FlashWrite, studio, history
  <2>2. LastFrame' = LastFrame
    BY <2>1 DEF LastFrame
  <2> QED BY <1>2, <1>3, <1>4, <2>1, <2>2 DEF Types
<1>7. CASE ~(Len(todo) > 1)
  <2>1. StudioTypes'
    BY <1>5, <1>7, AnswerTypes DEF FlashWrite
  <2>2. inUse \in [Blocks -> Known] /\ inUse.inet \in Known
    BY DEF Types, Blocks
  <2>3. CASE Kind = "mode"
    <3>1. UNCHANGED <<inUse, inBuf, kept, clean, open>>
      BY <1>7, <2>3 DEF FlashWrite, history
    <3> QED BY <1>2, <1>3, <1>4, <2>1, <3>1 DEF Types, StudioTypes
  <2>4. CASE Kind # "mode"
    <3>1. /\ open' = FALSE /\ UNCHANGED <<inUse, clean>>
          /\ kept' = IF cfg.of = "modbus" THEN [modbus |-> inBuf, inet |-> Off]
                     ELSE [modbus |-> Off, inet |-> inUse.inet]
          /\ inBuf' = IF cfg.of = "modbus" THEN Lost ELSE inBuf
      BY <1>7, <2>4 DEF FlashWrite
    <3>2. inBuf' \in Known
      BY <3>1, OffKnown DEF Types
    <3>3. kept' \in [Blocks -> Known]
      <4>1. \/ kept' = [modbus |-> inBuf, inet |-> Off]
            \/ kept' = [modbus |-> Off, inet |-> inUse.inet]
        BY <3>1
      <4>2. inBuf \in Known
        BY DEF Types
      <4> QED BY <2>2, <4>1, <4>2, OffKnown, KnownPair
    <3> QED BY <1>2, <1>3, <1>4, <2>1, <3>1, <3>2, <3>3 DEF Types, StudioTypes
  <2> QED BY <2>3, <2>4
<1> QED BY <1>6, <1>7

\* What a write leaves that the power fails in.
LEMMA TornShape ==
    ASSUME Types, NEW call \in Calls, NEW image \in Torn(call)
    PROVE  /\ BlockOf(call) \in Blocks
           /\ BlockOf(call) = "modbus" => image \in ModbusBlock
           /\ BlockOf(call) = "inet" => image \in INetBlock
           /\ call = "inet ip" => image.mode \in {"blank", flash.inet.mode}
<1>1. BlockOf(call) \in Blocks
  BY WrittenShape
<1>2. BlockOf(call) = "modbus" => image \in ModbusBlock
  <2> HAVE BlockOf(call) = "modbus"
  <2>1. Written(call).mode \in Modes /\ Written(call).count \in Int
    BY WrittenShape DEF ModbusBlock
  <2>2. Erased.modbus \in ModbusBlock
    BY ErasedShape
  <2>3. [Erased.modbus EXCEPT !.mode = Written(call).mode, !.count = Written(call).count]
            \in ModbusBlock
    <3> DEFINE e == Erased.modbus
               m == Written(call).mode
               n == Written(call).count
    <3> HIDE DEF e, m, n
    <3>1. e \in ModbusBlock /\ m \in Modes /\ n \in Int
      BY <2>1, <2>2 DEF e, m, n
    <3>2. [e EXCEPT !.mode = m, !.count = n] \in ModbusBlock
      BY <3>1 DEF ModbusBlock
    <3> QED BY <3>2 DEF e, m, n
  <2> QED BY <2>2, <2>3 DEF Torn
<1>3. BlockOf(call) = "inet" =>
          /\ image \in INetBlock
          /\ image.mode \in {Erased.inet.mode, Written(call).mode}
  <2> HAVE BlockOf(call) = "inet"
  <2> DEFINE e == Erased.inet
             m == Written(call).mode
  <2>1. m \in Modes
    BY WrittenShape DEF INetBlock
  <2>2. e \in INetBlock
    BY ErasedShape
  <2>3. image \in {e, [e EXCEPT !.mode = m]}
    BY DEF Torn, Blocks
  <2> HIDE DEF e, m
  <2>4. [e EXCEPT !.mode = m] \in INetBlock /\ [e EXCEPT !.mode = m].mode = m
    BY <2>1, <2>2 DEF INetBlock
  <2>5. image \in INetBlock /\ image.mode \in {e.mode, m}
    BY <2>2, <2>3, <2>4
  <2> QED BY <2>5 DEF e, m
<1>4. Erased.inet.mode = "blank"
  BY DEF Erased
<1>5. call = "inet ip" => BlockOf(call) = "inet" /\ Written(call) = flash.inet
  BY DEF BlockOf, Written
<1> QED BY <1>1, <1>2, <1>3, <1>4, <1>5

LEMMA LostKept ==
    ASSUME Types, NEW b \in Blocks, NEW k, k = [kept EXCEPT ![b] = Lost]
    PROVE  /\ k \in [Blocks -> Known] /\ k[b] = Lost
           /\ b = "modbus" => k["inet"] = kept["inet"]
           /\ b = "inet" => k["modbus"] = kept["modbus"]
<1>1. kept \in [Blocks -> Known] /\ Lost \in Known
  BY OffKnown DEF Types
<1> QED BY <1>1 DEF Blocks

\* The one block is torn, the other is as it was.
LEMMA PowerCutShape ==
    ASSUME Types, CallsInv, PowerCut
    PROVE  /\ flash' \in [modbus : ModbusBlock, inet : INetBlock]
           /\ kept' \in [Blocks -> Known]
           /\ \/ flash' = flash /\ kept' = kept
              \/ /\ todo # <<>> /\ flash'.inet = flash.inet
                 /\ kept'["inet"] = kept["inet"] /\ kept'["modbus"] = Lost
              \/ /\ flash'.modbus = flash.modbus
                 /\ kept'["modbus"] = kept["modbus"] /\ kept'["inet"] = Lost
                 /\ todo = <<>> => flash'.inet.mode \in {"blank", flash.inet.mode}
<1>1. CASE flash' = flash /\ kept' = kept
  BY <1>1 DEF Types
<1>2. CASE ~(flash' = flash /\ kept' = kept)
  <2> DEFINE c == BeingWritten
             b == BlockOf(c)
  <2>1. PICK image \in Torn(c) : flash' = [flash EXCEPT ![b] = image]
    BY <1>2 DEF PowerCut
  <2>2. kept' = [kept EXCEPT ![b] = Lost]
    BY <1>2 DEF PowerCut
  <2>3. c \in Calls /\ (todo = <<>> => c = "inet ip")
    BY BeingWrittenShape
  <2>4. /\ b \in Blocks
        /\ b = "modbus" => image \in ModbusBlock
        /\ b = "inet" => image \in INetBlock
        /\ c = "inet ip" => image.mode \in {"blank", flash.inet.mode}
    BY <2>3, TornShape
  <2>5. c = "inet ip" => b = "inet"
    BY DEF BlockOf
  <2> HIDE DEF c, b
  <2>6. /\ flash' \in [modbus : ModbusBlock, inet : INetBlock]
        /\ b = "modbus" => flash'.inet = flash.inet
        /\ b = "inet" => flash'.inet = image /\ flash'.modbus = flash.modbus
    <3>1. CASE b = "modbus"
      <4>1. flash' = [flash EXCEPT !["modbus"] = image] /\ image \in ModbusBlock
        BY <2>1, <2>4, <3>1
      <4>2. "modbus" \in Blocks
        BY DEF Blocks
      <4> QED BY <3>1, <4>1, <4>2, FlashKept
    <3>2. CASE b = "inet"
      <4>1. flash' = [flash EXCEPT !["inet"] = image] /\ image \in INetBlock
        BY <2>1, <2>4, <3>2
      <4>2. "inet" \in Blocks
        BY DEF Blocks
      <4> QED BY <3>2, <4>1, <4>2, FlashKept
    <3> QED BY <2>4, <3>1, <3>2 DEF Blocks
  <2>7. /\ kept' \in [Blocks -> Known] /\ kept'[b] = Lost
        /\ b = "modbus" => kept'["inet"] = kept["inet"]
        /\ b = "inet" => kept'["modbus"] = kept["modbus"]
    BY <2>2, <2>4, LostKept
  <2>8. CASE b = "modbus"
    <3>1. todo # <<>>
      BY <2>3, <2>5, <2>8
    <3> QED BY <2>6, <2>7, <2>8, <3>1
  <2>9. CASE b = "inet"
    <3>1. todo = <<>> => image.mode \in {"blank", flash.inet.mode}
      BY <2>3, <2>4
    <3> QED BY <2>6, <2>7, <2>9, <3>1
  <2> QED BY <2>4, <2>8, <2>9 DEF Blocks
<1> QED BY <1>1, <1>2

LEMMA PowerCutTypes == ASSUME Types, CallsInv, PowerCut PROVE Types'
<1>1. UNCHANGED <<mode, imode, points, buf, lines, recv, cfg, at, again, inUse, inBuf,
                  clean, open>>
  BY DEF PowerCut, ram, studio
<1>2. /\ flash' \in [modbus : ModbusBlock, inet : INetBlock]
      /\ kept' \in [Blocks -> Known]
  BY PowerCutShape
<1>3. powered' = FALSE /\ LastFrame' = LastFrame
  BY <1>1 DEF PowerCut, LastFrame
<1> QED BY <1>1, <1>2, <1>3 DEF Types

LEMMA PowerUpTypes == ASSUME Types, PowerUp PROVE Types'
<1>1. UNCHANGED <<flash, cfg, at, again, kept, open>>
  BY DEF PowerUp, studio
<1>2. flash.modbus \in ModbusBlock /\ flash.inet \in INetBlock
  BY DEF Types
<1>3. mode' \in Modes \ {"blank"} /\ imode' \in Modes \ {"blank"}
  <2>1. flash.modbus.mode \in Modes /\ flash.inet.mode \in Modes
    BY <1>2 DEF ModbusBlock, INetBlock
  <2> QED BY <2>1 DEF PowerUp, ModeIn, Modes
<1>4. points' \in Seq(Int) /\ lines' \in 0 .. MaxRows /\ recv' \in Nat
  <2>1. <<>> \in Seq(Int) /\ Dangling \in Seq(Int) /\ 0 \in 0 .. MaxRows
    BY BoundAssumption DEF Dangling
  <2> QED BY <2>1 DEF PowerUp
<1>5. inUse' \in [Blocks -> Known] /\ inBuf' \in Known
  BY DEF PowerUp, Types, Blocks
<1>6. clean' \in [Blocks -> BOOLEAN] /\ powered' = TRUE /\ buf' = flash.modbus
  BY DEF PowerUp
<1>7. LastFrame' = LastFrame
  BY <1>1 DEF LastFrame
<1> QED BY <1>1, <1>2, <1>3, <1>4, <1>5, <1>6, <1>7 DEF Types

LEMMA StepTypes == ASSUME Types, CallsInv, ModbusInv, [Next]_vars PROVE Types'
<1>1. CASE Studio
  BY <1>1, BeginSessionTypes, GiveUpTypes DEF Studio
<1>2. CASE Modbus
  BY <1>2, ModbusModeTypes, ModbusRowsTypes, ModbusEndTypes, SaveTypes DEF Modbus
<1>3. CASE INet
  BY <1>3, INetModeTypes, INetRowsTypes, INetEndTypes, SaveTypes DEF INet
<1>4. CASE FlashWrite \/ PowerCut \/ PowerUp
  BY <1>4, FlashWriteTypes, PowerCutTypes, PowerUpTypes
<1>5. CASE UNCHANGED vars
  BY <1>5 DEF Types, vars, ram, studio, history, LastFrame
<1> QED BY <1>1, <1>2, <1>3, <1>4, <1>5 DEF Next

-----------------------------------------------------------------------------
(* The calls of Flash_Write.                                                *)

\* The steps other than those of a handler that writes to flash.
Others ==
    \/ \E c \in Configs, first \in BOOLEAN : BeginSession(c, first)
    \/ GiveUp \/ ModbusRows \/ ModbusEnd \/ INetMode \/ INetRows \/ INetEnd
    \/ PowerCut \/ PowerUp

LEMMA OthersQuiet == ASSUME CallsInv, Others PROVE todo' = <<>>
<1>1. ASSUME NEW c, NEW first, BeginSession(c, first) PROVE todo' = <<>>
  BY <1>1 DEF BeginSession
<1>2. CASE GiveUp \/ ModbusRows \/ ModbusEnd \/ INetMode \/ INetRows \/ INetEnd
  BY <1>2 DEF GiveUp, ModbusRows, ModbusEnd, INetMode, INetRows, INetEnd, Receive
<1>3. CASE PowerCut
  BY <1>3 DEF PowerCut
<1>4. CASE PowerUp
  <2>1. todo = <<>> \/ powered
    BY DEF CallsInv
  <2> QED BY <1>4, <2>1 DEF PowerUp
<1> QED BY <1>1, <1>2, <1>3, <1>4 DEF Others

LEMMA NextCases ==
    ASSUME Next
    PROVE  \/ Others \/ ModbusMode \/ Save("modbus", ModbusSave) \/ Save("inet", INetSave)
           \/ FlashWrite
  BY DEF Next, Studio, Modbus, INet, Others

LEMMA NoCalls == ASSUME todo' = <<>> PROVE CallsInv'
  BY DEF CallsInv

\* The calls of a save are made at its frame.
LEMMA SaveCalls ==
    ASSUME Types, NEW of, NEW calls, Save(of, calls)
    PROVE  /\ at' = LastFrame' /\ cfg' = cfg /\ cfg.of = of /\ powered' /\ open' /\ todo' = calls
           /\ kept'["modbus"] = Lost /\ kept'["inet"] = Lost
<1>1. at = LastFrame
  <2>1. at > 0 /\ Kind = "save"
    BY DEF Save, Receive
  <2> QED BY <2>1, KindShape
<1>2. at' = at /\ cfg' = cfg /\ powered' = powered /\ powered
  BY DEF Save, Receive, studio
<1>3. cfg.of = of /\ open' = TRUE /\ todo' = calls /\ kept' = [b \in Blocks |-> Lost]
  BY DEF Save, Receive
<1>4. LastFrame' = LastFrame
  BY <1>2 DEF LastFrame
<1> QED BY <1>1, <1>2, <1>3, <1>4 DEF Blocks

ModbusCalls == {ModbusSave, <<"modbus save", "inet clear">>, <<"inet clear">>}
INetCalls   == {INetSave, <<"inet points", "modbus clear">>, <<"modbus clear">>}

\* Which handler makes the calls.
LEMMA CallsOwner ==
    ASSUME CallsInv, todo # <<>>
    PROVE  /\ powered /\ open /\ kept["modbus"] = Lost
           /\ todo = <<"modbus mode">> => at = 1 /\ cfg.of = "modbus" /\ buf.mode = cfg.mode
           /\ todo \in ModbusCalls => at = LastFrame /\ cfg.of = "modbus" /\ kept["inet"] = Lost
           /\ todo \in INetCalls => at = LastFrame /\ cfg.of = "inet" /\ kept["inet"] = Lost
           /\ todo \in {<<"modbus mode">>} \cup ModbusCalls \cup INetCalls
<1>1. todo = <<"modbus mode">> => Head(todo) = "modbus mode"
  BY DueShape DEF Due
<1>2. todo \in ModbusCalls => Head(todo) \in {"modbus wipe", "modbus save", "inet clear"}
  BY DueShape DEF Due, ModbusCalls
<1>3. todo \in INetCalls => Head(todo) \in {"inet mode", "inet points", "modbus clear"}
  BY DueShape DEF Due, INetCalls
<1>4. \/ todo = <<"modbus mode">> /\ at = 1 /\ cfg.of = "modbus" /\ buf.mode = cfg.mode
      \/ todo \in ModbusCalls /\ at = LastFrame /\ cfg.of = "modbus" /\ kept["inet"] = Lost
      \/ todo \in INetCalls /\ at = LastFrame /\ cfg.of = "inet" /\ kept["inet"] = Lost
  BY DEF CallsInv, ModbusCalls, INetCalls
<1>5. powered /\ open /\ kept["modbus"] = Lost
  BY DEF CallsInv
<1> QED BY <1>1, <1>2, <1>3, <1>4, <1>5

\* The first calls of a handler leave all but flash and the buffer alone.
LEMMA WriteMore ==
    ASSUME CallsInv, FlashWrite, todo' # <<>>
    PROVE  /\ UNCHANGED <<cfg, at, again, LastFrame, powered, history, clean, open, kept>>
           /\ UNCHANGED <<inUse, inBuf>>
           /\ \/ /\ todo \in {ModbusSave, <<"modbus save", "inet clear">>}
                 /\ todo' \in {<<"modbus save", "inet clear">>, <<"inet clear">>}
              \/ /\ todo \in {INetSave, <<"inet points", "modbus clear">>}
                 /\ todo' \in {<<"inet points", "modbus clear">>, <<"modbus clear">>}
<1>1. todo # <<>> /\ todo' = Tail(todo)
  BY DEF FlashWrite
<1>2. /\ todo # <<"modbus mode">> /\ todo # <<"inet clear">> /\ todo # <<"modbus clear">>
  BY <1>1, DueShape DEF Due
<1>3. todo \in {ModbusSave, <<"modbus save", "inet clear">>, INetSave,
               <<"inet points", "modbus clear">>}
  BY <1>1, <1>2, DueShape
<1>4. Len(todo) > 1
  <2>1. Len(todo) \in {2, 3}
    BY <1>1, <1>3, DueShape
  <2> QED BY <2>1
<1>5. UNCHANGED <<cfg, at, again, history, clean, open, kept, inUse, inBuf, powered>>
  BY <1>4 DEF FlashWrite, studio, history
<1>6. LastFrame' = LastFrame
  BY <1>5 DEF LastFrame
<1>7. \/ /\ todo \in {ModbusSave, <<"modbus save", "inet clear">>}
         /\ todo' \in {<<"modbus save", "inet clear">>, <<"inet clear">>}
      \/ /\ todo \in {INetSave, <<"inet points", "modbus clear">>}
         /\ todo' \in {<<"inet points", "modbus clear">>, <<"modbus clear">>}
  BY <1>1, <1>3, DueShape DEF Due
<1> QED BY <1>5, <1>6, <1>7

\* The last call of a handler, after which it answers.
LEMMA WriteLast ==
    ASSUME CallsInv, FlashWrite, todo' = <<>>
    PROVE  /\ Answer /\ todo \in {<<"modbus mode">>, <<"inet clear">>, <<"modbus clear">>}
           /\ ~(Len(todo) > 1)
<1>1. todo # <<>> /\ Tail(todo) = <<>>
  BY DEF FlashWrite
<1>2. todo # ModbusSave
  BY <1>1, DueShape, NotEmpty DEF Due
<1>3. todo # <<"modbus save", "inet clear">>
  BY <1>1, DueShape, NotEmpty DEF Due
<1>4. todo # INetSave
  BY <1>1, DueShape, NotEmpty DEF Due
<1>5. todo # <<"inet points", "modbus clear">>
  BY <1>1, DueShape, NotEmpty DEF Due
<1>6. todo \in {<<"modbus mode">>, <<"inet clear">>, <<"modbus clear">>}
  BY <1>1, <1>2, <1>3, <1>4, <1>5, DueShape
<1>7. Len(todo) = 1
  BY <1>1, <1>6, DueShape
<1>8. ~(Len(todo) > 1)
  BY <1>7
<1> QED BY <1>6, <1>8 DEF FlashWrite

LEMMA StepCalls == ASSUME Types, CallsInv, [Next]_vars PROVE CallsInv'
<1>1. CASE Others
  BY <1>1, OthersQuiet, NoCalls
<1>2. CASE ModbusMode
  <2>1. at = 1 /\ cfg.of = "modbus" /\ powered
    <3>1. at > 0 /\ Kind = "mode" /\ cfg.of = "modbus" /\ powered
      BY <1>2 DEF ModbusMode, Receive
    <3> QED BY <3>1, KindShape
  <2>2. UNCHANGED <<at, cfg, powered>> /\ todo' = <<"modbus mode">> /\ open' = TRUE
    BY <1>2 DEF ModbusMode, studio
  <2>3. buf'.mode = cfg.mode
    BY <1>2 DEF ModbusMode, Cleared
  <2>4. kept'["modbus"] = Lost
    BY <1>2 DEF ModbusMode, Types, Blocks
  <2> QED BY <2>1, <2>2, <2>3, <2>4 DEF CallsInv
<1>3. CASE Save("modbus", ModbusSave)
  BY <1>3, SaveCalls DEF CallsInv
<1>4. CASE Save("inet", INetSave)
  BY <1>4, SaveCalls DEF CallsInv
<1>5. CASE FlashWrite
  <2>1. CASE todo' = <<>>
    BY <2>1, NoCalls
  <2>2. CASE todo' # <<>>
    <3>1. powered /\ open /\ kept["modbus"] = Lost /\ todo # <<>>
      BY <1>5 DEF CallsInv, FlashWrite
    <3>2. \/ /\ todo \in ModbusCalls
             /\ todo' \in {<<"modbus save", "inet clear">>, <<"inet clear">>}
          \/ /\ todo \in INetCalls
             /\ todo' \in {<<"inet points", "modbus clear">>, <<"modbus clear">>}
      BY <1>5, <2>2, <3>1, WriteMore DEF ModbusCalls, INetCalls
    <3>3. at = LastFrame /\ kept["inet"] = Lost
      BY <3>1, <3>2, CallsOwner
    <3>4. \/ /\ todo' \in {<<"modbus save", "inet clear">>, <<"inet clear">>}
             /\ cfg.of = "modbus"
          \/ /\ todo' \in {<<"inet points", "modbus clear">>, <<"modbus clear">>}
             /\ cfg.of = "inet"
      BY <3>1, <3>2, CallsOwner
    <3> QED BY <1>5, <2>2, <3>1, <3>3, <3>4, WriteMore DEF CallsInv
  <2> QED BY <2>1, <2>2
<1>6. CASE UNCHANGED vars
  BY <1>6 DEF CallsInv, vars, ram, studio, history, LastFrame
<1> QED BY <1>1, <1>2, <1>3, <1>4, <1>5, <1>6, NextCases

-----------------------------------------------------------------------------
(* Where the studio's session is after a step.                              *)

\* Before the frames of a session, and after its last, none is under way.
LEMMA NoSession ==
    ASSUME Types, NEW of, at \in {0, 1, LastFrame}
    PROVE  ~Inside(of) /\ ~InSession(of)
<1>1. LastFrame \in Nat /\ at \notin 2 .. LastFrame - 1
  BY KindShape
<1> QED BY <1>1 DEF Inside, InSession

LEMMA SessionKept ==
    ASSUME NEW of, UNCHANGED <<cfg, at, again>>
    PROVE  /\ LastFrame' = LastFrame /\ AllRows' = AllRows /\ Packets' = Packets /\ Rows' = Rows
           /\ Inside(of)' = Inside(of) /\ InSession(of)' = InSession(of)
  BY DEF LastFrame, AllRows, Packets, Rows, Inside, InSession

\* A packet that is not a repetition is the next of those received.
LEMMA RowsNext ==
    ASSUME Types, at > 0, Kind = "rows", Answer, ~again, NEW of, cfg.of = of
    PROVE  /\ Inside(of) /\ InSession(of) /\ InSession(of)'
           /\ Packets = at - 2 /\ Packets \in 0 .. Len(cfg.rows) - 1 /\ Packets' = Packets + 1
           /\ Rows \in Seq(Nat) /\ Packet \in Seq(Nat) /\ Rows' = Rows \o Packet
           /\ Len(Rows') = Len(Rows) + Len(Packet) /\ Len(Rows') <= Len(AllRows)
<1>1. /\ at \in 2 .. LastFrame - 2 /\ LastFrame = Len(cfg.rows) + 3 /\ LastFrame \in Nat
      /\ Len(cfg.rows) \in Nat /\ cfg.rows \in Seq(Seq(Nat))
  BY KindShape, ConfigShape DEF Types
<1>2. cfg' = cfg /\ LastFrame' = LastFrame
  BY AnswerShape
<1>3. \/ at' = at + 1 /\ again' = FALSE
      \/ at' = at /\ again' = TRUE
  <2>1. at # LastFrame
    BY <1>1
  <2> QED BY <2>1, AnswerShape
<1>4. Packets = at - 2 /\ Packets' = at - 1
  BY <1>1, <1>3 DEF Packets
<1>5. Packets \in 0 .. Len(cfg.rows) - 1 /\ Packets' = Packets + 1 /\ at - 1 = Packets + 1
  BY <1>1, <1>4
<1>6. /\ Inside(of) /\ InSession(of)
  <2>1. at \in 2 .. LastFrame - 1
    BY <1>1
  <2> QED BY <2>1 DEF Inside, InSession
<1>7. InSession(of)'
  <2>1. at' \in 2 .. LastFrame - 1 /\ ~(at' = LastFrame - 1 /\ again')
    BY <1>1, <1>3
  <2> QED BY <1>2, <2>1 DEF Inside, InSession
<1>8. Packet = cfg.rows[Packets + 1]
  BY <1>5 DEF Packet
<1>9. Rows' = FirstOf(cfg.rows, Packets + 1)
  BY <1>2, <1>5 DEF Rows
<1>10. /\ Rows \in Seq(Nat) /\ Packet \in Seq(Nat) /\ Rows' = Rows \o Packet
       /\ Len(Rows') = Len(Rows) + Len(Packet)
  BY <1>1, <1>5, <1>8, <1>9, FirstOfNext DEF Rows
<1>11. Len(Rows') <= Len(AllRows)
  <2>1. Packets + 1 \in 0 .. Len(cfg.rows)
    BY <1>1, <1>5
  <2> QED BY <1>1, <1>9, <2>1, FirstOfLength DEF AllRows
<1> QED BY <1>4, <1>5, <1>6, <1>7, <1>10, <1>11

\* The mode opens a session, of which no packet has come.
LEMMA SessionBegins ==
    ASSUME Types, at = 1, Answer, NEW of, cfg.of = of
    PROVE  /\ cfg' = cfg
           /\ \/ at' = 1 /\ ~Inside(of)' /\ ~InSession(of)'
              \/ InSession(of)' /\ Packets' = 0 /\ Rows' = <<>>
<1>1. LastFrame \in Nat /\ LastFrame >= 3
  BY KindShape
<1>2. /\ cfg' = cfg /\ LastFrame' = LastFrame
      /\ \/ at' = 2 /\ again' = FALSE
         \/ at' = 1
  <2>1. at # LastFrame /\ at > 0 /\ at + 1 = 2
    BY <1>1
  <2> QED BY <2>1, AnswerShape
<1>3. CASE at' = 2 /\ again' = FALSE
  <2>1. InSession(of)'
    BY <1>1, <1>2, <1>3 DEF Inside, InSession
  <2>2. Packets' = 0
    BY <1>3 DEF Packets
  <2> QED BY <1>2, <2>1, <2>2, FirstOfNone DEF Rows
<1>4. CASE at' = 1
  BY <1>1, <1>2, <1>4 DEF Inside, InSession
<1> QED BY <1>2, <1>3, <1>4

\* The end frame closes it: all its packets have come.
LEMMA SessionEnds ==
    ASSUME Types, at > 0, Kind = "end", Answer, NEW of, cfg.of = of
    PROVE  /\ cfg' = cfg /\ Inside(of) /\ \A b : ~InSession(b)'
           /\ ~again => InSession(of) /\ Rows = AllRows /\ Packets = Len(cfg.rows)
<1>1. /\ at = LastFrame - 1 /\ LastFrame = Len(cfg.rows) + 3 /\ LastFrame \in Nat
      /\ Len(cfg.rows) \in Nat /\ cfg.rows \in Seq(Seq(Nat))
  BY KindShape, ConfigShape DEF Types
<1>2. /\ cfg' = cfg /\ LastFrame' = LastFrame
      /\ \/ at' = LastFrame
         \/ at' = LastFrame - 1 /\ again'
  <2>1. at # LastFrame /\ at + 1 = LastFrame
    BY <1>1
  <2> QED BY <1>1, <2>1, AnswerShape
<1>3. Inside(of)
  <2>1. at \in 2 .. LastFrame - 1
    BY <1>1
  <2> QED BY <2>1 DEF Inside
<1>4. ASSUME NEW b PROVE ~InSession(b)'
  <2>1. at' = LastFrame => at' \notin 2 .. LastFrame - 1
    BY <1>1
  <2> QED BY <1>2, <2>1 DEF Inside, InSession
<1>5. ASSUME ~again PROVE InSession(of) /\ Rows = AllRows /\ Packets = Len(cfg.rows)
  <2>1. Packets = Len(cfg.rows)
    BY <1>1, <1>5 DEF Packets
  <2>2. Rows = AllRows
    BY <1>1, <2>1, FirstOfAll DEF Rows, AllRows
  <2> QED BY <1>3, <1>5, <2>1, <2>2 DEF InSession
<1> QED BY <1>2, <1>3, <1>4, <1>5

-----------------------------------------------------------------------------
(* The rows received.                                                       *)

LEMMA EmptyStart == ASSUME NEW S, NEW s \in Seq(S) PROVE SubSeq(s, 1, 0) = <<>> /\ Len(<<>>) = 0
  OBVIOUS

\* Steps that touch neither Modbus TCP's rows nor its session.
LEMMA SameModbusInv ==
    ASSUME ModbusInv, UNCHANGED <<cfg, at, again, lines, clean>>,
           Inside("modbus") => UNCHANGED buf /\ flash'.modbus = flash.modbus
    PROVE  ModbusInv'
<1>1. /\ Inside("modbus")' = Inside("modbus") /\ InSession("modbus")' = InSession("modbus")
      /\ Rows' = Rows
  BY SessionKept
<1>2. InSession("modbus") => Inside("modbus")
  BY DEF InSession
<1> QED BY <1>1, <1>2 DEF ModbusInv

\* Steps that leave no session of Modbus TCP.
LEMMA OutsideModbusInv ==
    ASSUME ~Inside("modbus")', clean'["modbus"] => lines' = 0
    PROVE  ModbusInv'
  BY DEF ModbusInv, InSession

LEMMA ModbusRowsModbusInv == ASSUME Types, ModbusInv, ModbusRows PROVE ModbusInv'
<1>1. at > 0 /\ Answer /\ Kind = "rows" /\ cfg.of = "modbus"
  BY DEF ModbusRows, Receive
<1>2. flash' = flash /\ cfg' = cfg
  BY <1>1, AnswerShape DEF ModbusRows
<1>3. buf' = [buf EXCEPT !.rows = Put(buf.rows, lines, Packet)]
  BY DEF ModbusRows
<1>4. buf'.mode = buf.mode /\ buf'.rows = Put(buf.rows, lines, Packet)
  BY <1>3 DEF Types, ModbusBlock
<1>5. Inside("modbus")
  <2>1. at \in 2 .. LastFrame - 2 /\ LastFrame \in Nat
    BY <1>1, KindShape
  <2>2. at \in 2 .. LastFrame - 1
    BY <2>1
  <2> QED BY <1>1, <2>2 DEF Inside
<1>6. flash'.modbus.mode # "blank" /\ buf'.mode # "blank"
  BY <1>2, <1>4, <1>5 DEF ModbusInv
<1>7. lines' = lines + Len(Packet) /\ lines + Len(Packet) <= MaxRows
  BY DEF ModbusRows
<1>8. clean'["modbus"] = (clean["modbus"] /\ ~again)
  BY DEF ModbusRows, Types, Blocks
<1>9. CASE clean["modbus"] /\ ~again
  <2>1. /\ InSession("modbus") /\ InSession("modbus")'
        /\ Rows \in Seq(Nat) /\ Packet \in Seq(Nat) /\ Rows' = Rows \o Packet
        /\ Len(Rows') = Len(Rows) + Len(Packet)
    BY <1>1, <1>9, RowsNext
  <2>2. lines = Len(Rows) /\ SubSeq(buf.rows, 1, lines) = Rows /\ buf.mode = cfg.mode
    BY <1>9, <2>1 DEF ModbusInv
  <2>3. buf.rows \in Seq(Int) /\ Len(buf.rows) = MaxRows /\ lines \in Nat
    BY RowsShape DEF Types, ModbusBlock
  <2>4. SubSeq(Put(buf.rows, lines, Packet), 1, lines + Len(Packet)) = Rows \o Packet
    BY <1>7, <2>1, <2>2, <2>3, PutBehind, ZenonT(60)
  <2>5. /\ lines' = Len(Rows') /\ SubSeq(buf'.rows, 1, lines') = Rows'
        /\ buf'.mode = cfg'.mode
    BY <1>2, <1>4, <1>7, <2>1, <2>2, <2>4
  <2> QED BY <1>6, <2>1, <2>5 DEF ModbusInv
<1>10. CASE ~(clean["modbus"] /\ ~again)
  <2>1. ~clean'["modbus"]
    BY <1>8, <1>10
  <2> QED BY <1>6, <2>1 DEF ModbusInv
<1> QED BY <1>9, <1>10

LEMMA GiveUpModbusInv == ASSUME Types, ModbusInv, GiveUp PROVE ModbusInv'
<1>1. at' = 0 /\ lines' = lines /\ cfg' = cfg /\ LastFrame' = LastFrame /\ at > 0
  BY DEF GiveUp, ram, LastFrame
<1>2. ~Inside("modbus")'
  BY <1>1 DEF Inside
<1>3. ASSUME clean'["modbus"] PROVE lines = 0
  <2>1. clean["modbus"]
    BY <1>3 DEF GiveUp, Types, Blocks
  <2>2. CASE ~InSession("modbus")
    BY <2>1, <2>2 DEF ModbusInv
  <2>3. CASE InSession("modbus")
    <3>1. cfg.of = "modbus" /\ at \in 2 .. LastFrame - 1
      BY <2>3 DEF InSession, Inside
    <3>2. Kind \in {"rows", "end"}
      <4>1. LastFrame \in Nat
        BY KindShape
      <4>2. at \in 2 .. LastFrame - 2 \/ at = LastFrame - 1
        BY <3>1, <4>1
      <4> QED BY <1>1, <4>2, KindShape
    <3>3. at = 2 /\ ~again
      BY <1>3, <3>1, <3>2 DEF GiveUp, Types, Blocks
    <3>4. Packets = 0
      BY <3>3 DEF Packets
    <3> QED BY <2>1, <2>3, <3>4, FirstOfNone, EmptyStart DEF ModbusInv, Rows
  <2> QED BY <2>2, <2>3
<1> QED BY <1>1, <1>2, <1>3, OutsideModbusInv

LEMMA ModbusEndModbusInv == ASSUME Types, ModbusInv, ModbusEnd PROVE ModbusInv'
<1>1. at > 0 /\ Answer /\ Kind = "end" /\ cfg.of = "modbus"
  BY DEF ModbusEnd, Receive
<1>2. Inside("modbus") /\ ~InSession("modbus")'
  BY <1>1, SessionEnds
<1>3. flash' = flash /\ buf' = Image /\ lines' = 0
  BY DEF ModbusEnd, Image, LinesAfterEnd
<1>4. flash'.modbus.mode # "blank" /\ buf'.mode # "blank"
  BY <1>2, <1>3, ImageShape DEF ModbusInv
<1> QED BY <1>2, <1>3, <1>4 DEF ModbusInv

LEMMA INetModbusInv ==
    ASSUME Types, ModbusInv, INetMode \/ INetRows \/ INetEnd
    PROVE  ModbusInv'
<1>1. at > 0 /\ Answer /\ cfg.of = "inet" /\ lines' = lines
  BY DEF INetMode, INetRows, INetEnd, Receive
<1>2. ~Inside("modbus") /\ ~Inside("modbus")' /\ ~InSession("modbus")
  BY <1>1, AnswerShape DEF Inside, InSession
<1>3. clean'["modbus"] = clean["modbus"]
  BY DEF INetMode, INetRows, INetEnd, Types, Blocks
<1> QED BY <1>1, <1>2, <1>3, OutsideModbusInv DEF ModbusInv

LEMMA FlashWriteModbusInv ==
    ASSUME Types, CallsInv, ModbusInv, FlashWrite
    PROVE  ModbusInv'
<1>1. todo # <<>> /\ UNCHANGED <<lines, clean>>
  BY DueShape DEF FlashWrite, history
<1>2. CASE todo' # <<>>
  <2>1. UNCHANGED <<cfg, at, again>>
    BY <1>2, WriteMore
  <2>2. at \in {0, 1, LastFrame}
    BY <1>1 DEF CallsInv
  <2>3. ~Inside("modbus")
    BY <2>2, NoSession
  <2> QED BY <1>1, <2>1, <2>3, SameModbusInv
<1>3. CASE todo' = <<>>
  <2>1. todo' = Tail(todo)
    BY DEF FlashWrite
  <2>2. todo \in {<<"modbus mode">>, <<"inet clear">>, <<"modbus clear">>}
    BY <1>3, WriteLast
  <2>3. Answer
    BY <1>3, WriteLast
  <2>4. CASE todo = <<"modbus mode">>
    <3>1. at = 1 /\ cfg.of = "modbus" /\ buf.mode = cfg.mode
      BY <1>1, <2>4, CallsOwner
    <3>2. Due("modbus mode", <<>>)
      BY <1>1, <2>4, DueShape
    <3>3. buf' = buf /\ flash' = [flash EXCEPT !["modbus"] = [flash.modbus EXCEPT !.mode = buf.mode]]
      BY <3>2 DEF FlashWrite, AfterSave, Due, BlockOf, Written
    <3>4. flash'.modbus.mode = cfg.mode /\ buf'.mode = cfg.mode
      BY <3>1, <3>3 DEF Types, ModbusBlock
    <3>5. cfg.mode # "blank" /\ cfg' = cfg
      BY <2>3, ConfigShape DEF Types, Answer
    <3>6. ~InSession("modbus")
      BY <3>1, NoSession
    <3>7. clean'["modbus"] => lines' = 0
      BY <1>1, <3>6 DEF ModbusInv
    <3>8. CASE ~Inside("modbus")'
      BY <3>7, <3>8, OutsideModbusInv
    <3>9. CASE InSession("modbus")' /\ Rows' = <<>>
      <4>1. buf.rows \in Seq(Int)
        BY RowsShape DEF Types, ModbusBlock
      <4>2. SubSeq(buf'.rows, 1, 0) = <<>>
        BY <3>3, <4>1, EmptyStart
      <4> QED BY <3>4, <3>5, <3>7, <3>9, <4>2, EmptyStart DEF ModbusInv
    <3> QED BY <2>3, <3>1, <3>8, <3>9, SessionBegins
  <2>5. CASE todo # <<"modbus mode">>
    <3>1. at = LastFrame
      BY <1>1, <2>5 DEF CallsInv
    <3>2. at' \in {0, LastFrame} /\ LastFrame' = LastFrame
      <4>1. at > 0 /\ ~(at < LastFrame)
        BY <3>1, KindShape
      <4> QED BY <2>3, <3>1, <4>1, AnswerShape
    <3>3. ~Inside("modbus")'
      <4>1. LastFrame \in Nat
        BY KindShape
      <4> QED BY <3>2, <4>1 DEF Inside
    <3>4. ~InSession("modbus")
      BY <3>1, NoSession
    <3> QED BY <1>1, <3>3, <3>4, OutsideModbusInv DEF ModbusInv
  <2> QED BY <2>4, <2>5
<1> QED BY <1>2, <1>3

LEMMA PowerModbusInv ==
    ASSUME Types, CallsInv, ModbusInv, PowerCut \/ PowerUp
    PROVE  ModbusInv'
<1>1. UNCHANGED <<cfg, at, again>>
  BY DEF PowerCut, PowerUp, studio
<1>2. CASE PowerCut
  <2>1. UNCHANGED <<buf, lines, clean>>
    BY <1>2 DEF PowerCut, ram
  <2>2. Inside("modbus") => flash'.modbus = flash.modbus
    <3> SUFFICES ASSUME Inside("modbus") PROVE flash'.modbus = flash.modbus
      OBVIOUS
    <3>1. at \notin {0, 1, LastFrame}
      BY NoSession
    <3>2. todo = <<>>
      BY <3>1 DEF CallsInv
    <3> QED BY <1>2, <3>2, PowerCutShape
  <2> QED BY <1>1, <2>1, <2>2, SameModbusInv
<1>3. CASE PowerUp
  <2>1. buf' = flash.modbus /\ flash' = flash /\ lines' = 0
    BY <1>3 DEF PowerUp
  <2>2. clean'["modbus"] => at = 0 \/ cfg.of # "modbus"
    BY <1>3 DEF PowerUp, Blocks
  <2>3. clean'["modbus"] => ~InSession("modbus")'
    BY <1>1, <2>2, SessionKept, NoSession DEF InSession, Inside
  <2>4. Inside("modbus")' = Inside("modbus")
    BY <1>1, SessionKept
  <2> QED BY <2>1, <2>3, <2>4 DEF ModbusInv
<1> QED BY <1>2, <1>3

LEMMA StepModbus == ASSUME Types, CallsInv, ModbusInv, [Next]_vars PROVE ModbusInv'
<1>1. ASSUME NEW c, NEW first, BeginSession(c, first), c \in Configs PROVE ModbusInv'
  <2>1. /\ cfg' = c /\ at' = (IF first THEN 1 ELSE Len(c.rows) + 3)
        /\ lines' = lines /\ clean' = clean /\ at = 0
    BY <1>1 DEF BeginSession, ram, history
  <2>2. LastFrame' = Len(c.rows) + 3 /\ Len(c.rows) \in Nat
    BY <1>1, <2>1, ConfigShape DEF LastFrame
  <2>3. at' = 1 \/ at' = LastFrame'
    BY <2>1, <2>2
  <2>4. ~Inside("modbus")'
    BY <2>2, <2>3 DEF Inside
  <2>5. ~InSession("modbus")
    BY <2>1, NoSession
  <2> QED BY <2>1, <2>4, <2>5, OutsideModbusInv DEF ModbusInv
<1>2. CASE ModbusMode
  <2>1. at = 1
    <3>1. at > 0 /\ Kind = "mode"
      BY <1>2 DEF ModbusMode, Receive
    <3> QED BY <3>1, KindShape
  <2>2. UNCHANGED <<cfg, at, again, lines, clean>>
    BY <1>2 DEF ModbusMode, studio
  <2> QED BY <2>1, <2>2, NoSession, SameModbusInv
<1>3. ASSUME NEW of, NEW calls, Save(of, calls) PROVE ModbusInv'
  <2>1. UNCHANGED <<cfg, at, again, lines, clean, buf, flash>>
    BY <1>3 DEF Save, studio, ram
  <2> QED BY <2>1, SameModbusInv
<1>4. CASE UNCHANGED vars
  BY <1>4, SameModbusInv DEF vars, ram, studio, history
<1> QED
  BY <1>1, <1>2, <1>3, <1>4, NextCases, GiveUpModbusInv, ModbusRowsModbusInv,
     ModbusEndModbusInv, INetModbusInv, FlashWriteModbusInv, PowerModbusInv DEF Others

LEMMA SameINetInv ==
    ASSUME INetInv, UNCHANGED <<cfg, at, again, recv, clean>>,
           InSession("inet") => UNCHANGED <<imode, points>>
    PROVE  INetInv'
<1>1. /\ InSession("inet")' = InSession("inet") /\ Rows' = Rows /\ Packets' = Packets
      /\ AllRows' = AllRows
  BY SessionKept
<1> QED BY <1>1 DEF INetInv

LEMMA OutsideINetInv ==
    ASSUME ~InSession("inet")', clean'["inet"] => recv' = 0
    PROVE  INetInv'
  BY DEF INetInv

LEMMA INetRowsINetInv == ASSUME Types, INetInv, INetRows PROVE INetInv'
<1>1. at > 0 /\ Answer /\ Kind = "rows" /\ cfg.of = "inet"
  BY DEF INetRows, Receive
<1>2. imode' = imode /\ cfg' = cfg /\ AllRows' = AllRows
  BY <1>1, AnswerShape DEF INetRows
<1>3. clean'["inet"] = (clean["inet"] /\ ~again)
  BY DEF INetRows, Types, Blocks
<1>4. CASE clean["inet"] /\ ~again
  <2>1. /\ InSession("inet") /\ InSession("inet")'
        /\ Packets = at - 2 /\ Packets \in Nat /\ Packets' = Packets + 1
        /\ Rows \in Seq(Nat) /\ Packet \in Seq(Nat) /\ Rows' = Rows \o Packet
        /\ Len(Rows') = Len(Rows) + Len(Packet) /\ Len(Rows') <= Len(AllRows)
    BY <1>1, <1>4, RowsNext
  <2>2. /\ recv = Len(Rows) /\ imode = cfg.mode
        /\ Packets > 0 => Len(points) = Len(AllRows) /\ SubSeq(points, 1, recv) = Rows
    BY <1>4, <2>1 DEF INetInv
  <2>3. List \in Seq(Int) /\ Len(List) = Len(AllRows) /\ recv \in Nat
    BY ListShape DEF Types
  <2>4. SubSeq(List, 1, recv) = Rows
    <3>1. CASE Packets > 0
      <4>1. at # 2 /\ Len(points) = Len(AllRows)
        <5>1. at # 2
          BY <2>1, <3>1
        <5> QED BY <2>2, <3>1, <5>1
      <4>2. List = points
        BY <4>1 DEF List
      <4> QED BY <2>2, <3>1, <4>2
    <3>2. CASE ~(Packets > 0)
      <4>1. Packets = 0
        <5>1. Packets \in Nat
          BY <2>1
        <5> QED BY <3>2, <5>1
      <4>2. Rows = <<>>
        BY <4>1, FirstOfNone DEF Rows
      <4> QED BY <2>2, <2>3, <4>2, EmptyStart
    <3> QED BY <3>1, <3>2
  <2>5. Len(Rows) \in Nat /\ Len(Packet) \in Nat /\ Len(AllRows) \in Nat
    BY <2>1, SentKnown DEF Types
  <2>6. CASE recv < Len(AllRows)
    <3>1. points' = Put(List, recv, Packet) /\ recv' = recv + Len(Packet)
      BY <2>6, INetRowsShape
    <3>2. recv + Len(Packet) <= Len(List)
      BY <2>1, <2>2, <2>3
    <3>3. SubSeq(points', 1, recv') = Rows'
      BY <2>1, <2>2, <2>3, <2>4, <3>1, <3>2, PutBehind, ZenonT(60)
    <3>4. Len(points') = Len(AllRows)
      BY <2>1, <2>3, <3>1, PutShape, SMTT(30)
    <3>5. recv' = Len(Rows')
      BY <2>1, <2>2, <3>1
    <3> QED BY <1>2, <2>1, <2>2, <3>3, <3>4, <3>5 DEF INetInv
  <2>7. CASE ~(recv < Len(AllRows))
    <3>1. points' = List /\ recv' = recv
      BY <2>7, INetRowsShape
    <3>2. Len(Packet) = 0
      BY <2>1, <2>2, <2>5, <2>7
    <3>3. Rows' = Rows
      <4>1. Packet = <<>>
        <5>1. Packet \in Seq(Nat)
          BY <2>1
        <5> QED BY <3>2, <5>1
      <4>2. Rows \o <<>> = Rows
        BY <2>1, EmptyConcat
      <4> QED BY <2>1, <4>1, <4>2
    <3> QED BY <1>2, <2>1, <2>2, <2>3, <2>4, <3>1, <3>3 DEF INetInv
  <2> QED BY <2>6, <2>7
<1>5. CASE ~(clean["inet"] /\ ~again)
  <2>1. ~clean'["inet"]
    BY <1>3, <1>5
  <2> QED BY <2>1 DEF INetInv
<1> QED BY <1>4, <1>5

LEMMA GiveUpINetInv == ASSUME Types, INetInv, GiveUp PROVE INetInv'
<1>1. at' = 0 /\ recv' = recv /\ cfg' = cfg /\ LastFrame' = LastFrame /\ at > 0
  BY DEF GiveUp, ram, LastFrame
<1>2. ~InSession("inet")'
  BY <1>1 DEF Inside, InSession
<1>3. ASSUME clean'["inet"] PROVE recv = 0
  <2>1. clean["inet"]
    BY <1>3 DEF GiveUp, Types, Blocks
  <2>2. CASE ~InSession("inet")
    BY <2>1, <2>2 DEF INetInv
  <2>3. CASE InSession("inet")
    <3>1. cfg.of = "inet" /\ at \in 2 .. LastFrame - 1
      BY <2>3 DEF InSession, Inside
    <3>2. Kind \in {"rows", "end"}
      <4>1. LastFrame \in Nat
        BY KindShape
      <4>2. at \in 2 .. LastFrame - 2 \/ at = LastFrame - 1
        BY <3>1, <4>1
      <4> QED BY <1>1, <4>2, KindShape
    <3>3. at = 2 /\ ~again
      BY <1>3, <3>1, <3>2 DEF GiveUp, Types, Blocks
    <3>4. Packets = 0
      BY <3>3 DEF Packets
    <3> QED BY <2>1, <2>3, <3>4, FirstOfNone, EmptyStart DEF INetInv, Rows
  <2> QED BY <2>2, <2>3
<1> QED BY <1>1, <1>2, <1>3, OutsideINetInv

LEMMA INetModeINetInv == ASSUME Types, INetInv, INetMode PROVE INetInv'
<1>1. Answer /\ cfg.of = "inet" /\ at = 1
  <2>1. Answer /\ cfg.of = "inet" /\ at > 0 /\ Kind = "mode"
    BY DEF INetMode, Receive
  <2> QED BY <2>1, KindShape
<1>2. imode' = cfg.mode /\ recv' = recv /\ clean' = clean
  BY DEF INetMode
<1>3. clean'["inet"] => recv' = 0
  BY <1>1, <1>2, NoSession DEF INetInv
<1>4. CASE ~InSession("inet")'
  BY <1>3, <1>4, OutsideINetInv
<1>5. CASE InSession("inet")' /\ Packets' = 0 /\ Rows' = <<>> /\ cfg' = cfg
  <2>1. Len(Rows') = 0 /\ ~(Packets' > 0)
    BY <1>5, EmptyStart
  <2> QED BY <1>2, <1>3, <1>5, <2>1 DEF INetInv
<1> QED BY <1>1, <1>4, <1>5, SessionBegins

LEMMA INetEndINetInv == ASSUME Types, INetEnd PROVE INetInv'
<1>1. at > 0 /\ Answer /\ Kind = "end" /\ cfg.of = "inet" /\ recv' = 0
  BY DEF INetEnd, Receive, RecvAfterEnd
<1>2. ~InSession("inet")'
  BY <1>1, SessionEnds
<1> QED BY <1>1, <1>2, OutsideINetInv

LEMMA ModbusINetInv == ASSUME Types, INetInv, ModbusRows \/ ModbusEnd PROVE INetInv'
<1>1. at > 0 /\ Answer /\ cfg.of = "modbus" /\ recv' = recv
  BY DEF ModbusRows, ModbusEnd, Receive
<1>2. ~InSession("inet") /\ ~InSession("inet")'
  BY <1>1, AnswerShape DEF Inside, InSession
<1>3. clean'["inet"] = clean["inet"]
  BY DEF ModbusRows, ModbusEnd, Types, Blocks
<1> QED BY <1>1, <1>2, <1>3, OutsideINetInv DEF INetInv

LEMMA FlashWriteINetInv ==
    ASSUME Types, CallsInv, INetInv, FlashWrite
    PROVE  INetInv'
<1>1. todo # <<>> /\ UNCHANGED <<recv, clean, imode, points>>
  BY DEF FlashWrite, history
<1>2. CASE todo' # <<>>
  BY <1>1, <1>2, WriteMore, SameINetInv
<1>3. CASE todo' = <<>>
  <2>1. Answer /\ cfg' = cfg
    BY <1>3, WriteLast DEF Answer
  <2>2. CASE cfg.of # "inet"
    <3>1. ~InSession("inet") /\ ~InSession("inet")'
      BY <2>1, <2>2 DEF InSession, Inside
    <3> QED BY <1>1, <3>1, OutsideINetInv DEF INetInv
  <2>3. CASE cfg.of = "inet"
    <3>1. at = LastFrame
      BY <1>1, <2>3 DEF CallsInv
    <3>2. at' \in {0, LastFrame} /\ LastFrame' = LastFrame
      <4>1. at > 0 /\ ~(at < LastFrame)
        BY <3>1, KindShape
      <4> QED BY <2>1, <3>1, <4>1, AnswerShape
    <3>3. ~InSession("inet")' /\ ~InSession("inet")
      <4>1. LastFrame \in Nat
        BY KindShape
      <4> QED BY <3>1, <3>2, <4>1, NoSession DEF Inside, InSession
    <3> QED BY <1>1, <3>3, OutsideINetInv DEF INetInv
  <2> QED BY <2>2, <2>3
<1> QED BY <1>2, <1>3

LEMMA StepINet == ASSUME Types, CallsInv, INetInv, [Next]_vars PROVE INetInv'
<1>1. ASSUME NEW c, NEW first, BeginSession(c, first), c \in Configs PROVE INetInv'
  <2>1. /\ cfg' = c /\ at' = (IF first THEN 1 ELSE Len(c.rows) + 3)
        /\ recv' = recv /\ clean' = clean /\ at = 0
    BY <1>1 DEF BeginSession, ram, history
  <2>2. LastFrame' = Len(c.rows) + 3 /\ Len(c.rows) \in Nat
    BY <1>1, <2>1, ConfigShape DEF LastFrame
  <2>3. at' = 1 \/ at' = LastFrame'
    BY <2>1, <2>2
  <2>4. ~InSession("inet")'
    BY <2>2, <2>3 DEF Inside, InSession
  <2>5. ~InSession("inet")
    BY <2>1, NoSession
  <2> QED BY <2>1, <2>4, <2>5, OutsideINetInv DEF INetInv
<1>2. CASE ModbusMode
  BY <1>2, SameINetInv DEF ModbusMode, studio
<1>3. ASSUME NEW of, NEW calls, Save(of, calls) PROVE INetInv'
  BY <1>3, SameINetInv DEF Save, studio, ram
<1>4. CASE PowerCut
  BY <1>4, SameINetInv DEF PowerCut, studio, ram
<1>5. CASE PowerUp
  <2>1. recv' = 0 /\ UNCHANGED <<cfg, at, again>>
    BY <1>5 DEF PowerUp, studio
  <2>2. clean'["inet"] => at = 0 \/ cfg.of # "inet"
    BY <1>5 DEF PowerUp, Blocks
  <2>3. clean'["inet"] => ~InSession("inet")'
    BY <2>1, <2>2, SessionKept, NoSession DEF InSession, Inside
  <2> QED BY <2>1, <2>3 DEF INetInv
<1>6. CASE UNCHANGED vars
  BY <1>6, SameINetInv DEF vars, ram, studio, history
<1> QED
  BY <1>1, <1>2, <1>3, <1>4, <1>5, <1>6, NextCases, GiveUpINetInv, INetRowsINetInv,
     INetModeINetInv, INetEndINetInv, ModbusINetInv, FlashWriteINetInv DEF Others

-----------------------------------------------------------------------------
(* What flash and the buffer hold.                                          *)

\* Another image says nothing of a configuration that is lost.
LEMMA LostDescribed ==
    ASSUME NEW block
    PROVE  Describes(block, Lost) /\ DescribesINet(block, Lost)
  BY DEF Describes, DescribesINet, Lost

LEMMA OffDescribed ==
    ASSUME NEW block, block.mode # "on"
    PROVE  Describes(block, Off) /\ DescribesINet(block, Off)
  BY DEF Describes, DescribesINet, Off

\* Steps that write to neither.
LEMMA SameFlashInv ==
    ASSUME FlashInv, todo' = <<>>, UNCHANGED <<flash, kept, open>>,
           powered' => Describes(buf', inBuf')
    PROVE  FlashInv'
<1>1. /\ todo' # <<"inet clear">> /\ todo' # <<"modbus clear">>
      /\ todo' # <<"inet points", "modbus clear">>
  BY NotEmpty
<1> QED BY <1>1 DEF FlashInv

\* The part of the buffer at an end frame that nothing went wrong before.
LEMMA GoodImage ==
    ASSUME Types, ModbusInv, ModbusEnd, clean["modbus"], ~again
    PROVE  Describes(Image, Sent) /\ Image.mode = cfg.mode /\ SubSeq(buf.rows, 1, lines) = AllRows
<1>1. at > 0 /\ Answer /\ Kind = "end" /\ cfg.of = "modbus"
  BY DEF ModbusEnd, Receive
<1>2. InSession("modbus") /\ Rows = AllRows
  BY <1>1, SessionEnds
<1>3. SubSeq(buf.rows, 1, lines) = AllRows /\ buf.mode = cfg.mode
  BY <1>2 DEF ModbusInv
<1>4. Sent.mode = cfg.mode /\ Sent.rows = AllRows
  BY DEF Sent
<1> QED BY <1>3, <1>4, ImageShape DEF Describes, Types

LEMMA OthersFlashInv ==
    ASSUME Types, CallsInv, ModbusInv, FlashInv, Others
    PROVE  FlashInv'
<1>1. todo' = <<>>
  BY OthersQuiet
<1>2. ASSUME UNCHANGED <<buf, inBuf, flash, kept, open, powered>>, todo = <<>> PROVE FlashInv'
  <2>1. todo # <<"inet clear">>
    BY <1>2, NotEmpty
  <2> QED BY <1>1, <1>2, <2>1, SameFlashInv DEF FlashInv
<1>3. ASSUME NEW c, NEW first, BeginSession(c, first) PROVE FlashInv'
  BY <1>2, <1>3 DEF BeginSession, ram, history
<1>4. CASE GiveUp \/ INetMode \/ INetRows \/ INetEnd
  BY <1>2, <1>4 DEF GiveUp, ram, INetMode, INetRows, INetEnd, Receive
<1>5. CASE ModbusRows
  <2>1. inBuf' = Lost /\ UNCHANGED <<flash, kept, open>>
    BY <1>5 DEF ModbusRows
  <2> QED BY <1>1, <2>1, LostDescribed, SameFlashInv
<1>6. CASE ModbusEnd
  <2>1. UNCHANGED <<flash, kept, open>> /\ buf' = Image
    BY <1>6 DEF ModbusEnd, Image
  <2>2. inBuf' = IF clean["modbus"] /\ ~again THEN Sent ELSE Lost
    BY <1>6 DEF ModbusEnd
  <2>3. Describes(Image, inBuf')
    BY <1>6, <2>2, GoodImage, LostDescribed
  <2> QED BY <1>1, <2>1, <2>3, SameFlashInv
<1>7. CASE PowerCut
  <2>1. powered' = FALSE /\ open' = open
    BY <1>7 DEF PowerCut
  <2>2. /\ \/ flash' = flash /\ kept' = kept
           \/ /\ todo # <<>> /\ flash'.inet = flash.inet
              /\ kept'["inet"] = kept["inet"] /\ kept'["modbus"] = Lost
           \/ /\ flash'.modbus = flash.modbus
              /\ kept'["modbus"] = kept["modbus"] /\ kept'["inet"] = Lost
              /\ todo = <<>> => flash'.inet.mode \in {"blank", flash.inet.mode}
    BY <1>7, PowerCutShape
  <2>3. DescribesINet(flash'.inet, kept'["inet"])
    BY <2>2, LostDescribed DEF FlashInv
  <2>4. Describes(flash'.modbus, kept'["modbus"])
    BY <2>2, LostDescribed DEF FlashInv
  <2>5. ~open' => ~(flash'.modbus.mode = "on" /\ flash'.inet.mode = "on")
    <3>1. todo # <<>> => open
      BY CallsOwner
    <3>2. ~open => ~(flash.modbus.mode = "on" /\ flash.inet.mode = "on")
      BY DEF FlashInv
    <3>3. CASE todo # <<>>
      BY <2>1, <3>1, <3>3
    <3>4. CASE todo = <<>>
      <4>1. flash'.modbus = flash.modbus
        BY <2>2, <3>4
      <4>2. flash'.inet.mode = flash.inet.mode \/ flash'.inet.mode = "blank"
        BY <2>2, <3>4
      <4> QED BY <2>1, <3>2, <4>1, <4>2
    <3> QED BY <3>3, <3>4
  <2>6. /\ todo' # <<"inet clear">> /\ todo' # <<"modbus clear">>
        /\ todo' # <<"inet points", "modbus clear">>
    BY <1>1, NotEmpty
  <2> QED BY <2>1, <2>3, <2>4, <2>5, <2>6 DEF FlashInv
<1>8. CASE PowerUp
  <2>1. /\ UNCHANGED <<flash, kept, open>> /\ buf' = flash.modbus
        /\ inBuf' = kept.modbus
    BY <1>8 DEF PowerUp
  <2>2. Describes(buf', inBuf')
    BY <2>1 DEF FlashInv
  <2> QED BY <1>1, <2>1, <2>2, SameFlashInv
<1> QED BY <1>3, <1>4, <1>5, <1>6, <1>7, <1>8 DEF Others

LEMMA Apart ==
    /\ <<"inet clear">> # <<"modbus clear">> /\ <<"modbus mode">> # <<"inet clear">>
    /\ <<"modbus mode">> # <<"modbus clear">>
    /\ \A a, b, c : <<a>> # <<b, c>>
    /\ <<"modbus save", "inet clear">> # <<"inet points", "modbus clear">>
    /\ \A a, b, c, d : <<a>> # <<b, c, d>>
    /\ \A a, b, c, d, e : <<a, b>> # <<c, d, e>>
<1>1. /\ <<"inet clear">> # <<"modbus clear">> /\ <<"modbus mode">> # <<"inet clear">>
      /\ <<"modbus mode">> # <<"modbus clear">>
  OBVIOUS
<1>2. ASSUME NEW a, NEW b, NEW c PROVE <<a>> # <<b, c>>
  BY Single, Pair
<1>3. <<"modbus save", "inet clear">> # <<"inet points", "modbus clear">>
  OBVIOUS
<1>4. ASSUME NEW a, NEW b, NEW c, NEW d PROVE <<a>> # <<b, c, d>>
  BY Single, Triple
<1>5. ASSUME NEW a, NEW b, NEW c, NEW d, NEW e PROVE <<a, b>> # <<c, d, e>>
  BY Pair, Triple
<1> QED BY <1>1, <1>2, <1>3, <1>4, <1>5

\* The middle of a save, where nothing is known of flash.
LEMMA MidSave ==
    ASSUME kept'["modbus"] = Lost, kept'["inet"] = Lost, open',
           powered' /\ todo' # <<"inet clear">> => Describes(buf', inBuf'),
           todo' = <<"inet clear">> => Describes(flash'.modbus, inBuf'),
           todo' \in {<<"inet points", "modbus clear">>, <<"modbus clear">>} =>
               flash'.inet.mode = imode',
           todo' = <<"modbus clear">> => flash'.inet.num = Len(points')
    PROVE  FlashInv'
  BY LostDescribed DEF FlashInv

LEMMA ModbusModeFlashInv == ASSUME Types, FlashInv, ModbusMode PROVE FlashInv'
<1>1. /\ inBuf' = Lost /\ flash' = flash /\ open' = TRUE /\ todo' = <<"modbus mode">>
      /\ kept' = [kept EXCEPT !.modbus = Lost]
  BY DEF ModbusMode
<1>2. kept'["modbus"] = Lost /\ kept'["inet"] = kept["inet"]
  BY <1>1 DEF Types, Blocks
<1>3. /\ todo' # <<"inet clear">> /\ todo' # <<"modbus clear">>
      /\ todo' # <<"inet points", "modbus clear">>
  BY <1>1, Apart
<1> QED BY <1>1, <1>2, <1>3, LostDescribed DEF FlashInv

LEMMA SaveFlashInv ==
    ASSUME Types, FlashInv, NEW of, NEW calls, calls \in {ModbusSave, INetSave}, Save(of, calls)
    PROVE  FlashInv'
<1>1. UNCHANGED <<buf, inBuf, flash, powered>> /\ powered /\ todo = <<>> /\ todo' = calls
  BY DEF Save, Receive, ram
<1>2. /\ todo' # <<"inet clear">> /\ todo' # <<"modbus clear">>
      /\ todo' # <<"inet points", "modbus clear">>
  BY <1>1, Apart DEF ModbusSave, INetSave
<1>3. todo # <<"inet clear">>
  BY <1>1, NotEmpty
<1>4. Describes(buf', inBuf')
  BY <1>1, <1>3 DEF FlashInv
<1>5. kept'["modbus"] = Lost /\ kept'["inet"] = Lost /\ open'
  BY SaveCalls
<1> QED BY <1>2, <1>4, <1>5, MidSave

\* What one call changes.
LEMMA OneWrite ==
    ASSUME Types, CallsInv, FlashWrite, NEW call, NEW rest, Due(call, rest)
    PROVE  /\ todo' = rest
           /\ call \in Calls
           /\ call = "modbus mode" => buf' = buf
           /\ call = "modbus wipe" => buf' = buf
           /\ call = "modbus clear" => buf' = buf
           /\ call = "inet clear" => buf' = buf
           /\ call = "inet mode" => buf' = buf
           /\ call = "inet points" => buf' = buf
           /\ call = "modbus mode" => flash'.inet = flash.inet
           /\ call = "modbus wipe" => flash'.inet = flash.inet
           /\ call = "modbus save" => flash'.inet = flash.inet /\ flash'.modbus = buf
           /\ call = "modbus clear" => flash'.inet = flash.inet /\ flash'.modbus.mode = "junk"
           /\ call = "inet clear" => flash'.modbus = flash.modbus /\ flash'.inet.mode = "junk"
           /\ call = "inet mode" => flash'.modbus = flash.modbus /\ flash'.inet.mode = imode
           /\ call = "inet points" => /\ flash'.modbus = flash.modbus
                                      /\ flash'.inet.mode = flash.inet.mode
                                      /\ flash'.inet.num = Len(points)
<1>1. todo # <<>> /\ call = Head(todo) /\ call \in Calls /\ todo' = rest
  BY DueShape DEF FlashWrite, Due
<1>2. flash' = [flash EXCEPT ![BlockOf(call)] = Written(call)]
  BY <1>1 DEF FlashWrite
<1>3. /\ call = "modbus mode" => buf' = buf
      /\ call = "modbus wipe" => buf' = buf
      /\ call = "modbus clear" => buf' = buf
      /\ call = "inet clear" => buf' = buf
      /\ call = "inet mode" => buf' = buf
      /\ call = "inet points" => buf' = buf
  BY <1>1 DEF FlashWrite, AfterSave
<1>4. /\ BlockOf(call) = "modbus" => flash'.modbus = Written(call) /\ flash'.inet = flash.inet
      /\ BlockOf(call) = "inet" => flash'.inet = Written(call) /\ flash'.modbus = flash.modbus
  BY <1>1, <1>2, WrittenShape, FlashKept
<1>5. flash.modbus \in ModbusBlock /\ flash.inet \in INetBlock
  BY DEF Types
<1>6. call \in {"modbus mode", "modbus wipe", "modbus save", "modbus clear"} =>
          flash'.modbus = Written(call) /\ flash'.inet = flash.inet
  BY <1>4 DEF BlockOf
<1>7. call \in {"inet clear", "inet mode", "inet points"} =>
          flash'.inet = Written(call) /\ flash'.modbus = flash.modbus
  BY <1>4 DEF BlockOf
<1>8. call = "modbus save" => flash'.modbus = buf
  BY <1>6 DEF Written
<1>9. call = "modbus clear" => flash'.modbus.mode = "junk"
  <2>1. call = "modbus clear" =>
            flash'.modbus = [flash.modbus EXCEPT !.mode = "junk", !.count = StackRows]
    BY <1>6 DEF Written
  <2> QED BY <1>5, <2>1, JunkShape
<1>10. call = "inet clear" => flash'.inet.mode = "junk"
  BY <1>5, <1>7 DEF Written, INetBlock
<1>11. call = "inet mode" => flash'.inet.mode = imode
  BY <1>5, <1>7 DEF Written, INetBlock
<1>12. call = "inet points" =>
           flash'.inet.mode = flash.inet.mode /\ flash'.inet.num = Len(points)
  BY <1>5, <1>7 DEF Written, INetBlock
<1> QED BY <1>1, <1>3, <1>6, <1>7, <1>8, <1>9, <1>10, <1>11, <1>12

LEMMA LastIsNotMode == ASSUME Types, at = LastFrame PROVE Kind # "mode"
<1>1. LastFrame \in Nat /\ LastFrame >= 3
  BY KindShape
<1> HIDE DEF LastFrame
<1>2. ~(LastFrame = 1)
  BY <1>1
<1>3. ~(at = 1)
  BY <1>2
<1> QED BY <1>3, KindShape

\* A save of one switches the other off in flash and leaves what was in use.
LEMMA SaveEnds ==
    ASSUME Types, CallsInv, FlashWrite, todo' = <<>>, todo # <<"modbus mode">>
    PROVE  /\ open' = FALSE
           /\ cfg.of = "modbus" => /\ kept'["modbus"] = inBuf /\ kept'["inet"] = Off
                                   /\ inBuf' = Lost
           /\ cfg.of = "inet" => /\ kept'["modbus"] = Off /\ kept'["inet"] = inUse.inet
                                 /\ inBuf' = inBuf
<1>1. ~(Len(todo) > 1) /\ todo # <<>>
  BY WriteLast DEF FlashWrite
<1>2. Kind # "mode"
  <2>1. at = LastFrame
    BY <1>1, CallsOwner
  <2> QED BY <2>1, LastIsNotMode
<1>3. /\ open' = FALSE
      /\ kept' = IF cfg.of = "modbus" THEN [modbus |-> inBuf, inet |-> Off]
                 ELSE [modbus |-> Off, inet |-> inUse.inet]
      /\ inBuf' = IF cfg.of = "modbus" THEN Lost ELSE inBuf
  BY <1>1, <1>2 DEF FlashWrite
<1> QED BY <1>3

LEMMA FlashWriteFlashInv ==
    ASSUME Types, CallsInv, FlashInv, INetAsSent, FlashWrite
    PROVE  FlashInv'
<1>1. todo # <<>> /\ powered /\ powered' /\ open /\ kept["modbus"] = Lost
  BY CallsOwner DEF FlashWrite
<1>2. todo' = Tail(todo) /\ UNCHANGED <<imode, points>>
  BY DEF FlashWrite
<1>3. CASE todo = <<"modbus mode">>
  <2>1. Due("modbus mode", <<>>)
    BY <1>1, <1>3, DueShape
  <2>2. todo' = <<>> /\ buf' = buf /\ flash'.inet = flash.inet
    <3>1. todo' = <<>>
      BY <2>1, OneWrite
    <3>2. flash'.inet = flash.inet
      BY <2>1, OneWrite
    <3>3. buf' = buf
      BY <2>1, OneWrite
    <3> QED BY <3>1, <3>2, <3>3
  <2>3. UNCHANGED <<kept, open, inBuf>>
    <3>1. at = 1 /\ ~(Len(todo) > 1)
      BY <1>1, <1>3, <2>2, CallsOwner, WriteLast
    <3>2. Kind = "mode"
      BY <3>1, KindShape
    <3> QED BY <3>1, <3>2 DEF FlashWrite, history
  <2>4. Describes(buf, inBuf)
    <3>1. todo # <<"inet clear">>
      BY <1>3, Apart
    <3> QED BY <1>1, <3>1 DEF FlashInv
  <2>5. /\ todo' # <<"inet clear">> /\ todo' # <<"modbus clear">>
        /\ todo' # <<"inet points", "modbus clear">>
    BY <2>2, NotEmpty
  <2>6. DescribesINet(flash.inet, kept["inet"])
    BY DEF FlashInv
  <2> QED BY <1>1, <2>2, <2>3, <2>4, <2>5, <2>6, LostDescribed DEF FlashInv
<1>4. CASE todo' # <<>>
  <2>1. UNCHANGED <<kept, open, inUse, inBuf>>
    BY <1>4, WriteMore
  <2>2. kept["inet"] = Lost
    BY <1>1, <1>4, CallsOwner, WriteMore DEF ModbusCalls, INetCalls
  <2>3. CASE todo = ModbusSave
    <3>1. Due("modbus wipe", <<"modbus save", "inet clear">>)
      BY <1>1, <2>3, DueShape
    <3>2. todo' = <<"modbus save", "inet clear">> /\ buf' = buf
      BY <3>1, OneWrite
    <3>3. /\ todo' # <<"inet clear">> /\ todo' # <<"modbus clear">>
          /\ todo' # <<"inet points", "modbus clear">>
      BY <3>2, Apart
    <3>4. Describes(buf, inBuf)
      <4>1. todo # <<"inet clear">>
        BY <2>3, Apart DEF ModbusSave
      <4> QED BY <1>1, <4>1 DEF FlashInv
    <3> QED BY <1>1, <2>1, <2>2, <3>2, <3>3, <3>4, MidSave
  <2>4. CASE todo = <<"modbus save", "inet clear">>
    <3>1. Due("modbus save", <<"inet clear">>)
      BY <1>1, <2>4, DueShape
    <3>2. todo' = <<"inet clear">> /\ flash'.modbus = buf
      BY <3>1, OneWrite
    <3>3. todo' # <<"modbus clear">> /\ todo' # <<"inet points", "modbus clear">>
      BY <3>2, Apart
    <3>4. Describes(buf, inBuf)
      <4>1. todo # <<"inet clear">>
        BY <2>4, Apart
      <4> QED BY <1>1, <4>1 DEF FlashInv
    <3> QED BY <1>1, <2>1, <2>2, <3>2, <3>3, <3>4, MidSave
  <2>5. CASE todo = INetSave
    <3>1. Due("inet mode", <<"inet points", "modbus clear">>)
      BY <1>1, <2>5, DueShape
    <3>2. /\ todo' = <<"inet points", "modbus clear">> /\ buf' = buf
          /\ flash'.inet.mode = imode
      BY <3>1, OneWrite
    <3>3. todo' # <<"inet clear">> /\ todo' # <<"modbus clear">>
      BY <3>2, Apart
    <3>4. Describes(buf, inBuf)
      <4>1. todo # <<"inet clear">>
        BY <2>5, Apart DEF INetSave
      <4> QED BY <1>1, <4>1 DEF FlashInv
    <3> QED BY <1>1, <1>2, <2>1, <2>2, <3>2, <3>3, <3>4, MidSave
  <2>6. CASE todo = <<"inet points", "modbus clear">>
    <3>1. Due("inet points", <<"modbus clear">>)
      BY <1>1, <2>6, DueShape
    <3>2. /\ todo' = <<"modbus clear">> /\ buf' = buf
          /\ flash'.inet.mode = flash.inet.mode /\ flash'.inet.num = Len(points)
      BY <3>1, OneWrite
    <3>3. todo' # <<"inet clear">>
      BY <3>2, Apart
    <3>4. Describes(buf, inBuf)
      <4>1. todo # <<"inet clear">>
        BY <2>6, Apart
      <4> QED BY <1>1, <4>1 DEF FlashInv
    <3>5. flash.inet.mode = imode
      BY <2>6 DEF FlashInv
    <3> QED BY <1>1, <1>2, <2>1, <2>2, <3>2, <3>3, <3>4, <3>5, MidSave
  <2> QED BY <1>4, <2>3, <2>4, <2>5, <2>6, WriteMore
<1>5. CASE todo' = <<>> /\ todo # <<"modbus mode">>
  <2>1. /\ todo' # <<"inet clear">> /\ todo' # <<"modbus clear">>
        /\ todo' # <<"inet points", "modbus clear">>
    BY <1>5, NotEmpty
  <2>2. CASE todo = <<"inet clear">>
    <3>1. Due("inet clear", <<>>)
      BY <1>1, <2>2, DueShape
    <3>2. buf' = buf /\ flash'.modbus = flash.modbus /\ flash'.inet.mode = "junk"
      BY <3>1, OneWrite
    <3>3. cfg.of = "modbus"
      BY <1>1, <2>2, CallsOwner DEF ModbusCalls
    <3>4. /\ kept'["modbus"] = inBuf /\ kept'["inet"] = Off /\ inBuf' = Lost
      BY <1>5, <3>3, SaveEnds
    <3>5. Describes(flash.modbus, inBuf)
      BY <2>2 DEF FlashInv
    <3>6. DescribesINet(flash'.inet, Off)
      BY <3>2, OffDescribed
    <3> QED BY <2>1, <3>2, <3>4, <3>5, <3>6, LostDescribed DEF FlashInv
  <2>3. CASE todo = <<"modbus clear">>
    <3>1. Due("modbus clear", <<>>)
      BY <1>1, <2>3, DueShape
    <3>2. buf' = buf /\ flash'.inet = flash.inet /\ flash'.modbus.mode = "junk"
      BY <3>1, OneWrite
    <3>3. cfg.of = "inet"
      BY <1>1, <2>3, CallsOwner DEF INetCalls
    <3>4. /\ kept'["modbus"] = Off /\ kept'["inet"] = inUse.inet /\ inBuf' = inBuf
      BY <1>5, <3>3, SaveEnds
    <3>5. Describes(buf, inBuf) /\ flash.inet.mode = imode /\ flash.inet.num = Len(points)
      <4>1. todo # <<"inet clear">>
        BY <2>3, Apart
      <4> QED BY <1>1, <2>3, <4>1 DEF FlashInv
    <3>6. DescribesINet(flash.inet, inUse.inet)
      <4>1. Holds(inUse.inet, imode, points)
        BY <1>1 DEF INetAsSent
      <4>2. inUse.inet \in Known
        BY DEF Types, Blocks
      <4>3. CASE inUse.inet.mode = "off"
        BY <3>5, <4>1, <4>3 DEF Holds, DescribesINet
      <4>4. CASE inUse.inet.mode = "on"
        <5>1. imode = "on" /\ points \in {inUse.inet.rows, Dangling}
          BY <4>1, <4>4 DEF Holds
        <5>2. inUse.inet.rows \in Seq(Nat)
          BY <4>2, <4>4 DEF Known, Lost
        <5>3. Len(points) > 0 \/ inUse.inet.rows = <<>>
          <6>1. Len(Dangling) = 1
            BY DEF Dangling
          <6>2. Len(inUse.inet.rows) > 0 \/ inUse.inet.rows = <<>>
            BY <5>2
          <6> QED BY <5>1, <6>1, <6>2
        <5> QED BY <3>5, <4>4, <5>1, <5>3 DEF DescribesINet
      <4>5. CASE inUse.inet.mode \notin {"on", "off"}
        BY <4>5 DEF DescribesINet
      <4> QED BY <4>3, <4>4, <4>5
    <3>7. Describes(flash'.modbus, Off)
      BY <3>2, OffDescribed
    <3> QED BY <2>1, <3>2, <3>4, <3>5, <3>6, <3>7 DEF FlashInv
  <2> QED BY <1>5, <2>2, <2>3, WriteLast
<1> QED BY <1>3, <1>4, <1>5

LEMMA StepFlash ==
    ASSUME Types, CallsInv, ModbusInv, FlashInv, INetAsSent, [Next]_vars
    PROVE  FlashInv'
<1>1. CASE UNCHANGED vars
  BY <1>1 DEF FlashInv, vars, ram, history
<1> QED
  BY <1>1, NextCases, OthersFlashInv, ModbusModeFlashInv, SaveFlashInv, FlashWriteFlashInv

-----------------------------------------------------------------------------
(* What runs.                                                               *)

LEMMA KnownShape ==
    ASSUME NEW c \in Known
    PROVE  c = Lost \/ (c.mode \in {"on", "off"} /\ c.rows \in Seq(Nat))
  BY DEF Known

LEMMA NotDangling ==
    /\ <<>> # Dangling
    /\ \A rows \in Seq(Nat) : rows # Dangling
<1>1. <<>> # Dangling
  BY DEF Dangling
<1>2. ASSUME NEW rows \in Seq(Nat), rows = Dangling PROVE FALSE
  <2>1. Len(Dangling) = 1 /\ Dangling[1] = -2
    BY DEF Dangling
  <2>2. Len(rows) = 1
    BY <1>2, <2>1
  <2>3. rows[1] \in Nat
    <3>1. DOMAIN rows = 1 .. 1 /\ \A k \in DOMAIN rows : rows[k] \in Nat
      BY <2>2, SeqShape
    <3>2. 1 \in 1 .. 1
      OBVIOUS
    <3> QED BY <3>1, <3>2
  <2> QED BY <1>2, <2>1, <2>3
<1> QED BY <1>1, <1>2

\* A part that is switched off runs as it should, whatever its rows.
LEMMA OffHolds ==
    ASSUME NEW m, NEW rows, m # "on"
    PROVE  Holds(Off, m, rows)
  BY DEF Holds, Off

LEMMA LostHolds == ASSUME NEW m, NEW rows PROVE Holds(Lost, m, rows)
  BY DEF Holds, Lost

\* StorageOD_DataTable runs what the image describes.
LEMMA DescribedRuns ==
    ASSUME NEW block \in ModbusBlock, NEW c \in Known, Describes(block, c)
    PROVE  /\ Holds(c, ModeIn(block), TableIn(block))
           /\ c # Lost => TableIn(block) # Dangling
<1>1. CASE c = Lost
  BY <1>1, LostHolds
<1>2. CASE c # Lost /\ c.mode = "off"
  <2>1. block.mode # "on"
    BY <1>2 DEF Describes
  <2>2. ModeIn(block) # "on"
    BY <2>1 DEF ModeIn
  <2>3. TableIn(block) = <<>>
    BY <2>2 DEF TableIn
  <2>4. Holds(c, ModeIn(block), TableIn(block))
    BY <1>2, <2>2 DEF Holds
  <2> QED BY <2>3, <2>4, NotDangling
<1>3. CASE c # Lost /\ c.mode = "on"
  <2>1. /\ block.mode = "on" /\ block.count \in 0 .. MaxRows
        /\ SubSeq(block.rows, 1, block.count) = c.rows
    BY <1>3 DEF Describes
  <2>2. ModeIn(block) = "on"
    BY <2>1 DEF ModeIn
  <2>3. CountIn(block) = block.count /\ ~(CountIn(block) > MaxRows)
    <3>1. MaxRows \in Nat
      BY BoundAssumption
    <3>2. block.count # -1 /\ ~(block.count > MaxRows)
      BY <2>1, <3>1
    <3> QED BY <3>2 DEF CountIn
  <2>4. TableIn(block) = c.rows
    BY <2>1, <2>2, <2>3 DEF TableIn
  <2>5. Holds(c, ModeIn(block), TableIn(block))
    BY <1>3, <2>2, <2>4 DEF Holds
  <2>6. c.rows \in Seq(Nat)
    BY <1>3, KnownShape
  <2> QED BY <2>4, <2>5, <2>6, NotDangling
<1> QED BY <1>1, <1>2, <1>3, KnownShape

LEMMA DescribedINetRuns ==
    ASSUME NEW block \in INetBlock, NEW c \in Known, DescribesINet(block, c)
    PROVE  Holds(c, ModeIn(block), IF block.num > 0 THEN Dangling ELSE <<>>)
<1>1. CASE c = Lost
  BY <1>1, LostHolds
<1>2. CASE c # Lost /\ c.mode = "off"
  <2>1. block.mode # "on"
    BY <1>2 DEF DescribesINet
  <2>2. ModeIn(block) # "on"
    BY <2>1 DEF ModeIn
  <2> QED BY <1>2, <2>2 DEF Holds
<1>3. CASE c # Lost /\ c.mode = "on"
  <2>1. block.mode = "on" /\ (block.num > 0 \/ c.rows = <<>>)
    BY <1>3 DEF DescribesINet
  <2>2. ModeIn(block) = "on"
    BY <2>1 DEF ModeIn
  <2> QED BY <1>3, <2>1, <2>2 DEF Holds
<1> QED BY <1>1, <1>2, <1>3, KnownShape

\* Steps that change nothing of what runs.
LEMMA SameAsSent ==
    ASSUME ModbusAsSent, INetAsSent,
           UNCHANGED <<mode, table, imode, points, inUse, restored>>,
           powered' => powered
    PROVE  ModbusAsSent' /\ INetAsSent'
  BY DEF ModbusAsSent, INetAsSent

\* An end frame of Modbus TCP.
LEMMA ModbusEndAsSent ==
    ASSUME Types, ModbusInv, ModbusEnd
    PROVE  ModbusAsSent' /\ INetAsSent'
<1>1. at > 0 /\ Answer /\ Kind = "end" /\ cfg.of = "modbus"
  BY DEF ModbusEnd, Receive
<1>2. /\ mode' = Image.mode /\ table' = TableIn(Image) /\ imode' = "off"
      /\ inUse' = [modbus |-> IF clean["modbus"] /\ ~again THEN Sent ELSE Lost, inet |-> Off]
  BY DEF ModbusEnd, Image
<1>3. /\ inUse'.inet = Off
      /\ inUse'.modbus = IF clean["modbus"] /\ ~again THEN Sent ELSE Lost
  BY <1>2
<1>4. INetAsSent'
  <2>1. Holds(inUse'.inet, imode', points')
    BY <1>2, <1>3, OffHolds
  <2>2. inUse'.inet.mode # "on"
    BY <1>3 DEF Off
  <2> QED BY <2>1, <2>2 DEF INetAsSent
<1>5. CASE clean["modbus"] /\ ~again
  <2>1. Describes(Image, Sent) /\ Image \in ModbusBlock /\ Image.mode = cfg.mode
    BY <1>5, GoodImage, ImageShape
  <2>2. Sent \in Known /\ cfg.mode \in {"on", "off"}
    BY SentKnown, ConfigShape DEF Types
  <2>3. ModeIn(Image) = mode'
    BY <1>2, <2>1, <2>2 DEF ModeIn
  <2>4. Holds(Sent, mode', table') /\ (Sent # Lost => table' # Dangling)
    BY <1>2, <2>1, <2>2, <2>3, DescribedRuns
  <2>5. inUse'.modbus = Sent
    BY <1>3, <1>5
  <2> QED BY <1>4, <2>4, <2>5 DEF ModbusAsSent
<1>6. CASE ~(clean["modbus"] /\ ~again)
  <2>1. inUse'.modbus = Lost
    BY <1>3, <1>6
  <2> QED BY <1>4, <2>1, LostHolds DEF ModbusAsSent
<1> QED BY <1>5, <1>6

\* An end frame of iNet, when nothing went wrong: all points have come.
LEMMA GoodPoints ==
    ASSUME Types, INetInv, INetEnd, clean["inet"], ~again
    PROVE  Holds(Sent, imode, points) /\ (Sent.mode = "on" => points = Sent.rows)
<1>1. at > 0 /\ Answer /\ Kind = "end" /\ cfg.of = "inet"
  BY DEF INetEnd, Receive
<1>2. InSession("inet") /\ Rows = AllRows /\ Packets = Len(cfg.rows)
  BY <1>1, SessionEnds
<1>3. /\ imode = cfg.mode /\ recv = Len(AllRows)
      /\ Packets > 0 => Len(points) = Len(AllRows) /\ SubSeq(points, 1, recv) = AllRows
  BY <1>2 DEF INetInv
<1>4. Sent.mode = cfg.mode /\ Sent.rows = AllRows /\ cfg.mode \in {"on", "off"}
  BY ConfigShape DEF Sent, Types
<1>5. CASE cfg.mode = "off"
  BY <1>3, <1>4, <1>5 DEF Holds
<1>6. CASE cfg.mode = "on"
  <2>1. cfg.rows # <<>>
    BY <1>1, <1>6, ConfigsAssumption DEF Types
  <2>2. Packets > 0
    <3>1. cfg.rows \in Seq(Seq(Nat)) /\ Len(cfg.rows) \in Nat
      BY ConfigShape DEF Types
    <3>2. Len(cfg.rows) # 0
      BY <2>1, <3>1
    <3> QED BY <1>2, <3>1, <3>2
  <2>3. SubSeq(points, 1, Len(points)) = AllRows
    BY <1>3, <2>2
  <2>4. points \in Seq(Int)
    BY DEF Types
  <2>5. points = AllRows
    BY <2>3, <2>4, WholeSeq
  <2> QED BY <1>3, <1>4, <1>6, <2>5 DEF Holds
<1> QED BY <1>4, <1>5, <1>6

LEMMA INetEndAsSent ==
    ASSUME Types, INetInv, INetAsSent, INetEnd
    PROVE  ModbusAsSent' /\ INetAsSent'
<1>1. /\ UNCHANGED <<imode, points>> /\ mode' = "off" /\ table' = <<>> /\ powered
      /\ inUse' = [modbus |-> Off, inet |-> IF again THEN inUse.inet
                                            ELSE IF clean["inet"] THEN Sent ELSE Lost]
  BY DEF INetEnd, Receive
<1>2. ModbusAsSent'
  <2>1. inUse'.modbus = Off
    BY <1>1
  <2> QED BY <1>1, <2>1, OffHolds, NotDangling DEF ModbusAsSent
<1>3. /\ Holds(inUse'.inet, imode, points)
      /\ inUse'.inet.mode = "on" /\ ~restored' => points = inUse'.inet.rows
  <2>1. CASE again
    <3>1. inUse'.inet = inUse.inet
      BY <1>1, <2>1
    <3>2. ~restored' => ~restored
      BY <2>1 DEF INetEnd
    <3> QED BY <1>1, <3>1, <3>2 DEF INetAsSent
  <2>2. CASE ~again /\ clean["inet"]
    <3>1. inUse'.inet = Sent
      BY <1>1, <2>2
    <3> QED BY <2>2, <3>1, GoodPoints
  <2>3. CASE ~again /\ ~clean["inet"]
    <3>1. inUse'.inet = Lost
      BY <1>1, <2>3
    <3> QED BY <3>1, LostHolds DEF Lost
  <2> QED BY <2>1, <2>2, <2>3
<1> QED BY <1>1, <1>2, <1>3 DEF INetAsSent

LEMMA PowerUpAsSent ==
    ASSUME Types, FlashInv, PowerUp
    PROVE  ModbusAsSent' /\ INetAsSent'
<1>1. /\ mode' = ModeIn(flash.modbus) /\ table' = TableIn(flash.modbus)
      /\ imode' = ModeIn(flash.inet) /\ inUse' = kept
      /\ points' = IF flash.inet.num > 0 THEN Dangling ELSE <<>>
      /\ restored' = TRUE
  BY DEF PowerUp
<1>2. /\ flash.modbus \in ModbusBlock /\ flash.inet \in INetBlock
      /\ kept["modbus"] \in Known /\ kept["inet"] \in Known
  BY DEF Types, Blocks
<1>3. Describes(flash.modbus, kept["modbus"]) /\ DescribesINet(flash.inet, kept["inet"])
  BY DEF FlashInv
<1>4. /\ Holds(kept["modbus"], mode', table')
      /\ kept["modbus"] # Lost => table' # Dangling
  BY <1>1, <1>2, <1>3, DescribedRuns
<1>5. Holds(kept["inet"], imode', points')
  BY <1>1, <1>2, <1>3, DescribedINetRuns
<1> QED BY <1>1, <1>4, <1>5 DEF ModbusAsSent, INetAsSent

LEMMA INetRunsLost ==
    ASSUME Types, ModbusAsSent, INetMode \/ INetRows
    PROVE  ModbusAsSent' /\ INetAsSent'
<1>1. /\ UNCHANGED <<mode, table, powered>> /\ inUse' = [inUse EXCEPT !.inet = Lost]
  BY DEF INetMode, INetRows
<1>2. inUse'.modbus = inUse.modbus /\ inUse'.inet = Lost
  BY <1>1 DEF Types, Blocks
<1>3. inUse'.inet.mode # "on"
  BY <1>2 DEF Lost
<1> QED BY <1>1, <1>2, <1>3, LostHolds DEF ModbusAsSent, INetAsSent

LEMMA StepAsSent ==
    ASSUME Types, CallsInv, ModbusInv, INetInv, FlashInv, ModbusAsSent, INetAsSent, [Next]_vars
    PROVE  ModbusAsSent' /\ INetAsSent'
<1>1. ASSUME NEW c, NEW first, BeginSession(c, first) PROVE ModbusAsSent' /\ INetAsSent'
  BY <1>1, SameAsSent DEF BeginSession, ram, history
<1>2. CASE GiveUp
  BY <1>2, SameAsSent DEF GiveUp, ram
<1>3. CASE ModbusMode \/ ModbusRows
  <2>1. UNCHANGED <<mode, table, imode, points, inUse, powered, restored>>
    BY <1>3 DEF ModbusMode, ModbusRows
  <2> QED BY <2>1, SameAsSent
<1>4. ASSUME NEW of, NEW calls, Save(of, calls) PROVE ModbusAsSent' /\ INetAsSent'
  BY <1>4, SameAsSent DEF Save, ram
<1>5. CASE FlashWrite
  <2>1. UNCHANGED <<inUse, restored>>
    BY <1>5 DEF FlashWrite, history
  <2> QED BY <1>5, <2>1, SameAsSent DEF FlashWrite
<1>6. CASE PowerCut
  BY <1>6, SameAsSent DEF PowerCut, ram
<1>7. CASE UNCHANGED vars
  BY <1>7, SameAsSent DEF vars, ram, history
<1> QED
  BY <1>1, <1>2, <1>3, <1>4, <1>5, <1>6, <1>7, NextCases, ModbusEndAsSent, INetEndAsSent,
     INetRunsLost, PowerUpAsSent DEF Others

-----------------------------------------------------------------------------
(* The invariant holds in every state.                                      *)

LEMMA InitInv == Init => Inv
<1> SUFFICES ASSUME Init PROVE Inv
  OBVIOUS
<1>1. Types
  BY InitTypes
<1>2. CallsInv
  BY DEF Init, CallsInv
<1>3. \A of : ~Inside(of) /\ ~InSession(of)
  BY <1>1, NoSession DEF Init
<1>4. ModbusInv /\ INetInv
  BY <1>3 DEF Init, ModbusInv, INetInv
<1>5. /\ inUse["modbus"] = Off /\ inUse["inet"] = Off /\ kept["modbus"] = Off
      /\ kept["inet"] = Off /\ inBuf = Off
  BY DEF Init, Blocks
<1>6. FlashInv
  <2>1. /\ flash.modbus.mode = "blank" /\ flash.inet.mode = "blank" /\ buf.mode = "blank"
        /\ todo = <<>>
    BY DEF Init, Erased
  <2>2. /\ todo # <<"inet clear">> /\ todo # <<"modbus clear">>
        /\ todo # <<"inet points", "modbus clear">>
    BY <2>1, NotEmpty
  <2>3. /\ Describes(flash.modbus, Off) /\ DescribesINet(flash.inet, Off)
        /\ Describes(buf, Off)
    BY <2>1, OffDescribed
  <2>4. ~(flash.modbus.mode = "on" /\ flash.inet.mode = "on")
    BY <2>1
  <2> QED BY <1>5, <2>2, <2>3, <2>4 DEF FlashInv
<1>7. ModbusAsSent /\ INetAsSent
  <2>1. mode = "off" /\ imode = "off" /\ table = <<>>
    BY DEF Init
  <2>2. inUse.inet.mode # "on"
    BY <1>5 DEF Off
  <2> QED BY <1>5, <2>1, <2>2, OffHolds, NotDangling DEF ModbusAsSent, INetAsSent
<1> QED BY <1>1, <1>2, <1>4, <1>6, <1>7 DEF Inv

LEMMA StepInv == Inv /\ [Next]_vars => Inv'
  BY StepTypes, StepCalls, StepModbus, StepINet, StepFlash, StepAsSent DEF Inv

LEMMA InvAlways == Spec => []Inv
  BY InitInv, StepInv, PTL DEF Spec

LEMMA InvTypeOK == Inv => TypeOK
<1> SUFFICES ASSUME Inv PROVE TypeOK
  OBVIOUS
<1>1. Types /\ CallsInv
  BY DEF Inv
<1>2. /\ mode \in Modes /\ imode \in Modes /\ mode # "blank" /\ imode # "blank"
      /\ flash.modbus.mode \in Modes /\ flash.inet.mode \in Modes
      /\ buf.rows \in [1 .. MaxRows -> Int]
  BY <1>1 DEF Types, ModbusBlock, INetBlock
<1>3. Len(todo) <= 3
  <2>1. CASE todo = <<>>
    BY <2>1
  <2>2. CASE todo # <<>>
    <3>1. Len(todo) \in 1 .. 3
      BY <1>1, <2>2, DueShape
    <3>2. \A n \in 1 .. 3 : n <= 3
      OBVIOUS
    <3> QED BY <3>1, <3>2
  <2> QED BY <2>1, <2>2
<1>4. lines \in 0 .. MaxRows /\ recv \in Nat /\ cfg \in Configs /\ at \in 0 .. LastFrame
  BY <1>1 DEF Types
<1> QED BY <1>2, <1>3, <1>4 DEF TypeOK, Modes

-----------------------------------------------------------------------------
\* Every variable keeps its type, the table its length, and no more than three
\* calls of Flash_Write are outstanding.
THEOREM TypeCorrect == Spec => []TypeOK
<1> QED BY InvAlways, InvTypeOK, PTL

\* Modbus TCP runs with the table of the last end frame, after a power-up with
\* the one last saved, whatever sessions were given up and wherever the power
\* failed (ModbusTCPDealRecvParm, StorageOD_DataTable).
THEOREM ModbusCorrect == Spec => []ModbusAsSent
<1>1. Inv => ModbusAsSent
  BY DEF Inv
<1> QED BY <1>1, InvAlways, PTL

\* iNet runs with the mode and points of the last end frame, or after a power-up
\* with the mode of the last save unless a write of the addresses was torn since
\* (iNetDealRecvParm, Read_iNetModeMeg_FromFlash).
THEOREM INetCorrect == Spec => []INetAsSent
<1>1. Inv => INetAsSent
  BY DEF Inv
<1> QED BY <1>1, InvAlways, PTL

\* iNet and Modbus TCP do not both start at a power-up when every session that
\* wrote to flash got as far as a complete save.
THEOREM ExclusiveCorrect == Spec => ExclusiveWhenSaved
<1> DEFINE Right == PowerUp /\ ~open => ~Both'
<1>1. Inv /\ [Next]_vars => [Right]_vars
  <2> SUFFICES ASSUME Inv, PowerUp, ~open PROVE ~Both'
    OBVIOUS
  <2>1. ~(flash.modbus.mode = "on" /\ flash.inet.mode = "on")
    BY DEF Inv, FlashInv
  <2>2. mode' = ModeIn(flash.modbus) /\ imode' = ModeIn(flash.inet)
    BY DEF PowerUp
  <2>3. /\ mode' = "on" => flash.modbus.mode = "on"
        /\ imode' = "on" => flash.inet.mode = "on"
    BY <2>2 DEF ModeIn
  <2> QED BY <2>1, <2>3 DEF Both
<1>2. Spec => [][Right]_vars
  BY <1>1, InvAlways, PTL DEF Spec
<1> QED BY <1>2 DEF ExclusiveWhenSaved
=============================================================================
