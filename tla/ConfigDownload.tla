--------------------------- MODULE ConfigDownload ---------------------------
(***************************************************************************)
(* Download, take-over and storage of a configuration (studioprotocol.c).  *)
(* The studio sends a start frame, the function blocks in data frames, the *)
(* tables of communication data and of global variables, the task list and *)
(* an end frame that carries the number of blocks and of data frames; a    *)
(* save frame writes what is in RAM to flash.  It waits for the answer to  *)
(* each frame and repeats the frame when none comes.  The frames and       *)
(* answers keep their order and may be lost; a frame that fails its CRC is *)
(* ignored, except that a start frame has cleared the configuration by     *)
(* then.  The power may fail at any moment, also between erasing a block   *)
(* of flash and programming it.                                            *)
(***************************************************************************)
EXTENDS Integers, Sequences, SequencesExt

CONSTANTS
    Configs,      \* configurations the studio may send
    PkgLimit,     \* u_byTotal_RecvPakageNum counts modulo this: 256
    MaxComm,      \* MaxCommData
    MaxGV,        \* MaxGlobalVariable
    MaxSessions,  \* bound: sessions of the studio
    MaxSends,     \* bound: times a frame is sent
    MaxCuts,      \* bound: power failures
    Capacity      \* bound: frames, and answers, under way

ASSUME BoundAssumption ==
    /\ {PkgLimit, MaxComm, MaxGV, MaxSessions, MaxSends, MaxCuts, Capacity} \subseteq Nat
    /\ \A c \in Configs : Len(c.data) \in 1 .. PkgLimit - 1

\* Blocks and DataIDs are numbers, a global variable an ID and a type.
ASSUME ConfigsAssumption ==
    Configs \subseteq [data : Seq(Seq(Nat)), comm : Seq(Seq(Nat)), gv : Seq(Seq(Nat \X Nat)),
                       tasks : Seq([from : Nat, to : Nat])]

VARIABLES
    list,     \* g_ALLObjectListData, the first g_wTotal_FunctionBlockNum blocks
    pkgs,     \* u_byTotal_RecvPakageNum
    comm,     \* the DataIDs in g_ALLCommDataList
    gv,       \* <<GVID, GVType>> in g_ALLGlobalVariableList
    tasks,    \* the first g_cTaskTotalCount entries of TaskData
    can,      \* g_StoreParmFlagAP, kept in para_Block too
    design,   \* g_DesignTime_ObjectListData: the blocks of each task that runs
    flash,    \* para_Block and Runtime_Block
    step,     \* the Flash_Write that ApplySaveConfigData has reached, or 0
    buf,      \* cBuf while the block is erased, else <<>>
    power,    \* "on", "off", or "wild": what was restored overruns the tables
    cfg, at,  \* the studio: the configuration and the frame it is sending, or 0
    sends,    \* how often it has sent it
    sessions, cuts,  \* counters for the bounds
    req, rep, \* the frames and the answers under way
    accepted, \* history: the configuration of the accepted end frame, if no
              \* start frame and no power-up has come since
    due, bad, \* history: the frame next in order since the last start frame,
              \* and the kinds of frames obeyed out of their turn
    kept      \* history: the configuration last saved completely

ram    == <<list, pkgs, comm, gv, tasks, can, design>>
tables == <<list, pkgs, comm, gv>>
store  == <<flash, step, buf, power, kept>>
studio == <<cfg, at, sends, sessions>>
links  == <<req, rep>>
past   == <<accepted, due, bad>>
vars   == <<ram, store, studio, cuts, links, past>>

Blank == 65535   \* an erased cell read as a number
Zero  == 0       \* a block that Param_Init has cleared
Valid == 102     \* u_ObjDataChange_Flag

-----------------------------------------------------------------------------
(* The studio's script for a configuration.                                *)
Frames(kind, bodies) == [i \in DOMAIN bodies |-> [kind |-> kind, body |-> bodies[i]]]

Blocks(c) == FlattenSeq(c.data)

Script(c) == Frames("start", <<0>>) \o Frames("data", c.data)
             \o Frames("comm", c.comm) \o Frames("gv", c.gv)
             \o Frames("tasks", <<c.tasks>>)
             \o Frames("end", <<[blocks |-> Len(Blocks(c)), pkgs |-> Len(c.data) % PkgLimit]>>)
             \o Frames("save", <<0>>)

Frame(m) == Script(m.cfg)[m.at]

\* ComponenttoTaskData: each task's blocks, copied from the list.
Parts(l, ts) ==
    [i \in DOMAIN ts |->
        [k \in 1 .. ts[i].to - ts[i].from + 1 |->
            IF ts[i].from + k <= Len(l) THEN l[ts[i].from + k] ELSE Zero]]

-----------------------------------------------------------------------------
(* Flash.  From CommData_ofs on Runtime_Block holds, one after the other,  *)
(* the number of communication data, their IDs, the number of global       *)
(* variables, their IDs and their types.                                   *)
AreaTop  == 1 + MaxComm + 2 * MaxGV
Area     == 0 .. AreaTop
Erased   == [para    |-> [flag |-> Blank, num |-> Blank, total |-> Blank, can |-> Blank],
             runtime |-> [tasks |-> <<>>, list |-> <<>>, area |-> [a \in Area |-> Blank]]]

Put(area, first, cells) ==
    [a \in Area |-> IF a - first + 1 \in DOMAIN cells THEN cells[a - first + 1] ELSE area[a]]

IDs(s)   == [i \in DOMAIN s |-> s[i][1]]
Types(s) == [i \in DOMAIN s |-> s[i][2]]

LastWrite == 10
BlockOf(i) == IF i <= 3 THEN "para" ELSE "runtime"

\* Mutant: the global variables at a place of their own.
dwGVofsFixed == 1 + MaxComm

dwGVofs == 1 + Len(comm)

\* The content of the block after the i-th Flash_Write of a save.
Written(i) ==
    LET P == flash.para
        R == flash.runtime
    IN CASE i = 1  -> [P EXCEPT !.flag = Valid]
         [] i = 2  -> [P EXCEPT !.num = Len(list)]
         [] i = 3  -> [P EXCEPT !.total = Len(tasks)]
         [] i = 4  -> [R EXCEPT !.tasks = tasks]
         [] i = 5  -> [R EXCEPT !.list = list \o SubSeq(R.list, Len(list) + 1, Len(R.list))]
         [] i = 6  -> [R EXCEPT !.area = Put(@, 0, <<Len(comm)>>)]
         [] i = 7  -> [R EXCEPT !.area = Put(@, 1, comm)]
         [] i = 8  -> [R EXCEPT !.area = Put(@, dwGVofs, <<Len(gv)>>)]
         [] i = 9  -> [R EXCEPT !.area = Put(@, dwGVofs + 1, IDs(gv))]
         [] i = 10 -> [R EXCEPT !.area = Put(@, dwGVofs + 1 + Len(gv), Types(gv))]

\* What Read_ObjectListData_FromFlash reads.
Cells(first, n) == [k \in 1 .. n |-> flash.runtime.area[first + k - 1]]
NComm  == flash.runtime.area[0]
NGV    == flash.runtime.area[1 + NComm]

\* A number read from an erased or a mixed block runs over its table.
Overrun ==
    \/ flash.para.total > Len(flash.runtime.tasks)
    \/ NComm > MaxComm
    \/ NGV > MaxGV

SavedList  == LET l == flash.runtime.list
              IN  [k \in 1 .. flash.para.num |-> IF k <= Len(l) THEN l[k] ELSE Blank]
SavedTasks == SubSeq(flash.runtime.tasks, 1, flash.para.total)
SavedComm  == Cells(1, NComm)
SavedGV    == LET ids   == Cells(2 + NComm, NGV)
                  types == Cells(2 + NComm + NGV, NGV)
              IN  [k \in 1 .. NGV |-> <<ids[k], types[k]>>]

Config == [list |-> list, comm |-> comm, gv |-> gv, tasks |-> tasks, can |-> can]
Fresh  == [list |-> <<>>, comm |-> <<>>, gv |-> <<>>, tasks |-> <<>>, can |-> 1]
Lost   == [list |-> <<>>, comm |-> <<>>, gv |-> <<>>, tasks |-> <<>>, can |-> Blank]

-----------------------------------------------------------------------------
Init ==
    /\ list = <<>> /\ pkgs = 0 /\ comm = <<>> /\ gv = <<>> /\ tasks = <<>>
    /\ can = 1 /\ design = <<>>
    /\ flash = [Erased EXCEPT !.para.can = 1]
    /\ step = 0 /\ buf = <<>> /\ power = "on"
    /\ cfg \in Configs /\ at = 0 /\ sends = 0 /\ sessions = 0 /\ cuts = 0
    /\ req = <<>> /\ rep = <<>>
    /\ accepted = {} /\ due = 0 /\ bad = {} /\ kept = Fresh

(***************************************************************************)
(* The studio and the link.                                                *)
(***************************************************************************)
\* A session downloads a configuration or only has it saved.  It is begun by a
\* person, when nothing of the session before is under way any more.
BeginSession(c, first) ==
    /\ at = 0 /\ sessions < MaxSessions /\ req = <<>> /\ rep = <<>>
    /\ cfg' = c /\ at' = first /\ sends' = 0 /\ sessions' = sessions + 1
    /\ UNCHANGED <<ram, store, cuts, links, past>>

Send ==
    /\ at > 0 /\ sends < MaxSends /\ Len(req) < Capacity
    /\ req' = Append(req, [cfg |-> cfg, at |-> at])
    /\ sends' = sends + 1
    /\ UNCHANGED <<ram, store, cfg, at, sessions, cuts, rep, past>>

\* The answer to a save carries a constant stamp.
SaveStamp == 0
AnswersFrame(stamp) == IF stamp = SaveStamp THEN at = Len(Script(cfg)) ELSE stamp = at

\* The answer to the frame just sent takes the studio to the next one; a
\* refusal ends the session.  Answers to other frames are passed over.
TakeAnswer ==
    /\ rep # <<>> /\ rep' = Tail(rep)
    /\ IF ~AnswersFrame(Head(rep).at)
       THEN UNCHANGED <<at, sends>>
       ELSE /\ at' = IF Head(rep).ok /\ at < Len(Script(cfg)) THEN at + 1 ELSE 0
            /\ sends' = 0
    /\ UNCHANGED <<ram, store, cfg, sessions, cuts, req, past>>

GiveUp ==
    /\ at > 0 /\ at' = 0 /\ sends' = 0
    /\ UNCHANGED <<ram, store, cfg, sessions, cuts, links, past>>

LoseFrame ==
    /\ req # <<>> /\ req' = Tail(req)
    /\ UNCHANGED <<ram, store, studio, cuts, rep, past>>

LoseAnswer ==
    /\ rep # <<>> /\ rep' = Tail(rep)
    /\ UNCHANGED <<ram, store, studio, cuts, req, past>>

(***************************************************************************)
(* The device.  A frame is handled to its end before the next is looked    *)
(* at; a save takes one step for each erasure and each programming.        *)
(***************************************************************************)
Receive(kind) ==
    /\ power = "on" /\ step = 0 /\ req # <<>> /\ Frame(Head(req)).kind = kind
    /\ req' = Tail(req)

Answer(stamp, ok) == rep' = IF Len(rep) < Capacity
                    THEN Append(rep, [at |-> stamp, ok |-> ok]) ELSE rep
Reply(ok) == Answer(Head(req).at, ok)

\* History: was it this frame's turn?
Turn == IF Head(req).at = due
        THEN due' = due + 1 /\ bad' = bad
        ELSE due' = due /\ bad' = bad \cup {Frame(Head(req)).kind}

\* Mutant: the number of data frames is not reset.
ParamInitKeepsCount == list' = <<>> /\ pkgs' = pkgs /\ comm' = <<>> /\ gv' = <<>>

ParamInit == list' = <<>> /\ pkgs' = 0 /\ comm' = <<>> /\ gv' = <<>>

ApplyStartFrame(crc) ==
    /\ Receive("start")
    /\ ParamInit
    /\ IF crc THEN Reply(TRUE) ELSE rep' = rep
    /\ accepted' = {} /\ due' = 2 /\ bad' = {}
    /\ UNCHANGED <<tasks, can, design, store, studio, cuts>>

\* Mutant: the counter is wider than a byte.
SaveObjectListWide(blocks) ==
    /\ list' = list \o blocks
    /\ pkgs' = pkgs + 1

SaveObjectList(blocks) ==
    /\ list' = list \o blocks
    /\ pkgs' = (pkgs + 1) % PkgLimit

ApplyDataFrame ==
    /\ Receive("data")
    /\ SaveObjectList(Frame(Head(req)).body)
    /\ Reply(TRUE) /\ Turn
    /\ UNCHANGED <<comm, gv, tasks, can, design, store, studio, cuts, accepted>>

ApplyCommDataFrame ==
    /\ Receive("comm")
    /\ comm' = comm \o Frame(Head(req)).body
    /\ Reply(TRUE) /\ Turn
    /\ UNCHANGED <<list, pkgs, gv, tasks, can, design, store, studio, cuts, accepted>>

ApplyGlobalVariableFrame ==
    /\ Receive("gv")
    /\ gv' = gv \o Frame(Head(req)).body
    /\ Reply(TRUE) /\ Turn
    /\ UNCHANGED <<list, pkgs, comm, tasks, can, design, store, studio, cuts, accepted>>

ApplyTaskData ==
    /\ Receive("tasks")
    /\ tasks' = Frame(Head(req)).body
    /\ Reply(TRUE) /\ Turn
    /\ UNCHANGED <<tables, can, design, store, studio, cuts, accepted>>

\* Mutant: more than was sent is accepted.
RightAtLeast(counts) == Len(list) >= counts.blocks /\ pkgs >= counts.pkgs

Right(counts) == Len(list) = counts.blocks /\ pkgs = counts.pkgs

ApplyEndFrame ==
    /\ Receive("end")
    /\ Reply(Right(Frame(Head(req)).body)) /\ Turn
    /\ IF Right(Frame(Head(req)).body)
       THEN design' = Parts(list, tasks) /\ accepted' = {Head(req).cfg}
       ELSE UNCHANGED <<design, accepted>>
    /\ UNCHANGED <<tables, tasks, can, store, studio, cuts>>

ApplySaveConfigData ==
    /\ Receive("save")
    /\ step' = 1
    /\ UNCHANGED <<ram, flash, buf, power, kept, studio, cuts, rep, past>>

FlashErase ==
    /\ power = "on" /\ step > 0 /\ buf = <<>>
    /\ buf' = <<Written(step)>>
    /\ flash' = [flash EXCEPT ![BlockOf(step)] = Erased[BlockOf(step)]]
    /\ UNCHANGED <<ram, step, power, kept, studio, cuts, links, past>>

FlashProgram ==
    /\ power = "on" /\ step > 0 /\ buf # <<>>
    /\ flash' = [flash EXCEPT ![BlockOf(step)] = buf[1]]
    /\ buf' = <<>>
    /\ IF step < LastWrite
       THEN step' = step + 1 /\ UNCHANGED <<rep, kept>>
       ELSE step' = 0 /\ kept' = Config /\ Answer(SaveStamp, TRUE)
    /\ UNCHANGED <<ram, power, studio, cuts, req, past>>

PowerCut ==
    /\ power # "off" /\ cuts < MaxCuts
    /\ power' = "off" /\ cuts' = cuts + 1
    /\ kept' = IF step > 0 THEN Lost ELSE kept
    /\ step' = 0 /\ buf' = <<>>
    /\ UNCHANGED <<ram, flash, studio, links, past>>

\* main, up to CreateTask.
PowerUp ==
    /\ power = "off"
    /\ can' = flash.para.can
    /\ pkgs' = 0
    /\ accepted' = {} /\ due' = 0 /\ bad' = {}
    /\ IF flash.para.flag # Valid
       THEN /\ power' = "on" /\ tasks' = <<>> /\ design' = <<>>
            /\ list' = <<>> /\ comm' = <<>> /\ gv' = <<>>
       ELSE IF Overrun
       THEN /\ power' = "wild" /\ tasks' = <<>> /\ design' = <<>>
            /\ list' = <<>> /\ comm' = <<>> /\ gv' = <<>>
       ELSE /\ power' = "on"
            /\ list' = SavedList /\ tasks' = SavedTasks
            /\ comm' = SavedComm /\ gv' = SavedGV
            /\ design' = Parts(SavedList, SavedTasks)
    /\ UNCHANGED <<flash, step, buf, kept, studio, cuts, links>>

-----------------------------------------------------------------------------
Studio == \/ \E c \in Configs : \E first \in {1, Len(Script(c))} : BeginSession(c, first)
          \/ Send \/ TakeAnswer \/ GiveUp \/ LoseFrame \/ LoseAnswer
Device == \/ \E crc \in BOOLEAN : ApplyStartFrame(crc)
          \/ ApplyDataFrame \/ ApplyCommDataFrame \/ ApplyGlobalVariableFrame
          \/ ApplyTaskData \/ ApplyEndFrame
          \/ ApplySaveConfigData \/ FlashErase \/ FlashProgram
Power  == PowerCut \/ PowerUp

Next == Studio \/ Device \/ Power

Spec == Init /\ [][Next]_vars

-----------------------------------------------------------------------------
TypeOK ==
    /\ pkgs \in 0 .. PkgLimit - 1
    /\ can \in {1, Blank} /\ step \in 0 .. LastWrite
    /\ power \in {"on", "off", "wild"} /\ (power # "on" => step = 0)
    /\ cfg \in Configs /\ at \in 0 .. Len(Script(cfg)) /\ sends \in 0 .. MaxSends
    /\ Len(req) <= Capacity /\ Len(rep) <= Capacity
    /\ accepted \subseteq Configs

\* After an end frame was answered with "right", and until the next start frame
\* or power-up, exactly the blocks that were sent are installed, each once and
\* in its task.  The tables of communication data and global variables, which
\* the end frame does not count, are those sent unless one of their frames
\* was obeyed twice.  A power-up in the middle of the session (due = 0) voids
\* this: it resets the counts, and a repeated frame can make up for one lost.
RunsWhatWasSent ==
    \A c \in accepted :
        due # 0 =>
        /\ list = Blocks(c) /\ tasks = c.tasks
        /\ design = Parts(Blocks(c), c.tasks)
        /\ bad \cap {"comm", "gv"} = {} =>
              comm = FlattenSeq(c.comm) /\ gv = FlattenSeq(c.gv)

\* An end frame is refused only with reason: when every data frame has been
\* obeyed once and in order since the start frame, it is accepted.
NoFalseRefusal ==
    [][ApplyEndFrame /\ "data" \notin bad /\ due >= Head(req).at
         => accepted' = {Head(req).cfg}]_vars

\* Power-up restores what the last complete save has kept, flag of the CAN
\* parameters included; only a save that was cut may lose it, and only then
\* can main start with numbers that overrun its tables.
Store == INSTANCE SavedConfig
         WITH ram <- IF power = "wild" THEN Lost ELSE Config,
              saving <- step > 0, powered <- power # "off"
KeptAcrossPowerCuts == Store!Spec
=============================================================================
