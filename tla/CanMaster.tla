------------------------------ MODULE CanMaster ------------------------------
(***************************************************************************)
(* The CANopen master and one device: Canopen_Run of canopen.c, the SDO    *)
(* client of canopen_sdo.c, the heartbeat consumer of canopen_lifegrd.c    *)
(* and the calls of the application (taskcanopenmaster.c).  Entry 0 is the *)
(* configuration, the heartbeat time of the device; the others are the     *)
(* entries of the link's object dictionary.  The main loop runs the master *)
(* and the function blocks in turn; the device and the bus run on their    *)
(* own, frames may be lost and the device may lose its power.              *)
(***************************************************************************)
EXTENDS Integers, Sequences, FiniteSets, FiniteSetsExt

CONSTANTS
    Dicts,      \* configurations: [access, reads, outs, heap], where access[i] is
                \* pObjdict->pIndex[i].byAccess, "RO", "RW" or "WO"; reads the
                \* entries with MasterCMD = MasterReadData; outs those that a
                \* Funcblock_Canopen_MasterOut writes; heap the marks that the
                \* memory of the dictionary, which nothing clears, happens to
                \* hold: [upd, dirty, mode], bUpdate, bDirty and byUpDown
    Values,     \* the values of each entry, with 0, those of a device that
                \* has just been switched on; memory holds one of them
    MaxBus,     \* frames in one queue; one more is lost
    MaxFaults   \* frames lost, answers that take more than 200 ms and power
                \* losses of the device

ASSUME DictsAssumption ==
    \A d \in Dicts :
        /\ d.access \in Seq({"RO", "RW", "WO"}) /\ DOMAIN d.access \subseteq DOMAIN Values
        /\ d.reads \subseteq DOMAIN d.access /\ d.outs \subseteq DOMAIN d.access
        /\ d.heap.upd \subseteq DOMAIN d.access /\ d.heap.dirty \subseteq DOMAIN d.access
        /\ d.heap.mode \in [DOMAIN d.access -> SUBSET {"up", "down"}]
ASSUME ValuesAssumption == \A i \in DOMAIN Values : 0 \in Values[i]
ASSUME BusAssumption == MaxBus \in Nat \ {0}

VARIABLES
    dict,       \* the configuration, a member of Dicts
    pc,         \* "idle", or "read" in the loop of Canopen_Run that reads
    link,       \* CANOPEN_LINK_T, its SDO client and its object dictionary
    toNode,     \* frames under way to the device
    toMaster,   \* frames under way to the master
    node,       \* the device: [on, state, hb, reg]
    want,       \* history: the last value the blocks gave an entry, at first
                \* the one that memory held
    faults

vars == <<dict, pc, link, toNode, toMaster, node, want, faults>>

Entries == DOMAIN dict.access
Access  == dict.access

Queue(q, s) == SubSeq(q \o s, 1, Min({MaxBus, Len(q \o s)}))

-----------------------------------------------------------------------------
(* Steps of Canopen_Run, as functions of the link.  Its field tx gathers    *)
(* the frames that the step sends.                                          *)
Tx(l, f) == [l EXCEPT !.tx = Append(@, f)]
Nmt(l, c) == Tx(l, [k |-> "nmt", c |-> c])

\* CommState.bSdo and bLifeGuard: off until the first step has set a state.
\* The values and the marks of the entries are what memory held; those values
\* that the device does not have are taken for lost writes.
InitLink(val, reg) ==
    [status |-> "initial", nmt |-> "init", cur |-> 1, conf |-> 0,
     open |-> FALSE, sdo |-> "finished", idx |-> 0, data |-> 0, armed |-> FALSE,
     val |-> val, upd |-> dict.heap.upd, mode |-> dict.heap.mode, tx |-> <<>>,
     \* history: writes that may not arrive, a transfer that lost its
     \* timer to the answer of another, the configuration answered
     lost |-> {i \in Entries : val[i] # reg[i]}, stale |-> FALSE, confirmed |-> FALSE]

Contents == {f \in [Entries -> UNION {Values[i] : i \in Entries}] :
                \A i \in Entries : f[i] \in Values[i]}

\* The device may be at work already, with any values.
Init ==
    /\ dict \in Dicts /\ pc = "idle" /\ toNode = <<>> /\ toMaster = <<>> /\ faults = 0
    /\ \E reg \in Contents, hb \in BOOLEAN, state \in {"pre", "op"} :
          /\ node = [on |-> TRUE, state |-> state, hb |-> hb, reg |-> reg]
          /\ want \in Contents /\ link = InitLink(want, reg)

\* The entry of a write that is under way.
Writing(l) == IF l.sdo = "down" THEN {l.idx} \ {0} ELSE {}

\* Canopen_Sdo_DownLoad, with the timer that Canopen_Sdo_InitComm creates.
DownLoad(l, i, v) ==
    Tx([l EXCEPT !.sdo = "down", !.idx = i, !.data = v, !.armed = TRUE, !.stale = FALSE],
       [k |-> "down", i |-> i, v |-> v, now |-> TRUE])

\* Canopen_Sdo_UpLoad.  It takes the place of a write under way.
UpLoad(l, i) ==
    Tx([l EXCEPT !.sdo = "up", !.idx = i, !.armed = TRUE, !.stale = FALSE,
                 !.lost = @ \cup Writing(l)],
       [k |-> "up", i |-> i])

\* The end of a transfer.  What it was about is not read again.
End(l, s) == [l EXCEPT !.sdo = s, !.idx = 0, !.data = 0, !.armed = FALSE, !.stale = FALSE]

Fail(l) == [End(l, "aborted") EXCEPT !.lost = @ \cup Writing(l)]

Matches(l, f) == f.i = l.idx

\* CANOPEN_SDO_INITIATE_UPLOAD_RESPONSE: the timer goes before the compare.
RecvUpLoad(l, f) ==
    IF l.sdo # "up" THEN Fail(l)
    ELSE IF ~Matches(l, f) THEN [l EXCEPT !.armed = FALSE, !.stale = TRUE]
    ELSE IF Access[l.idx] = "RO" THEN Fail(l)   \* Canopen_OD_Write refuses
    ELSE [End(l, "finished") EXCEPT !.val[l.idx] = f.v,
                   !.lost = IF f.v # l.val[l.idx] THEN @ \cup {l.idx} ELSE @]

\* The answer that was waited for.  It may answer an earlier sending.
Answered(l, f) ==
    [End(l, "finished") EXCEPT
            !.confirmed = @ \/ l.idx = 0,
            !.lost = IF f.now THEN @ ELSE @ \cup Writing(l)]

\* Mutant: the timer goes before the compare, as for an upload.
RecvDownLoadTimer(l, f) ==
    IF l.sdo # "down" THEN Fail(l)
    ELSE IF ~Matches(l, f) THEN [l EXCEPT !.armed = FALSE]
    ELSE Answered(l, f)
\* CANOPEN_SDO_INITIATE_DOWNLOAD_RESPONSE.
RecvDownLoad(l, f) ==
    IF l.sdo # "down" THEN Fail(l)
    ELSE IF ~Matches(l, f) THEN l
    ELSE Answered(l, f)

\* Canopen_Dispatch.  A heartbeat or boot-up frame gives the device's state.
Recv(l, f) ==
    CASE ~l.open            -> l
      [] f.k = "upAnswer"   -> RecvUpLoad(l, f)
      [] f.k = "downAnswer" -> RecvDownLoad(l, f)
      [] OTHER              -> [l EXCEPT !.nmt = f.s]

\* The check of ABORTED_INTERNAL in Canopen_Run: on to normal work, whatever
\* the state of the device.
AfterAbort(l) ==
    IF l.sdo # "aborted" THEN l
    ELSE [l EXCEPT !.status = "normal", !.sdo = "finished", !.nmt = "op",
                   !.confirmed = FALSE]

Initial(l) ==
    Nmt([l EXCEPT !.status = "config", !.cur = 1, !.conf = 0, !.open = TRUE,
                  !.confirmed = FALSE], "pre")

\* Mutant: the entry is not waited for.
ReadyAlways(l) == l.sdo \in {"finished", "down"}
Ready(l) == l.sdo = "finished"

Config(l) ==
    LET p == IF l.nmt # "pre" THEN Nmt(l, "pre") ELSE l
    IN  IF ~Ready(l) THEN l
        ELSE IF l.conf = 1 THEN [p EXCEPT !.status = "normal", !.conf = 0, !.confirmed = FALSE]
        ELSE [DownLoad(p, 0, 1) EXCEPT !.conf = 1]

\* Mutant: wCurIndex is raised twice.
DoneTwice(l, i) == [l EXCEPT !.mode[i] = {}, !.upd = @ \ {i}, !.cur = i + 2]
Done(l, i) == [l EXCEPT !.mode[i] = {}, !.upd = @ \ {i}, !.cur = i + 1]

\* Mutant: an entry marked for both is read only.
TransferOne(l, i) ==
    Done(IF "up" \in l.mode[i] THEN UpLoad(l, i)
         ELSE IF "down" \in l.mode[i] THEN DownLoad(l, i, l.val[i]) ELSE l, i)

\* A marked entry is written, then read: the second request replaces the first.
Transfer(l, i) ==
    LET d == IF "down" \in l.mode[i] THEN DownLoad(l, i, l.val[i]) ELSE l
        u == IF "up" \in l.mode[i] THEN UpLoad(d, i) ELSE d
    IN  Done(u, i)

\* Mutant: after the last entry the search does not begin again.
FromOn(l) == l.cur
From(l) == IF l.cur > Cardinality(Entries) THEN 1 ELSE l.cur

\* From wCurIndex on, the first entry that is marked.
Normal(l) ==
    LET p    == IF l.nmt # "op" THEN Nmt(l, "op") ELSE l
        todo == {i \in l.upd : i >= From(l)}
    IN  IF ~Ready(l) THEN p
        ELSE IF todo = {} THEN [p EXCEPT !.cur = Cardinality(Entries) + 1]
        ELSE Transfer(p, Min(todo))

Link(l) ==
    LET a == AfterAbort(l)
    IN  CASE a.status = "initial" -> Initial(a)
          [] a.status = "config"  -> Config(a)
          [] a.status = "normal"  -> Normal(a)

\* Mutant: the timer runs out and nothing is sent.
ResentNothing(l) == l
\* Canopen_Sdo_TimeOut: sends again, with no limit.
Resent(l) ==
    Tx(l, IF l.sdo = "down" THEN [k |-> "down", i |-> l.idx, v |-> l.data, now |-> TRUE]
                            ELSE [k |-> "up", i |-> l.idx])

\* Canopen_Heartbeat_Consumer_TimerFunc and CanMaster_HeatbeatFunc.  Only what
\* memory held marks an entry dirty.
Silent(l) ==
    Nmt(Nmt([End(l, "finished") EXCEPT !.status = "initial", !.nmt = "pre",
                                       !.upd = @ \cup dict.heap.dirty,
                                       !.lost = @ \cup Writing(l)],
            "reset"), "pre")

-----------------------------------------------------------------------------
\* Canopen_Run reads every frame first.
Read ==
    /\ toMaster # <<>> /\ pc' = "read"
    /\ link' = Recv(link, Head(toMaster)) /\ toMaster' = Tail(toMaster)
    /\ UNCHANGED <<dict, toNode, node, want, faults>>

\* The command that is repeated on every run until a heartbeat shows that it
\* was obeyed is kept once: the bus is faster than the master.
Repetition(s) ==
    s # <<>> /\ s[1].k = "nmt" /\ toNode # <<>> /\ toNode[Len(toNode)] = s[1]

\* History: the writes under way are those of a transfer that has ended.
Earlier(q) ==
    [k \in DOMAIN q |-> IF q[k].k = "down" THEN [q[k] EXCEPT !.now = FALSE] ELSE q[k]]

Finish(l) ==
    /\ toMaster = <<>> /\ pc' = "idle"
    /\ link' = [l EXCEPT !.tx = <<>>]
    /\ toNode' = Queue(IF link.sdo = "down" THEN toNode ELSE Earlier(toNode),
                        IF Repetition(l.tx) THEN Tail(l.tx) ELSE l.tx)
    /\ UNCHANGED <<dict, toMaster, node, want>>

Run == Finish(Link(link)) /\ faults' = faults

\* 200 ms after a request that this run has not sent nothing has come.  Only a
\* slow device, one of the faults, leaves it that long.
RunResend ==
    /\ link.armed /\ Finish(Resent(Link(link)))
    /\ IF toNode = <<>> THEN faults' = faults ELSE faults < MaxFaults /\ faults' = faults + 1

\* 3 s without a heartbeat: the device is off, or has none to send.  The
\* configuration, repeated every 200 ms, does not take that long.
RunSilent ==
    /\ ~node.on \/ (~node.hb /\ link.status = "normal")
    /\ \A k \in DOMAIN toNode : ~(toNode[k].k = "down" /\ toNode[k].i = 0)
    /\ Finish(Silent(Link(link))) /\ faults' = faults

\* sendSDO: a value that the dictionary holds already is not sent.
SendSDO(i, v) ==
    /\ pc = "idle" /\ want' = [want EXCEPT ![i] = v]
    /\ link' = IF link.val[i] = v THEN link
               ELSE [link EXCEPT !.val[i] = v, !.upd = @ \cup {i},
                        !.mode[i] = IF Access[i] = "RW" THEN @ \cup {"down"} ELSE {"down"},
                        !.lost = @ \ {i}]
    /\ UNCHANGED <<dict, pc, toNode, toMaster, node, faults>>

\* SDO_upload_set, for every entry that is read, on every pass of the loop.
SetUpLoad(i) ==
    /\ pc = "idle"
    /\ link' = [link EXCEPT !.upd = @ \cup {i},
                   !.mode[i] = IF Access[i] = "RW" THEN @ \cup {"up"} ELSE {"up"},
                   !.lost = IF Access[i] # "RW" /\ i \in link.upd /\ "down" \in link.mode[i]
                            THEN @ \cup {i} ELSE @]
    /\ UNCHANGED <<dict, pc, toNode, toMaster, node, want, faults>>

-----------------------------------------------------------------------------
(* The device and the bus.                                                 *)
Answer(f) ==
    CASE f.k = "down" -> <<[k |-> "downAnswer", i |-> f.i, now |-> f.now]>>
      [] f.k = "up"   -> <<[k |-> "upAnswer", i |-> f.i, v |-> node.reg[f.i]]>>
      [] f.k = "nmt"  -> IF f.c = "reset" THEN <<[k |-> "state", s |-> "init"]>> ELSE <<>>

Obey(f) ==
    CASE f.k = "down" -> IF f.i = 0 THEN [node EXCEPT !.hb = TRUE]
                                    ELSE [node EXCEPT !.reg[f.i] = f.v]
      [] f.k = "up"   -> node
      [] f.k = "nmt"  -> IF f.c = "reset" THEN [node EXCEPT !.state = "pre", !.hb = FALSE]
                                          ELSE [node EXCEPT !.state = f.c]

Serve ==
    /\ toNode # <<>> /\ toNode' = Tail(toNode)
    /\ IF node.on THEN /\ node' = Obey(Head(toNode))
                       /\ toMaster' = Queue(toMaster, Answer(Head(toNode)))
                  ELSE UNCHANGED <<node, toMaster>>
    /\ UNCHANGED <<dict, pc, link, want, faults>>

\* A heartbeat that tells nothing new, or that comes before the master listens,
\* is left out.
Heartbeat ==
    /\ node.on /\ node.hb /\ link.open /\ toMaster = <<>> /\ link.nmt # node.state
    /\ toMaster' = <<[k |-> "state", s |-> node.state]>>
    /\ UNCHANGED <<dict, pc, link, toNode, node, want, faults>>

Fault == faults < MaxFaults /\ faults' = faults + 1 /\ want' = want

Lose ==
    /\ Fault
    /\ \/ toNode # <<>> /\ toNode' = Tail(toNode) /\ UNCHANGED toMaster
       \/ toMaster # <<>> /\ toMaster' = Tail(toMaster) /\ UNCHANGED toNode
    /\ UNCHANGED <<dict, pc, link, node>>

PowerOff ==
    /\ Fault /\ node.on
    /\ node' = [node EXCEPT !.on = FALSE, !.hb = FALSE, !.state = "init",
                            !.reg = [i \in Entries |-> 0]]
    /\ link' = [link EXCEPT !.lost = Entries]
    /\ UNCHANGED <<dict, pc, toNode, toMaster>>

PowerOn ==
    /\ ~node.on
    /\ node' = [node EXCEPT !.on = TRUE, !.state = "pre"]
    /\ toMaster' = Queue(toMaster, <<[k |-> "state", s |-> "init"]>>)
    /\ UNCHANGED <<dict, pc, link, toNode, want, faults>>

-----------------------------------------------------------------------------
Blocks == (\E i \in dict.outs : \E v \in Values[i] : SendSDO(i, v)) \/ \E i \in dict.reads : SetUpLoad(i)
Master == Read \/ Run \/ RunResend \/ RunSilent
Device == Serve \/ Heartbeat \/ Lose \/ PowerOff \/ PowerOn

Next == Blocks \/ Master \/ Device

Fairness ==
    /\ WF_vars(Read) /\ WF_vars(Run) /\ SF_vars(RunResend /\ toNode = <<>>) /\ SF_vars(RunSilent)
    /\ WF_vars(Serve) /\ SF_vars(Heartbeat) /\ WF_vars(PowerOn)

Spec == Init /\ [][Next]_vars /\ Fairness

-----------------------------------------------------------------------------
TypeOK ==
    /\ link.status \in {"initial", "config", "normal"} /\ link.sdo \in {"finished", "down", "up", "aborted"}
    /\ link.nmt \in {"init", "pre", "op"} /\ node.state \in {"init", "pre", "op"}
    /\ link.cur \in 1 .. Cardinality(Entries) + 1 /\ link.idx \in Entries \cup {0}
    /\ \A i \in Entries : {link.val[i], node.reg[i], want[i]} \subseteq Values[i]
    /\ Len(toNode) <= MaxBus /\ Len(toMaster) <= MaxBus

\* A transfer under way is repeated, unless the answer of another upload has
\* taken its timer.
Repeated == link.sdo \in {"down", "up"} => link.armed \/ (link.sdo = "up" /\ link.stale)

\* Work begins after the device has answered its configuration, unless an
\* answer out of turn cut it short.
Configured ==
    [][link.status # "normal" /\ link'.status = "normal"
            => link.confirmed \/ link.sdo = "aborted"]_vars

OnItsWay(i) ==
    \/ i \in link.upd /\ "down" \in link.mode[i] /\ link.val[i] = want[i]
    \/ link.sdo = "down" /\ link.idx = i /\ link.data = want[i]

\* What the blocks write reaches the device or is on its way, but for the
\* ways in which this master loses a write: the device does not have what the
\* memory of the dictionary held, so that a first write of it is not sent; a read
\* takes the place of the write; the transfer is cut, or ends with the answer to
\* an earlier one; the answer to a read overwrites it; the power fails.
Written == \A i \in dict.outs : want[i] = node.reg[i] \/ OnItsWay(i) \/ i \in link.lost

Stuck == link.sdo = "up" /\ link.stale

Cut == link.sdo = "aborted"

\* It does not stay on its way, unless an answer out of turn cuts a transfer
\* or the read before it is stuck.
Reaches == []<>(\/ \A i \in dict.outs : want[i] = node.reg[i] \/ i \in link.lost
                \/ Stuck \/ Cut)

\* A device that stops is brought back into operation, unless answers out of
\* turn go on to cut transfers: each makes the master take it for operating.
BroughtBack == []<>(node.state = "op" \/ Cut)
=============================================================================
