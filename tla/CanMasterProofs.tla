-------------------------- MODULE CanMasterProofs --------------------------
(***************************************************************************)
(* Three things about the CANopen master, for every object dictionary,     *)
(* every queue and any number of faults.  A transfer under way is sent     *)
(* again when no answer comes.  Normal work begins when the device has     *)
(* answered its configuration.  What a block writes reaches the device or  *)
(* is on its way, but for the ways in which this master loses a write:     *)
(* the proof follows every write from its mark in the dictionary to the    *)
(* frame, the device and the answer.                                       *)
(***************************************************************************)
EXTENDS CanMaster, CommonLemmas, FiniteSetTheorems

Fields == {"status", "nmt", "cur", "conf", "open", "sdo", "idx", "data", "armed",
           "val", "upd", "mode", "tx", "lost", "stale", "confirmed"}

\* The link, wherever Canopen_Run has got to with it.
Held(l) ==
    /\ DOMAIN l = Fields /\ l.status \in {"initial", "config", "normal"}
    /\ l.sdo \in {"down", "up"} => l.armed \/ (l.sdo = "up" /\ l.stale)

\* Sending a frame leaves the transfer alone.
LEMMA TxHeld == ASSUME NEW l, NEW f, Held(l) PROVE Held(Tx(l, f)) /\ Tx(l, f).sdo = l.sdo
  BY DEF Held, Tx, Fields

LEMMA NmtHeld == ASSUME NEW l, NEW c, Held(l) PROVE Held(Nmt(l, c)) /\ Nmt(l, c).sdo = l.sdo
  BY TxHeld DEF Nmt

\* A request starts its timer.
LEMMA RequestHeld ==
    ASSUME NEW l, NEW i, NEW v, Held(l)
    PROVE  Held(DownLoad(l, i, v)) /\ Held(UpLoad(l, i))
<1> DEFINE d == [l EXCEPT !.sdo = "down", !.idx = i, !.data = v, !.armed = TRUE, !.stale = FALSE]
           u == [l EXCEPT !.sdo = "up", !.idx = i, !.armed = TRUE, !.stale = FALSE,
                          !.lost = @ \cup Writing(l)]
<1>1. Held(d)
  BY DEF Held, Fields
<1>2. Held(u)
  BY DEF Held, Fields
<1> QED
  BY <1>1, <1>2, TxHeld DEF DownLoad, UpLoad

\* The timer goes with the transfer.
LEMMA EndHeld ==
    ASSUME NEW l, NEW s, Held(l), s \notin {"down", "up"}
    PROVE  Held(End(l, s)) /\ End(l, s).sdo = s
  BY DEF Held, End, Fields

LEMMA FailHeld == ASSUME NEW l, Held(l) PROVE Held(Fail(l))
<1>1. Held(End(l, "aborted")) /\ End(l, "aborted").sdo = "aborted"
  BY EndHeld
<1> QED
  BY <1>1 DEF Fail, Held, Fields

-----------------------------------------------------------------------------
(* What comes in.                                                           *)

LEMMA RecvHeld == ASSUME NEW l, NEW f, Held(l) PROVE Held(Recv(l, f))
<1>1. Held(RecvUpLoad(l, f))
  <2>1. CASE l.sdo # "up"
    BY <2>1, FailHeld DEF RecvUpLoad
  <2>2. CASE l.sdo = "up" /\ ~Matches(l, f)
    <3>1. RecvUpLoad(l, f) = [l EXCEPT !.armed = FALSE, !.stale = TRUE]
      BY <2>2 DEF RecvUpLoad
    <3> QED BY <3>1, <2>2 DEF Held, Fields
  <2>3. CASE l.sdo = "up" /\ Matches(l, f) /\ Access[l.idx] = "RO"
    BY <2>3, FailHeld DEF RecvUpLoad
  <2>4. CASE l.sdo = "up" /\ Matches(l, f) /\ Access[l.idx] # "RO"
    <3>1. Held(End(l, "finished")) /\ End(l, "finished").sdo = "finished"
      BY EndHeld
    <3> DEFINE e == End(l, "finished")
               w == IF f.v # l.val[l.idx] THEN e.lost \cup {l.idx} ELSE e.lost
    <3>2. RecvUpLoad(l, f) = [e EXCEPT !.val[l.idx] = f.v, !.lost = w]
      BY <2>4 DEF RecvUpLoad
    <3> HIDE DEF e, w
    <3>3. Held(e) /\ e.sdo = "finished"
      BY <3>1 DEF e
    <3> QED BY <3>2, <3>3 DEF Held, Fields
  <2> QED BY <2>1, <2>2, <2>3, <2>4
<1>2. Held(RecvDownLoad(l, f))
  <2>1. CASE l.sdo # "down"
    BY <2>1, FailHeld DEF RecvDownLoad, Answered
  <2>2. CASE l.sdo = "down" /\ ~Matches(l, f)
    BY <2>2 DEF RecvDownLoad, Answered
  <2>3. CASE l.sdo = "down" /\ Matches(l, f)
    <3> DEFINE e == End(l, "finished")
               w == IF f.now THEN e.lost ELSE e.lost \cup Writing(l)
    <3>1. Held(e) /\ e.sdo = "finished"
      BY EndHeld
    <3>2. RecvDownLoad(l, f) = [e EXCEPT !.confirmed = @ \/ l.idx = 0, !.lost = w]
      BY <2>3 DEF RecvDownLoad, Answered
    <3> HIDE DEF e, w
    <3> QED BY <3>1, <3>2 DEF Held, Fields
  <2> QED BY <2>1, <2>2, <2>3
<1>3. Held([l EXCEPT !.nmt = f.s])
  BY DEF Held, Fields
<1> QED BY <1>1, <1>2, <1>3 DEF Recv

-----------------------------------------------------------------------------
(* What Canopen_Run does with the link.                                     *)

LEMMA AfterAbortHeld == ASSUME NEW l, Held(l) PROVE Held(AfterAbort(l))
  BY DEF Held, AfterAbort, Fields

LEMMA InitialHeld == ASSUME NEW l, Held(l) PROVE Held(Initial(l))
<1> DEFINE c == [l EXCEPT !.status = "config", !.cur = 1, !.conf = 0, !.open = TRUE,
                          !.confirmed = FALSE]
<1>1. Held(c)
  BY DEF Held, Fields
<1> QED BY <1>1, NmtHeld DEF Initial

LEMMA ConfigHeld == ASSUME NEW l, Held(l) PROVE Held(Config(l))
<1> DEFINE p == IF l.nmt # "pre" THEN Nmt(l, "pre") ELSE l
           d == DownLoad(p, 0, 1)
<1>1. Held(p) /\ p.sdo = l.sdo
  BY NmtHeld
<1>2. Held([p EXCEPT !.status = "normal", !.conf = 0, !.confirmed = FALSE])
  <2> HIDE DEF p
  <2> QED BY <1>1 DEF Held, Fields
<1>3. Held(d)
  <2> HIDE DEF p
  <2> QED BY <1>1, RequestHeld
<1>4. Held([d EXCEPT !.conf = 1])
  <2> HIDE DEF d
  <2> QED BY <1>3 DEF Held, Fields
<1> QED BY <1>2, <1>4 DEF Config

LEMMA TransferHeld == ASSUME NEW l, NEW i, Held(l) PROVE Held(Transfer(l, i))
<1> DEFINE d == IF "down" \in l.mode[i] THEN DownLoad(l, i, l.val[i]) ELSE l
           u == IF "up" \in l.mode[i] THEN UpLoad(d, i) ELSE d
<1>1. Held(d)
  BY RequestHeld
<1>2. Held(u)
  <2> HIDE DEF d
  <2> QED BY <1>1, RequestHeld
<1>3. Held(Done(u, i))
  <2> HIDE DEF u
  <2> QED BY <1>2 DEF Done, Held, Fields
<1> QED BY <1>3 DEF Transfer

LEMMA NormalHeld == ASSUME NEW l, Held(l) PROVE Held(Normal(l))
<1> DEFINE p    == IF l.nmt # "op" THEN Nmt(l, "op") ELSE l
           last == Cardinality(Entries) + 1
           todo == {i \in l.upd : i >= From(l)}
<1>1. Held(p)
  BY NmtHeld
<1>2. Held([p EXCEPT !.cur = last])
  <2> HIDE DEF p, last
  <2> QED BY <1>1 DEF Held, Fields
<1>3. Held(Transfer(p, Min(todo)))
  <2> HIDE DEF p, todo
  <2> QED BY <1>1, TransferHeld
<1> QED BY <1>1, <1>2, <1>3 DEF Normal

LEMMA LinkHeld == ASSUME NEW l, Held(l) PROVE Held(Link(l))
<1> DEFINE a == AfterAbort(l)
<1>1. Held(a)
  BY AfterAbortHeld
<1>2. a.status \in {"initial", "config", "normal"}
  BY <1>1 DEF Held
<1> HIDE DEF a
<1>3. Held(Initial(a)) /\ Held(Config(a)) /\ Held(Normal(a))
  BY <1>1, InitialHeld, ConfigHeld, NormalHeld
<1>4. Link(l) \in {Initial(a), Config(a), Normal(a)}
  BY <1>2 DEF Link, a
<1> QED BY <1>3, <1>4

\* A heartbeat that fails ends the transfer.
LEMMA SilentHeld == ASSUME NEW l, Held(l) PROVE Held(Silent(l))
<1> DEFINE e == End(l, "finished")
           s == [e EXCEPT !.status = "initial", !.nmt = "pre", !.upd = @ \cup dict.heap.dirty,
                          !.lost = @ \cup Writing(l)]
<1>1. Held(e) /\ e.sdo = "finished"
  BY EndHeld
<1>2. Held(s)
  <2> HIDE DEF e
  <2> QED BY <1>1 DEF Held, Fields
<1>3. Held(Nmt(s, "reset"))
  <2> HIDE DEF s
  <2> QED BY <1>2, NmtHeld
<1>4. Held(Nmt(Nmt(s, "reset"), "pre"))
  <2> HIDE DEF s
  <2> QED BY <1>3, NmtHeld
<1> QED BY <1>4 DEF Silent

-----------------------------------------------------------------------------
(* The specification.                                                       *)

LEMMA FinishHeld ==
    ASSUME NEW l, Held(l), Finish(l)
    PROVE  Held(link')
<1>1. link' = [l EXCEPT !.tx = <<>>]
  BY DEF Finish
<1> QED BY <1>1 DEF Held, Fields

LEMMA InitHeld == ASSUME Init PROVE Held(link)
<1>1. PICK reg : link = InitLink(want, reg)
  BY DEF Init
<1>2. Held(InitLink(want, reg))
  BY DEF Held, Fields, InitLink
<1> QED BY <1>1, <1>2

\* Every step of the master keeps the timer with the transfer; the blocks, the
\* device and the bus do not touch it.
LEMMA NextHeld == ASSUME Held(link), [Next]_vars PROVE Held(link')
<1>1. CASE Read
  BY <1>1, RecvHeld DEF Read
<1>2. CASE Run
  BY <1>2, LinkHeld, FinishHeld DEF Run
<1>3. CASE RunResend
  <2>1. Held(Link(link))
    BY LinkHeld
  <2>2. Held(Resent(Link(link)))
    BY <2>1, TxHeld DEF Resent
  <2> QED BY <1>3, <2>2, FinishHeld DEF RunResend
<1>4. CASE RunSilent
  <2>1. Held(Silent(Link(link)))
    BY LinkHeld, SilentHeld
  <2> QED BY <1>4, <2>1, FinishHeld DEF RunSilent
<1>5. ASSUME NEW i, NEW v, SendSDO(i, v) PROVE Held(link')
  <2> DEFINE m == IF Access[i] = "RW" THEN link.mode[i] \cup {"down"} ELSE {"down"}
  <2>1. \/ link' = link
        \/ link' = [link EXCEPT !.val[i] = v, !.upd = @ \cup {i}, !.mode[i] = m,
                               !.lost = @ \ {i}]
    BY <1>5 DEF SendSDO
  <2> HIDE DEF m
  <2> QED BY <2>1 DEF Held, Fields
<1>6. ASSUME NEW i, SetUpLoad(i) PROVE Held(link')
  <2> DEFINE m == IF Access[i] = "RW" THEN link.mode[i] \cup {"up"} ELSE {"up"}
             w == IF Access[i] # "RW" /\ i \in link.upd /\ "down" \in link.mode[i]
                  THEN link.lost \cup {i} ELSE link.lost
  <2>1. link' = [link EXCEPT !.upd = @ \cup {i}, !.mode[i] = m, !.lost = w]
    BY <1>6 DEF SetUpLoad
  <2> HIDE DEF m, w
  <2> QED BY <2>1 DEF Held, Fields
<1>7. CASE Serve \/ Heartbeat \/ Lose \/ PowerOn \/ UNCHANGED vars
  BY <1>7 DEF Serve, Heartbeat, Lose, PowerOn, vars
<1>8. CASE PowerOff
  <2>1. link' = [link EXCEPT !.lost = Entries]
    BY <1>8 DEF PowerOff
  <2> QED BY <2>1 DEF Held, Fields
<1> QED
  BY <1>1, <1>2, <1>3, <1>4, <1>5, <1>6, <1>7, <1>8 DEF Next, Blocks, Master, Device

\* A transfer under way is repeated, unless the answer of another upload has
\* taken its timer (Canopen_Sdo_Recv, which stops the timer before it compares).
THEOREM TransfersRepeated == Spec => []Repeated
<1>1. Init => Held(link)
  BY InitHeld
<1>2. Held(link) /\ [Next]_vars => Held(link)'
  BY NextHeld
<1>3. Held(link) => Repeated
  BY DEF Held, Repeated
<1> QED
  BY <1>1, <1>2, <1>3, PTL DEF Spec

-----------------------------------------------------------------------------
(* The configuration of the device.  Until the client has sent it nothing   *)
(* is under way; then its request is under way, answered, or cut short.     *)
Phase(l) ==
    /\ l.conf \in {0, 1}
    /\ l.status = "initial" \/ (l.status = "config" /\ l.conf = 0)
            => l.sdo \in {"finished", "aborted"}
    /\ l.status = "config" /\ l.conf = 1
            => l.sdo = "aborted" \/ l.confirmed \/ (l.sdo = "down" /\ l.idx = 0)

\* A step that leaves the configuration and the transfer alone.
LEMMA PhaseKept ==
    ASSUME NEW l, NEW m, Phase(l), m.conf = l.conf, m.status = l.status,
           m.sdo = l.sdo, m.idx = l.idx, m.confirmed = l.confirmed
    PROVE  Phase(m)
  BY DEF Phase

LEMMA NmtPhase ==
    ASSUME NEW l, NEW c, Held(l)
    PROVE  /\ Held(Nmt(l, c)) /\ Nmt(l, c).conf = l.conf /\ Nmt(l, c).status = l.status
           /\ Nmt(l, c).sdo = l.sdo /\ Nmt(l, c).idx = l.idx
           /\ Nmt(l, c).confirmed = l.confirmed
<1>1. Held(Nmt(l, c))
  BY NmtHeld
<1> QED BY <1>1 DEF Nmt, Tx, Held, Fields

LEMMA FailPhase == ASSUME NEW l, Held(l), Phase(l) PROVE Phase(Fail(l))
<1> DEFINE e == End(l, "aborted")
<1>1. /\ DOMAIN e = Fields /\ e.sdo = "aborted" /\ e.conf = l.conf
  BY DEF End, Held, Fields
<1>2. Fail(l) = [e EXCEPT !.lost = @ \cup Writing(l)]
  BY DEF Fail
<1> HIDE DEF e
<1>3. Fail(l).sdo = "aborted" /\ Fail(l).conf = l.conf
  BY <1>1, <1>2 DEF Fields
<1> QED BY <1>3 DEF Phase

LEMMA RecvPhase == ASSUME NEW l, NEW f, Held(l), Phase(l) PROVE Phase(Recv(l, f))
<1>1. Phase(RecvUpLoad(l, f))
  <2>1. CASE RecvUpLoad(l, f) = Fail(l)
    BY <2>1, FailPhase
  <2>2. CASE l.sdo = "up" /\ ~Matches(l, f)
    <3>1. RecvUpLoad(l, f) = [l EXCEPT !.armed = FALSE, !.stale = TRUE]
      BY <2>2 DEF RecvUpLoad
    <3> QED BY <3>1 DEF Held, Fields, Phase
  <2>3. CASE l.sdo = "up" /\ Matches(l, f) /\ Access[l.idx] # "RO"
    <3> DEFINE e == End(l, "finished")
               w == IF f.v # l.val[l.idx] THEN e.lost \cup {l.idx} ELSE e.lost
    <3>1. /\ DOMAIN e = Fields /\ e.sdo = "finished" /\ e.conf = l.conf
          /\ e.status = l.status /\ e.confirmed = l.confirmed
      BY DEF End, Held, Fields
    <3>2. RecvUpLoad(l, f) = [e EXCEPT !.val[l.idx] = f.v, !.lost = w]
      BY <2>3 DEF RecvUpLoad
    <3> HIDE DEF e, w
    <3>3. /\ RecvUpLoad(l, f).sdo = "finished" /\ RecvUpLoad(l, f).conf = l.conf
          /\ RecvUpLoad(l, f).status = l.status
          /\ RecvUpLoad(l, f).confirmed = l.confirmed
      BY <3>1, <3>2 DEF Fields
    <3> HIDE DEF RecvUpLoad
    <3> QED BY <3>3, <2>3 DEF Phase
  <2> QED BY <2>1, <2>2, <2>3 DEF RecvUpLoad
<1>2. Phase(RecvDownLoad(l, f))
  <2>1. CASE l.sdo # "down"
    BY <2>1, FailPhase DEF RecvDownLoad, Answered
  <2>2. CASE l.sdo = "down" /\ ~Matches(l, f)
    BY <2>2 DEF RecvDownLoad, Answered
  <2>3. CASE l.sdo = "down" /\ Matches(l, f)
    <3> DEFINE e == End(l, "finished")
               w == IF f.now THEN e.lost ELSE e.lost \cup Writing(l)
               c == e.confirmed \/ l.idx = 0
    <3>1. /\ DOMAIN e = Fields /\ e.sdo = "finished" /\ e.conf = l.conf
          /\ e.status = l.status /\ e.confirmed = l.confirmed
      BY DEF End, Held, Fields
    <3>2. RecvDownLoad(l, f) = [e EXCEPT !.confirmed = c, !.lost = w]
      BY <2>3 DEF RecvDownLoad, Answered
    <3>3. c <=> l.confirmed \/ l.idx = 0
      BY <3>1
    <3> HIDE DEF e, w, c
    <3>4. /\ RecvDownLoad(l, f).sdo = "finished" /\ RecvDownLoad(l, f).conf = l.conf
          /\ RecvDownLoad(l, f).status = l.status
          /\ RecvDownLoad(l, f).confirmed = c
      BY <3>1, <3>2 DEF Fields
    <3> QED BY <3>3, <3>4, <2>3 DEF Phase
  <2> QED BY <2>1, <2>2, <2>3
<1>3. Phase([l EXCEPT !.nmt = f.s])
  BY DEF Held, Fields, Phase
<1> QED BY <1>1, <1>2, <1>3 DEF Recv

\* What the master receives does not take it from one status to another.
LEMMA RecvStatus == ASSUME NEW l, NEW f, Held(l) PROVE Recv(l, f).status = l.status
<1> DEFINE e == End(l, "finished")
           a == End(l, "aborted")
           w == IF f.v # l.val[l.idx] THEN e.lost \cup {l.idx} ELSE e.lost
           v == IF f.now THEN e.lost ELSE e.lost \cup Writing(l)
           c == e.confirmed \/ l.idx = 0
<1>1. /\ DOMAIN e = Fields /\ e.status = l.status
      /\ DOMAIN a = Fields /\ a.status = l.status
  BY DEF End, Held, Fields
<1>2. Fail(l) = [a EXCEPT !.lost = @ \cup Writing(l)]
  BY DEF Fail
<1>3. RecvUpLoad(l, f) \in {Fail(l), [l EXCEPT !.armed = FALSE, !.stale = TRUE],
                             [e EXCEPT !.val[l.idx] = f.v, !.lost = w]}
  BY DEF RecvUpLoad
<1>4. RecvDownLoad(l, f) \in {Fail(l), l, [e EXCEPT !.confirmed = c, !.lost = v]}
  BY DEF RecvDownLoad, Answered
<1> HIDE DEF a, e, c, v, w
<1>5. Fail(l).status = l.status
  BY <1>1, <1>2 DEF Fields
<1>6. [l EXCEPT !.armed = FALSE, !.stale = TRUE].status = l.status
  BY DEF Held, Fields
<1>7. [e EXCEPT !.val[l.idx] = f.v, !.lost = w].status = l.status
  BY <1>1 DEF Fields
<1>8. [e EXCEPT !.confirmed = c, !.lost = v].status = l.status
  BY <1>1 DEF Fields
<1>9. RecvUpLoad(l, f).status = l.status
  BY <1>3, <1>5, <1>6, <1>7
<1>10. RecvDownLoad(l, f).status = l.status
  BY <1>4, <1>5, <1>8
<1>11. [l EXCEPT !.nmt = f.s].status = l.status
  BY DEF Held, Fields
<1> QED BY <1>9, <1>10, <1>11 DEF Recv

LEMMA RequestPhase ==
    ASSUME NEW l, NEW i, NEW v, Held(l)
    PROVE  /\ DownLoad(l, i, v).conf = l.conf /\ DownLoad(l, i, v).status = l.status
           /\ DownLoad(l, i, v).sdo = "down" /\ DownLoad(l, i, v).idx = i
           /\ UpLoad(l, i).conf = l.conf /\ UpLoad(l, i).status = l.status
<1> DEFINE d == [l EXCEPT !.sdo = "down", !.idx = i, !.data = v, !.armed = TRUE, !.stale = FALSE]
           u == [l EXCEPT !.sdo = "up", !.idx = i, !.armed = TRUE, !.stale = FALSE,
                          !.lost = @ \cup Writing(l)]
<1>1. /\ DOMAIN d = Fields /\ d.conf = l.conf /\ d.status = l.status
      /\ d.sdo = "down" /\ d.idx = i
  BY DEF Held, Fields
<1>2. DOMAIN u = Fields /\ u.conf = l.conf /\ u.status = l.status
  BY DEF Held, Fields
<1>3. DownLoad(l, i, v) = Tx(d, [k |-> "down", i |-> i, v |-> v, now |-> TRUE])
  BY DEF DownLoad
<1>4. UpLoad(l, i) = Tx(u, [k |-> "up", i |-> i])
  BY DEF UpLoad
<1> HIDE DEF d, u
<1> QED BY <1>1, <1>2, <1>3, <1>4 DEF Tx, Fields

LEMMA ConfigPhase ==
    ASSUME NEW l, Held(l), Phase(l), l.status = "config"
    PROVE  /\ Phase(Config(l))
           /\ Config(l).status = "normal" => l.confirmed \/ l.sdo = "aborted"
<1> DEFINE p == IF l.nmt # "pre" THEN Nmt(l, "pre") ELSE l
           d == DownLoad(p, 0, 1)
           n == [p EXCEPT !.status = "normal", !.conf = 0, !.confirmed = FALSE]
<1>1. Held(p) /\ p.conf = l.conf /\ p.status = l.status
  BY NmtPhase
<1>2. DOMAIN d = Fields /\ d.conf = l.conf /\ d.status = "config" /\ d.sdo = "down" /\ d.idx = 0
  <2> HIDE DEF p
  <2>1. Held(d)
    BY <1>1, RequestHeld
  <2> QED BY <1>1, <2>1, RequestPhase DEF Held
<1>3. n.status = "normal" /\ n.conf = 0
  <2> HIDE DEF p
  <2> QED BY <1>1 DEF Held, Fields
<1>4. Config(l) = IF l.sdo # "finished" THEN l
                  ELSE IF l.conf = 1 THEN n ELSE [d EXCEPT !.conf = 1]
  BY DEF Config, Ready
<1> HIDE DEF n, d
<1>5. CASE l.sdo # "finished"
  BY <1>4, <1>5
<1>6. CASE l.sdo = "finished" /\ l.conf = 1
  <2>1. Config(l) = n
    BY <1>4, <1>6
  <2>2. l.confirmed
    BY <1>6 DEF Phase
  <2> QED BY <2>1, <2>2, <1>3 DEF Phase
<1>7. CASE l.sdo = "finished" /\ l.conf # 1
  <2>1. Config(l) = [d EXCEPT !.conf = 1]
    BY <1>4, <1>7
  <2>2. /\ Config(l).conf = 1 /\ Config(l).status = "config"
        /\ Config(l).sdo = "down" /\ Config(l).idx = 0
    BY <1>2, <2>1 DEF Fields
  <2> QED BY <2>2 DEF Phase
<1> QED BY <1>5, <1>6, <1>7

\* In normal work status and configuration stay what they are.
LEMMA NormalPhase ==
    ASSUME NEW l, Held(l)
    PROVE  Normal(l).status = l.status /\ Normal(l).conf = l.conf
<1> DEFINE p    == IF l.nmt # "op" THEN Nmt(l, "op") ELSE l
           last == Cardinality(Entries) + 1
           i    == Min({k \in l.upd : k >= From(l)})
           d    == IF "down" \in p.mode[i] THEN DownLoad(p, i, p.val[i]) ELSE p
           u    == IF "up" \in p.mode[i] THEN UpLoad(d, i) ELSE d
<1>1. Held(p) /\ p.conf = l.conf /\ p.status = l.status
  BY NmtPhase
<1>2. Normal(l) \in {p, [p EXCEPT !.cur = last], Done(u, i)}
  BY DEF Normal, Transfer
<1> HIDE DEF p, last, i
<1>3. Held(d) /\ d.conf = l.conf /\ d.status = l.status
  BY <1>1, RequestHeld, RequestPhase
<1> HIDE DEF d
<1>4. Held(u) /\ u.conf = l.conf /\ u.status = l.status
  BY <1>3, RequestHeld, RequestPhase
<1> HIDE DEF u
<1>5. Done(u, i).conf = l.conf /\ Done(u, i).status = l.status
  BY <1>4 DEF Done, Held, Fields
<1>6. [p EXCEPT !.cur = last].conf = l.conf /\ [p EXCEPT !.cur = last].status = l.status
  BY <1>1 DEF Held, Fields
<1> QED BY <1>1, <1>2, <1>5, <1>6

\* The master comes to normal work from the configuration, answered, or by the
\* check of an aborted transfer.
LEMMA LinkPhase ==
    ASSUME NEW l, Held(l), Phase(l)
    PROVE  /\ Phase(Link(l))
           /\ l.status # "normal" /\ Link(l).status = "normal"
                  => l.confirmed \/ l.sdo = "aborted"
<1> DEFINE a == AfterAbort(l)
<1>1. Held(a)
  BY AfterAbortHeld
<1>2. /\ l.sdo = "aborted" => a.status = "normal" /\ a.conf = l.conf
      /\ l.sdo # "aborted" => a = l
  BY DEF AfterAbort, Held, Fields
<1>3. Phase(a)
  <2> HIDE DEF a
  <2> QED BY <1>2 DEF Phase
<1>4. Link(l) = CASE a.status = "initial" -> Initial(a)
                  [] a.status = "config"  -> Config(a)
                  [] a.status = "normal"  -> Normal(a)
  BY DEF Link
<1> HIDE DEF a
<1>5. CASE a.status = "initial"
  <2> DEFINE c == [a EXCEPT !.status = "config", !.cur = 1, !.conf = 0, !.open = TRUE,
                            !.confirmed = FALSE]
  <2>1. /\ Held(c) /\ c.status = "config" /\ c.conf = 0 /\ c.sdo = a.sdo
    BY <1>1 DEF Held, Fields
  <2>2. Link(l) = Nmt(c, "pre")
    BY <1>4, <1>5 DEF Initial
  <2> HIDE DEF c
  <2>3. Link(l).status = "config" /\ Link(l).conf = 0 /\ Link(l).sdo = a.sdo
    BY <2>1, <2>2, NmtPhase
  <2> QED BY <1>3, <1>5, <2>3 DEF Phase
<1>6. CASE a.status = "config"
  <2>1. Link(l) = Config(a)
    BY <1>4, <1>6
  <2>2. a = l
    BY <1>2, <1>6
  <2> QED BY <1>1, <1>3, <1>6, <2>1, <2>2, ConfigPhase
<1>7. CASE a.status = "normal"
  <2>1. Link(l) = Normal(a)
    BY <1>4, <1>7
  <2>2. Link(l).status = "normal" /\ Link(l).conf = a.conf
    BY <1>1, <1>7, <2>1, NormalPhase
  <2> QED BY <1>2, <1>3, <1>7, <2>2 DEF Phase
<1> QED BY <1>1, <1>5, <1>6, <1>7 DEF Held

LEMMA SilentPhase ==
    ASSUME NEW l, Held(l), Phase(l)
    PROVE  Phase(Silent(l)) /\ Silent(l).status = "initial"
<1> DEFINE e == End(l, "finished")
           s == [e EXCEPT !.status = "initial", !.nmt = "pre", !.upd = @ \cup dict.heap.dirty,
                          !.lost = @ \cup Writing(l)]
<1>1. Held(e) /\ e.sdo = "finished" /\ e.conf = l.conf
  BY EndHeld DEF End, Held, Fields
<1>2. Silent(l) = Nmt(Nmt(s, "reset"), "pre")
  BY DEF Silent
<1> HIDE DEF e
<1>3. Held(s) /\ s.sdo = "finished" /\ s.conf = l.conf /\ s.status = "initial"
  BY <1>1 DEF Held, Fields
<1> HIDE DEF s
<1>4. /\ Silent(l).sdo = "finished" /\ Silent(l).conf = l.conf
      /\ Silent(l).status = "initial"
  BY <1>2, <1>3, NmtPhase
<1> QED BY <1>4 DEF Phase

LEMMA FinishPhase ==
    ASSUME NEW l, Held(l), Phase(l), Finish(l)
    PROVE  Phase(link') /\ link'.status = l.status
<1>1. link' = [l EXCEPT !.tx = <<>>]
  BY DEF Finish
<1> QED BY <1>1 DEF Held, Fields, Phase

LEMMA InitPhase == ASSUME Init PROVE Phase(link)
<1>1. PICK reg : link = InitLink(want, reg)
  BY DEF Init
<1>2. Phase(InitLink(want, reg))
  BY DEF Phase, InitLink
<1> QED BY <1>1, <1>2

\* A step that changes the entries or the notes about them.
Entered(l, m) ==
    /\ m.conf = l.conf /\ m.status = l.status /\ m.sdo = l.sdo /\ m.idx = l.idx
    /\ m.confirmed = l.confirmed

LEMMA NextPhase ==
    ASSUME Held(link), Phase(link), [Next]_vars
    PROVE  /\ Phase(link')
           /\ link.status # "normal" /\ link'.status = "normal"
                  => link.confirmed \/ link.sdo = "aborted"
<1>1. CASE Read
  <2>1. link' = Recv(link, Head(toMaster))
    BY <1>1 DEF Read
  <2> QED BY <2>1, RecvPhase, RecvStatus
<1>2. CASE Run
  BY <1>2, LinkHeld, LinkPhase, FinishPhase DEF Run
<1>3. CASE RunResend
  <2> DEFINE l == Link(link)
             r == Resent(l)
  <2>1. Held(l) /\ Held(r)
    BY LinkHeld, TxHeld DEF Resent
  <2>2. /\ r.conf = l.conf /\ r.status = l.status /\ r.sdo = l.sdo /\ r.idx = l.idx
        /\ r.confirmed = l.confirmed
    <3> HIDE DEF l
    <3> QED BY <2>1 DEF Resent, Tx, Held, Fields
  <2>3. Phase(r)
    <3> HIDE DEF r
    <3> QED BY <2>2, LinkPhase, PhaseKept
  <2>4. Finish(r)
    BY <1>3 DEF RunResend
  <2>5. Phase(link') /\ link'.status = Link(link).status
    <3> HIDE DEF r
    <3> QED BY <2>1, <2>2, <2>3, <2>4, FinishPhase
  <2> QED BY <2>5, LinkPhase
<1>4. CASE RunSilent
  <2> DEFINE l == Silent(Link(link))
  <2>1. Held(l) /\ Phase(l) /\ l.status = "initial"
    BY LinkHeld, LinkPhase, SilentHeld, SilentPhase
  <2>2. Finish(l)
    BY <1>4 DEF RunSilent
  <2> HIDE DEF l
  <2> QED BY <2>1, <2>2, FinishPhase
<1>5. ASSUME NEW i, NEW v, SendSDO(i, v) PROVE Entered(link, link')
  <2> DEFINE m == IF Access[i] = "RW" THEN link.mode[i] \cup {"down"} ELSE {"down"}
  <2>1. \/ link' = link
        \/ link' = [link EXCEPT !.val[i] = v, !.upd = @ \cup {i}, !.mode[i] = m,
                               !.lost = @ \ {i}]
    BY <1>5 DEF SendSDO
  <2> HIDE DEF m
  <2> QED BY <2>1 DEF Held, Fields, Entered
<1>6. ASSUME NEW i, SetUpLoad(i) PROVE Entered(link, link')
  <2> DEFINE m == IF Access[i] = "RW" THEN link.mode[i] \cup {"up"} ELSE {"up"}
             w == IF Access[i] # "RW" /\ i \in link.upd /\ "down" \in link.mode[i]
                  THEN link.lost \cup {i} ELSE link.lost
  <2>1. link' = [link EXCEPT !.upd = @ \cup {i}, !.mode[i] = m, !.lost = w]
    BY <1>6 DEF SetUpLoad
  <2> HIDE DEF m, w
  <2> QED BY <2>1 DEF Held, Fields, Entered
<1>7. CASE Serve \/ Heartbeat \/ Lose \/ PowerOn \/ UNCHANGED vars
  BY <1>7 DEF Serve, Heartbeat, Lose, PowerOn, vars
<1>8. ASSUME PowerOff PROVE Entered(link, link')
  <2>1. link' = [link EXCEPT !.lost = Entries]
    BY <1>8 DEF PowerOff
  <2> QED BY <2>1 DEF Held, Fields, Entered
<1>9. ASSUME Entered(link, link')
      PROVE  Phase(link') /\ link'.status = link.status
  BY <1>9, PhaseKept DEF Entered
<1> QED
  BY <1>1, <1>2, <1>3, <1>4, <1>5, <1>6, <1>7, <1>8, <1>9 DEF Next, Blocks, Master, Device

\* The master begins normal work when the device has answered the configuration
\* it was sent since it was last found, or after an answer out of turn
\* (the check of ABORTED_INTERNAL in Canopen_Run).
THEOREM ConfiguredFirst == Spec => Configured
<1>1. Init => Held(link) /\ Phase(link)
  BY InitHeld, InitPhase
<1>2. Held(link) /\ Phase(link) /\ [Next]_vars => (Held(link) /\ Phase(link))'
  BY NextHeld, NextPhase
<1>3. Held(link) /\ Phase(link) /\ [Next]_vars
        => [link.status # "normal" /\ link'.status = "normal"
                => link.confirmed \/ link.sdo = "aborted"]_vars
  BY NextPhase
<1> QED
  BY <1>1, <1>2, <1>3, PTL DEF Spec, Configured
-----------------------------------------------------------------------------
(* Types.  A request names an entry of the link, and its value is one of    *)
(* the entry's; so is what the device answers to a read.                    *)

AnyValue == (UNION {Values[j] : j \in Entries}) \cup {0, 1}

Requests ==
    [k : {"nmt"}, c : {"pre", "op", "reset"}] \cup [k : {"up"}, i : Entries]
    \cup {f \in [k : {"down"}, i : Entries \cup {0}, v : AnyValue, now : BOOLEAN] :
             f.i # 0 => f.v \in Values[f.i]}

Answers ==
    [k : {"state"}, s : {"init", "pre", "op"}] \cup [k : {"downAnswer"}, i : Entries \cup {0}, now : BOOLEAN]
    \cup {f \in [k : {"upAnswer"}, i : Entries, v : AnyValue] : f.v \in Values[f.i]}

LinkType ==
    [status : {"initial", "config", "normal"}, nmt : {"init", "pre", "op"}, cur : Nat,
     conf : {0, 1}, open : BOOLEAN, sdo : {"finished", "down", "up", "aborted"},
     idx : Entries \cup {0}, data : AnyValue, armed : BOOLEAN, val : [Entries -> AnyValue],
     upd : SUBSET Entries, mode : [Entries -> SUBSET {"up", "down"}], tx : Seq(Requests),
     lost : SUBSET Entries, stale : BOOLEAN, confirmed : BOOLEAN]

LinkOK(l) ==
    /\ l \in LinkType
    /\ l.cur \in 1 .. Cardinality(Entries) + 1
    /\ \A i \in Entries : l.val[i] \in Values[i]
    /\ l.sdo = "up" => l.idx \in Entries
    /\ l.sdo = "down" /\ l.idx # 0 => l.data \in Values[l.idx]
    /\ l.armed => l.sdo \in {"down", "up"}

LEMMA EntriesShape ==
    ASSUME dict \in Dicts
    PROVE  /\ Len(Access) \in Nat /\ Entries = 1 .. Len(Access) /\ 0 \notin Entries
           /\ Cardinality(Entries) = Len(Access) /\ Entries \subseteq Nat
           /\ dict.reads \subseteq Entries /\ dict.outs \subseteq Entries
           /\ Entries \subseteq DOMAIN Values
           /\ dict.heap.upd \subseteq Entries /\ dict.heap.dirty \subseteq Entries
           /\ dict.heap.mode \in [Entries -> SUBSET {"up", "down"}]
<1>1. /\ Access \in Seq({"RO", "RW", "WO"}) /\ Entries \subseteq DOMAIN Values
      /\ dict.reads \subseteq Entries /\ dict.outs \subseteq Entries
  BY DictsAssumption DEF Access, Entries
<1>2. Len(Access) \in Nat /\ Entries = 1 .. Len(Access)
  BY <1>1, SeqShape DEF Access, Entries
<1>3. \A n \in Nat : Cardinality(1 .. n) = n
  <2>1. \A n \in Nat : n - 1 + 1 = n /\ n \in Int
    OBVIOUS
  <2> QED BY <2>1, FS_Interval
<1>4. /\ dict.heap.upd \subseteq Entries /\ dict.heap.dirty \subseteq Entries
      /\ dict.heap.mode \in [Entries -> SUBSET {"up", "down"}]
  BY DictsAssumption DEF Access, Entries
<1> QED BY <1>1, <1>2, <1>3, <1>4

LEMMA ValueShape ==
    ASSUME dict \in Dicts
    PROVE  /\ \A i \in Entries : Values[i] \subseteq AnyValue /\ 0 \in Values[i]
           /\ 0 \in AnyValue /\ 1 \in AnyValue
<1>1. \A i \in Entries : 0 \in Values[i]
  BY EntriesShape, ValuesAssumption
<1> QED BY <1>1 DEF AnyValue

\* Sending a request changes nothing else.
LEMMA TxOK ==
    ASSUME NEW l, LinkOK(l), NEW f \in Requests
    PROVE  LinkOK(Tx(l, f)) /\ Tx(l, f).tx = Append(l.tx, f)
<1>1. Append(l.tx, f) \in Seq(Requests)
  BY DEF LinkOK, LinkType
<1> QED BY <1>1 DEF LinkOK, LinkType, Tx

LEMMA NmtOK ==
    ASSUME NEW l, LinkOK(l), NEW c \in {"pre", "op", "reset"}
    PROVE  LinkOK(Nmt(l, c))
<1>1. [k |-> "nmt", c |-> c] \in Requests
  BY DEF Requests
<1> QED BY <1>1, TxOK DEF Nmt

LEMMA DownLoadOK ==
    ASSUME dict \in Dicts, NEW l, LinkOK(l), NEW i \in Entries \cup {0}, NEW v \in AnyValue,
           i # 0 => v \in Values[i]
    PROVE  LinkOK(DownLoad(l, i, v))
<1> DEFINE d == [l EXCEPT !.sdo = "down", !.idx = i, !.data = v, !.armed = TRUE, !.stale = FALSE]
           f == [k |-> "down", i |-> i, v |-> v, now |-> TRUE]
<1>1. LinkOK(d)
  BY DEF LinkOK, LinkType
<1>2. f \in Requests
  BY DEF Requests
<1> HIDE DEF d, f
<1>3. LinkOK(Tx(d, f))
  BY <1>1, <1>2, TxOK
<1> QED BY <1>3 DEF DownLoad, d, f

LEMMA WritingShape == ASSUME NEW l, LinkOK(l) PROVE Writing(l) \subseteq Entries
  BY DEF LinkOK, LinkType, Writing

LEMMA UpLoadOK ==
    ASSUME NEW l, LinkOK(l), NEW i \in Entries
    PROVE  LinkOK(UpLoad(l, i))
<1> DEFINE w == l.lost \cup Writing(l)
           u == [l EXCEPT !.sdo = "up", !.idx = i, !.armed = TRUE, !.stale = FALSE, !.lost = w]
           f == [k |-> "up", i |-> i]
<1>1. w \subseteq Entries
  BY WritingShape DEF LinkOK, LinkType
<1>2. LinkOK(u)
  <2> HIDE DEF w
  <2> QED BY <1>1 DEF LinkOK, LinkType
<1>3. f \in Requests
  BY DEF Requests
<1>4. UpLoad(l, i) = Tx(u, f)
  BY DEF UpLoad
<1> HIDE DEF u, f
<1> QED BY <1>2, <1>3, <1>4, TxOK

LEMMA EndOK ==
    ASSUME dict \in Dicts, NEW l, LinkOK(l), NEW s \in {"finished", "aborted"}
    PROVE  LinkOK(End(l, s))
  BY ValueShape DEF LinkOK, LinkType, End

LEMMA LostOK ==
    ASSUME NEW l, LinkOK(l), NEW w, w \subseteq Entries
    PROVE  LinkOK([l EXCEPT !.lost = w])
  BY DEF LinkOK, LinkType

LEMMA FailOK == ASSUME dict \in Dicts, NEW l, LinkOK(l) PROVE LinkOK(Fail(l))
<1> DEFINE e == End(l, "aborted")
           w == e.lost \cup Writing(l)
<1>1. LinkOK(e)
  BY EndOK
<1>2. w \subseteq Entries
  BY <1>1, WritingShape DEF LinkOK, LinkType
<1>3. Fail(l) = [e EXCEPT !.lost = w]
  BY DEF Fail
<1> HIDE DEF e, w
<1> QED BY <1>1, <1>2, <1>3, LostOK

LEMMA RecvOK ==
    ASSUME dict \in Dicts, NEW l, LinkOK(l), NEW f \in Answers
    PROVE  LinkOK(Recv(l, f))
<1> DEFINE e == End(l, "finished")
<1>1. LinkOK(e)
  BY EndOK
<1>2. f.k = "upAnswer" => LinkOK(RecvUpLoad(l, f))
  <2> SUFFICES ASSUME f.k = "upAnswer" PROVE LinkOK(RecvUpLoad(l, f))
    OBVIOUS
  <2>1. f.i \in Entries /\ f.v \in Values[f.i] /\ f.v \in AnyValue
    BY DEF Answers
  <2>2. CASE RecvUpLoad(l, f) = Fail(l)
    BY <2>2, FailOK
  <2>3. CASE RecvUpLoad(l, f) = [l EXCEPT !.armed = FALSE, !.stale = TRUE]
    BY <2>3 DEF LinkOK, LinkType
  <2>4. CASE l.sdo = "up" /\ Matches(l, f) /\ Access[l.idx] # "RO"
    <3> DEFINE w == IF f.v # e.val[l.idx] THEN e.lost \cup {l.idx} ELSE e.lost
               v == [e EXCEPT !.val[f.i] = f.v]
    <3>1. e.val = l.val /\ e.lost \subseteq Entries
      BY <1>1 DEF End, LinkOK, LinkType
    <3>2. RecvUpLoad(l, f) = [v EXCEPT !.lost = w]
      BY <2>4, <3>1 DEF RecvUpLoad, Matches, End, LinkOK, LinkType
    <3>3. w \subseteq Entries
      BY <3>1, <2>1, <2>4 DEF Matches
    <3> HIDE DEF e, w
    <3>4. LinkOK(v)
      BY <1>1, <2>1, ZenonT(60) DEF LinkOK, LinkType
    <3> HIDE DEF v
    <3> QED BY <3>2, <3>3, <3>4, LostOK
  <2> QED BY <2>2, <2>3, <2>4 DEF RecvUpLoad
<1>3. LinkOK(RecvDownLoad(l, f))
  <2>1. CASE RecvDownLoad(l, f) = Fail(l)
    BY <2>1, FailOK
  <2>2. CASE RecvDownLoad(l, f) = l
    BY <2>2
  <2>3. CASE l.sdo = "down" /\ Matches(l, f)
    <3> DEFINE w == IF f.now THEN e.lost ELSE e.lost \cup Writing(l)
               c == e.confirmed \/ l.idx = 0
               d == [e EXCEPT !.confirmed = c]
    <3>1. RecvDownLoad(l, f) = [d EXCEPT !.lost = w]
      BY <2>3, <1>1 DEF RecvDownLoad, Answered, LinkOK, LinkType
    <3>2. c \in BOOLEAN
      BY <1>1 DEF LinkOK, LinkType
    <3>3. w \subseteq Entries
      BY <1>1, WritingShape DEF LinkOK, LinkType
    <3> HIDE DEF e, w, c
    <3>4. LinkOK(d)
      BY <1>1, <3>2, ZenonT(60) DEF LinkOK, LinkType
    <3> HIDE DEF d
    <3> QED BY <3>1, <3>3, <3>4, LostOK
  <2> QED BY <2>1, <2>2, <2>3 DEF RecvDownLoad, Answered
<1>4. f.k \notin {"upAnswer", "downAnswer"} => LinkOK([l EXCEPT !.nmt = f.s])
  <2>1. f.k \notin {"upAnswer", "downAnswer"} => f.s \in {"init", "pre", "op"}
    BY DEF Answers
  <2> QED BY <2>1 DEF LinkOK, LinkType
<1> QED BY <1>2, <1>3, <1>4 DEF Recv

\* Status and state of the device are no part of the rest.
LEMMA StatusOK ==
    ASSUME NEW l, LinkOK(l), NEW s \in {"initial", "config", "normal"},
           NEW c \in {0, 1}, NEW b \in BOOLEAN
    PROVE  LinkOK([l EXCEPT !.status = s, !.conf = c, !.confirmed = b])
<1> DEFINE m == [l EXCEPT !.status = s, !.conf = c, !.confirmed = b]
<1>1. m \in LinkType
  BY DEF LinkOK, LinkType
<1>2. m.cur = l.cur /\ m.val = l.val /\ m.sdo = l.sdo /\ m.idx = l.idx /\ m.data = l.data /\ m.armed = l.armed
  BY DEF LinkOK, LinkType
<1>3. LinkOK(m)
  <2> HIDE DEF m
  <2> QED BY <1>1, <1>2 DEF LinkOK
<1> QED BY <1>3

LEMMA AfterAbortOK == ASSUME NEW l, LinkOK(l) PROVE LinkOK(AfterAbort(l))
<1> DEFINE m == [l EXCEPT !.status = "normal", !.sdo = "finished", !.nmt = "op",
                          !.confirmed = FALSE]
<1>1. m \in LinkType
  BY DEF LinkOK, LinkType
<1>2. /\ m.cur = l.cur /\ m.val = l.val /\ m.sdo = "finished" /\ m.armed = l.armed
  BY DEF LinkOK, LinkType
<1>3. AfterAbort(l) = IF l.sdo # "aborted" THEN l ELSE m
  BY DEF AfterAbort
<1> HIDE DEF m
<1> QED BY <1>1, <1>2, <1>3 DEF LinkOK

LEMMA InitialOK == ASSUME dict \in Dicts, NEW l, LinkOK(l) PROVE LinkOK(Initial(l))
<1> DEFINE c == [l EXCEPT !.status = "config", !.cur = 1, !.conf = 0, !.open = TRUE,
                          !.confirmed = FALSE]
<1>1. 1 \in 1 .. Cardinality(Entries) + 1
  BY EntriesShape
<1>2. LinkOK(c)
  BY <1>1 DEF LinkOK, LinkType
<1> HIDE DEF c
<1> QED BY <1>2, NmtOK DEF Initial, c

LEMMA ConfigOK == ASSUME dict \in Dicts, NEW l, LinkOK(l) PROVE LinkOK(Config(l))
<1> DEFINE p == IF l.nmt # "pre" THEN Nmt(l, "pre") ELSE l
           d == DownLoad(p, 0, 1)
<1>1. LinkOK(p)
  BY NmtOK
<1> HIDE DEF p
<1>2. LinkOK([p EXCEPT !.status = "normal", !.conf = 0, !.confirmed = FALSE])
  BY <1>1, StatusOK
<1>3. LinkOK(d)
  BY <1>1, DownLoadOK, ValueShape
<1> HIDE DEF d
<1>4. LinkOK([d EXCEPT !.conf = 1])
  BY <1>3, ZenonT(60) DEF LinkOK, LinkType
<1> QED BY <1>2, <1>4 DEF Config, p, d

LEMMA DoneOK ==
    ASSUME dict \in Dicts, NEW l, LinkOK(l), NEW i \in Entries
    PROVE  LinkOK(Done(l, i))
<1>1. i + 1 \in 1 .. Cardinality(Entries) + 1 /\ i + 1 \in Nat
  BY EntriesShape
<1> QED BY <1>1 DEF LinkOK, LinkType, Done

LEMMA TransferOK ==
    ASSUME dict \in Dicts, NEW l, LinkOK(l), NEW i \in Entries
    PROVE  LinkOK(Transfer(l, i))
<1> DEFINE d == IF "down" \in l.mode[i] THEN DownLoad(l, i, l.val[i]) ELSE l
           u == IF "up" \in l.mode[i] THEN UpLoad(d, i) ELSE d
<1>1. l.val[i] \in AnyValue /\ l.val[i] \in Values[i]
  BY DEF LinkOK, LinkType
<1>2. LinkOK(d)
  BY <1>1, DownLoadOK
<1>3. Transfer(l, i) = Done(u, i)
  BY DEF Transfer
<1> HIDE DEF d
<1>4. LinkOK(u)
  BY <1>2, UpLoadOK
<1> HIDE DEF u
<1> QED BY <1>3, <1>4, DoneOK

\* The entry that Canopen_Run finds is one of those that are marked.
LEMMA Found ==
    ASSUME NEW S, S \subseteq Nat, S # {}
    PROVE  Min(S) \in S
<1>1. \E x \in S : \A y \in S : x <= y
  BY SmallestNat
<1> QED BY <1>1 DEF Min

LEMMA NormalOK == ASSUME dict \in Dicts, NEW l, LinkOK(l) PROVE LinkOK(Normal(l))
<1> DEFINE p    == IF l.nmt # "op" THEN Nmt(l, "op") ELSE l
           todo == {i \in l.upd : i >= From(l)}
           last == Cardinality(Entries) + 1
<1>1. LinkOK(p)
  BY NmtOK
<1>2. todo # {} => Min(todo) \in Entries
  <2>1. todo \subseteq Entries /\ Entries \subseteq Nat
    BY EntriesShape DEF LinkOK, LinkType
  <2> HIDE DEF todo
  <2> QED BY <2>1, Found
<1>3. LinkOK([p EXCEPT !.cur = last])
  <2>1. last \in 1 .. Cardinality(Entries) + 1 /\ last \in Nat
    BY EntriesShape
  <2> HIDE DEF p, last
  <2> QED BY <1>1, <2>1 DEF LinkOK, LinkType
<1>4. todo # {} => LinkOK(Transfer(p, Min(todo)))
  <2> HIDE DEF p, todo
  <2> QED BY <1>1, <1>2, TransferOK
<1>5. Normal(l) = IF ~Ready(l) THEN p ELSE IF todo = {} THEN [p EXCEPT !.cur = last]
                  ELSE Transfer(p, Min(todo))
  BY DEF Normal
<1> HIDE DEF p, todo, last
<1> QED BY <1>1, <1>3, <1>4, <1>5

LEMMA RunOK == ASSUME dict \in Dicts, NEW l, LinkOK(l) PROVE LinkOK(Link(l))
<1> DEFINE a == AfterAbort(l)
<1>1. LinkOK(a) /\ a.status \in {"initial", "config", "normal"}
  BY AfterAbortOK DEF LinkOK, LinkType
<1>2. a.status \in {"initial", "config", "normal"} => Link(l) \in {Initial(a), Config(a), Normal(a)}
  BY DEF Link
<1> HIDE DEF a
<1>3. LinkOK(Initial(a)) /\ LinkOK(Config(a)) /\ LinkOK(Normal(a))
  BY <1>1, InitialOK, ConfigOK, NormalOK
<1> QED BY <1>1, <1>2, <1>3

LEMMA ResentOK ==
    ASSUME NEW l, LinkOK(l), l.sdo \in {"down", "up"}
    PROVE  LinkOK(Resent(l))
<1> DEFINE f == IF l.sdo = "down" THEN [k |-> "down", i |-> l.idx, v |-> l.data, now |-> TRUE]
                                  ELSE [k |-> "up", i |-> l.idx]
<1>1. f \in Requests
  BY DEF LinkOK, LinkType, Requests
<1>2. Resent(l) = Tx(l, f)
  BY DEF Resent
<1> HIDE DEF f
<1> QED BY <1>1, <1>2, TxOK

LEMMA SilentOK == ASSUME dict \in Dicts, NEW l, LinkOK(l) PROVE LinkOK(Silent(l))
<1> DEFINE e == End(l, "finished")
           w == e.lost \cup Writing(l)
           u == e.upd \cup dict.heap.dirty
           n == [e EXCEPT !.status = "initial", !.nmt = "pre", !.upd = u]
           s == [n EXCEPT !.lost = w]
<1>1. LinkOK(e)
  BY EndOK
<1>2. w \subseteq Entries /\ u \subseteq Entries
  BY <1>1, WritingShape, EntriesShape DEF LinkOK, LinkType
<1>3. Silent(l) = Nmt(Nmt(s, "reset"), "pre")
  <2>1. [e EXCEPT !.status = "initial", !.nmt = "pre", !.upd = @ \cup dict.heap.dirty,
                  !.lost = @ \cup Writing(l)] = s
    BY <1>1 DEF LinkOK, LinkType
  <2> QED BY <2>1 DEF Silent
<1> HIDE DEF e, w, u
<1>4. LinkOK(n)
  BY <1>1, <1>2, ZenonT(60) DEF LinkOK, LinkType
<1> HIDE DEF n
<1>5. LinkOK(s)
  BY <1>2, <1>4, LostOK
<1> HIDE DEF s
<1>6. LinkOK(Nmt(s, "reset"))
  BY <1>5, NmtOK
<1> QED BY <1>3, <1>6, NmtOK

-----------------------------------------------------------------------------
(* The queues.                                                              *)

\* A queue with frames behind it, as far as there is room.
Behind(S, q, s, r) ==
    /\ r \in Seq(S) /\ Len(r) <= MaxBus /\ Len(r) <= Len(q) + Len(s)
    /\ \A k \in 1 .. Len(r) : r[k] = IF k <= Len(q) THEN q[k] ELSE s[k - Len(q)]

LEMMA QueueShape ==
    ASSUME NEW S, NEW q \in Seq(S), NEW s \in Seq(S)
    PROVE  Behind(S, q, s, Queue(q, s))
<1>1. PICK c \in Seq(S) : c = q \o s
  BY ConcatShape
<1>2. PICK n \in Nat : n = Len(q) + Len(s) /\ n = Len(c)
  BY <1>1, ConcatShape
<1>3. MaxBus \in Nat /\ n \in Nat
  BY BusAssumption
<1>4. PICK m \in Nat : m = Min({MaxBus, n}) /\ m <= MaxBus /\ m <= n
  <2>1. {MaxBus, n} \subseteq Nat /\ {MaxBus, n} # {}
    BY <1>3
  <2>2. \E x \in {MaxBus, n} : \A y \in {MaxBus, n} : x <= y
    BY <2>1, SmallestNat
  <2>3. Min({MaxBus, n}) \in {MaxBus, n} /\ \A y \in {MaxBus, n} : Min({MaxBus, n}) <= y
    BY <2>2 DEF Min
  <2> QED BY <1>3, <2>3
<1>5. m \in 0 .. Len(c)
  BY <1>2, <1>4
<1>6. /\ SubSeq(c, 1, m) \in Seq(S) /\ Len(SubSeq(c, 1, m)) = m
      /\ \A k \in 1 .. m : SubSeq(c, 1, m)[k] = c[k]
  BY <1>5, FirstElements
<1>7. \A k \in 1 .. m : c[k] = IF k <= Len(q) THEN q[k] ELSE s[k - Len(q)]
  <2>1. \A k \in 1 .. m : k \in 1 .. Len(q) + Len(s)
    BY <1>2, <1>4
  <2> QED BY <1>1, <2>1, ConcatElement
<1>8. Queue(q, s) = SubSeq(c, 1, m)
  BY <1>1, <1>2, <1>4 DEF Queue
<1> QED BY <1>2, <1>4, <1>6, <1>7, <1>8 DEF Behind

LEMMA TailShape ==
    ASSUME NEW S, NEW q \in Seq(S), q # <<>>
    PROVE  /\ Head(q) \in S /\ Head(q) = q[1] /\ Tail(q) \in Seq(S) /\ Len(Tail(q)) = Len(q) - 1
           /\ \A k \in 1 .. Len(q) - 1 : Tail(q)[k] = q[k + 1]
           /\ Len(q) \in Nat /\ Len(q) > 0
  OBVIOUS

\* What Earlier does to a frame.
Aged(f) == IF f.k = "down" THEN [f EXCEPT !.now = FALSE] ELSE f

LEMMA AgedShape ==
    ASSUME NEW f \in Requests
    PROVE  /\ Aged(f) \in Requests /\ Aged(f).k = f.k
           /\ f.k = "down" => Aged(f).i = f.i /\ Aged(f).v = f.v /\ ~Aged(f).now
  BY DEF Requests, Aged

LEMMA EarlierShape ==
    ASSUME NEW q \in Seq(Requests)
    PROVE  /\ Earlier(q) \in Seq(Requests) /\ Len(Earlier(q)) = Len(q)
           /\ \A k \in 1 .. Len(q) : Earlier(q)[k] = Aged(q[k])
<1>1. PICK n \in Nat : n = Len(q) /\ DOMAIN q = 1 .. n
  BY SeqShape
<1>2. \A k \in 1 .. n : q[k] \in Requests
  BY <1>1, SeqShape
<1>3. Earlier(q) = [k \in 1 .. n |-> Aged(q[k])]
  BY <1>1 DEF Earlier, Aged
<1> DEFINE e == [k \in 1 .. n |-> Aged(q[k])]
<1>4. e \in [1 .. n -> Requests]
  BY <1>2, AgedShape
<1>5. e \in Seq(Requests) /\ Len(e) = n
  <2> HIDE DEF e
  <2> QED BY <1>4, FunctionIsSeq
<1> QED BY <1>1, <1>3, <1>5

-----------------------------------------------------------------------------
(* Type correctness.                                                        *)

QueuesOK ==
    /\ toNode \in Seq(Requests) /\ Len(toNode) <= MaxBus
    /\ toMaster \in Seq(Answers) /\ Len(toMaster) <= MaxBus

DeviceOK(n) ==
    /\ n \in [on : BOOLEAN, state : {"init", "pre", "op"}, hb : BOOLEAN, reg : [Entries -> AnyValue]]
    /\ \A i \in Entries : n.reg[i] \in Values[i]

NodeOK == DeviceOK(node)

WantOK == want \in [Entries -> AnyValue] /\ \A i \in Entries : want[i] \in Values[i]

TypesInv == dict \in Dicts /\ LinkOK(link) /\ link.tx = <<>> /\ QueuesOK /\ NodeOK /\ WantOK

\* The sets depend on the dictionary alone.
LEMMA SameSets ==
    ASSUME dict' = dict
    PROVE  /\ Entries' = Entries /\ Access' = Access /\ Requests' = Requests /\ Answers' = Answers
           /\ LinkType' = LinkType /\ AnyValue' = AnyValue
  BY DEF Entries, Access, Requests, Answers, LinkType, AnyValue

LEMMA SameLinkOK == ASSUME dict' = dict, LinkOK(link') PROVE (LinkOK(link))'
  BY SameSets DEF LinkOK

LEMMA InitTypes == Init => TypesInv
<1> SUFFICES ASSUME Init PROVE TypesInv
  OBVIOUS
<1>1. dict \in Dicts /\ 1 \in 1 .. Cardinality(Entries) + 1
  BY EntriesShape DEF Init
<1>2. /\ toNode = <<>> /\ toMaster = <<>> /\ want \in Contents
      /\ \E reg \in Contents, hb \in BOOLEAN, state \in {"pre", "op"} :
            /\ node = [on |-> TRUE, state |-> state, hb |-> hb, reg |-> reg]
            /\ link = InitLink(want, reg)
  BY DEF Init
<1>3. <<>> \in Seq(Requests) /\ <<>> \in Seq(Answers) /\ Len(<<>>) = 0 /\ 0 <= MaxBus
  BY BusAssumption
<1>8. PICK reg \in Contents, hb \in BOOLEAN, state \in {"pre", "op"} :
         /\ node = [on |-> TRUE, state |-> state, hb |-> hb, reg |-> reg]
         /\ link = InitLink(want, reg)
  BY <1>2
<1>9. ASSUME NEW f \in Contents PROVE f \in [Entries -> AnyValue] /\ \A i \in Entries : f[i] \in Values[i]
  BY <1>9 DEF Contents, AnyValue
<1>10. {i \in Entries : want[i] # reg[i]} \subseteq Entries
  OBVIOUS
<1>4. link \in LinkType
  BY <1>1, <1>2, <1>3, <1>8, <1>9, <1>10, ValueShape, EntriesShape DEF InitLink, LinkType
<1>5. LinkOK(link) /\ link.tx = <<>>
  BY <1>1, <1>2, <1>4, <1>8, <1>9 DEF InitLink, LinkOK
<1>6. QueuesOK
  BY <1>2, <1>3 DEF QueuesOK
<1>7. NodeOK /\ WantOK
  BY <1>2, <1>8, <1>9 DEF NodeOK, DeviceOK, WantOK
<1> QED BY <1>1, <1>2, <1>5, <1>6, <1>7 DEF TypesInv

LEMMA RecvSends == ASSUME dict \in Dicts, NEW l, LinkOK(l), NEW f PROVE Recv(l, f).tx = l.tx
<1> DEFINE e == End(l, "finished")
<1>1. \A s \in {"finished", "aborted"} : LinkOK(End(l, s)) /\ End(l, s).tx = l.tx
  <2>1. \A s \in {"finished", "aborted"} : LinkOK(End(l, s))
    BY EndOK
  <2>2. \A s : End(l, s).tx = l.tx
    BY DEF End, LinkOK, LinkType
  <2> QED BY <2>1, <2>2
<1>2. LinkOK(e) /\ e.tx = l.tx
  BY <1>1
<1>3. Fail(l).tx = l.tx
  <2> DEFINE a == End(l, "aborted")
             w == a.lost \cup Writing(l)
  <2>1. LinkOK(a) /\ a.tx = l.tx
    BY <1>1
  <2>2. Fail(l) = [a EXCEPT !.lost = w]
    BY DEF Fail
  <2> HIDE DEF a, w
  <2> QED BY <2>1, <2>2 DEF LinkOK, LinkType
<1>4. RecvUpLoad(l, f).tx = l.tx
  <2> DEFINE w == IF f.v # l.val[l.idx] THEN e.lost \cup {l.idx} ELSE e.lost
  <2>1. RecvUpLoad(l, f) \in {Fail(l), [l EXCEPT !.armed = FALSE, !.stale = TRUE],
                              [e EXCEPT !.val[l.idx] = f.v, !.lost = w]}
    BY DEF RecvUpLoad, End, LinkOK, LinkType
  <2>2. [l EXCEPT !.armed = FALSE, !.stale = TRUE].tx = l.tx
    BY DEF LinkOK, LinkType
  <2> HIDE DEF e, w
  <2>3. [e EXCEPT !.val[l.idx] = f.v, !.lost = w].tx = e.tx
    BY <1>2 DEF LinkOK, LinkType
  <2> QED BY <1>2, <1>3, <2>1, <2>2, <2>3
<1>5. RecvDownLoad(l, f).tx = l.tx
  <2> DEFINE w == IF f.now THEN e.lost ELSE e.lost \cup Writing(l)
             c == e.confirmed \/ l.idx = 0
  <2>1. RecvDownLoad(l, f) \in {Fail(l), l, [e EXCEPT !.confirmed = c, !.lost = w]}
    BY DEF RecvDownLoad, Answered
  <2> HIDE DEF e, w, c
  <2>2. [e EXCEPT !.confirmed = c, !.lost = w].tx = e.tx
    BY <1>2 DEF LinkOK, LinkType
  <2> QED BY <1>2, <1>3, <2>1, <2>2
<1>6. [l EXCEPT !.nmt = f.s].tx = l.tx
  BY DEF LinkOK, LinkType
<1> QED BY <1>4, <1>5, <1>6 DEF Recv

LEMMA ReadTypes == ASSUME TypesInv, Read PROVE TypesInv'
<1>1. PICK q \in Seq(Answers) : q = toMaster /\ q # <<>> /\ Len(q) <= MaxBus
  BY DEF TypesInv, QueuesOK, Read
<1>2. PICK f \in Answers : f = Head(toMaster)
  BY <1>1, TailShape
<1>3. LinkOK(link') /\ link' = Recv(link, f)
  BY <1>2, RecvOK DEF Read, TypesInv
<1>4. link'.tx = <<>>
  <2>1. Recv(link, f).tx = link.tx
    BY RecvSends DEF TypesInv
  <2> QED BY <1>3, <2>1 DEF TypesInv
<1>5. QueuesOK'
  <2>1. toMaster' \in Seq(Answers) /\ Len(toMaster') <= MaxBus
    BY <1>1, TailShape, BusAssumption DEF Read
  <2>2. toNode' = toNode /\ dict' = dict
    BY DEF Read
  <2> QED BY <2>1, <2>2, SameSets DEF QueuesOK, TypesInv
<1>6. NodeOK' /\ WantOK' /\ dict' = dict
  BY SameSets DEF Read, NodeOK, DeviceOK, WantOK, TypesInv
<1> QED BY <1>3, <1>4, <1>5, <1>6, SameLinkOK DEF TypesInv

LEMMA FinishTypes ==
    ASSUME TypesInv, NEW l, LinkOK(l), Finish(l)
    PROVE  TypesInv'
<1>1. link' = [l EXCEPT !.tx = <<>>] /\ dict' = dict /\ UNCHANGED <<toMaster, node, want>>
  BY DEF Finish
<1>2. LinkOK(link') /\ link'.tx = <<>>
  <2>1. <<>> \in Seq(Requests)
    OBVIOUS
  <2> QED BY <1>1, <2>1 DEF LinkOK, LinkType
<1>3. toNode \in Seq(Requests) /\ Len(toNode) <= MaxBus /\ l.tx \in Seq(Requests)
  BY DEF TypesInv, QueuesOK, LinkOK, LinkType
<1>4. PICK q \in Seq(Requests) : q = IF link.sdo = "down" THEN toNode ELSE Earlier(toNode)
  BY <1>3, EarlierShape
<1>5. PICK s \in Seq(Requests) : s = IF Repetition(l.tx) THEN Tail(l.tx) ELSE l.tx
  <2>1. Repetition(l.tx) => l.tx # <<>>
    BY DEF Repetition
  <2> QED BY <1>3, <2>1, TailShape
<1>6. toNode' = Queue(q, s)
  BY <1>4, <1>5 DEF Finish
<1>7. toNode' \in Seq(Requests) /\ Len(toNode') <= MaxBus
  BY <1>6, QueueShape DEF Behind
<1>8. QueuesOK'
  BY <1>1, <1>7, SameSets DEF QueuesOK, TypesInv
<1>9. NodeOK' /\ WantOK'
  BY <1>1, SameSets DEF NodeOK, DeviceOK, WantOK, TypesInv
<1> QED BY <1>1, <1>2, <1>8, <1>9, SameLinkOK DEF TypesInv

-----------------------------------------------------------------------------
(* What a step of the master does to writes: an entry keeps its mark until  *)
(* its value is sent, a transfer is the same until it ends, and the frames  *)
(* sent are those of the transfer under way or of one that is noted.        *)

Marked(l, i) == i \in l.upd /\ "down" \in l.mode[i]

Same(l, m) ==
    /\ m.sdo = l.sdo /\ m.idx = l.idx /\ m.data = l.data /\ m.val = l.val
    /\ m.upd = l.upd /\ m.mode = l.mode /\ m.lost = l.lost

SentOK(l) ==
    \A k \in 1 .. Len(l.tx) : l.tx[k].k = "down" =>
        l.tx[k].now /\ IF l.sdo = "down" THEN l.tx[k].i = l.idx /\ l.tx[k].v = l.data
                                         ELSE l.tx[k].i \in l.lost \cup {0}

NoWrites(l) == \A k \in 1 .. Len(l.tx) : l.tx[k].k # "down"

Works(l, m) ==
    /\ m.val = l.val /\ l.lost \subseteq m.lost
    /\ m.sdo = "down" => IF l.sdo = "down" THEN m.idx = l.idx /\ m.data = l.data
                                           ELSE m.idx = 0 \/ m.data = m.val[m.idx]
    /\ l.sdo = "down" /\ m.sdo # "down" => l.idx \in m.lost \cup {0}
    /\ \A i \in Entries : Marked(l, i) =>
          Marked(m, i) \/ i \in m.lost \/ (l.sdo # "down" /\ m.sdo = "down" /\ m.idx = i)

\* What a frame more changes.
Sends(l, f, m) ==
    /\ Same(l, m) /\ m.armed = l.armed /\ m.nmt = l.nmt /\ m.status = l.status
    /\ Len(m.tx) = Len(l.tx) + 1 /\ Len(l.tx) \in Nat
    /\ \A k \in 1 .. Len(m.tx) : m.tx[k] = IF k <= Len(l.tx) THEN l.tx[k] ELSE f

LEMMA TxSends ==
    ASSUME NEW l, LinkOK(l), NEW f \in Requests
    PROVE  Sends(l, f, Tx(l, f))
<1>1. PICK q \in Seq(Requests) : q = l.tx
  BY DEF LinkOK, LinkType
<1>2. /\ Len(Append(q, f)) = Len(q) + 1 /\ Len(q) \in Nat
      /\ \A k \in 1 .. Len(q) + 1 : Append(q, f)[k] = IF k <= Len(q) THEN q[k] ELSE f
  OBVIOUS
<1>3. Tx(l, f).tx = Append(q, f)
  BY <1>1 DEF Tx, LinkOK, LinkType
<1>4. Same(l, Tx(l, f)) /\ Tx(l, f).armed = l.armed /\ Tx(l, f).nmt = l.nmt /\ Tx(l, f).status = l.status
  BY DEF Tx, LinkOK, LinkType, Same
<1> QED BY <1>1, <1>2, <1>3, <1>4 DEF Sends

LEMMA NmtSends ==
    ASSUME NEW l, LinkOK(l), NEW c \in {"pre", "op", "reset"}
    PROVE  /\ Same(l, Nmt(l, c)) /\ Nmt(l, c).armed = l.armed /\ Nmt(l, c).status = l.status
           /\ SentOK(l) => SentOK(Nmt(l, c))
           /\ NoWrites(l) => NoWrites(Nmt(l, c))
<1>1. PICK f \in Requests : f = [k |-> "nmt", c |-> c]
  BY DEF Requests
<1>2. Sends(l, f, Nmt(l, c)) /\ f.k # "down"
  BY <1>1, TxSends DEF Nmt
<1> QED BY <1>2, SMTT(30) DEF Sends, Same, SentOK, NoWrites

LEMMA DownLoadSends ==
    ASSUME dict \in Dicts, NEW l, LinkOK(l), NEW i \in Entries \cup {0}, NEW v \in AnyValue,
           i # 0 => v \in Values[i], NoWrites(l)
    PROVE  LET m == DownLoad(l, i, v)
           IN  /\ m.sdo = "down" /\ m.idx = i /\ m.data = v /\ SentOK(m)
               /\ m.val = l.val /\ m.upd = l.upd /\ m.mode = l.mode /\ m.lost = l.lost
<1> DEFINE d == [l EXCEPT !.sdo = "down", !.idx = i, !.data = v, !.armed = TRUE, !.stale = FALSE]
<1>1. PICK f \in Requests : f = [k |-> "down", i |-> i, v |-> v, now |-> TRUE]
  BY DEF Requests
<1>2. LinkOK(d)
  BY DEF LinkOK, LinkType
<1>3. /\ d.sdo = "down" /\ d.idx = i /\ d.data = v /\ d.tx = l.tx
      /\ d.val = l.val /\ d.upd = l.upd /\ d.mode = l.mode /\ d.lost = l.lost
  BY DEF LinkOK, LinkType
<1>4. DownLoad(l, i, v) = Tx(d, f)
  BY <1>1 DEF DownLoad
<1> HIDE DEF d
<1>5. PICK m : m = DownLoad(l, i, v) /\ Sends(d, f, m)
  BY <1>2, <1>4, TxSends
<1>6. m.sdo = "down" /\ m.idx = i /\ m.data = v
  BY <1>3, <1>5 DEF Sends, Same
<1>7. SentOK(m)
  BY <1>1, <1>3, <1>5, <1>6 DEF Sends, SentOK, NoWrites
<1>8. m.val = l.val /\ m.upd = l.upd /\ m.mode = l.mode /\ m.lost = l.lost
  BY <1>3, <1>5 DEF Sends, Same
<1> QED BY <1>5, <1>6, <1>7, <1>8

LEMMA UpLoadSends ==
    ASSUME NEW l, LinkOK(l), NEW i \in Entries, SentOK(l)
    PROVE  LET m == UpLoad(l, i)
           IN  /\ m.sdo = "up" /\ m.lost = l.lost \cup Writing(l) /\ SentOK(m)
               /\ m.val = l.val /\ m.upd = l.upd /\ m.mode = l.mode
<1> DEFINE w == l.lost \cup Writing(l)
           u == [l EXCEPT !.sdo = "up", !.idx = i, !.armed = TRUE, !.stale = FALSE, !.lost = w]
<1>1. PICK f \in Requests : f = [k |-> "up", i |-> i]
  BY DEF Requests
<1>2. w \subseteq Entries
  BY WritingShape DEF LinkOK, LinkType
<1>3. /\ LinkOK(u) /\ u.sdo = "up" /\ u.lost = w /\ u.tx = l.tx
      /\ u.val = l.val /\ u.upd = l.upd /\ u.mode = l.mode
  <2> HIDE DEF w
  <2> QED BY <1>2 DEF LinkOK, LinkType
<1>4. UpLoad(l, i) = Tx(u, f)
  BY <1>1 DEF UpLoad
<1>5. l.sdo = "down" => l.idx \in w \cup {0}
  BY DEF Writing
<1>6. l.lost \subseteq w
  OBVIOUS
<1> HIDE DEF u, w
<1>7. PICK m : m = UpLoad(l, i) /\ Sends(u, f, m)
  BY <1>3, <1>4, TxSends
<1>8. m.sdo = "up" /\ m.lost = w /\ m.val = l.val /\ m.upd = l.upd /\ m.mode = l.mode
  BY <1>3, <1>7 DEF Sends, Same
<1>9. SentOK(m)
  BY <1>1, <1>3, <1>5, <1>6, <1>7, <1>8 DEF Sends, SentOK
<1> QED BY <1>7, <1>8, <1>9 DEF w

LEMMA SameWorks ==
    ASSUME NEW l, NEW m, Same(l, m)
    PROVE  Works(l, m)
  BY DEF Same, Works, Marked

\* A transfer under way is not touched.
Busy(l, m) == l.sdo \in {"down", "up"} => m.sdo = l.sdo /\ m.idx = l.idx /\ m.data = l.data

LEMMA AfterAbortWorks ==
    ASSUME NEW l, LinkOK(l), NEW a, a = AfterAbort(l)
    PROVE  /\ a.val = l.val /\ a.upd = l.upd /\ a.mode = l.mode /\ a.lost = l.lost /\ a.tx = l.tx
           /\ a.idx = l.idx /\ a.data = l.data /\ a.armed = l.armed
           /\ a.sdo = IF l.sdo = "aborted" THEN "finished" ELSE l.sdo
  BY DEF AfterAbort, LinkOK, LinkType

LEMMA InitialWorks ==
    ASSUME dict \in Dicts, NEW l, LinkOK(l), NoWrites(l)
    PROVE  Works(l, Initial(l)) /\ SentOK(Initial(l)) /\ Busy(l, Initial(l))
<1> DEFINE c == [l EXCEPT !.status = "config", !.cur = 1, !.conf = 0, !.open = TRUE,
                          !.confirmed = FALSE]
<1>1. 1 \in 1 .. Cardinality(Entries) + 1
  BY EntriesShape
<1>2. LinkOK(c)
  BY <1>1 DEF LinkOK, LinkType
<1>3. Same(l, c) /\ c.tx = l.tx
  BY DEF LinkOK, LinkType, Same
<1>4. Initial(l) = Nmt(c, "pre")
  BY DEF Initial
<1> HIDE DEF c
<1>5. PICK m : m = Initial(l) /\ Same(c, m) /\ (NoWrites(c) => NoWrites(m))
  BY <1>2, <1>4, NmtSends
<1>6. NoWrites(m)
  BY <1>3, <1>5 DEF NoWrites
<1>7. Same(l, m)
  BY <1>3, <1>5 DEF Same
<1>8. SentOK(m)
  BY <1>6 DEF NoWrites, SentOK
<1> QED BY <1>5, <1>7, <1>8, SameWorks DEF Same, Busy

LEMMA ConfigWorks ==
    ASSUME dict \in Dicts, NEW l, LinkOK(l), NoWrites(l)
    PROVE  Works(l, Config(l)) /\ SentOK(Config(l)) /\ Busy(l, Config(l))
<1>1. PICK p : /\ p = IF l.nmt # "pre" THEN Nmt(l, "pre") ELSE l
               /\ LinkOK(p) /\ Same(l, p) /\ NoWrites(p)
  BY NmtOK, NmtSends DEF Same
<1> DEFINE n == [p EXCEPT !.status = "normal", !.conf = 0, !.confirmed = FALSE]
           d == DownLoad(p, 0, 1)
<1>2. Config(l) = IF ~Ready(l) THEN l ELSE IF l.conf = 1 THEN n ELSE [d EXCEPT !.conf = 1]
  BY <1>1 DEF Config
<1>3. CASE ~Ready(l)
  <2>1. Config(l) = l
    BY <1>2, <1>3
  <2>2. SentOK(l) /\ Same(l, l)
    BY DEF NoWrites, SentOK, Same
  <2> QED BY <2>1, <2>2, SameWorks DEF Busy
<1>4. CASE Ready(l) /\ l.conf = 1
  <2>1. Config(l) = n
    BY <1>2, <1>4
  <2>2. Same(p, n) /\ n.tx = p.tx
    BY <1>1 DEF LinkOK, LinkType, Same
  <2> HIDE DEF n
  <2>3. Same(l, n)
    BY <1>1, <2>2 DEF Same
  <2>4. SentOK(n)
    BY <1>1, <2>2 DEF NoWrites, SentOK
  <2> QED BY <2>1, <2>3, <2>4, SameWorks DEF Same, Busy
<1>5. CASE Ready(l) /\ l.conf # 1
  <2>1. /\ d.sdo = "down" /\ d.idx = 0 /\ d.data = 1 /\ SentOK(d)
        /\ d.val = p.val /\ d.upd = p.upd /\ d.mode = p.mode /\ d.lost = p.lost
    BY <1>1, DownLoadSends, ValueShape
  <2>2. LinkOK(d)
    BY <1>1, DownLoadOK, ValueShape
  <2>3. Config(l) = [d EXCEPT !.conf = 1]
    BY <1>2, <1>5
  <2> HIDE DEF d
  <2>4. PICK m : m = Config(l) /\ Same(d, m) /\ m.tx = d.tx
    BY <2>2, <2>3 DEF LinkOK, LinkType, Same
  <2>5. SentOK(m)
    BY <2>1, <2>4 DEF SentOK, Same
  <2>6. /\ m.sdo = "down" /\ m.idx = 0 /\ m.val = l.val /\ m.upd = l.upd /\ m.mode = l.mode
        /\ m.lost = l.lost
    BY <1>1, <2>1, <2>4 DEF Same
  <2>7. l.sdo = "finished"
    BY <1>5 DEF Ready
  <2>8. Works(l, m)
    BY <2>6, <2>7 DEF Works, Marked
  <2> QED BY <2>4, <2>5, <2>7, <2>8 DEF Busy
<1> QED BY <1>3, <1>4, <1>5

LEMMA TransferWorks ==
    ASSUME dict \in Dicts, NEW l, LinkOK(l), NoWrites(l), l.sdo = "finished", NEW i \in Entries
    PROVE  Works(l, Transfer(l, i)) /\ SentOK(Transfer(l, i))
<1>1. l.val[i] \in AnyValue /\ l.val[i] \in Values[i]
  BY DEF LinkOK, LinkType
<1>2. PICK d : /\ d = (IF "down" \in l.mode[i] THEN DownLoad(l, i, l.val[i]) ELSE l)
               /\ LinkOK(d) /\ SentOK(d)
               /\ d.val = l.val /\ d.upd = l.upd /\ d.mode = l.mode /\ d.lost = l.lost
               /\ IF "down" \in l.mode[i] THEN d.sdo = "down" /\ d.idx = i /\ d.data = l.val[i]
                                          ELSE d.sdo = "finished"
  <2>1. CASE "down" \in l.mode[i]
    BY <1>1, <2>1, DownLoadOK, DownLoadSends
  <2>2. CASE "down" \notin l.mode[i]
    BY <2>2 DEF NoWrites, SentOK
  <2> QED BY <2>1, <2>2
<1>3. PICK u : /\ u = (IF "up" \in l.mode[i] THEN UpLoad(d, i) ELSE d)
               /\ LinkOK(u) /\ SentOK(u) /\ u.val = l.val /\ u.upd = l.upd /\ u.mode = l.mode
               /\ IF "up" \in l.mode[i] THEN u.sdo = "up" /\ u.lost = d.lost \cup Writing(d)
                                        ELSE u = d
  BY <1>2, UpLoadOK, UpLoadSends
<1>4. Transfer(l, i) = Done(u, i)
  BY <1>2, <1>3 DEF Transfer
<1>5. PICK m : m = Transfer(l, i)
  OBVIOUS
<1>6. /\ m.val = u.val /\ m.lost = u.lost /\ m.sdo = u.sdo /\ m.idx = u.idx /\ m.data = u.data
      /\ m.upd = u.upd \ {i} /\ m.mode = [u.mode EXCEPT ![i] = {}] /\ m.tx = u.tx
  BY <1>3, <1>4, <1>5, ZenonT(60) DEF Done, LinkOK, LinkType
<1>7. SentOK(m)
  BY <1>3, <1>6 DEF SentOK
<1>8. l.lost \subseteq m.lost
  BY <1>2, <1>3, <1>6
<1>9. m.sdo = "down" => m.idx = i /\ m.data = m.val[m.idx]
  <2> SUFFICES ASSUME m.sdo = "down" PROVE m.idx = i /\ m.data = m.val[m.idx]
    OBVIOUS
  <2>1. u = d
    BY <1>3, <1>6
  <2>2. d.idx = i /\ d.data = l.val[i]
    BY <1>2, <1>6, <2>1
  <2>3. m.val[i] = l.val[i]
    BY <1>3, <1>6
  <2> QED BY <1>6, <2>1, <2>2, <2>3
<1>10. Marked(l, i) => i \in m.lost \/ (m.sdo = "down" /\ m.idx = i)
  <2> SUFFICES ASSUME Marked(l, i) PROVE i \in m.lost \/ (m.sdo = "down" /\ m.idx = i)
    OBVIOUS
  <2>1. d.sdo = "down" /\ d.idx = i /\ i # 0
    BY <1>2, EntriesShape DEF Marked
  <2>2. CASE "up" \in l.mode[i]
    BY <1>3, <1>6, <2>1, <2>2 DEF Writing
  <2>3. CASE "up" \notin l.mode[i]
    BY <1>3, <1>6, <2>1, <2>3
  <2> QED BY <2>2, <2>3
<1>11. \A j \in Entries : j # i /\ Marked(l, j) => Marked(m, j)
  <2>1. u.mode \in [Entries -> SUBSET {"up", "down"}]
    BY <1>3 DEF LinkOK, LinkType
  <2> QED BY <1>3, <1>6, <2>1 DEF Marked
<1>12. Works(l, m)
  <2>1. m.val = l.val
    BY <1>3, <1>6
  <2> QED BY <2>1, <1>8, <1>9, <1>10, <1>11 DEF Works
<1> QED BY <1>5, <1>7, <1>12

LEMMA NormalWorks ==
    ASSUME dict \in Dicts, NEW l, LinkOK(l), NoWrites(l)
    PROVE  Works(l, Normal(l)) /\ SentOK(Normal(l)) /\ Busy(l, Normal(l))
<1>1. PICK p : /\ p = IF l.nmt # "op" THEN Nmt(l, "op") ELSE l
               /\ LinkOK(p) /\ Same(l, p) /\ NoWrites(p)
  BY NmtOK, NmtSends DEF Same
<1> DEFINE todo == {i \in l.upd : i >= From(l)}
           last == Cardinality(Entries) + 1
<1>2. Normal(l) = IF ~Ready(l) THEN p ELSE IF todo = {} THEN [p EXCEPT !.cur = last]
                  ELSE Transfer(p, Min(todo))
  BY <1>1 DEF Normal
<1>3. todo # {} => Min(todo) \in Entries
  <2>1. todo \subseteq Entries /\ Entries \subseteq Nat
    BY EntriesShape DEF LinkOK, LinkType
  <2> HIDE DEF todo
  <2> QED BY <2>1, Found
<1> HIDE DEF todo, last
<1>4. ASSUME NEW m, Same(p, m), m.tx = p.tx
      PROVE  Works(l, m) /\ SentOK(m) /\ Busy(l, m)
  <2>1. Same(l, m)
    BY <1>1, <1>4 DEF Same
  <2>2. SentOK(m)
    BY <1>1, <1>4 DEF NoWrites, SentOK
  <2> QED BY <2>1, <2>2, SameWorks DEF Same, Busy
<1>5. CASE ~Ready(l)
  BY <1>2, <1>4, <1>5 DEF Same
<1>6. CASE Ready(l) /\ todo = {}
  <2>1. Normal(l) = [p EXCEPT !.cur = last]
    BY <1>2, <1>6
  <2>2. Same(p, Normal(l)) /\ Normal(l).tx = p.tx
    BY <1>1, <2>1 DEF LinkOK, LinkType, Same
  <2> QED BY <2>2, <1>4
<1>7. CASE Ready(l) /\ todo # {}
  <2>1. PICK i \in Entries : Normal(l) = Transfer(p, i)
    BY <1>2, <1>3, <1>7
  <2>2. l.sdo = "finished" /\ p.sdo = "finished"
    BY <1>1, <1>7 DEF Ready, Same
  <2>3. PICK m : m = Normal(l) /\ Works(p, m) /\ SentOK(m)
    BY <1>1, <2>1, <2>2, TransferWorks
  <2>4. Works(l, m)
    BY <1>1, <2>2, <2>3 DEF Works, Marked, Same
  <2> QED BY <2>2, <2>3, <2>4 DEF Busy
<1> QED BY <1>5, <1>6, <1>7

LEMMA LinkWorks ==
    ASSUME dict \in Dicts, NEW l, LinkOK(l), l.tx = <<>>
    PROVE  Works(l, Link(l)) /\ SentOK(Link(l)) /\ Busy(l, Link(l))
<1>1. PICK a : a = AfterAbort(l)
  OBVIOUS
<1>2. /\ a.val = l.val /\ a.upd = l.upd /\ a.mode = l.mode /\ a.lost = l.lost /\ a.tx = l.tx
      /\ a.idx = l.idx /\ a.data = l.data
      /\ a.sdo = IF l.sdo = "aborted" THEN "finished" ELSE l.sdo
  BY <1>1, AfterAbortWorks
<1>3. LinkOK(a) /\ a.status \in {"initial", "config", "normal"}
  BY <1>1, AfterAbortOK DEF LinkOK, LinkType
<1>4. NoWrites(a)
  <2>1. Len(<<>>) = 0 /\ 1 .. 0 = {}
    OBVIOUS
  <2> QED BY <1>2, <2>1 DEF NoWrites
<1>5. Link(l) \in {Initial(a), Config(a), Normal(a)}
  BY <1>1, <1>3 DEF Link
<1>6. PICK m : m = Link(l) /\ Works(a, m) /\ SentOK(m) /\ Busy(a, m)
  BY <1>3, <1>4, <1>5, InitialWorks, ConfigWorks, NormalWorks
<1>7. Works(l, m)
  BY <1>2, <1>6 DEF Works, Marked
<1>8. Busy(l, m)
  BY <1>2, <1>6 DEF Busy
<1> QED BY <1>6, <1>7, <1>8

\* A request that is sent again is that of the transfer.
LEMMA ResentWorks ==
    ASSUME NEW l, LinkOK(l), SentOK(l), l.sdo \in {"down", "up"}
    PROVE  Same(l, Resent(l)) /\ SentOK(Resent(l))
<1> DEFINE f == IF l.sdo = "down" THEN [k |-> "down", i |-> l.idx, v |-> l.data, now |-> TRUE]
                                ELSE [k |-> "up", i |-> l.idx]
<1>1. f \in Requests /\ (f.k = "down" => f.now /\ l.sdo = "down" /\ f.i = l.idx /\ f.v = l.data)
  <2>1. CASE l.sdo = "down"
    BY <2>1 DEF LinkOK, LinkType, Requests
  <2>2. CASE l.sdo = "up"
    BY <2>2 DEF LinkOK, LinkType, Requests
  <2> QED BY <2>1, <2>2
<1>0. Resent(l) = Tx(l, f)
  BY DEF Resent
<1> HIDE DEF f
<1>2. PICK m : m = Resent(l) /\ Sends(l, f, m)
  BY <1>0, <1>1, TxSends
<1>4. SentOK(m)
  BY <1>1, <1>2, SMTT(30) DEF Sends, Same, SentOK
<1> QED BY <1>2, <1>4 DEF Sends

\* A heartbeat that fails ends the transfer and notes its write.
LEMMA SilentWorks ==
    ASSUME dict \in Dicts, NEW l, LinkOK(l), SentOK(l)
    PROVE  Works(l, Silent(l)) /\ SentOK(Silent(l)) /\ Silent(l).sdo = "finished"
<1> DEFINE e == End(l, "finished")
           w == e.lost \cup Writing(l)
           u == e.upd \cup dict.heap.dirty
           n == [e EXCEPT !.status = "initial", !.nmt = "pre", !.upd = u]
           s == [n EXCEPT !.lost = w]
<1>1. LinkOK(e)
  BY EndOK
<1>2. /\ e.val = l.val /\ e.upd = l.upd /\ e.mode = l.mode /\ e.lost = l.lost /\ e.tx = l.tx
      /\ e.sdo = "finished"
  BY DEF End, LinkOK, LinkType
<1>3. w \subseteq Entries /\ u \subseteq Entries
  BY <1>1, WritingShape, EntriesShape DEF LinkOK, LinkType
<1>4. Silent(l) = Nmt(Nmt(s, "reset"), "pre")
  <2>1. [e EXCEPT !.status = "initial", !.nmt = "pre", !.upd = @ \cup dict.heap.dirty,
                  !.lost = @ \cup Writing(l)] = s
    BY <1>1 DEF LinkOK, LinkType
  <2> QED BY <2>1 DEF Silent
<1>5. l.lost \subseteq w /\ l.upd \subseteq u /\ (l.sdo = "down" => l.idx \in w \cup {0})
  BY <1>2 DEF Writing
<1> HIDE DEF e, w, u
<1>6. LinkOK(n)
  BY <1>1, <1>3, ZenonT(60) DEF LinkOK, LinkType
<1>14. /\ n.sdo = e.sdo /\ n.val = e.val /\ n.upd = u /\ n.mode = e.mode /\ n.lost = e.lost
       /\ n.tx = e.tx
  BY <1>1, ZenonT(60) DEF LinkOK, LinkType
<1> HIDE DEF n
<1>7. LinkOK(s)
  BY <1>3, <1>6, LostOK
<1>8. /\ s.sdo = "finished" /\ s.val = l.val /\ s.upd = u /\ s.mode = l.mode /\ s.lost = w
      /\ s.tx = l.tx
  BY <1>2, <1>6, <1>14 DEF LinkOK, LinkType
<1> HIDE DEF s
<1>9. SentOK(s)
  BY <1>5, <1>8 DEF SentOK
<1>10. PICK r : r = Nmt(s, "reset") /\ LinkOK(r) /\ Same(s, r) /\ SentOK(r)
  BY <1>7, <1>9, NmtOK, NmtSends
<1>11. PICK m : m = Silent(l) /\ Same(r, m) /\ SentOK(m)
  BY <1>4, <1>10, NmtSends
<1>12. Same(s, m)
  BY <1>10, <1>11 DEF Same
<1>13. Works(l, m)
  BY <1>5, <1>8, <1>12 DEF Works, Marked, Same
<1> QED BY <1>8, <1>11, <1>12, <1>13 DEF Same

-----------------------------------------------------------------------------
(* Every step keeps the types.                                              *)

\* The passes of Canopen_Run: what they leave is what Finish takes.
LEMMA PassesOK ==
    ASSUME TypesInv
    PROVE  /\ LinkOK(Link(link)) /\ LinkOK(Silent(Link(link)))
           /\ link.armed => LinkOK(Resent(Link(link)))
<1>1. dict \in Dicts /\ LinkOK(link) /\ link.tx = <<>>
  BY DEF TypesInv
<1>2. PICK l : l = Link(link) /\ LinkOK(l) /\ Busy(link, l)
  BY <1>1, RunOK, LinkWorks
<1>3. LinkOK(Silent(l))
  BY <1>1, <1>2, SilentOK
<1>4. link.armed => l.sdo \in {"down", "up"}
  BY <1>1, <1>2 DEF LinkOK, Busy
<1>5. link.armed => LinkOK(Resent(l))
  BY <1>2, <1>4, ResentOK
<1> QED BY <1>2, <1>3, <1>5

LEMMA SendSDOTypes ==
    ASSUME TypesInv, NEW i \in dict.outs, NEW v \in Values[i], SendSDO(i, v)
    PROVE  TypesInv'
<1>1. dict \in Dicts /\ dict' = dict /\ i \in Entries /\ v \in AnyValue
  BY EntriesShape, ValueShape DEF SendSDO, TypesInv
<1>2. UNCHANGED <<toNode, toMaster, node>> /\ want' = [want EXCEPT ![i] = v]
  BY DEF SendSDO
<1>3. LinkOK(link') /\ link'.tx = <<>>
  <2>1. LinkOK(link) /\ link.tx = <<>>
    BY DEF TypesInv
  <2>2. CASE link.val[i] = v
    BY <2>1, <2>2 DEF SendSDO
  <2>3. CASE link.val[i] # v
    <3> DEFINE x == IF Access[i] = "RW" THEN link.mode[i] \cup {"down"} ELSE {"down"}
    <3>1. link' = [link EXCEPT !.val[i] = v, !.upd = @ \cup {i}, !.mode[i] = x, !.lost = @ \ {i}]
      BY <2>3 DEF SendSDO
    <3>2. x \subseteq {"up", "down"}
      BY <2>1, <1>1 DEF LinkOK, LinkType
    <3> HIDE DEF x
    <3> QED BY <1>1, <2>1, <3>1, <3>2, ZenonT(60) DEF LinkOK, LinkType
  <2> QED BY <2>2, <2>3
<1>4. QueuesOK' /\ NodeOK'
  BY <1>1, <1>2, SameSets DEF QueuesOK, NodeOK, DeviceOK, TypesInv
<1>5. WantOK'
  BY <1>1, <1>2, SameSets DEF WantOK, TypesInv
<1> QED BY <1>1, <1>3, <1>4, <1>5, SameLinkOK DEF TypesInv

LEMMA SetUpLoadTypes ==
    ASSUME TypesInv, NEW i \in dict.reads, SetUpLoad(i)
    PROVE  TypesInv'
<1>1. dict \in Dicts /\ dict' = dict /\ i \in Entries
  BY EntriesShape DEF SetUpLoad, TypesInv
<1>2. LinkOK(link') /\ link'.tx = <<>>
  <2>1. LinkOK(link) /\ link.tx = <<>>
    BY DEF TypesInv
  <2> DEFINE x == IF Access[i] = "RW" THEN link.mode[i] \cup {"up"} ELSE {"up"}
             w == IF Access[i] # "RW" /\ i \in link.upd /\ "down" \in link.mode[i]
                  THEN link.lost \cup {i} ELSE link.lost
  <2>2. link' = [link EXCEPT !.upd = @ \cup {i}, !.mode[i] = x, !.lost = w]
    BY DEF SetUpLoad
  <2>3. x \subseteq {"up", "down"} /\ w \subseteq Entries
    BY <1>1, <2>1 DEF LinkOK, LinkType
  <2> HIDE DEF x, w
  <2> QED BY <1>1, <2>1, <2>2, <2>3, ZenonT(60) DEF LinkOK, LinkType
<1>3. QueuesOK' /\ NodeOK' /\ WantOK'
  BY <1>1, SameSets DEF SetUpLoad, QueuesOK, NodeOK, DeviceOK, WantOK, TypesInv
<1> QED BY <1>1, <1>2, <1>3, SameLinkOK DEF TypesInv

\* A frame that tells a state of the device.
LEMMA StateFrame ==
    ASSUME NEW s \in {"init", "pre", "op"}
    PROVE  [k |-> "state", s |-> s] \in Answers
  BY DEF Answers

\* What the device does with a request, and what it answers.
LEMMA ServedOK ==
    ASSUME TypesInv, NEW f \in Requests
    PROVE  Answer(f) \in Seq(Answers) /\ DeviceOK(Obey(f))
<1>1. DeviceOK(node) /\ dict \in Dicts /\ 0 \notin Entries
  BY EntriesShape DEF TypesInv, NodeOK
<1>2. \A a \in Answers : <<a>> \in Seq(Answers)
  OBVIOUS
<1>3. CASE f.k = "down"
  <2>1. f.i \in Entries \cup {0} /\ f.v \in AnyValue /\ f.now \in BOOLEAN /\ (f.i # 0 => f.v \in Values[f.i])
    BY <1>3 DEF Requests
  <2>2. [k |-> "downAnswer", i |-> f.i, now |-> f.now] \in Answers
    BY <2>1 DEF Answers
  <2>3. Answer(f) \in Seq(Answers)
    BY <1>2, <1>3, <2>2 DEF Answer
  <2>4. CASE f.i = 0
    <3>1. Obey(f) = [node EXCEPT !.hb = TRUE]
      BY <1>3, <2>4 DEF Obey
    <3> QED BY <1>1, <2>3, <3>1 DEF DeviceOK
  <2>5. CASE f.i # 0
    <3>1. Obey(f) = [node EXCEPT !.reg[f.i] = f.v]
      BY <1>3, <2>5 DEF Obey
    <3>2. DeviceOK([node EXCEPT !.reg[f.i] = f.v])
      BY <1>1, <2>1, <2>5 DEF DeviceOK
    <3> QED BY <2>3, <3>1, <3>2
  <2> QED BY <2>4, <2>5
<1>4. CASE f.k = "up"
  <2>1. f.i \in Entries
    BY <1>4 DEF Requests
  <2>2. node.reg[f.i] \in Values[f.i] /\ node.reg[f.i] \in AnyValue
    BY <1>1, <2>1 DEF DeviceOK
  <2>3. [k |-> "upAnswer", i |-> f.i, v |-> node.reg[f.i]] \in Answers
    BY <2>1, <2>2 DEF Answers
  <2>4. Answer(f) \in Seq(Answers) /\ Obey(f) = node
    BY <1>2, <1>4, <2>3 DEF Answer, Obey
  <2> QED BY <1>1, <2>4
<1>5. CASE f.k = "nmt"
  <2>1. f.c \in {"pre", "op", "reset"}
    BY <1>5 DEF Requests
  <2>2. [k |-> "state", s |-> "init"] \in Answers /\ <<>> \in Seq(Answers)
    BY StateFrame
  <2>3. Answer(f) \in Seq(Answers)
    BY <1>2, <1>5, <2>2 DEF Answer
  <2>4. \/ Obey(f) = [node EXCEPT !.state = "pre", !.hb = FALSE]
        \/ f.c # "reset" /\ Obey(f) = [node EXCEPT !.state = f.c]
    BY <1>5 DEF Obey
  <2>5. DeviceOK([node EXCEPT !.state = "pre", !.hb = FALSE])
    BY <1>1 DEF DeviceOK
  <2>6. f.c # "reset" => DeviceOK([node EXCEPT !.state = f.c])
    BY <1>1, <2>1 DEF DeviceOK
  <2> QED BY <2>3, <2>4, <2>5, <2>6
<1>6. f.k \in {"down", "up", "nmt"}
  BY DEF Requests
<1> QED BY <1>3, <1>4, <1>5, <1>6

LEMMA ServeTypes == ASSUME TypesInv, Serve PROVE TypesInv'
<1>1. dict \in Dicts /\ dict' = dict /\ link' = link /\ want' = want
  BY DEF Serve, TypesInv
<1>2. PICK q \in Seq(Requests) : q = toNode /\ q # <<>> /\ Len(q) <= MaxBus
  BY DEF TypesInv, QueuesOK, Serve
<1>3. PICK f \in Requests : f = Head(toNode)
  BY <1>2, TailShape
<1>4. toNode' \in Seq(Requests) /\ Len(toNode') <= MaxBus
  BY <1>2, TailShape, BusAssumption DEF Serve
<1>5. toMaster \in Seq(Answers) /\ Len(toMaster) <= MaxBus /\ NodeOK
  BY DEF TypesInv, QueuesOK
<1>6. toMaster' \in Seq(Answers) /\ Len(toMaster') <= MaxBus /\ NodeOK'
  <2>1. CASE node.on
    <3>1. PICK a \in Seq(Answers) : a = Answer(f)
      BY <1>3, ServedOK
    <3>2. toMaster' = Queue(toMaster, a) /\ node' = Obey(f)
      BY <1>3, <2>1, <3>1 DEF Serve
    <3>3. toMaster' \in Seq(Answers) /\ Len(toMaster') <= MaxBus
      BY <1>5, <3>1, <3>2, QueueShape DEF Behind
    <3>4. NodeOK'
      <4>1. DeviceOK(node')
        BY <1>3, <3>2, ServedOK
      <4> QED BY <1>1, <4>1, SameSets DEF NodeOK, DeviceOK
    <3> QED BY <3>3, <3>4
  <2>2. CASE ~node.on
    BY <1>1, <1>5, <2>2, SameSets DEF Serve, NodeOK, DeviceOK
  <2> QED BY <2>1, <2>2
<1>7. QueuesOK'
  BY <1>1, <1>4, <1>6, SameSets DEF QueuesOK
<1>8. WantOK' /\ LinkOK(link') /\ link'.tx = <<>>
  BY <1>1, SameSets DEF WantOK, TypesInv
<1> QED BY <1>1, <1>6, <1>7, <1>8, SameLinkOK DEF TypesInv

\* The frames of the device and of the bus.
LEMMA BusTypes ==
    ASSUME TypesInv, Heartbeat \/ Lose \/ PowerOn
    PROVE  TypesInv'
<1>1. /\ dict \in Dicts /\ NodeOK /\ MaxBus \in Nat /\ 1 <= MaxBus
      /\ toNode \in Seq(Requests) /\ Len(toNode) <= MaxBus
      /\ toMaster \in Seq(Answers) /\ Len(toMaster) <= MaxBus
  BY BusAssumption DEF TypesInv, QueuesOK
<1>2. UNCHANGED <<dict, link, want>>
  BY DEF Heartbeat, Lose, PowerOn, Fault
<1>3. /\ toNode' \in Seq(Requests) /\ Len(toNode') <= MaxBus
      /\ toMaster' \in Seq(Answers) /\ Len(toMaster') <= MaxBus /\ NodeOK'
  <2>1. CASE Heartbeat
    <3>1. PICK a \in Answers : a = [k |-> "state", s |-> node.state]
      BY <1>1, StateFrame DEF NodeOK, DeviceOK
    <3>2. toMaster' = <<a>> /\ toNode' = toNode /\ node' = node
      BY <2>1, <3>1 DEF Heartbeat
    <3>3. <<a>> \in Seq(Answers) /\ Len(<<a>>) = 1
      OBVIOUS
    <3>4. NodeOK'
      BY <1>1, <1>2, <3>2, SameSets DEF NodeOK, DeviceOK
    <3> QED BY <1>1, <3>2, <3>3, <3>4
  <2>2. CASE Lose
    <3>1. NodeOK'
      BY <1>1, <1>2, <2>2, SameSets DEF NodeOK, DeviceOK, Lose
    <3>2. CASE toNode # <<>> /\ toNode' = Tail(toNode) /\ UNCHANGED toMaster
      BY <1>1, <3>1, <3>2, TailShape
    <3>3. CASE toMaster # <<>> /\ toMaster' = Tail(toMaster) /\ UNCHANGED toNode
      BY <1>1, <3>1, <3>3, TailShape
    <3> QED BY <2>2, <3>2, <3>3 DEF Lose
  <2>3. CASE PowerOn
    <3>1. PICK a \in Answers : a = [k |-> "state", s |-> "init"]
      BY StateFrame
    <3>2. toMaster' = Queue(toMaster, <<a>>) /\ toNode' = toNode
      BY <2>3, <3>1 DEF PowerOn
    <3>3. <<a>> \in Seq(Answers)
      OBVIOUS
    <3>4. toMaster' \in Seq(Answers) /\ Len(toMaster') <= MaxBus
      BY <1>1, <3>2, <3>3, QueueShape DEF Behind
    <3>5. NodeOK'
      <4>1. node' = [node EXCEPT !.on = TRUE, !.state = "pre"]
        BY <2>3 DEF PowerOn
      <4> QED BY <1>1, <1>2, <4>1, SameSets DEF NodeOK, DeviceOK
    <3> QED BY <1>1, <3>2, <3>4, <3>5
  <2> QED BY <2>1, <2>2, <2>3
<1>4. QueuesOK'
  BY <1>2, <1>3, SameSets DEF QueuesOK
<1>5. WantOK' /\ LinkOK(link') /\ link'.tx = <<>>
  BY <1>2, SameSets DEF WantOK, TypesInv
<1> QED BY <1>1, <1>2, <1>3, <1>4, <1>5, SameLinkOK DEF TypesInv

LEMMA PowerOffTypes == ASSUME TypesInv, PowerOff PROVE TypesInv'
<1>1. dict \in Dicts /\ NodeOK /\ LinkOK(link) /\ link.tx = <<>>
  BY DEF TypesInv
<1>2. UNCHANGED <<dict, toNode, toMaster, want>>
  BY DEF PowerOff, Fault
<1>3. link' = [link EXCEPT !.lost = Entries]
  BY DEF PowerOff
<1>4. LinkOK(link') /\ link'.tx = <<>>
  <2>1. Entries \subseteq Entries
    OBVIOUS
  <2> QED BY <1>1, <1>3, <2>1, LostOK DEF LinkOK, LinkType
<1>5. NodeOK'
  <2> DEFINE r == [i \in Entries |-> 0]
  <2>1. r \in [Entries -> AnyValue] /\ \A i \in Entries : r[i] \in Values[i]
    BY <1>1, ValueShape
  <2>2. node' = [node EXCEPT !.on = FALSE, !.hb = FALSE, !.state = "init", !.reg = r]
    BY DEF PowerOff
  <2> HIDE DEF r
  <2> QED BY <1>1, <1>2, <2>1, <2>2, SameSets DEF NodeOK, DeviceOK
<1>6. QueuesOK' /\ WantOK'
  BY <1>2, SameSets DEF QueuesOK, WantOK, TypesInv
<1> QED BY <1>1, <1>2, <1>4, <1>5, <1>6, SameLinkOK DEF TypesInv

LEMMA StutterTypes == ASSUME TypesInv, UNCHANGED vars PROVE TypesInv'
<1>1. UNCHANGED <<dict, link, toNode, toMaster, node, want>>
  BY DEF vars
<1>2. QueuesOK' /\ NodeOK' /\ WantOK'
  BY <1>1, SameSets DEF QueuesOK, NodeOK, DeviceOK, WantOK, TypesInv
<1> QED BY <1>1, <1>2, SameLinkOK DEF TypesInv

LEMMA NextTypes == TypesInv /\ [Next]_vars => TypesInv'
<1> SUFFICES ASSUME TypesInv, [Next]_vars PROVE TypesInv'
  OBVIOUS
<1>1. CASE Blocks
  BY <1>1, SendSDOTypes, SetUpLoadTypes DEF Blocks
<1>2. CASE Master
  <2>1. CASE Read
    BY <2>1, ReadTypes
  <2>2. CASE Run
    BY <2>2, PassesOK, FinishTypes DEF Run
  <2>3. CASE RunResend
    BY <2>3, PassesOK, FinishTypes DEF RunResend
  <2>4. CASE RunSilent
    BY <2>4, PassesOK, FinishTypes DEF RunSilent
  <2> QED BY <1>2, <2>1, <2>2, <2>3, <2>4 DEF Master
<1>3. CASE Device
  BY <1>3, ServeTypes, BusTypes, PowerOffTypes DEF Device
<1> QED BY <1>1, <1>2, <1>3, StutterTypes DEF Next

\* The link, the queues and the device keep their types: every frame on the
\* bus is of a kind that Canopen_Dispatch or the device knows and names an
\* entry of the link; no value is ever one that its entry has not.
THEOREM TypeCorrect == Spec => []TypeOK
<1>1. TypesInv => TypeOK
  <2> SUFFICES ASSUME TypesInv PROVE TypeOK
    OBVIOUS
  <2>1. /\ link.status \in {"initial", "config", "normal"}
        /\ link.sdo \in {"finished", "down", "up", "aborted"} /\ link.nmt \in {"init", "pre", "op"}
        /\ link.cur \in 1 .. Cardinality(Entries) + 1 /\ link.idx \in Entries \cup {0}
    BY DEF TypesInv, LinkOK, LinkType
  <2>2. node.state \in {"init", "pre", "op"}
    BY DEF TypesInv, NodeOK, DeviceOK
  <2>3. \A i \in Entries : {link.val[i], node.reg[i], want[i]} \subseteq Values[i]
    BY DEF TypesInv, LinkOK, NodeOK, DeviceOK, WantOK
  <2> QED BY <2>1, <2>2, <2>3 DEF TypesInv, QueuesOK, TypeOK
<1> QED BY <1>1, InitTypes, NextTypes, PTL DEF Spec
-----------------------------------------------------------------------------
(* Writes.  An entry whose value has been sent, and that is not noted, is   *)
(* written on the device, or its transfer goes on until an answer to a      *)
(* request that is the transfer's own.                                      *)

Sure(i) == i \notin link.lost /\ ~Marked(link, i)

IsWrite(f) == f.k = "down"

Settled(i) ==
    /\ node.reg[i] = want[i]
    /\ \A k \in 1 .. Len(toNode) :
          IsWrite(toNode[k]) /\ toNode[k].i = i => toNode[k].v = want[i]

Unanswered ==
    \A k \in 1 .. Len(toMaster) : toMaster[k].k = "downAnswer" => ~toMaster[k].now

\* The dictionary, the data of the transfer, the way of a write.
Kept(i) == i \notin link.lost => link.val[i] = want[i]
Carried(i) == Sure(i) /\ link.sdo = "down" /\ link.idx = i => link.data = want[i]
Placed(i) == Sure(i) => Settled(i) \/ (link.sdo = "down" /\ link.idx = i /\ Unanswered)

\* The newest writes are the last ones, and are those of the transfer.
Newest(q) ==
    \A k, h \in 1 .. Len(q) :
        k < h /\ IsWrite(q[k]) /\ q[k].now /\ IsWrite(q[h]) => q[h].now
Own(q, l) ==
    l.sdo = "down" => \A k \in 1 .. Len(q) :
        IsWrite(q[k]) /\ q[k].now => q[k].i = l.idx /\ q[k].v = l.data

WriteInv ==
    /\ \A i \in dict.outs : Kept(i) /\ Carried(i) /\ Placed(i)
    /\ Newest(toNode) /\ Own(toNode, link)

LEMMA InitWrites == Init => WriteInv
<1> SUFFICES ASSUME Init PROVE WriteInv
  OBVIOUS
<1>1. dict \in Dicts /\ toNode = <<>>
  BY DEF Init
<1>2. Len(<<>>) = 0 /\ 1 .. 0 = {} /\ dict.outs \subseteq Entries
  BY <1>1, EntriesShape
<1>3. /\ link.sdo = "finished" /\ link.val = want
      /\ link.lost = {i \in Entries : want[i] # node.reg[i]}
  <2>1. PICK reg, hb, state : /\ node = [on |-> TRUE, state |-> state, hb |-> hb, reg |-> reg]
                              /\ link = InitLink(want, reg)
    BY DEF Init
  <2> QED BY <2>1 DEF InitLink
<1>4. \A i \in dict.outs : Kept(i) /\ Carried(i) /\ Placed(i)
  BY <1>1, <1>2, <1>3 DEF Kept, Carried, Placed, Settled, Sure
<1> QED BY <1>1, <1>2, <1>3, <1>4 DEF WriteInv, Newest, Own

\* A step that leaves the link and the wishes alone.
LEMMA SameLinkWrites ==
    ASSUME dict' = dict, link' = link, want' = want, WriteInv,
           Newest(toNode'), Own(toNode', link),
           \A i \in dict.outs : Placed(i) => Placed(i)'
    PROVE  WriteInv'
  BY DEF WriteInv, Kept, Carried, Sure, Marked

\* The frames that are left when the first one goes.
LEMMA TailWrites ==
    ASSUME NEW q \in Seq(Requests), q # <<>>, Newest(q), NEW l, Own(q, l)
    PROVE  /\ Newest(Tail(q)) /\ Own(Tail(q), l)
           /\ \A k \in 1 .. Len(Tail(q)) : Tail(q)[k] = q[k + 1] /\ k + 1 \in 1 .. Len(q) /\ 1 < k + 1
<1>1. \A k \in 1 .. Len(Tail(q)) : Tail(q)[k] = q[k + 1] /\ k + 1 \in 1 .. Len(q) /\ 1 < k + 1
  BY TailShape
<1>2. PICK r \in Seq(Requests) : r = Tail(q)
  BY TailShape
<1>3. \A k, h \in 1 .. Len(r) : k < h => k + 1 < h + 1
  OBVIOUS
<1>4. Newest(r)
  BY <1>1, <1>2, <1>3 DEF Newest
<1>5. Own(r, l)
  BY <1>1, <1>2 DEF Own
<1> QED BY <1>1, <1>2, <1>4, <1>5

\* Frames that go, but for what they do, leave a write where it was.
LEMMA FewerWrites ==
    ASSUME TypesInv, WriteInv, UNCHANGED <<dict, link, want>>, node'.reg = node.reg,
           toNode' \in {toNode, Tail(toNode)}, toNode' # toNode => toNode # <<>>,
           Unanswered => Unanswered'
    PROVE  WriteInv'
<1>1. toNode \in Seq(Requests) /\ Newest(toNode) /\ Own(toNode, link)
  BY DEF TypesInv, QueuesOK, WriteInv
<1>2. Newest(toNode') /\ Own(toNode', link)
  BY <1>1, TailWrites
<1>3. \A i : Settled(i) => Settled(i)'
  <2>1. CASE toNode' = toNode
    BY <2>1 DEF Settled
  <2>2. CASE toNode' = Tail(toNode) /\ toNode # <<>>
    BY <1>1, <2>2, TailWrites DEF Settled
  <2> QED BY <2>1, <2>2
<1>4. \A i : Placed(i) => Placed(i)'
  BY <1>3 DEF Placed, Sure, Marked
<1> QED BY <1>2, <1>4, SameLinkWrites

\* The answers that are left, and those behind a frame that is none.
LEMMA AnswersLeft ==
    ASSUME TypesInv, Unanswered, NEW a \in Answers, a.k = "downAnswer" => ~a.now,
           \/ toMaster # <<>> /\ toMaster' = Tail(toMaster)
           \/ toMaster' = Queue(toMaster, <<a>>)
    PROVE  Unanswered'
<1>1. toMaster \in Seq(Answers)
  BY DEF TypesInv, QueuesOK
<1>2. CASE toMaster # <<>> /\ toMaster' = Tail(toMaster)
  <2>1. \A k \in 1 .. Len(Tail(toMaster)) :
           Tail(toMaster)[k] = toMaster[k + 1] /\ k + 1 \in 1 .. Len(toMaster)
    BY <1>1, <1>2, TailShape
  <2> QED BY <1>2, <2>1 DEF Unanswered
<1>3. CASE toMaster' = Queue(toMaster, <<a>>)
  <2> DEFINE s == <<a>>
  <2>1. s \in Seq(Answers) /\ Len(s) = 1 /\ s[1] = a
    OBVIOUS
  <2> HIDE DEF s
  <2>2. PICK r : r = toMaster' /\ Behind(Answers, toMaster, s, r)
    BY <1>1, <1>3, <2>1, QueueShape DEF s
  <2>3. \A k \in 1 .. Len(r) : k <= Len(toMaster) => k \in 1 .. Len(toMaster)
    BY <1>1
  <2>4. \A k \in 1 .. Len(r) : ~(k <= Len(toMaster)) => k - Len(toMaster) = 1
    BY <1>1, <2>1, <2>2 DEF Behind
  <2>5. \A k \in 1 .. Len(r) : r[k].k = "downAnswer" => ~r[k].now
    BY <2>1, <2>2, <2>3, <2>4 DEF Behind, Unanswered
  <2> QED BY <2>2, <2>5 DEF Unanswered
<1> QED BY <1>2, <1>3

LEMMA BusWrites ==
    ASSUME TypesInv, WriteInv, Lose \/ Heartbeat \/ PowerOn
    PROVE  WriteInv'
<1>1. UNCHANGED <<dict, link, want>>
  BY DEF Lose, Heartbeat, PowerOn, Fault
<1>2. node'.reg = node.reg
  BY DEF Lose, Heartbeat, PowerOn, TypesInv, NodeOK, DeviceOK
<1>3. PICK a \in Answers : a = [k |-> "state", s |-> "init"]
  BY StateFrame
<1>4. Unanswered => Unanswered'
  <2> SUFFICES ASSUME Unanswered PROVE Unanswered'
    OBVIOUS
  <2>1. CASE Heartbeat
    <3>1. toMaster' = <<[k |-> "state", s |-> node.state]>>
      BY <2>1 DEF Heartbeat
    <3>2. Len(toMaster') = 1 /\ toMaster'[1].k = "state"
      BY <3>1
    <3>3. \A k \in 1 .. Len(toMaster') : k = 1
      BY <3>2
    <3> QED BY <3>2, <3>3 DEF Unanswered
  <2>2. CASE PowerOn
    <3>1. toMaster' = Queue(toMaster, <<a>>) /\ a.k # "downAnswer"
      BY <1>3, <2>2 DEF PowerOn
    <3> QED BY <3>1, AnswersLeft
  <2>3. CASE Lose /\ toMaster' = toMaster
    BY <2>3 DEF Unanswered
  <2>4. CASE toMaster # <<>> /\ toMaster' = Tail(toMaster)
    BY <1>3, <2>4, AnswersLeft
  <2> QED BY <2>1, <2>2, <2>3, <2>4 DEF Lose
<1>5. toNode' \in {toNode, Tail(toNode)} /\ (toNode' # toNode => toNode # <<>>)
  BY DEF Lose, Heartbeat, PowerOn
<1> QED BY <1>1, <1>2, <1>4, <1>5, FewerWrites

LEMMA PowerOffWrites == ASSUME TypesInv, WriteInv, PowerOff PROVE WriteInv'
<1>1. dict' = dict /\ toNode' = toNode /\ dict.outs \subseteq Entries
  BY EntriesShape DEF PowerOff, TypesInv
<1>2. /\ link'.lost = Entries /\ link'.sdo = link.sdo /\ link'.idx = link.idx
      /\ link'.data = link.data
  BY DEF PowerOff, TypesInv, LinkOK, LinkType
<1>3. \A i \in dict.outs : i \in link'.lost
  BY <1>1, <1>2
<1>4. \A i \in dict.outs : Kept(i)' /\ Carried(i)' /\ Placed(i)'
  BY <1>3 DEF Kept, Carried, Placed, Sure
<1>5. Newest(toNode') /\ Own(toNode', link')
  BY <1>1, <1>2 DEF WriteInv, Own
<1> QED BY <1>1, <1>4, <1>5 DEF WriteInv

\* What an answer does to writes: a transfer that ends is answered by an
\* answer of its own, or noted.
Takes(l, f, m) ==
    /\ m.upd = l.upd /\ m.mode = l.mode /\ l.lost \subseteq m.lost
    /\ \A i \in Entries : i \notin m.lost => m.val[i] = l.val[i]
    /\ m.sdo = "down" => l.sdo = "down" /\ m.idx = l.idx /\ m.data = l.data
    /\ l.sdo = "down" /\ m.sdo # "down" =>
          l.idx \in m.lost \cup {0} \/ (f.k = "downAnswer" /\ f.now)

LEMMA EndTakes ==
    ASSUME NEW l, LinkOK(l), NEW s \in {"finished", "aborted"}
    PROVE  LET e == End(l, s)
           IN  /\ e.upd = l.upd /\ e.mode = l.mode /\ e.lost = l.lost /\ e.val = l.val
               /\ e.sdo = s /\ e.confirmed = l.confirmed
  BY DEF End, LinkOK, LinkType

LEMMA FailTakes ==
    ASSUME dict \in Dicts, NEW l, LinkOK(l), NEW f
    PROVE  Takes(l, f, Fail(l))
<1> DEFINE e == End(l, "aborted")
           w == e.lost \cup Writing(l)
<1>1. LinkOK(e) /\ e.upd = l.upd /\ e.mode = l.mode /\ e.lost = l.lost /\ e.val = l.val /\ e.sdo = "aborted"
  BY EndOK, EndTakes
<1>2. Fail(l) = [e EXCEPT !.lost = w]
  BY DEF Fail
<1>3. l.lost \subseteq w /\ (l.sdo = "down" => l.idx \in w \cup {0})
  BY <1>1 DEF Writing
<1> HIDE DEF e, w
<1>4. /\ Fail(l).upd = l.upd /\ Fail(l).mode = l.mode /\ Fail(l).lost = w /\ Fail(l).val = l.val
      /\ Fail(l).sdo = "aborted"
  BY <1>1, <1>2 DEF LinkOK, LinkType
<1> QED BY <1>3, <1>4 DEF Takes

LEMMA RecvTakes ==
    ASSUME dict \in Dicts, NEW l, LinkOK(l), NEW f \in Answers
    PROVE  Takes(l, f, Recv(l, f))
<1> DEFINE e == End(l, "finished")
<1>1. /\ LinkOK(e) /\ e.upd = l.upd /\ e.mode = l.mode /\ e.lost = l.lost /\ e.val = l.val
      /\ e.sdo = "finished"
  BY EndOK, EndTakes
<1> HIDE DEF e
<1>2. Takes(l, f, l)
  BY DEF Takes
<1>3. f.k = "upAnswer" => Takes(l, f, RecvUpLoad(l, f))
  <2> SUFFICES ASSUME f.k = "upAnswer" PROVE Takes(l, f, RecvUpLoad(l, f))
    OBVIOUS
  <2> DEFINE s == [l EXCEPT !.armed = FALSE, !.stale = TRUE]
             w == IF f.v # l.val[l.idx] THEN e.lost \cup {l.idx} ELSE e.lost
             r == [e EXCEPT !.val[l.idx] = f.v, !.lost = w]
  <2>1. Takes(l, f, s)
    BY DEF Takes, LinkOK, LinkType
  <2>2. l.sdo = "up" => Takes(l, f, r)
    <3>1. l.lost \subseteq w /\ (l.idx \notin w => f.v = l.val[l.idx])
      BY <1>1
    <3> HIDE DEF w
    <3>2. /\ r.upd = l.upd /\ r.mode = l.mode /\ r.lost = w /\ r.sdo = "finished"
          /\ r.val = [l.val EXCEPT ![l.idx] = f.v]
      BY <1>1 DEF LinkOK, LinkType
    <3>3. \A i \in Entries : i \notin w => r.val[i] = l.val[i]
      BY <3>1, <3>2 DEF LinkOK, LinkType
    <3> HIDE DEF r
    <3> QED BY <3>1, <3>2, <3>3 DEF Takes
  <2>3. RecvUpLoad(l, f) \in {Fail(l), s} \/ (l.sdo = "up" /\ RecvUpLoad(l, f) = r)
    BY DEF RecvUpLoad, e
  <2> HIDE DEF s, r
  <2> QED BY <2>1, <2>2, <2>3, FailTakes
<1>4. f.k = "downAnswer" => Takes(l, f, RecvDownLoad(l, f))
  <2> SUFFICES ASSUME f.k = "downAnswer" PROVE Takes(l, f, RecvDownLoad(l, f))
    OBVIOUS
  <2> DEFINE w == IF f.now THEN e.lost ELSE e.lost \cup Writing(l)
             c == e.confirmed \/ l.idx = 0
             r == [e EXCEPT !.confirmed = c, !.lost = w]
  <2>1. Takes(l, f, r)
    <3>1. l.lost \subseteq w /\ (l.sdo = "down" /\ ~f.now => l.idx \in w \cup {0})
      BY <1>1 DEF Writing
    <3> HIDE DEF w, c
    <3>2. r.upd = l.upd /\ r.mode = l.mode /\ r.lost = w /\ r.sdo = "finished" /\ r.val = l.val
      BY <1>1 DEF LinkOK, LinkType
    <3> HIDE DEF r
    <3> QED BY <3>1, <3>2 DEF Takes
  <2>2. RecvDownLoad(l, f) \in {Fail(l), l, r}
    BY DEF RecvDownLoad, Answered, e
  <2> HIDE DEF r
  <2> QED BY <1>2, <2>1, <2>2, FailTakes
<1>5. Takes(l, f, [l EXCEPT !.nmt = f.s])
  BY DEF Takes, LinkOK, LinkType
<1>6. \/ Recv(l, f) \in {l, [l EXCEPT !.nmt = f.s]}
      \/ f.k = "upAnswer" /\ Recv(l, f) = RecvUpLoad(l, f)
      \/ f.k = "downAnswer" /\ Recv(l, f) = RecvDownLoad(l, f)
  BY DEF Recv
<1> QED BY <1>2, <1>3, <1>4, <1>5, <1>6

LEMMA ReadWrites == ASSUME TypesInv, WriteInv, Read PROVE WriteInv'
<1>1. PICK q \in Seq(Answers) : q = toMaster /\ q # <<>>
  BY DEF TypesInv, QueuesOK, Read
<1>2. PICK f \in Answers : f = Head(toMaster) /\ f = toMaster[1] /\ 1 \in 1 .. Len(toMaster)
  BY <1>1, TailShape
<1>3. PICK m : m = link' /\ Takes(link, f, m)
  BY <1>2, RecvTakes DEF Read, TypesInv
<1>4. UNCHANGED <<dict, toNode, node, want>> /\ toMaster' = Tail(toMaster) /\ dict.outs \subseteq Entries
  BY EntriesShape DEF Read, TypesInv
<1>5. Newest(toNode') /\ Own(toNode', link')
  BY <1>3, <1>4 DEF WriteInv, Own, Takes
<1>6. Unanswered => Unanswered' /\ ~(f.k = "downAnswer" /\ f.now)
  <2>1. Unanswered => ~(f.k = "downAnswer" /\ f.now)
    BY <1>2 DEF Unanswered
  <2>2. PICK a \in Answers : a = [k |-> "state", s |-> "init"]
    BY StateFrame
  <2>3. Unanswered => Unanswered'
    BY <1>1, <1>4, <2>2, AnswersLeft
  <2> QED BY <2>1, <2>3
<1>7. ASSUME NEW i \in dict.outs
      PROVE  Kept(i)' /\ Carried(i)' /\ Placed(i)'
  <2>1. i \in Entries /\ i # 0 /\ Kept(i) /\ Carried(i) /\ Placed(i)
    BY <1>4, EntriesShape DEF WriteInv, TypesInv
  <2>2. i \notin m.lost => i \notin link.lost /\ m.val[i] = link.val[i]
    BY <1>3, <2>1 DEF Takes
  <2>3. Kept(i)'
    BY <1>3, <1>4, <2>1, <2>2 DEF Kept
  <2>4. Sure(i)' => Sure(i)
    BY <1>3, <2>2 DEF Sure, Marked, Takes
  <2>5. Carried(i)'
    BY <1>3, <1>4, <2>1, <2>4 DEF Carried, Takes
  <2>6. Settled(i) => Settled(i)'
    BY <1>4 DEF Settled
  <2>7. ASSUME Sure(i)', ~Settled(i)
        PROVE  link'.sdo = "down" /\ link'.idx = i /\ Unanswered'
    <3>1. link.sdo = "down" /\ link.idx = i /\ Unanswered
      BY <2>1, <2>4, <2>7 DEF Placed
    <3>2. i \notin m.lost
      BY <1>3, <2>7 DEF Sure
    <3> QED BY <1>3, <1>6, <2>1, <3>1, <3>2 DEF Takes
  <2>8. Placed(i)'
    BY <2>6, <2>7 DEF Placed
  <2> QED BY <2>3, <2>5, <2>8
<1> QED BY <1>4, <1>5, <1>7 DEF WriteInv

LEMMA SendSDOWrites ==
    ASSUME TypesInv, WriteInv, NEW i \in dict.outs, NEW v \in Values[i], SendSDO(i, v)
    PROVE  WriteInv'
<1>1. UNCHANGED <<dict, toNode, toMaster, node>> /\ i \in Entries /\ dict.outs \subseteq Entries
  BY EntriesShape DEF SendSDO, TypesInv
<1>2. want' = [want EXCEPT ![i] = v] /\ want \in [Entries -> AnyValue]
  BY DEF SendSDO, TypesInv, WantOK
<1>3. PICK l : l = link /\ l \in LinkType
  BY DEF TypesInv, LinkOK
<1>4. \A j \in Entries : j # i => want'[j] = want[j]
  BY <1>2
<1>5. want'[i] = v
  BY <1>1, <1>2
<1>6. \A j \in dict.outs : Kept(j) /\ Carried(j) /\ Placed(j)
  BY DEF WriteInv
<1>7. CASE link.val[i] = v
  <2>1. link' = link
    BY <1>7 DEF SendSDO
  <2>2. ASSUME NEW j \in dict.outs
        PROVE  Kept(j)' /\ Carried(j)' /\ Placed(j)'
    <3>1. j \notin link.lost => want'[j] = want[j]
      BY <1>1, <1>4, <1>5, <1>6, <1>7 DEF Kept
    <3>2. CASE j \in link.lost
      BY <2>1, <3>2 DEF Kept, Carried, Placed, Sure
    <3>3. CASE j \notin link.lost
      BY <1>1, <1>6, <2>1, <3>1, <3>3 DEF Kept, Carried, Placed, Sure, Marked, Settled, Unanswered
    <3> QED BY <3>2, <3>3
  <2> QED BY <1>1, <2>1, <2>2 DEF WriteInv
<1>8. CASE link.val[i] # v
  <2> DEFINE x == IF Access[i] = "RW" THEN l.mode[i] \cup {"down"} ELSE {"down"}
  <2>1. link' = [l EXCEPT !.val[i] = v, !.upd = @ \cup {i}, !.mode[i] = x, !.lost = @ \ {i}]
    BY <1>3, <1>8 DEF SendSDO
  <2>2. "down" \in x
    OBVIOUS
  <2> HIDE DEF x
  <2>3. /\ link'.val = [l.val EXCEPT ![i] = v] /\ link'.upd = l.upd \cup {i}
        /\ link'.mode = [l.mode EXCEPT ![i] = x] /\ link'.lost = l.lost \ {i}
        /\ link'.sdo = l.sdo /\ link'.idx = l.idx /\ link'.data = l.data
    BY <1>3, <2>1 DEF LinkType
  <2>4. l.val \in [Entries -> AnyValue] /\ l.mode \in [Entries -> SUBSET {"up", "down"}]
    BY <1>3 DEF LinkType
  <2>5. link'.val[i] = v /\ i \in link'.upd /\ "down" \in link'.mode[i]
    BY <1>1, <2>2, <2>3, <2>4
  <2>6. Kept(i)' /\ Carried(i)' /\ Placed(i)'
    BY <1>5, <2>5 DEF Kept, Carried, Placed, Sure, Marked
  <2>7. ASSUME NEW j \in dict.outs, j # i
        PROVE  Kept(j)' /\ Carried(j)' /\ Placed(j)'
    <3>1. /\ link'.val[j] = link.val[j] /\ link'.mode[j] = link.mode[j]
          /\ j \in link'.upd <=> j \in link.upd
          /\ j \in link'.lost <=> j \in link.lost
      BY <1>1, <1>3, <2>3, <2>4, <2>7
    <3>2. want'[j] = want[j]
      BY <1>1, <1>4, <2>7
    <3>3. link'.sdo = link.sdo /\ link'.idx = link.idx /\ link'.data = link.data
      BY <1>3, <2>3
    <3>4. Sure(j)' <=> Sure(j)
      BY <3>1 DEF Sure, Marked
    <3>5. Settled(j)' <=> Settled(j)
      BY <1>1, <3>2 DEF Settled
    <3>6. Unanswered' <=> Unanswered
      BY <1>1 DEF Unanswered
    <3> QED BY <1>6, <3>1, <3>2, <3>3, <3>4, <3>5, <3>6 DEF Kept, Carried, Placed
  <2>8. Newest(toNode') /\ Own(toNode', link')
    BY <1>1, <1>3, <2>3 DEF WriteInv, Own
  <2> QED BY <1>1, <2>6, <2>7, <2>8 DEF WriteInv
<1> QED BY <1>7, <1>8

LEMMA SetUpLoadWrites ==
    ASSUME TypesInv, WriteInv, NEW i \in dict.reads, SetUpLoad(i)
    PROVE  WriteInv'
<1>1. UNCHANGED <<dict, toNode, toMaster, node, want>> /\ i \in Entries /\ dict.outs \subseteq Entries
  BY EntriesShape DEF SetUpLoad, TypesInv
<1>2. PICK l : l = link /\ l \in LinkType
  BY DEF TypesInv, LinkOK
<1> DEFINE x == IF Access[i] = "RW" THEN l.mode[i] \cup {"up"} ELSE {"up"}
           w == IF Access[i] # "RW" /\ i \in l.upd /\ "down" \in l.mode[i]
                THEN l.lost \cup {i} ELSE l.lost
<1>3. link' = [l EXCEPT !.upd = @ \cup {i}, !.mode[i] = x, !.lost = w]
  BY <1>2 DEF SetUpLoad
<1>4. l.lost \subseteq w /\ (Marked(l, i) /\ i \notin w => "down" \in x)
  BY DEF Marked
<1> HIDE DEF x, w
<1>5. /\ link'.val = l.val /\ link'.upd = l.upd \cup {i} /\ link'.mode = [l.mode EXCEPT ![i] = x]
      /\ link'.lost = w /\ link'.sdo = l.sdo /\ link'.idx = l.idx /\ link'.data = l.data
  BY <1>2, <1>3 DEF LinkType
<1>6. l.mode \in [Entries -> SUBSET {"up", "down"}]
  BY <1>2 DEF LinkType
<1>7. ASSUME NEW j \in dict.outs
      PROVE  Kept(j)' /\ Carried(j)' /\ Placed(j)'
  <2>1. Kept(j) /\ Carried(j) /\ Placed(j) /\ j \in Entries
    BY <1>1 DEF WriteInv
  <2>2. Sure(j)' => Sure(j)
    <3>1. CASE j = i
      BY <1>1, <1>2, <1>4, <1>5, <1>6, <3>1 DEF Sure, Marked
    <3>2. CASE j # i
      BY <1>2, <1>4, <1>5, <1>6, <2>1, <3>2 DEF Sure, Marked
    <3> QED BY <3>1, <3>2
  <2>3. Settled(j)' <=> Settled(j)
    BY <1>1 DEF Settled
  <2>4. Unanswered' <=> Unanswered
    BY <1>1 DEF Unanswered
  <2> QED BY <1>1, <1>2, <1>4, <1>5, <2>1, <2>2, <2>3, <2>4 DEF Kept, Carried, Placed
<1>8. Newest(toNode') /\ Own(toNode', link')
  BY <1>1, <1>2, <1>5 DEF WriteInv, Own
<1> QED BY <1>1, <1>7, <1>8 DEF WriteInv

\* The device obeys the first request: a write that is the transfer's own is
\* followed by no other.
LEMMA ServeWrites == ASSUME TypesInv, WriteInv, Serve PROVE WriteInv'
<1>1. UNCHANGED <<dict, link, want>> /\ toNode' = Tail(toNode) /\ toNode # <<>> /\ dict \in Dicts
  BY DEF Serve, TypesInv
<1>2. CASE ~node.on
  <2>1. node' = node /\ toMaster' = toMaster
    BY <1>2 DEF Serve
  <2>2. Unanswered => Unanswered'
    BY <2>1 DEF Unanswered
  <2> QED BY <1>1, <2>1, <2>2, FewerWrites
<1>3. CASE node.on
  <2>1. toNode \in Seq(Requests) /\ Newest(toNode) /\ Own(toNode, link)
    BY DEF TypesInv, QueuesOK, WriteInv
  <2>2. PICK f \in Requests : f = Head(toNode) /\ f = toNode[1] /\ 1 \in 1 .. Len(toNode)
    BY <1>1, <2>1, TailShape
  <2>3. node' = Obey(f) /\ toMaster' = Queue(toMaster, Answer(f))
    BY <1>3, <2>2 DEF Serve
  <2>4. Newest(toNode') /\ Own(toNode', link)
    BY <1>1, <2>1, TailWrites
  <2>5. \A k \in 1 .. Len(toNode') : toNode'[k] = toNode[k + 1] /\ k + 1 \in 1 .. Len(toNode) /\ 1 < k + 1
    BY <1>1, <2>1, TailWrites
  <2>6. ASSUME NEW i \in Entries
        PROVE  node'.reg[i] = IF IsWrite(f) /\ f.i = i THEN f.v ELSE node.reg[i]
    <3>1. node.reg \in [Entries -> AnyValue] /\ DeviceOK(node) /\ 0 \notin Entries
      BY EntriesShape DEF TypesInv, NodeOK, DeviceOK
    <3>2. CASE ~IsWrite(f)
      <4>1. Obey(f).reg = node.reg
        BY <3>1, <3>2 DEF Obey, IsWrite, Requests, DeviceOK
      <4> QED BY <2>3, <3>2, <4>1
    <3>3. CASE IsWrite(f) /\ f.i = 0
      <4>1. Obey(f) = [node EXCEPT !.hb = TRUE]
        BY <3>3 DEF Obey, IsWrite
      <4> QED BY <2>3, <3>1, <3>3, <4>1 DEF DeviceOK
    <3>4. CASE IsWrite(f) /\ f.i # 0
      <4>1. Obey(f) = [node EXCEPT !.reg[f.i] = f.v]
        BY <3>4 DEF Obey, IsWrite
      <4>2. Obey(f).reg = [node.reg EXCEPT ![f.i] = f.v]
        BY <3>1, <4>1 DEF DeviceOK
      <4> QED BY <2>3, <3>1, <3>4, <4>2
    <3> QED BY <3>2, <3>3, <3>4
  <2>7. Unanswered /\ ~(IsWrite(f) /\ f.now) => Unanswered'
    <3> SUFFICES ASSUME Unanswered, ~(IsWrite(f) /\ f.now) PROVE Unanswered'
      OBVIOUS
    <3>1. toMaster \in Seq(Answers) /\ Answer(f) \in Seq(Answers)
      BY <2>2, ServedOK DEF TypesInv, QueuesOK
    <3>2. PICK r : r = toMaster' /\ Behind(Answers, toMaster, Answer(f), r)
      BY <2>3, <3>1, QueueShape
    <3>3. \A k \in 1 .. Len(Answer(f)) : Answer(f)[k].k = "downAnswer" => ~Answer(f)[k].now
      BY DEF Answer, IsWrite, Requests
    <3>4. PICK n \in Nat, h \in Nat : n = Len(toMaster) /\ h = Len(Answer(f))
      BY <3>1
    <3>5. Len(r) \in Nat /\ Len(r) <= n + h
      BY <3>2, <3>4 DEF Behind
    <3>6. \A k \in 1 .. Len(r) : IF k <= n THEN k \in 1 .. n ELSE k - n \in 1 .. h
      BY <3>4, <3>5
    <3>7. \A k \in 1 .. Len(r) : r[k].k = "downAnswer" => ~r[k].now
      BY <3>2, <3>3, <3>4, <3>6 DEF Behind, Unanswered
    <3> QED BY <3>2, <3>7 DEF Unanswered
  <2>8. ASSUME NEW i \in dict.outs
        PROVE  Placed(i)'
    <3>1. i \in Entries /\ Placed(i) /\ Carried(i) /\ (Sure(i)' <=> Sure(i))
      BY <1>1, EntriesShape DEF WriteInv, Sure, Marked
    <3>2. node'.reg[i] = IF IsWrite(f) /\ f.i = i THEN f.v ELSE node.reg[i]
      BY <2>6, <3>1
    <3>3. Settled(i) => Settled(i)'
      BY <1>1, <2>2, <2>5, <3>2 DEF Settled
    <3>4. ASSUME Sure(i), link.sdo = "down", link.idx = i, IsWrite(f), f.now
          PROVE  Settled(i)'
      <4>1. link.data = want[i] /\ f.i = i /\ f.v = want[i]
        BY <2>1, <2>2, <3>1, <3>4 DEF Carried, Own
      <4>2. \A k \in 1 .. Len(toNode') : IsWrite(toNode'[k]) => toNode'[k].now
        BY <2>1, <2>2, <2>5, <3>4 DEF Newest
      <4>3. \A k \in 1 .. Len(toNode') : IsWrite(toNode'[k]) => toNode'[k].v = link.data
        BY <2>4, <3>4, <4>2 DEF Own
      <4> QED BY <1>1, <3>2, <3>4, <4>1, <4>3 DEF Settled
    <3> QED BY <1>1, <2>7, <3>1, <3>3, <3>4 DEF Placed
  <2> QED BY <1>1, <2>4, <2>8, SameLinkWrites DEF WriteInv
<1> QED BY <1>2, <1>3

\* What Canopen_Run leaves: the writes under way are older than what it sends,
\* and what it sends is the transfer's own.
LEMMA FinishWrites ==
    ASSUME TypesInv, WriteInv, NEW l, LinkOK(l), Works(link, l), SentOK(l), Finish(l)
    PROVE  WriteInv'
<1>1. /\ UNCHANGED <<dict, toMaster, node, want>> /\ toMaster = <<>>
      /\ dict \in Dicts /\ dict.outs \subseteq Entries /\ 0 \notin Entries
  BY EntriesShape DEF Finish, TypesInv
<1>2. /\ link'.sdo = l.sdo /\ link'.idx = l.idx /\ link'.data = l.data /\ link'.val = l.val
      /\ link'.upd = l.upd /\ link'.mode = l.mode /\ link'.lost = l.lost
  <2>1. link' = [l EXCEPT !.tx = <<>>]
    BY DEF Finish
  <2> QED BY <2>1 DEF LinkOK, LinkType
<1>3. toNode \in Seq(Requests) /\ l.tx \in Seq(Requests) /\ Newest(toNode) /\ Own(toNode, link)
  BY DEF TypesInv, QueuesOK, LinkOK, LinkType, WriteInv
\* The frames under way.
<1>4. PICK q \in Seq(Requests) :
         /\ q = IF link.sdo = "down" THEN toNode ELSE Earlier(toNode)
         /\ Len(q) = Len(toNode)
         /\ \A k \in 1 .. Len(q) : /\ IsWrite(q[k]) <=> IsWrite(toNode[k])
                                   /\ IsWrite(q[k]) => /\ q[k].i = toNode[k].i
                                                       /\ q[k].v = toNode[k].v
         /\ Newest(q) /\ Own(q, link)
         /\ link.sdo # "down" => \A k \in 1 .. Len(q) : IsWrite(q[k]) => ~q[k].now
  <2>1. CASE link.sdo = "down"
    BY <1>3, <2>1
  <2>2. CASE link.sdo # "down"
    <3>1. PICK e \in Seq(Requests) : /\ e = Earlier(toNode) /\ Len(e) = Len(toNode)
                                     /\ \A k \in 1 .. Len(toNode) : e[k] = Aged(toNode[k])
      BY <1>3, EarlierShape
    <3>2. \A k \in 1 .. Len(toNode) : toNode[k] \in Requests
      BY <1>3
    <3>3. \A k \in 1 .. Len(e) : /\ IsWrite(e[k]) <=> IsWrite(toNode[k])
                                 /\ IsWrite(e[k]) => /\ e[k].i = toNode[k].i
                                                     /\ e[k].v = toNode[k].v /\ ~e[k].now
      BY <3>1, <3>2, AgedShape DEF IsWrite
    <3>4. Newest(e) /\ Own(e, link)
      BY <2>2, <3>3 DEF Newest, Own
    <3> QED BY <2>2, <3>1, <3>3, <3>4
  <2> QED BY <2>1, <2>2
\* The frames sent.
<1>5. PICK s \in Seq(Requests) :
         /\ s = IF Repetition(l.tx) THEN Tail(l.tx) ELSE l.tx
         /\ \A k \in 1 .. Len(s) : IsWrite(s[k]) =>
               s[k].now /\ IF l.sdo = "down" THEN s[k].i = l.idx /\ s[k].v = l.data
                                             ELSE s[k].i \in l.lost \cup {0}
  <2>1. CASE ~Repetition(l.tx)
    BY <1>3, <2>1 DEF SentOK, IsWrite
  <2>2. CASE Repetition(l.tx)
    <3>1. l.tx # <<>>
      BY <2>2 DEF Repetition
    <3> DEFINE t == Tail(l.tx)
    <3>2. /\ t \in Seq(Requests)
          /\ \A k \in 1 .. Len(t) : t[k] = l.tx[k + 1] /\ k + 1 \in 1 .. Len(l.tx)
      BY <1>3, <3>1, TailShape
    <3> HIDE DEF t
    <3>3. \A k \in 1 .. Len(t) : IsWrite(t[k]) =>
             t[k].now /\ IF l.sdo = "down" THEN t[k].i = l.idx /\ t[k].v = l.data
                                           ELSE t[k].i \in l.lost \cup {0}
      BY <3>2, SMTT(30) DEF SentOK, IsWrite
    <3> QED BY <2>2, <3>2, <3>3 DEF t
  <2> QED BY <2>1, <2>2
<1>6. PICK r : r = toNode' /\ Behind(Requests, q, s, r)
  <2>1. toNode' = Queue(q, s)
    BY <1>4, <1>5 DEF Finish
  <2> QED BY <2>1, QueueShape
<1>7. PICK n \in Nat, h \in Nat : n = Len(q) /\ h = Len(s) /\ Len(r) \in Nat /\ Len(r) <= n + h
  <2>1. Len(q) \in Nat /\ Len(s) \in Nat
    OBVIOUS
  <2>2. r \in Seq(Requests) /\ Len(r) <= Len(q) + Len(s)
    BY <1>6 DEF Behind
  <2>3. Len(r) \in Nat
    BY <2>2
  <2> QED BY <2>1, <2>2, <2>3
<1>8. \A k \in 1 .. Len(r) : IF k <= n THEN k \in 1 .. n /\ r[k] = q[k]
                                       ELSE k - n \in 1 .. h /\ r[k] = s[k - n]
  <2>1. PICK z \in Nat : z = Len(r) /\ z <= n + h
    BY <1>7
  <2>2. \A k \in 1 .. z : IF k <= n THEN k \in 1 .. n ELSE k - n \in 1 .. h
    BY <2>1
  <2>3. \A k \in 1 .. Len(r) : r[k] = IF k <= n THEN q[k] ELSE s[k - n]
    BY <1>6, <1>7 DEF Behind
  <2> QED BY <2>1, <2>2, <2>3
<1>9. Newest(r)
  <2> SUFFICES ASSUME NEW k \in 1 .. Len(r), NEW j \in 1 .. Len(r),
                      k < j, IsWrite(r[k]), r[k].now, IsWrite(r[j])
               PROVE  r[j].now
    BY DEF Newest
  <2>1. CASE j <= n
    <3>1. k <= n
      BY <1>7, <2>1
    <3> QED BY <1>4, <1>7, <1>8, <2>1, <3>1 DEF Newest
  <2>2. CASE ~(j <= n)
    <3>1. j - n \in 1 .. Len(s) /\ r[j] = s[j - n]
      BY <1>7, <1>8, <2>2
    <3> QED BY <1>5, <3>1
  <2> QED BY <2>1, <2>2
<1>10. Own(r, l)
  <2> SUFFICES ASSUME l.sdo = "down", NEW k \in 1 .. Len(r), IsWrite(r[k]), r[k].now
               PROVE  r[k].i = l.idx /\ r[k].v = l.data
    BY DEF Own
  <2>1. CASE k <= n
    <3>1. k \in 1 .. Len(q) /\ r[k] = q[k]
      BY <1>7, <1>8, <2>1
    <3>2. link.sdo = "down"
      BY <1>4, <3>1
    <3>3. q[k].i = link.idx /\ q[k].v = link.data
      BY <1>4, <3>1, <3>2 DEF Own
    <3>4. l.idx = link.idx /\ l.data = link.data
      BY <3>2 DEF Works
    <3> QED BY <3>1, <3>3, <3>4
  <2>2. CASE ~(k <= n)
    <3>1. k - n \in 1 .. Len(s) /\ r[k] = s[k - n]
      BY <1>7, <1>8, <2>2
    <3> QED BY <1>5, <3>1
  <2> QED BY <2>1, <2>2
<1>11. Newest(toNode') /\ Own(toNode', link')
  BY <1>2, <1>6, <1>9, <1>10 DEF Own
<1>12. Unanswered'
  <2>1. Len(<<>>) = 0 /\ 1 .. 0 = {}
    OBVIOUS
  <2> QED BY <1>1, <2>1 DEF Unanswered
<1>13. ASSUME NEW i \in dict.outs
       PROVE  Kept(i)' /\ Carried(i)' /\ Placed(i)'
  <2>1. Kept(i) /\ Carried(i) /\ Placed(i) /\ i \in Entries /\ i # 0
    BY <1>1 DEF WriteInv
  <2>2. Kept(i)'
    BY <1>1, <1>2, <2>1 DEF Kept, Works
  <2>3. CASE i \in l.lost \/ Marked(l, i)
    <3>1. ~Sure(i)'
      BY <1>2, <2>3 DEF Sure, Marked
    <3> QED BY <2>2, <3>1 DEF Carried, Placed
  <2>4. CASE i \notin l.lost /\ ~Marked(l, i)
    <3>1. i \notin link.lost /\ l.val[i] = want[i]
      BY <2>1, <2>4 DEF Kept, Works
    <3>2. CASE Marked(link, i)
      <4>1. link.sdo # "down" /\ l.sdo = "down" /\ l.idx = i
        BY <2>1, <2>4, <3>2 DEF Works
      <4>2. l.data = want[i]
        BY <2>1, <3>1, <4>1 DEF Works
      <4> QED BY <1>1, <1>2, <1>12, <2>2, <4>1, <4>2 DEF Carried, Placed
    <3>3. CASE ~Marked(link, i)
      <4>1. Sure(i)
        BY <3>1, <3>3 DEF Sure
      <4>2. l.sdo = "down" /\ l.idx = i => l.data = want[i]
        <5>1. CASE link.sdo = "down"
          BY <2>1, <4>1, <5>1 DEF Carried, Works
        <5>2. CASE link.sdo # "down"
          BY <2>1, <3>1, <5>2 DEF Works
        <5> QED BY <5>1, <5>2
      <4>3. Carried(i)'
        BY <1>1, <1>2, <4>2 DEF Carried
      <4>4. CASE Settled(i)
        <5>1. \A k \in 1 .. Len(q) : IsWrite(q[k]) /\ q[k].i = i => q[k].v = want[i]
          BY <1>4, <4>4 DEF Settled
        <5>2. \A k \in 1 .. Len(s) : IsWrite(s[k]) /\ s[k].i = i => s[k].v = want[i]
          BY <1>5, <2>1, <2>4, <4>2
        <5>3. \A k \in 1 .. Len(r) : IsWrite(r[k]) /\ r[k].i = i => r[k].v = want[i]
          BY <1>7, <1>8, <5>1, <5>2, ZenonT(60)
        <5>4. Settled(i)'
          BY <1>1, <1>6, <4>4, <5>3 DEF Settled
        <5> QED BY <2>2, <4>3, <5>4 DEF Placed
      <4>5. CASE ~Settled(i)
        <5>1. link.sdo = "down" /\ link.idx = i
          BY <2>1, <4>1, <4>5 DEF Placed
        <5>2. l.sdo = "down" /\ l.idx = i
          BY <2>1, <2>4, <5>1 DEF Works
        <5> QED BY <1>2, <1>12, <2>2, <4>3, <5>2 DEF Placed
      <4> QED BY <4>4, <4>5
    <3> QED BY <3>2, <3>3
  <2> QED BY <2>3, <2>4
<1> QED BY <1>1, <1>11, <1>13 DEF WriteInv

LEMMA PassesWork ==
    ASSUME TypesInv
    PROVE  /\ Works(link, Link(link)) /\ SentOK(Link(link))
           /\ Works(link, Silent(Link(link))) /\ SentOK(Silent(Link(link)))
           /\ link.armed => Works(link, Resent(Link(link))) /\ SentOK(Resent(Link(link)))
<1>1. dict \in Dicts /\ LinkOK(link) /\ link.tx = <<>>
  BY DEF TypesInv
<1>2. PICK l : l = Link(link) /\ LinkOK(l) /\ Busy(link, l) /\ Works(link, l) /\ SentOK(l)
  BY <1>1, RunOK, LinkWorks
<1>3. link.armed => l.sdo \in {"down", "up"}
  BY <1>1, <1>2 DEF LinkOK, Busy
<1>4. link.armed => Works(link, Resent(l)) /\ SentOK(Resent(l))
  <2>1. link.armed => Same(l, Resent(l)) /\ SentOK(Resent(l))
    BY <1>2, <1>3, ResentWorks
  <2> QED BY <1>2, <2>1 DEF Works, Same, Marked
<1>5. Works(link, Silent(l)) /\ SentOK(Silent(l))
  <2>1. PICK m : m = Silent(l) /\ Works(l, m) /\ SentOK(m) /\ m.sdo = "finished"
    BY <1>1, <1>2, SilentWorks
  <2>2. m.val = link.val /\ link.lost \subseteq m.lost
    BY <1>2, <2>1 DEF Works
  <2>3. link.sdo = "down" => link.idx \in m.lost \cup {0}
    BY <1>2, <2>1 DEF Works
  <2>4. ASSUME NEW i \in Entries, Marked(link, i)
        PROVE  Marked(m, i) \/ i \in m.lost
    BY <1>1, <1>2, <2>1, <2>4, EntriesShape DEF Works
  <2> QED BY <2>1, <2>2, <2>3, <2>4 DEF Works
<1> QED BY <1>2, <1>4, <1>5

LEMMA NextWrites == TypesInv /\ WriteInv /\ [Next]_vars => WriteInv'
<1> SUFFICES ASSUME TypesInv, WriteInv, [Next]_vars PROVE WriteInv'
  OBVIOUS
<1>1. CASE Blocks
  BY <1>1, SendSDOWrites, SetUpLoadWrites DEF Blocks
<1>2. CASE Master
  <2>1. CASE Read
    BY <2>1, ReadWrites
  <2>2. CASE Run
    BY <2>2, PassesOK, PassesWork, FinishWrites DEF Run
  <2>3. CASE RunResend
    BY <2>3, PassesOK, PassesWork, FinishWrites DEF RunResend
  <2>4. CASE RunSilent
    BY <2>4, PassesOK, PassesWork, FinishWrites DEF RunSilent
  <2> QED BY <1>2, <2>1, <2>2, <2>3, <2>4 DEF Master
<1>3. CASE Device
  BY <1>3, ServeWrites, BusWrites, PowerOffWrites DEF Device
<1>4. CASE UNCHANGED vars
  <2>1. UNCHANGED <<dict, link, toNode, toMaster, node, want>>
    BY <1>4 DEF vars
  <2>2. Unanswered => Unanswered'
    BY <2>1 DEF Unanswered
  <2> QED BY <2>1, <2>2, FewerWrites
<1> QED BY <1>1, <1>2, <1>3, <1>4 DEF Next

\* A value that a block gives an entry is on the device, or the entry is
\* marked with it, or its transfer carries it, unless the write is one of
\* those that this master can lose (RecvUpLoad, RecvDownLoad, UpLoad, Fail).
THEOREM WrittenCorrect == Spec => []Written
<1>1. TypesInv /\ WriteInv => Written
  <2> SUFFICES ASSUME TypesInv, WriteInv, NEW i \in dict.outs
               PROVE  want[i] = node.reg[i] \/ OnItsWay(i) \/ i \in link.lost
    BY DEF Written
  <2>1. Kept(i) /\ Carried(i) /\ Placed(i)
    BY DEF WriteInv
  <2> QED BY <2>1 DEF Kept, Carried, Placed, Sure, Settled, Marked, OnItsWay
<1>2. Init => TypesInv /\ WriteInv
  BY InitTypes, InitWrites
<1>3. TypesInv /\ WriteInv /\ [Next]_vars => (TypesInv /\ WriteInv)'
  BY NextTypes, NextWrites
<1> QED BY <1>1, <1>2, <1>3, PTL DEF Spec
=============================================================================
