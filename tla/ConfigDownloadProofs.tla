------------------------ MODULE ConfigDownloadProofs -------------------------
(* Proofs about the download and the storage of a configuration, for every  *)
(* set of configurations, any number of sessions, repetitions and power     *)
(* failures, and links of any capacity.                                     *)
EXTENDS ConfigDownload, CommonLemmas

-----------------------------------------------------------------------------
(* The script of a configuration.                                           *)

TaskRange == [from : Nat, to : Nat]
FrameSet ==
    [kind : {"start", "save"}, body : {0}]
    \cup [kind : {"data", "comm"}, body : Seq(Nat)]
    \cup [kind : {"gv"}, body : Seq(Nat \X Nat)]
    \cup [kind : {"tasks"}, body : Seq(TaskRange)]
    \cup [kind : {"end"}, body : [blocks : Nat, pkgs : Nat]]

\* The numbers of frames of each kind.
DataFrames(c) == Len(c.data)
CommFrames(c) == Len(c.comm)
GvFrames(c)   == Len(c.gv)

LEMMA BoundShape ==
    /\ PkgLimit \in Nat /\ MaxComm \in Nat /\ MaxGV \in Nat /\ MaxSessions \in Nat
    /\ MaxSends \in Nat /\ MaxCuts \in Nat /\ Capacity \in Nat
  BY BoundAssumption

LEMMA ConfigShape ==
    ASSUME NEW c \in Configs
    PROVE  /\ c.data \in Seq(Seq(Nat)) /\ c.comm \in Seq(Seq(Nat))
           /\ c.gv \in Seq(Seq(Nat \X Nat)) /\ c.tasks \in Seq(TaskRange)
           /\ DataFrames(c) \in Nat /\ CommFrames(c) \in Nat /\ GvFrames(c) \in Nat
           /\ DataFrames(c) = Len(c.data) /\ CommFrames(c) = Len(c.comm) /\ GvFrames(c) = Len(c.gv)
           /\ DataFrames(c) \in 1 .. PkgLimit - 1 /\ PkgLimit >= 2
<1>1. /\ c.data \in Seq(Seq(Nat)) /\ c.comm \in Seq(Seq(Nat))
      /\ c.gv \in Seq(Seq(Nat \X Nat)) /\ c.tasks \in Seq(TaskRange)
  BY ConfigsAssumption DEF TaskRange
<1>2. DataFrames(c) \in Nat /\ CommFrames(c) \in Nat /\ GvFrames(c) \in Nat
  BY <1>1, SeqShape DEF DataFrames, CommFrames, GvFrames
<1>3. DataFrames(c) \in 1 .. PkgLimit - 1
  BY BoundAssumption DEF DataFrames
<1>4. PkgLimit >= 2
  <2>1. \A n \in 1 .. PkgLimit - 1 : PkgLimit >= 2
    BY BoundShape
  <2> QED BY <1>3, <2>1
<1>5. DataFrames(c) = Len(c.data) /\ CommFrames(c) = Len(c.comm) /\ GvFrames(c) = Len(c.gv)
  BY DEF DataFrames, CommFrames, GvFrames
<1> QED BY <1>1, <1>2, <1>3, <1>4, <1>5

\* A sequence made of two.
MadeOf(r, s, t) ==
    /\ Len(r) = Len(s) + Len(t)
    /\ \A k \in 1 .. Len(s) : r[k] = s[k]
    /\ \A k \in 1 .. Len(t) : r[Len(s) + k] = t[k]

LEMMA ConcatParts ==
    ASSUME NEW S, NEW s \in Seq(S), NEW t \in Seq(S), NEW r, r = s \o t
    PROVE  r \in Seq(S) /\ MadeOf(r, s, t)
<1>1. r \in Seq(S) /\ Len(r) = Len(s) + Len(t) /\ Len(t) \in Nat /\ Len(s) \in Nat
  BY ConcatShape, SeqShape
<1>2. ASSUME NEW k \in 1 .. Len(s) PROVE r[k] = s[k]
  <2>1. k \in 1 .. Len(s) + Len(t) /\ k <= Len(s)
    BY <1>1
  <2> QED BY <2>1, ConcatElement
<1>3. ASSUME NEW k \in 1 .. Len(t) PROVE r[Len(s) + k] = t[k]
  <2>1. /\ Len(s) + k \in 1 .. Len(s) + Len(t) /\ ~(Len(s) + k <= Len(s))
        /\ Len(s) + k - Len(s) = k
    BY <1>1
  <2> QED BY <2>1, ConcatElement
<1> QED BY <1>1, <1>2, <1>3 DEF MadeOf

\* Frames of this kind with such bodies belong to S.
Allowed(S, kind, B) == \A b \in B : [kind |-> kind, body |-> b] \in S

Carries(f, kind, bodies) ==
    /\ Len(f) = Len(bodies)
    /\ \A i \in 1 .. Len(bodies) : f[i] = [kind |-> kind, body |-> bodies[i]]

LEMMA FramesShape ==
    ASSUME NEW S, NEW B, NEW bodies \in Seq(B), NEW kind, Allowed(S, kind, B),
           NEW f, f = Frames(kind, bodies)
    PROVE  f \in Seq(S) /\ Carries(f, kind, bodies)
<1>1. Len(bodies) \in Nat /\ DOMAIN bodies = 1 .. Len(bodies)
  BY SeqShape
<1>2. f = [i \in 1 .. Len(bodies) |-> [kind |-> kind, body |-> bodies[i]]]
  BY <1>1 DEF Frames
<1>3. \A i \in 1 .. Len(bodies) : bodies[i] \in B
  BY <1>1, SeqShape
<1>4. f \in [1 .. Len(bodies) -> S]
  BY <1>2, <1>3 DEF Allowed
<1>5. f \in Seq(S) /\ Len(f) = Len(bodies)
  BY <1>1, <1>4, FunctionIsSeq
<1> QED BY <1>2, <1>5 DEF Carries

\* A frame of one body.
LEMMA OneFrame ==
    ASSUME NEW S, NEW b, NEW kind, [kind |-> kind, body |-> b] \in S,
           NEW f, f = Frames(kind, <<b>>)
    PROVE  f \in Seq(S) /\ Len(f) = 1 /\ f[1] = [kind |-> kind, body |-> b]
<1>1. PICK s : s = <<b>> /\ s \in Seq({b}) /\ Len(s) = 1 /\ s[1] = b
  <2>1. <<b>> \in Seq({b}) /\ Len(<<b>>) = 1 /\ <<b>>[1] = b
    OBVIOUS
  <2> QED BY <2>1
<1>2. Allowed(S, kind, {b})
  BY DEF Allowed
<1>3. f = Frames(kind, s)
  BY <1>1
<1>4. f \in Seq(S) /\ Carries(f, kind, s)
  BY <1>1, <1>2, <1>3, FramesShape
<1>5. 1 \in 1 .. Len(s)
  BY <1>1
<1> QED BY <1>1, <1>4, <1>5 DEF Carries

LEMMA BlocksShape ==
    ASSUME NEW c \in Configs
    PROVE  /\ Blocks(c) = FirstOf(c.data, Len(c.data)) /\ Blocks(c) \in Seq(Nat)
           /\ FlattenSeq(c.comm) = FirstOf(c.comm, Len(c.comm))
           /\ FlattenSeq(c.gv) = FirstOf(c.gv, Len(c.gv))
  BY ConfigShape, FirstOfAll DEF Blocks

Counts(c) == [blocks |-> Len(Blocks(c)), pkgs |-> Len(c.data) % PkgLimit]

LEMMA CountsShape ==
    ASSUME NEW c \in Configs
    PROVE  Counts(c) \in [blocks : Nat, pkgs : Nat] /\ Counts(c).pkgs = DataFrames(c)
<1>1. Len(Blocks(c)) \in Nat
  BY BlocksShape, SeqShape
<1>2. DataFrames(c) % PkgLimit = DataFrames(c)
  <2>1. \A p \in Nat, n \in Nat : n < p => n % p = n
    OBVIOUS
  <2>2. DataFrames(c) < PkgLimit
    BY ConfigShape, BoundShape
  <2> QED BY <2>1, <2>2, ConfigShape, BoundShape
<1> QED BY <1>1, <1>2, ConfigShape DEF Counts, DataFrames

\* The frames of a script of D data, C communication and G variable frames,
\* one kind after the other.
Scripted(c, D, C, G) ==
    /\ Script(c) \in Seq(FrameSet) /\ Len(Script(c)) = D + C + G + 4
    /\ Script(c)[1] = [kind |-> "start", body |-> 0]
    /\ \A k \in 1 .. D : Script(c)[1 + k] = [kind |-> "data", body |-> c.data[k]]
    /\ \A k \in 1 .. C : Script(c)[1 + D + k] = [kind |-> "comm", body |-> c.comm[k]]
    /\ \A k \in 1 .. G : Script(c)[1 + D + C + k] = [kind |-> "gv", body |-> c.gv[k]]
    /\ Script(c)[D + C + G + 2] = [kind |-> "tasks", body |-> c.tasks]
    /\ Script(c)[D + C + G + 3] = [kind |-> "end", body |-> Counts(c)]
    /\ Script(c)[D + C + G + 4] = [kind |-> "save", body |-> 0]

LEMMA ScriptShape ==
    ASSUME NEW c \in Configs, NEW D \in Nat, NEW C \in Nat, NEW G \in Nat,
           D = DataFrames(c), C = CommFrames(c), G = GvFrames(c)
    PROVE  Scripted(c, D, C, G)
<1>0. D \in Nat /\ C \in Nat /\ G \in Nat
  BY ConfigShape
<1>30. Script(c) = Frames("start", <<0>>) \o Frames("data", c.data) \o Frames("comm", c.comm)
                  \o Frames("gv", c.gv) \o Frames("tasks", <<c.tasks>>)
                  \o Frames("end", <<Counts(c)>>) \o Frames("save", <<0>>)
  BY DEF Script, Counts
<1>1. PICK f1 : /\ f1 = Frames("start", <<0>>)
                /\ f1 \in Seq(FrameSet) /\ Len(f1) = 1 /\ f1[1] = [kind |-> "start", body |-> 0]
  <2>1. [kind |-> "start", body |-> 0] \in FrameSet
    BY DEF FrameSet
  <2> QED BY <2>1, OneFrame
<1>2. PICK f2 : /\ f2 = Frames("data", c.data) /\ f2 \in Seq(FrameSet) /\ Len(f2) = D
                /\ \A k \in 1 .. D : f2[k] = [kind |-> "data", body |-> c.data[k]]
  <2>1. Allowed(FrameSet, "data", Seq(Nat))
    BY DEF FrameSet, Allowed
  <2>2. c.data \in Seq(Seq(Nat)) /\ Len(c.data) = D
    BY ConfigShape
  <2>3. PICK f : f = Frames("data", c.data)
    OBVIOUS
  <2>4. f \in Seq(FrameSet) /\ Carries(f, "data", c.data)
    BY <2>1, <2>2, <2>3, FramesShape
  <2> QED BY <2>2, <2>3, <2>4 DEF Carries
<1>3. PICK f3 : /\ f3 = Frames("comm", c.comm) /\ f3 \in Seq(FrameSet) /\ Len(f3) = C
                /\ \A k \in 1 .. C : f3[k] = [kind |-> "comm", body |-> c.comm[k]]
  <2>1. Allowed(FrameSet, "comm", Seq(Nat))
    BY DEF FrameSet, Allowed
  <2>2. c.comm \in Seq(Seq(Nat)) /\ Len(c.comm) = C
    BY ConfigShape
  <2>3. PICK f : f = Frames("comm", c.comm)
    OBVIOUS
  <2>4. f \in Seq(FrameSet) /\ Carries(f, "comm", c.comm)
    BY <2>1, <2>2, <2>3, FramesShape
  <2> QED BY <2>2, <2>3, <2>4 DEF Carries
<1>4. PICK f4 : /\ f4 = Frames("gv", c.gv) /\ f4 \in Seq(FrameSet) /\ Len(f4) = G
                /\ \A k \in 1 .. G : f4[k] = [kind |-> "gv", body |-> c.gv[k]]
  <2>1. Allowed(FrameSet, "gv", Seq(Nat \X Nat))
    BY DEF FrameSet, Allowed
  <2>2. c.gv \in Seq(Seq(Nat \X Nat)) /\ Len(c.gv) = G
    BY ConfigShape
  <2>3. PICK f : f = Frames("gv", c.gv)
    OBVIOUS
  <2>4. f \in Seq(FrameSet) /\ Carries(f, "gv", c.gv)
    BY <2>1, <2>2, <2>3, FramesShape
  <2> QED BY <2>2, <2>3, <2>4 DEF Carries
<1>5. PICK f5 : /\ f5 = Frames("tasks", <<c.tasks>>) /\ f5 \in Seq(FrameSet) /\ Len(f5) = 1
                /\ f5[1] = [kind |-> "tasks", body |-> c.tasks]
  <2>1. [kind |-> "tasks", body |-> c.tasks] \in FrameSet
    BY ConfigShape DEF FrameSet
  <2> QED BY <2>1, OneFrame
<1>6. PICK f6 : /\ f6 = Frames("end", <<Counts(c)>>) /\ f6 \in Seq(FrameSet) /\ Len(f6) = 1
                /\ f6[1] = [kind |-> "end", body |-> Counts(c)]
  <2>1. [kind |-> "end", body |-> Counts(c)] \in FrameSet
    BY CountsShape DEF FrameSet
  <2> QED BY <2>1, OneFrame
<1>7. PICK f7 : /\ f7 = Frames("save", <<0>>) /\ f7 \in Seq(FrameSet) /\ Len(f7) = 1
                /\ f7[1] = [kind |-> "save", body |-> 0]
  <2>1. [kind |-> "save", body |-> 0] \in FrameSet
    BY DEF FrameSet
  <2> QED BY <2>1, OneFrame
<1>31. PICK s2 : s2 = f1 \o f2
  OBVIOUS
<1>32. PICK s3 : s3 = s2 \o f3
  OBVIOUS
<1>33. PICK s4 : s4 = s3 \o f4
  OBVIOUS
<1>34. PICK s5 : s5 = s4 \o f5
  OBVIOUS
<1>35. PICK s6 : s6 = s5 \o f6
  OBVIOUS
<1>8. /\ s2 = f1 \o f2 /\ s3 = s2 \o f3 /\ s4 = s3 \o f4 /\ s5 = s4 \o f5 /\ s6 = s5 \o f6
      /\ Script(c) = s6 \o f7
  <2>1. /\ f1 = Frames("start", <<0>>) /\ f2 = Frames("data", c.data) /\ f3 = Frames("comm", c.comm)
        /\ f4 = Frames("gv", c.gv) /\ f5 = Frames("tasks", <<c.tasks>>)
        /\ f6 = Frames("end", <<Counts(c)>>) /\ f7 = Frames("save", <<0>>)
    BY <1>1, <1>2, <1>3, <1>4, <1>5, <1>6, <1>7
  <2> QED BY <1>30, <1>31, <1>32, <1>33, <1>34, <1>35, <2>1
<1>9. /\ s2 \in Seq(FrameSet) /\ Len(s2) = 1 + D
      /\ s2[1] = f1[1] /\ \A k \in 1 .. D : s2[1 + k] = f2[k]
  <2>1. s2 \in Seq(FrameSet) /\ MadeOf(s2, f1, f2)
    BY <1>1, <1>2, <1>8, ConcatParts
  <2>2. 1 \in 1 .. Len(f1)
    BY <1>1
  <2> QED BY <1>1, <1>2, <2>1, <2>2 DEF MadeOf
<1>10. /\ s3 \in Seq(FrameSet) /\ Len(s3) = 1 + D + C
       /\ \A k \in 1 .. 1 + D : s3[k] = s2[k]
       /\ \A k \in 1 .. C : s3[1 + D + k] = f3[k]
  <2>1. s3 \in Seq(FrameSet) /\ MadeOf(s3, s2, f3)
    BY <1>9, <1>3, <1>8, ConcatParts
  <2> QED BY <1>9, <1>3, <2>1 DEF MadeOf
<1>11. /\ s4 \in Seq(FrameSet) /\ Len(s4) = 1 + D + C + G
       /\ \A k \in 1 .. 1 + D + C : s4[k] = s3[k]
       /\ \A k \in 1 .. G : s4[1 + D + C + k] = f4[k]
  <2>1. s4 \in Seq(FrameSet) /\ MadeOf(s4, s3, f4)
    BY <1>10, <1>4, <1>8, ConcatParts
  <2> QED BY <1>10, <1>4, <2>1 DEF MadeOf
<1>12. /\ s5 \in Seq(FrameSet) /\ Len(s5) = D + C + G + 2
       /\ \A k \in 1 .. 1 + D + C + G : s5[k] = s4[k]
       /\ s5[D + C + G + 2] = f5[1]
  <2>1. s5 \in Seq(FrameSet) /\ MadeOf(s5, s4, f5)
    BY <1>11, <1>5, <1>8, ConcatParts
  <2>2. Len(s4) + 1 = D + C + G + 2
    <3>1. Len(s4) = 1 + D + C + G
      BY <1>11
    <3> QED BY <1>0, <3>1, SMTT(30)
  <2>3. Len(f5) = 1 /\ 1 \in 1 .. 1
    BY <1>5
  <2> QED BY <1>11, <2>1, <2>2, <2>3 DEF MadeOf
<1>13. /\ s6 \in Seq(FrameSet) /\ Len(s6) = D + C + G + 3
       /\ \A k \in 1 .. D + C + G + 2 : s6[k] = s5[k]
       /\ s6[D + C + G + 3] = f6[1]
  <2>1. s6 \in Seq(FrameSet) /\ MadeOf(s6, s5, f6)
    BY <1>12, <1>6, <1>8, ConcatParts
  <2>2. Len(s5) + 1 = D + C + G + 3
    BY <1>0, <1>12
  <2>3. Len(f6) = 1 /\ 1 \in 1 .. 1
    BY <1>6
  <2> QED BY <1>12, <2>1, <2>2, <2>3 DEF MadeOf
<1>14. /\ Script(c) \in Seq(FrameSet) /\ Len(Script(c)) = D + C + G + 4
       /\ \A k \in 1 .. D + C + G + 3 : Script(c)[k] = s6[k]
       /\ Script(c)[D + C + G + 4] = f7[1]
  <2>1. Script(c) \in Seq(FrameSet) /\ MadeOf(Script(c), s6, f7)
    BY <1>13, <1>7, <1>8, ConcatParts
  <2>2. Len(s6) + 1 = D + C + G + 4
    BY <1>0, <1>13, SMTT(30)
  <2>3. Len(f7) = 1 /\ 1 \in 1 .. 1
    BY <1>7
  <2> QED BY <1>13, <2>1, <2>2, <2>3 DEF MadeOf
<1>15. \A k \in 1 .. 1 + D + C + G : Script(c)[k] = s4[k]
  <2>1. /\ \A k \in 1 .. D + C + G + 3 : Script(c)[k] = s6[k]
        /\ \A k \in 1 .. D + C + G + 2 : s6[k] = s5[k]
        /\ \A k \in 1 .. 1 + D + C + G : s5[k] = s4[k]
    BY <1>12, <1>13, <1>14
  <2>2. \A k \in 1 .. 1 + D + C + G : k \in 1 .. D + C + G + 2 /\ k \in 1 .. D + C + G + 3
    BY <1>0
  <2> QED BY <2>1, <2>2
<1>16. \A k \in 1 .. 1 + D + C : Script(c)[k] = s3[k]
  BY <1>0, <1>11, <1>15
<1>17. \A k \in 1 .. 1 + D : Script(c)[k] = s2[k]
  BY <1>0, <1>10, <1>16
<1>18. Script(c)[1] = [kind |-> "start", body |-> 0]
  <2>1. 1 \in 1 .. 1 + D
    BY <1>0
  <2> QED BY <2>1, <1>1, <1>9, <1>17
<1>19. ASSUME NEW k \in 1 .. D PROVE Script(c)[1 + k] = [kind |-> "data", body |-> c.data[k]]
  <2>1. 1 + k \in 1 .. 1 + D
    BY <1>0
  <2> QED BY <2>1, <1>2, <1>9, <1>17
<1>20. ASSUME NEW k \in 1 .. C PROVE Script(c)[1 + D + k] = [kind |-> "comm", body |-> c.comm[k]]
  <2>1. 1 + D + k \in 1 .. 1 + D + C
    BY <1>0
  <2> QED BY <2>1, <1>3, <1>10, <1>16
<1>21. ASSUME NEW k \in 1 .. G PROVE Script(c)[1 + D + C + k] = [kind |-> "gv", body |-> c.gv[k]]
  <2>1. 1 + D + C + k \in 1 .. 1 + D + C + G
    BY <1>0
  <2> QED BY <2>1, <1>4, <1>11, <1>15
<1>22. Script(c)[D + C + G + 2] = [kind |-> "tasks", body |-> c.tasks]
  <2>1. D + C + G + 2 \in 1 .. D + C + G + 2 /\ D + C + G + 2 \in 1 .. D + C + G + 3
    BY <1>0
  <2> QED BY <2>1, <1>5, <1>12, <1>13, <1>14
<1>23. Script(c)[D + C + G + 3] = [kind |-> "end", body |-> Counts(c)]
  <2>1. D + C + G + 3 \in 1 .. D + C + G + 3
    BY <1>0
  <2> QED BY <2>1, <1>6, <1>13, <1>14
<1> QED BY <1>7, <1>14, <1>18, <1>19, <1>20, <1>21, <1>22, <1>23 DEF Scripted

LastOf(c) == Len(Script(c))

LEMMA LastShape ==
    ASSUME NEW c \in Configs
    PROVE  /\ LastOf(c) = DataFrames(c) + CommFrames(c) + GvFrames(c) + 4
           /\ LastOf(c) \in Nat /\ LastOf(c) >= 5
<1>1. LastOf(c) = DataFrames(c) + CommFrames(c) + GvFrames(c) + 4
  <2>1. PICK D \in Nat, C \in Nat, G \in Nat :
           D = DataFrames(c) /\ C = CommFrames(c) /\ G = GvFrames(c)
    BY ConfigShape
  <2>2. Scripted(c, D, C, G)
    BY <2>1, ScriptShape
  <2>3. Len(Script(c)) = D + C + G + 4
    BY <2>2 DEF Scripted
  <2> QED BY <2>1, <2>3 DEF LastOf
<1>2. DataFrames(c) \in Nat /\ CommFrames(c) \in Nat /\ GvFrames(c) \in Nat /\ DataFrames(c) >= 1
  <2>1. DataFrames(c) \in 1 .. PkgLimit - 1 /\ DataFrames(c) \in Nat
    BY ConfigShape
  <2>2. \A n \in 1 .. PkgLimit - 1 : n >= 1
    BY BoundShape
  <2> QED BY <2>1, <2>2, ConfigShape
<1> QED BY <1>1, <1>2

\* The frames under way are frames of a script.
Request == {m \in [cfg : Configs, at : Nat] : m.at \in 1 .. LastOf(m.cfg)}

LEMMA BodyShape ==
    ASSUME NEW m \in Request
    PROVE  /\ Frame(m) \in FrameSet
           /\ Frame(m).kind = "data" => Frame(m).body \in Seq(Nat)
           /\ Frame(m).kind = "comm" => Frame(m).body \in Seq(Nat)
           /\ Frame(m).kind = "gv" => Frame(m).body \in Seq(Nat \X Nat)
           /\ Frame(m).kind = "tasks" => Frame(m).body \in Seq(TaskRange)
<1>1. m.cfg \in Configs /\ m.at \in 1 .. LastOf(m.cfg)
  BY DEF Request
<1>2. Script(m.cfg) \in Seq(FrameSet)
  <2>1. Scripted(m.cfg, DataFrames(m.cfg), CommFrames(m.cfg), GvFrames(m.cfg))
    BY <1>1, ConfigShape, ScriptShape
  <2> QED BY <2>1 DEF Scripted
<1>3. Frame(m) \in FrameSet
  BY <1>1, <1>2, ElementOfSeq DEF Frame, LastOf
<1>4. ASSUME NEW f \in FrameSet
      PROVE  /\ f.kind = "data" => f.body \in Seq(Nat)
             /\ f.kind = "comm" => f.body \in Seq(Nat)
             /\ f.kind = "gv" => f.body \in Seq(Nat \X Nat)
             /\ f.kind = "tasks" => f.body \in Seq(TaskRange)
  BY DEF FrameSet
<1> QED BY <1>3, <1>4

LEMMA TailShape ==
    ASSUME NEW S, NEW s \in Seq(S), s # <<>>
    PROVE  /\ Tail(s) \in Seq(S) /\ Len(Tail(s)) = Len(s) - 1 /\ Len(s) \in Nat
           /\ Head(s) = s[1] /\ Head(s) \in S /\ 1 \in 1 .. Len(s)
           /\ \A k \in 1 .. Len(Tail(s)) : k + 1 \in 1 .. Len(s) /\ Tail(s)[k] = s[k + 1]
  BY HeadTailProperties

LEMMA AppendShape ==
    ASSUME NEW S, NEW s \in Seq(S), NEW x \in S
    PROVE  /\ Append(s, x) \in Seq(S) /\ Len(Append(s, x)) = Len(s) + 1 /\ Len(s) \in Nat
           /\ \A k \in 1 .. Len(s) + 1 :
                 Append(s, x)[k] = IF k <= Len(s) THEN s[k] ELSE x
  BY AppendProperties

-----------------------------------------------------------------------------
(* Types.                                                                   *)

ParaSet    == [flag : Nat, num : Nat, total : Nat, can : {1, Blank}]
RuntimeSet == [tasks : Seq(TaskRange), list : Seq(Nat), area : [Area -> Nat]]
FlashSet   == [para : ParaSet, runtime : RuntimeSet]
BlockSet(i) == IF BlockOf(i) = "para" THEN ParaSet ELSE RuntimeSet
AnswerSet  == [at : Nat, ok : BOOLEAN]

RamTypes ==
    /\ list \in Seq(Nat) /\ pkgs \in 0 .. PkgLimit - 1 /\ comm \in Seq(Nat)
    /\ gv \in Seq(Nat \X Nat) /\ tasks \in Seq(TaskRange) /\ can \in {1, Blank}

StoreTypes ==
    /\ flash \in FlashSet /\ step \in 0 .. LastWrite
    /\ buf = <<>> \/ \E b \in BlockSet(step) : step > 0 /\ buf = <<b>>
    /\ power \in {"on", "off", "wild"} /\ (power # "on" => step = 0)

StudioTypes ==
    /\ cfg \in Configs /\ at \in 0 .. LastOf(cfg) /\ sends \in 0 .. MaxSends

LinkTypes ==
    /\ req \in Seq(Request) /\ Len(req) <= Capacity
    /\ rep \in Seq(AnswerSet) /\ Len(rep) <= Capacity

PastTypes == accepted \subseteq Configs /\ due \in Nat

TypesInv == RamTypes /\ StoreTypes /\ StudioTypes /\ LinkTypes /\ PastTypes

LEMMA SameRam ==
    ASSUME RamTypes, UNCHANGED <<list, pkgs, comm, gv, tasks, can>> PROVE RamTypes'
  BY DEF RamTypes
LEMMA SameStore == ASSUME StoreTypes, UNCHANGED <<flash, step, buf, power>> PROVE StoreTypes'
  BY DEF StoreTypes, FlashSet, ParaSet, RuntimeSet, BlockSet, BlockOf
LEMMA SameStudio == ASSUME StudioTypes, UNCHANGED <<cfg, at, sends>> PROVE StudioTypes'
  BY DEF StudioTypes, LastOf, Script
LEMMA SameLinks == ASSUME LinkTypes, UNCHANGED links PROVE LinkTypes'
  BY DEF LinkTypes, links
LEMMA SamePast == ASSUME PastTypes, UNCHANGED <<accepted, due>> PROVE PastTypes'
  BY DEF PastTypes

LEMMA InitTypes == ASSUME Init PROVE TypesInv
<1>1. RamTypes
  <2>1. PkgLimit >= 2
    <3>1. cfg \in Configs
      BY DEF Init
    <3> QED BY <3>1, ConfigShape
  <2>2. 0 \in 0 .. PkgLimit - 1
    BY <2>1, BoundShape
  <2> QED BY <2>2 DEF Init, RamTypes
<1>2. StoreTypes
  <2>1. Blank \in Nat /\ Blank \in {1, Blank}
    BY DEF Blank
  <2>2. /\ flash.para = [flag |-> Blank, num |-> Blank, total |-> Blank, can |-> 1]
        /\ flash.runtime = [tasks |-> <<>>, list |-> <<>>, area |-> [a \in Area |-> Blank]]
        /\ flash = [para |-> flash.para, runtime |-> flash.runtime]
    BY DEF Init, Erased
  <2>3. flash.para \in ParaSet
    BY <2>1, <2>2 DEF ParaSet
  <2>4. flash.runtime \in RuntimeSet
    <3>1. [a \in Area |-> Blank] \in [Area -> Nat]
      BY <2>1
    <3> QED BY <2>2, <3>1 DEF RuntimeSet
  <2>5. flash \in FlashSet
    BY <2>2, <2>3, <2>4 DEF FlashSet
  <2> QED BY <2>5 DEF Init, StoreTypes, LastWrite
<1>3. StudioTypes
  <2>1. cfg \in Configs /\ at = 0 /\ sends = 0
    BY DEF Init
  <2> QED BY <2>1, LastShape, BoundShape DEF StudioTypes
<1>4. LinkTypes
  BY BoundShape DEF Init, LinkTypes
<1>5. PastTypes
  BY DEF Init, PastTypes
<1> QED BY <1>1, <1>2, <1>3, <1>4, <1>5 DEF TypesInv

ReqTypes == req \in Seq(Request) /\ Len(req) <= Capacity
RepTypes == rep \in Seq(AnswerSet) /\ Len(rep) <= Capacity

LEMMA LinkParts == LinkTypes <=> ReqTypes /\ RepTypes
  BY DEF LinkTypes, ReqTypes, RepTypes

LEMMA TailTypes ==
    ASSUME NEW S, NEW s \in Seq(S), NEW n \in Nat, s # <<>>, Len(s) <= n
    PROVE  Tail(s) \in Seq(S) /\ Len(Tail(s)) <= n
<1>1. Tail(s) \in Seq(S) /\ Len(Tail(s)) = Len(s) - 1 /\ Len(s) \in Nat
  BY TailShape
<1> QED BY <1>1

LEMMA ReceiveTypes ==
    ASSUME ReqTypes, NEW kind, Receive(kind)
    PROVE  /\ ReqTypes' /\ Head(req) \in Request /\ Frame(Head(req)).kind = kind
           /\ req # <<>> /\ req' = Tail(req) /\ step = 0 /\ power = "on"
  BY TailTypes, TailShape, BoundShape DEF Receive, ReqTypes

LEMMA AnswerTypes ==
    ASSUME RepTypes, NEW stamp \in Nat, NEW ok \in BOOLEAN, Answer(stamp, ok)
    PROVE  RepTypes'
<1>1. CASE Len(rep) < Capacity
  <2>1. PICK a \in AnswerSet : a = [at |-> stamp, ok |-> ok]
    BY DEF AnswerSet
  <2>2. rep' = Append(rep, a)
    BY <1>1, <2>1 DEF Answer
  <2>3. rep' \in Seq(AnswerSet) /\ Len(rep') = Len(rep) + 1 /\ Len(rep) \in Nat
    BY <2>2, AppendShape DEF RepTypes
  <2>4. Len(rep') <= Capacity
    BY <1>1, <2>3, BoundShape
  <2> QED BY <2>3, <2>4 DEF RepTypes
<1>2. CASE ~(Len(rep) < Capacity)
  BY <1>2 DEF Answer, RepTypes
<1> QED BY <1>1, <1>2

LEMMA ShorterReq == ASSUME ReqTypes, req # <<>>, req' = Tail(req) PROVE ReqTypes'
  BY TailTypes, BoundShape DEF ReqTypes
LEMMA ShorterRep == ASSUME RepTypes, rep # <<>>, rep' = Tail(rep) PROVE RepTypes'
  BY TailTypes, BoundShape DEF RepTypes
LEMMA SameReq == ASSUME ReqTypes, req' = req PROVE ReqTypes'
  BY DEF ReqTypes
LEMMA SameRep == ASSUME RepTypes, rep' = rep PROVE RepTypes'
  BY DEF RepTypes
LEMMA LinkPartsNext == ReqTypes' /\ RepTypes' => LinkTypes'
  BY DEF LinkTypes, ReqTypes, RepTypes

LEMMA ReplyTypes ==
    ASSUME RepTypes, Head(req) \in Request, NEW ok \in BOOLEAN, Reply(ok)
    PROVE  RepTypes'
<1>1. Head(req).at \in Nat
  BY DEF Request
<1> QED BY <1>1, AnswerTypes DEF Reply

LEMMA TurnTypes == ASSUME PastTypes, Turn, accepted' \subseteq Configs PROVE PastTypes'
  BY DEF PastTypes, Turn

LEMMA BeginTypes ==
    ASSUME TypesInv, NEW c \in Configs, NEW first \in {1, LastOf(c)}, BeginSession(c, first)
    PROVE  TypesInv'
<1>1. RamTypes' /\ StoreTypes' /\ LinkTypes' /\ PastTypes'
  BY SameRam, SameStore, SameLinks, SamePast DEF TypesInv, BeginSession, ram, store, past
<1>2. first \in 0 .. LastOf(c)
  BY LastShape
<1>3. LastOf(cfg') = LastOf(c) /\ cfg' = c /\ at' = first /\ sends' = 0
  BY DEF BeginSession
<1>4. StudioTypes'
  BY <1>2, <1>3, BoundShape DEF StudioTypes
<1> QED BY <1>1, <1>4 DEF TypesInv

LEMMA SendTypes == ASSUME TypesInv, Send PROVE TypesInv'
<1>1. RamTypes' /\ StoreTypes' /\ PastTypes'
  BY SameRam, SameStore, SamePast DEF TypesInv, Send, ram, store, past
<1>2. cfg' = cfg /\ at' = at /\ sends' = sends + 1 /\ LastOf(cfg') = LastOf(cfg)
  BY DEF Send
<1>3. StudioTypes'
  <2>1. sends + 1 \in 0 .. MaxSends
    BY BoundShape DEF TypesInv, StudioTypes, Send
  <2> QED BY <1>2, <2>1 DEF TypesInv, StudioTypes
<1>4. PICK m \in Request : m = [cfg |-> cfg, at |-> at]
  <2>1. at \in 1 .. LastOf(cfg) /\ at \in Nat
    BY LastShape DEF TypesInv, StudioTypes, Send
  <2>2. [cfg |-> cfg, at |-> at].at \in 1 .. LastOf([cfg |-> cfg, at |-> at].cfg)
    BY <2>1
  <2>3. [cfg |-> cfg, at |-> at] \in [cfg : Configs, at : Nat]
    BY <2>1 DEF TypesInv, StudioTypes
  <2> QED BY <2>2, <2>3 DEF Request
<1>5. req' = Append(req, m) /\ Len(req) < Capacity /\ rep' = rep
  BY <1>4 DEF Send
<1>6. req \in Seq(Request) /\ RepTypes
  BY LinkParts DEF TypesInv, ReqTypes
<1>7. req' \in Seq(Request) /\ Len(req') = Len(req) + 1 /\ Len(req) \in Nat
  BY <1>5, <1>6, AppendShape
<1>8. Len(req') <= Capacity
  BY <1>5, <1>7, BoundShape
<1>9. LinkTypes'
  BY <1>5, <1>6, <1>7, <1>8 DEF RepTypes, LinkTypes
<1> QED BY <1>1, <1>3, <1>9 DEF TypesInv

LEMMA TakeTypes == ASSUME TypesInv, TakeAnswer PROVE TypesInv'
<1>1. RamTypes' /\ StoreTypes' /\ PastTypes'
  BY SameRam, SameStore, SamePast DEF TypesInv, TakeAnswer, ram, store, past
<1>2. cfg' = cfg /\ LastOf(cfg') = LastOf(cfg) /\ LastOf(cfg) = Len(Script(cfg))
  BY DEF TakeAnswer, LastOf
<1>3. StudioTypes'
  <2>1. cfg \in Configs /\ at \in 0 .. LastOf(cfg) /\ sends \in 0 .. MaxSends /\ LastOf(cfg) \in Nat
    BY LastShape DEF TypesInv, StudioTypes
  <2>2. CASE UNCHANGED <<at, sends>>
    BY <1>2, <2>1, <2>2 DEF StudioTypes
  <2>3. CASE sends' = 0 /\ at' = 0
    BY <1>2, <2>1, <2>3, BoundShape DEF StudioTypes
  <2>4. CASE sends' = 0 /\ at < LastOf(cfg) /\ at' = at + 1
    <3>1. at + 1 \in 0 .. LastOf(cfg)
      BY <2>1, <2>4
    <3> QED BY <1>2, <2>1, <2>4, <3>1, BoundShape DEF StudioTypes
  <2> QED BY <1>2, <2>2, <2>3, <2>4 DEF TakeAnswer
<1>4. ReqTypes' /\ RepTypes'
  BY LinkParts, SameReq, ShorterRep DEF TypesInv, TakeAnswer
<1> QED BY <1>1, <1>3, <1>4, LinkPartsNext DEF TypesInv

LEMMA GiveUpTypes == ASSUME TypesInv, GiveUp PROVE TypesInv'
<1>1. RamTypes' /\ StoreTypes' /\ PastTypes' /\ LinkTypes'
  BY SameRam, SameStore, SamePast, SameLinks DEF TypesInv, GiveUp, ram, store, past
<1>2. cfg' = cfg /\ LastOf(cfg') = LastOf(cfg) /\ at' = 0 /\ sends' = 0
  BY DEF GiveUp
<1>3. StudioTypes'
  BY <1>2, LastShape, BoundShape DEF TypesInv, StudioTypes
<1> QED BY <1>1, <1>3 DEF TypesInv

LEMMA LoseTypes == ASSUME TypesInv, LoseFrame \/ LoseAnswer PROVE TypesInv'
<1>1. RamTypes' /\ StoreTypes' /\ PastTypes' /\ StudioTypes'
  BY SameRam, SameStore, SamePast, SameStudio
     DEF TypesInv, LoseFrame, LoseAnswer, ram, store, past, studio
<1>2. ReqTypes /\ RepTypes
  BY LinkParts DEF TypesInv
<1>3. ASSUME LoseFrame PROVE ReqTypes' /\ RepTypes'
  <2>1. req # <<>> /\ req' = Tail(req) /\ rep' = rep
    BY <1>3 DEF LoseFrame
  <2>2. ReqTypes'
    BY <1>2, <2>1, ShorterReq
  <2>3. RepTypes'
    BY <1>2, <2>1, SameRep
  <2> QED BY <2>2, <2>3
<1>4. ASSUME LoseAnswer PROVE ReqTypes' /\ RepTypes'
  <2>1. rep # <<>> /\ rep' = Tail(rep) /\ req' = req
    BY <1>4 DEF LoseAnswer
  <2>2. ReqTypes'
    BY <1>2, <2>1, SameReq
  <2>3. RepTypes'
    BY <1>2, <2>1, ShorterRep
  <2> QED BY <2>2, <2>3
<1> QED BY <1>1, <1>3, <1>4, LinkPartsNext DEF TypesInv

LEMMA StartTypes == ASSUME TypesInv, NEW crc \in BOOLEAN, ApplyStartFrame(crc) PROVE TypesInv'
<1>1. ReqTypes' /\ Head(req) \in Request
  BY LinkParts, ReceiveTypes DEF TypesInv, ApplyStartFrame
<1>2. RepTypes'
  BY <1>1, LinkParts, ReplyTypes, SameRep DEF TypesInv, ApplyStartFrame
<1>3. RamTypes'
  <2>1. 0 \in 0 .. PkgLimit - 1
    BY BoundShape, ConfigShape DEF TypesInv, StudioTypes
  <2>2. /\ list' = <<>> /\ pkgs' = 0 /\ comm' = <<>> /\ gv' = <<>>
        /\ tasks' = tasks /\ can' = can
    BY DEF ApplyStartFrame, ParamInit
  <2> QED BY <2>1, <2>2 DEF TypesInv, RamTypes
<1>4. StoreTypes' /\ StudioTypes'
  BY SameStore, SameStudio DEF TypesInv, ApplyStartFrame, store, studio
<1>5. PastTypes'
  BY DEF PastTypes, ApplyStartFrame
<1> QED BY <1>1, <1>2, <1>3, <1>4, <1>5, LinkPartsNext DEF TypesInv

LEMMA DataTypes == ASSUME TypesInv, ApplyDataFrame PROVE TypesInv'
<1>1. ReqTypes' /\ Head(req) \in Request /\ Frame(Head(req)).kind = "data"
  BY LinkParts, ReceiveTypes DEF TypesInv, ApplyDataFrame
<1>2. RepTypes'
  BY <1>1, LinkParts, ReplyTypes DEF TypesInv, ApplyDataFrame
<1>3. RamTypes'
  <2>1. Frame(Head(req)).body \in Seq(Nat)
    BY <1>1, BodyShape
  <2>2. list' = list \o Frame(Head(req)).body /\ pkgs' = (pkgs + 1) % PkgLimit
    BY DEF ApplyDataFrame, SaveObjectList
  <2>3. list' \in Seq(Nat)
    BY <2>1, <2>2, ConcatShape DEF TypesInv, RamTypes
  <2>4. pkgs' \in 0 .. PkgLimit - 1
    <3>1. PkgLimit \in Nat /\ PkgLimit >= 2 /\ pkgs \in Nat
      BY BoundShape, ConfigShape DEF TypesInv, StudioTypes, RamTypes
    <3> QED BY <2>2, <3>1
  <2>5. comm' = comm /\ gv' = gv /\ tasks' = tasks /\ can' = can
    BY DEF ApplyDataFrame
  <2> QED BY <2>3, <2>4, <2>5 DEF TypesInv, RamTypes
<1>4. StoreTypes' /\ StudioTypes' /\ PastTypes'
  BY SameStore, SameStudio, TurnTypes DEF TypesInv, ApplyDataFrame, store, studio, PastTypes
<1> QED BY <1>1, <1>2, <1>3, <1>4, LinkPartsNext DEF TypesInv

LEMMA CommTypes == ASSUME TypesInv, ApplyCommDataFrame PROVE TypesInv'
<1>1. ReqTypes' /\ Head(req) \in Request /\ Frame(Head(req)).kind = "comm"
  BY LinkParts, ReceiveTypes DEF TypesInv, ApplyCommDataFrame
<1>2. RepTypes'
  BY <1>1, LinkParts, ReplyTypes DEF TypesInv, ApplyCommDataFrame
<1>3. RamTypes'
  <2>1. Frame(Head(req)).body \in Seq(Nat)
    BY <1>1, BodyShape
  <2>2. /\ comm' = comm \o Frame(Head(req)).body
        /\ list' = list /\ pkgs' = pkgs /\ gv' = gv /\ tasks' = tasks /\ can' = can
    BY DEF ApplyCommDataFrame
  <2> QED BY <2>1, <2>2, ConcatShape DEF TypesInv, RamTypes
<1>4. StoreTypes' /\ StudioTypes' /\ PastTypes'
  BY SameStore, SameStudio, TurnTypes DEF TypesInv, ApplyCommDataFrame, store, studio, PastTypes
<1> QED BY <1>1, <1>2, <1>3, <1>4, LinkPartsNext DEF TypesInv

LEMMA GvTypes == ASSUME TypesInv, ApplyGlobalVariableFrame PROVE TypesInv'
<1>1. ReqTypes' /\ Head(req) \in Request /\ Frame(Head(req)).kind = "gv"
  BY LinkParts, ReceiveTypes DEF TypesInv, ApplyGlobalVariableFrame
<1>2. RepTypes'
  BY <1>1, LinkParts, ReplyTypes DEF TypesInv, ApplyGlobalVariableFrame
<1>3. RamTypes'
  <2>1. Frame(Head(req)).body \in Seq(Nat \X Nat)
    BY <1>1, BodyShape
  <2>2. /\ gv' = gv \o Frame(Head(req)).body
        /\ list' = list /\ pkgs' = pkgs /\ comm' = comm /\ tasks' = tasks /\ can' = can
    BY DEF ApplyGlobalVariableFrame
  <2>3. gv' \in Seq(Nat \X Nat)
    BY <2>1, <2>2, ConcatShape DEF TypesInv, RamTypes
  <2> QED BY <2>2, <2>3 DEF TypesInv, RamTypes
<1>4. StoreTypes' /\ StudioTypes' /\ PastTypes'
  BY SameStore, SameStudio, TurnTypes
     DEF TypesInv, ApplyGlobalVariableFrame, store, studio, PastTypes
<1> QED BY <1>1, <1>2, <1>3, <1>4, LinkPartsNext DEF TypesInv

LEMMA TaskTypes == ASSUME TypesInv, ApplyTaskData PROVE TypesInv'
<1>1. ReqTypes' /\ Head(req) \in Request /\ Frame(Head(req)).kind = "tasks"
  BY LinkParts, ReceiveTypes DEF TypesInv, ApplyTaskData
<1>2. RepTypes'
  BY <1>1, LinkParts, ReplyTypes DEF TypesInv, ApplyTaskData
<1>3. RamTypes'
  <2>1. Frame(Head(req)).body \in Seq(TaskRange)
    BY <1>1, BodyShape
  <2>2. /\ tasks' = Frame(Head(req)).body
        /\ list' = list /\ pkgs' = pkgs /\ comm' = comm /\ gv' = gv /\ can' = can
    BY DEF ApplyTaskData, tables
  <2> QED BY <2>1, <2>2 DEF TypesInv, RamTypes
<1>4. StoreTypes' /\ StudioTypes' /\ PastTypes'
  BY SameStore, SameStudio, TurnTypes DEF TypesInv, ApplyTaskData, store, studio, PastTypes
<1> QED BY <1>1, <1>2, <1>3, <1>4, LinkPartsNext DEF TypesInv

LEMMA EndTypes == ASSUME TypesInv, ApplyEndFrame PROVE TypesInv'
<1>1. ReqTypes' /\ Head(req) \in Request
  BY LinkParts, ReceiveTypes DEF TypesInv, ApplyEndFrame
<1>2. RepTypes'
  <2>1. Right(Frame(Head(req)).body) \in BOOLEAN
    BY DEF Right
  <2> QED BY <1>1, <2>1, LinkParts, ReplyTypes DEF TypesInv, ApplyEndFrame
<1>3. RamTypes' /\ StoreTypes' /\ StudioTypes'
  BY SameRam, SameStore, SameStudio DEF TypesInv, ApplyEndFrame, tables, store, studio
<1>4. PastTypes'
  <2>1. Head(req).cfg \in Configs
    BY <1>1 DEF Request
  <2>2. accepted' \subseteq Configs
    BY <2>1 DEF TypesInv, PastTypes, ApplyEndFrame
  <2> QED BY <2>2, TurnTypes DEF TypesInv, ApplyEndFrame
<1> QED BY <1>1, <1>2, <1>3, <1>4, LinkPartsNext DEF TypesInv

LEMMA SaveTypes == ASSUME TypesInv, ApplySaveConfigData PROVE TypesInv'
<1>1. ReqTypes' /\ step = 0 /\ power = "on"
  BY LinkParts, ReceiveTypes DEF TypesInv, ApplySaveConfigData
<1>2. RepTypes'
  BY LinkParts, SameRep DEF TypesInv, ApplySaveConfigData
<1>3. RamTypes' /\ StudioTypes' /\ PastTypes'
  BY SameRam, SameStudio, SamePast DEF TypesInv, ApplySaveConfigData, ram, studio, past
<1>4. StoreTypes'
  <2>1. step' = 1 /\ flash' = flash /\ buf' = buf /\ power' = power /\ buf = <<>>
    BY <1>1 DEF TypesInv, StoreTypes, ApplySaveConfigData
  <2> QED BY <1>1, <2>1 DEF TypesInv, StoreTypes, LastWrite
<1> QED BY <1>1, <1>2, <1>3, <1>4, LinkPartsNext DEF TypesInv

LEMMA WrittenTypes ==
    ASSUME RamTypes, flash \in FlashSet, step \in 1 .. LastWrite
    PROVE  Written(step) \in BlockSet(step)
<1> DEFINE P == flash.para
           R == flash.runtime
<1>1. P \in ParaSet /\ R \in RuntimeSet
  BY DEF FlashSet
<1>2. /\ BlockOf(1) = "para" /\ BlockOf(2) = "para" /\ BlockOf(3) = "para"
      /\ \A i \in 4 .. 10 : BlockOf(i) = "runtime"
  BY DEF BlockOf
<1>3. Valid \in Nat /\ Len(list) \in Nat /\ Len(tasks) \in Nat /\ Len(comm) \in Nat /\ Len(gv) \in Nat
  BY SeqShape DEF RamTypes, Valid
<1>4. CASE step = 1
  <2>1. Written(step) = [P EXCEPT !.flag = Valid]
    BY <1>4 DEF Written
  <2> QED BY <1>1, <1>2, <1>3, <1>4, <2>1 DEF BlockSet, ParaSet
<1>5. CASE step = 2
  <2>1. Written(step) = [P EXCEPT !.num = Len(list)]
    BY <1>5 DEF Written
  <2> QED BY <1>1, <1>2, <1>3, <1>5, <2>1 DEF BlockSet, ParaSet
<1>6. CASE step = 3
  <2>1. Written(step) = [P EXCEPT !.total = Len(tasks)]
    BY <1>6 DEF Written
  <2> QED BY <1>1, <1>2, <1>3, <1>6, <2>1 DEF BlockSet, ParaSet
<1>7. CASE step = 4
  <2>1. Written(step) = [R EXCEPT !.tasks = tasks]
    BY <1>7 DEF Written
  <2>2. tasks \in Seq(TaskRange)
    BY DEF RamTypes
  <2>3. BlockSet(step) = RuntimeSet
    BY <1>2, <1>7 DEF BlockSet
  <2> QED BY <1>1, <2>1, <2>2, <2>3 DEF RuntimeSet
<1>8. CASE step = 5
  <2>1. Written(step) = [R EXCEPT !.list = list \o SubSeq(R.list, Len(list) + 1, Len(R.list))]
    BY <1>8 DEF Written
  <2>2. R.list \in Seq(Nat) /\ list \in Seq(Nat)
    BY <1>1 DEF RamTypes, RuntimeSet
  <2>3. SubSeq(R.list, Len(list) + 1, Len(R.list)) \in Seq(Nat)
    <3>1. Len(list) + 1 \in Nat \ {0}
      BY <1>3
    <3>2. PICK l \in Seq(Nat) : l = R.list
      BY <2>2
    <3>3. \A k \in Len(list) + 1 .. Len(l) : l[k] \in Nat
      <4>1. \A k \in Len(list) + 1 .. Len(l) : k \in 1 .. Len(l)
        BY <1>3
      <4> QED BY <4>1, ElementOfSeq
    <3> QED BY <1>3, <3>2, <3>3, SubSeqProperties
  <2>4. list \o SubSeq(R.list, Len(list) + 1, Len(R.list)) \in Seq(Nat)
    BY <2>2, <2>3, ConcatShape
  <2>5. BlockSet(step) = RuntimeSet
    BY <1>2, <1>8 DEF BlockSet
  <2> QED BY <1>1, <2>1, <2>4, <2>5 DEF RuntimeSet
<1>9. CASE step \in 6 .. 10
  <2>1. ASSUME NEW first, NEW cells \in Seq(Nat), NEW area \in [Area -> Nat]
        PROVE  Put(area, first, cells) \in [Area -> Nat]
    <3>1. \A k \in DOMAIN cells : cells[k] \in Nat
      BY SeqShape
    <3>2. \A a \in Area : area[a] \in Nat
      OBVIOUS
    <3> QED BY <3>1, <3>2 DEF Put
  <2>2. /\ <<Len(comm)>> \in Seq(Nat) /\ comm \in Seq(Nat) /\ <<Len(gv)>> \in Seq(Nat)
        /\ IDs(gv) \in Seq(Nat) /\ Types(gv) \in Seq(Nat)
    <3>1. gv \in Seq(Nat \X Nat) /\ comm \in Seq(Nat)
      BY DEF RamTypes
    <3>2. DOMAIN gv = 1 .. Len(gv) /\ \A k \in 1 .. Len(gv) : gv[k] \in Nat \X Nat
      BY <3>1, SeqShape
    <3>3. IDs(gv) \in [1 .. Len(gv) -> Nat] /\ Types(gv) \in [1 .. Len(gv) -> Nat]
      BY <3>2 DEF IDs, Types
    <3>4. IDs(gv) \in Seq(Nat) /\ Types(gv) \in Seq(Nat)
      BY <1>3, <3>3, FunctionIsSeq
    <3> QED BY <1>3, <3>1, <3>4
  <2>3. R.area \in [Area -> Nat]
    BY <1>1 DEF RuntimeSet
  <2>4. \E area \in [Area -> Nat] : Written(step) = [R EXCEPT !.area = area]
    <3>1. CASE step = 6
      <4>1. Written(step) = [R EXCEPT !.area = Put(R.area, 0, <<Len(comm)>>)]
        BY <3>1 DEF Written
      <4> QED BY <4>1, <2>1, <2>2, <2>3
    <3>2. CASE step = 7
      <4>1. Written(step) = [R EXCEPT !.area = Put(R.area, 1, comm)]
        BY <3>2 DEF Written
      <4> QED BY <4>1, <2>1, <2>2, <2>3
    <3>3. CASE step = 8
      <4>1. Written(step) = [R EXCEPT !.area = Put(R.area, dwGVofs, <<Len(gv)>>)]
        BY <3>3 DEF Written
      <4> QED BY <4>1, <2>1, <2>2, <2>3
    <3>4. CASE step = 9
      <4>1. Written(step) = [R EXCEPT !.area = Put(R.area, dwGVofs + 1, IDs(gv))]
        BY <3>4 DEF Written
      <4> QED BY <4>1, <2>1, <2>2, <2>3
    <3>5. CASE step = 10
      <4>1. Written(step) = [R EXCEPT !.area = Put(R.area, dwGVofs + 1 + Len(gv), Types(gv))]
        BY <3>5 DEF Written
      <4> QED BY <4>1, <2>1, <2>2, <2>3
    <3> QED BY <1>9, <3>1, <3>2, <3>3, <3>4, <3>5
  <2>5. BlockSet(step) = RuntimeSet
    <3>1. step \in 4 .. 10
      BY <1>9
    <3> QED BY <1>2, <3>1 DEF BlockSet
  <2> QED BY <1>1, <2>4, <2>5 DEF RuntimeSet
<1>10. step \in {1, 2, 3, 4, 5} \/ step \in 6 .. 10
  BY DEF LastWrite
<1> QED BY <1>4, <1>5, <1>6, <1>7, <1>8, <1>9, <1>10

LEMMA EraseTypes == ASSUME TypesInv, FlashErase PROVE TypesInv'
<1>1. RamTypes' /\ StudioTypes' /\ LinkTypes' /\ PastTypes'
  BY SameRam, SameStudio, SameLinks, SamePast DEF TypesInv, FlashErase, ram, studio, past
<1>2. Written(step) \in BlockSet(step) /\ step \in 1 .. LastWrite
  <2>1. step \in 1 .. LastWrite
    BY DEF TypesInv, StoreTypes, FlashErase, LastWrite
  <2> QED BY <2>1, WrittenTypes DEF TypesInv, StoreTypes
<1>3. Erased.para \in ParaSet /\ Erased.runtime \in RuntimeSet
  <2>1. Blank \in Nat /\ [a \in Area |-> Blank] \in [Area -> Nat]
    BY DEF Blank
  <2>2. /\ Erased.para = [flag |-> Blank, num |-> Blank, total |-> Blank, can |-> Blank]
        /\ Erased.runtime = [tasks |-> <<>>, list |-> <<>>, area |-> [a \in Area |-> Blank]]
    BY DEF Erased
  <2>3. Erased.para \in ParaSet
    BY <2>1, <2>2 DEF ParaSet
  <2>4. Erased.runtime \in RuntimeSet
    BY <2>1, <2>2 DEF RuntimeSet
  <2> QED BY <2>3, <2>4
<1>4. flash' \in FlashSet
  <2>1. flash \in FlashSet /\ flash' = [flash EXCEPT ![BlockOf(step)] = Erased[BlockOf(step)]]
    BY DEF TypesInv, StoreTypes, FlashErase
  <2>2. CASE BlockOf(step) = "para"
    BY <1>3, <2>1, <2>2 DEF FlashSet
  <2>3. CASE BlockOf(step) = "runtime"
    BY <1>3, <2>1, <2>3 DEF FlashSet
  <2> QED BY <2>2, <2>3 DEF BlockOf
<1>5. StoreTypes'
  <2>1. buf' = <<Written(step)>> /\ step' = step /\ power' = power
    BY DEF FlashErase
  <2>2. BlockSet(step') = BlockSet(step)
    BY <2>1
  <2> QED BY <1>2, <1>4, <2>1, <2>2 DEF TypesInv, StoreTypes
<1> QED BY <1>1, <1>5 DEF TypesInv

LEMMA ProgramTypes == ASSUME TypesInv, FlashProgram PROVE TypesInv'
<1>1. RamTypes' /\ StudioTypes' /\ PastTypes' /\ ReqTypes'
  BY SameRam, SameStudio, SamePast, SameReq, LinkParts
     DEF TypesInv, FlashProgram, ram, studio, past
<1>2. RepTypes'
  <2>1. CASE rep' = rep
    BY <2>1, LinkParts, SameRep DEF TypesInv
  <2>2. CASE Answer(SaveStamp, TRUE)
    <3>1. SaveStamp \in Nat
      BY DEF SaveStamp
    <3> QED BY <2>2, <3>1, LinkParts, AnswerTypes DEF TypesInv
  <2> QED BY <2>1, <2>2 DEF FlashProgram
<1>3. flash' \in FlashSet
  <2>1. PICK b \in BlockSet(step) : buf = <<b>>
    BY DEF TypesInv, StoreTypes, FlashProgram
  <2>2. flash \in FlashSet /\ flash' = [flash EXCEPT ![BlockOf(step)] = b]
    BY <2>1 DEF TypesInv, StoreTypes, FlashProgram
  <2>3. CASE BlockOf(step) = "para"
    BY <2>1, <2>2, <2>3 DEF FlashSet, BlockSet
  <2>4. CASE BlockOf(step) = "runtime"
    BY <2>1, <2>2, <2>4 DEF FlashSet, BlockSet
  <2> QED BY <2>3, <2>4 DEF BlockOf
<1>4. StoreTypes'
  <2>1. power = "on" /\ power' = power /\ buf' = <<>>
    BY DEF FlashProgram
  <2>2. step \in 0 .. 10
    BY DEF TypesInv, StoreTypes, LastWrite
  <2>3. step' \in 0 .. 10
    <3>1. CASE step < 10 /\ step' = step + 1
      BY <2>2, <3>1
    <3>2. CASE step' = 0
      BY <3>2
    <3> QED BY <3>1, <3>2 DEF FlashProgram, LastWrite
  <2> QED BY <1>3, <2>1, <2>3 DEF StoreTypes, LastWrite
<1> QED BY <1>1, <1>2, <1>4, LinkPartsNext DEF TypesInv

LEMMA CutTypes == ASSUME TypesInv, PowerCut PROVE TypesInv'
<1>1. RamTypes' /\ StudioTypes' /\ LinkTypes' /\ PastTypes'
  BY SameRam, SameStudio, SameLinks, SamePast DEF TypesInv, PowerCut, ram, studio, past
<1>2. StoreTypes'
  BY DEF TypesInv, StoreTypes, PowerCut, LastWrite
<1> QED BY <1>1, <1>2 DEF TypesInv

LEMMA CellsShape ==
    ASSUME flash \in FlashSet, NEW first \in Nat, NEW n \in Nat, first + n <= AreaTop + 1
    PROVE  /\ Cells(first, n) \in [1 .. n -> Nat]
           /\ \A k \in 1 .. n : Cells(first, n)[k] = flash.runtime.area[first + k - 1]
<1>1. flash.runtime.area \in [Area -> Nat]
  BY DEF FlashSet, RuntimeSet
<1>2. AreaTop \in Nat
  BY BoundShape DEF AreaTop
<1>3. \A k \in 1 .. n : first + k - 1 \in Area
  BY <1>2 DEF Area
<1> QED BY <1>1, <1>3 DEF Cells

\* The numbers in flash that power-up uses once they do not overrun the tables.
LEMMA SavedShape ==
    ASSUME flash \in FlashSet, ~Overrun
    PROVE  /\ NComm \in 0 .. MaxComm /\ NGV \in 0 .. MaxGV
           /\ 1 + NComm <= AreaTop + 1 /\ 2 + NComm + NGV <= AreaTop + 1
           /\ 2 + NComm + NGV + NGV <= AreaTop + 1
           /\ flash.para.total \in 0 .. Len(flash.runtime.tasks)
           /\ flash.runtime.tasks \in Seq(TaskRange) /\ flash.runtime.list \in Seq(Nat)
           /\ flash.para.num \in Nat /\ flash.para.can \in {1, Blank}
<1>1. /\ flash.runtime.area \in [Area -> Nat] /\ flash.para.total \in Nat
      /\ flash.runtime.tasks \in Seq(TaskRange) /\ flash.runtime.list \in Seq(Nat)
      /\ flash.para.num \in Nat /\ flash.para.can \in {1, Blank}
  <2>1. flash.para \in ParaSet /\ flash.runtime \in RuntimeSet
    BY DEF FlashSet
  <2>2. flash.para.total \in Nat /\ flash.para.num \in Nat /\ flash.para.can \in {1, Blank}
    BY <2>1 DEF ParaSet
  <2>3. /\ flash.runtime.area \in [Area -> Nat]
        /\ flash.runtime.tasks \in Seq(TaskRange) /\ flash.runtime.list \in Seq(Nat)
    BY <2>1 DEF RuntimeSet
  <2> QED BY <2>2, <2>3
<1>2. AreaTop = 1 + MaxComm + 2 * MaxGV /\ AreaTop \in Nat /\ Area = 0 .. AreaTop
  BY BoundShape DEF AreaTop, Area
<1>3. NComm \in Nat
  <2>1. 0 \in Area
    BY <1>2
  <2> QED BY <1>1, <2>1 DEF NComm
<1>4. NComm <= MaxComm /\ NGV <= MaxGV /\ ~(flash.para.total > Len(flash.runtime.tasks))
  <2>1. ~(NComm > MaxComm) /\ ~(NGV > MaxGV) /\ ~(flash.para.total > Len(flash.runtime.tasks))
    BY DEF Overrun
  <2>2. NComm <= MaxComm
    BY <1>3, <2>1, BoundShape
  <2>3. 1 + NComm \in Area
    BY <1>2, <1>3, <2>2, BoundShape
  <2>4. NGV \in Nat
    BY <1>1, <2>3 DEF NGV
  <2> QED BY <2>1, <2>2, <2>4, BoundShape
<1>5. NGV \in Nat
  <2>1. 1 + NComm \in Area
    BY <1>2, <1>3, <1>4, BoundShape
  <2> QED BY <1>1, <2>1 DEF NGV
<1>6. /\ 1 + NComm <= AreaTop + 1 /\ 2 + NComm + NGV <= AreaTop + 1
      /\ 2 + NComm + NGV + NGV <= AreaTop + 1
  <2>1. NComm <= MaxComm /\ NGV <= MaxGV
    BY <1>4
  <2> QED BY <1>2, <1>3, <1>5, <2>1, BoundShape
<1>7. flash.para.total \in 0 .. Len(flash.runtime.tasks)
  BY <1>1, <1>4, SeqShape
<1> QED BY <1>1, <1>3, <1>4, <1>5, <1>6, <1>7, BoundShape

LEMMA SavedTypes ==
    ASSUME flash \in FlashSet, ~Overrun
    PROVE  /\ SavedList \in Seq(Nat) /\ SavedTasks \in Seq(TaskRange)
           /\ SavedComm \in Seq(Nat) /\ SavedGV \in Seq(Nat \X Nat)
<1>1. SavedList \in Seq(Nat)
  <2>1. PICK l \in Seq(Nat) : l = flash.runtime.list
    BY SavedShape
  <2>2. PICK n \in Nat : n = flash.para.num
    BY SavedShape
  <2>3. SavedList = [k \in 1 .. n |-> IF k <= Len(l) THEN l[k] ELSE Blank]
    BY <2>1, <2>2 DEF SavedList
  <2>4. Len(l) \in Nat /\ \A k \in 1 .. Len(l) : l[k] \in Nat
    BY SeqShape
  <2>5. SavedList \in [1 .. n -> Nat]
    BY <2>3, <2>4 DEF Blank
  <2> QED BY <2>5, FunctionIsSeq
<1>2. SavedTasks \in Seq(TaskRange)
  <2>1. /\ flash.runtime.tasks \in Seq(TaskRange)
        /\ flash.para.total \in 0 .. Len(flash.runtime.tasks)
    BY SavedShape
  <2> QED BY <2>1, FirstElements DEF SavedTasks
<1>3. NComm \in Nat /\ NGV \in Nat
  BY SavedShape, BoundShape
<1>4. SavedComm \in Seq(Nat)
  <2>1. 1 + NComm <= AreaTop + 1
    BY SavedShape
  <2>2. Cells(1, NComm) \in [1 .. NComm -> Nat]
    BY <1>3, <2>1, CellsShape
  <2> QED BY <1>3, <2>2, FunctionIsSeq DEF SavedComm
<1>5. SavedGV \in Seq(Nat \X Nat)
  <2>1. /\ 2 + NComm + NGV <= AreaTop + 1 /\ 2 + NComm + NGV + NGV <= AreaTop + 1
        /\ 2 + NComm \in Nat /\ 2 + NComm + NGV \in Nat
    <3>1. 2 + NComm + NGV <= AreaTop + 1 /\ 2 + NComm + NGV + NGV <= AreaTop + 1
      BY SavedShape
    <3> QED BY <1>3, <3>1
  <2>2. PICK ids \in [1 .. NGV -> Nat] : ids = Cells(2 + NComm, NGV)
    BY <1>3, <2>1, CellsShape
  <2>3. PICK types \in [1 .. NGV -> Nat] : types = Cells(2 + NComm + NGV, NGV)
    BY <1>3, <2>1, CellsShape
  <2>4. SavedGV = [k \in 1 .. NGV |-> <<ids[k], types[k]>>]
    BY <2>2, <2>3 DEF SavedGV
  <2>5. SavedGV \in [1 .. NGV -> Nat \X Nat]
    BY <2>4
  <2> QED BY <1>3, <2>5, FunctionIsSeq
<1> QED BY <1>1, <1>2, <1>4, <1>5

LEMMA UpTypes == ASSUME TypesInv, PowerUp PROVE TypesInv'
<1>1. StudioTypes' /\ LinkTypes'
  BY SameStudio, SameLinks DEF TypesInv, PowerUp, studio
<1>2. PastTypes'
  BY DEF PastTypes, PowerUp
<1>3. StoreTypes'
  <2>1. step = 0 /\ buf = <<>>
    BY DEF TypesInv, StoreTypes, PowerUp
  <2>2. flash' = flash /\ step' = step /\ buf' = buf /\ power' \in {"on", "wild"}
    BY DEF PowerUp
  <2> QED BY <2>1, <2>2 DEF TypesInv, StoreTypes
<1>4. RamTypes'
  <2>1. flash \in FlashSet
    BY DEF TypesInv, StoreTypes
  <2>2. can' \in {1, Blank} /\ pkgs' \in 0 .. PkgLimit - 1
    <3>1. can' = flash.para.can /\ pkgs' = 0
      BY DEF PowerUp
    <3>2. flash.para.can \in {1, Blank}
      BY <2>1 DEF FlashSet, ParaSet
    <3> QED BY <3>1, <3>2, BoundShape, ConfigShape DEF TypesInv, StudioTypes
  <2>3. CASE list' = <<>> /\ comm' = <<>> /\ gv' = <<>> /\ tasks' = <<>>
    BY <2>2, <2>3 DEF RamTypes
  <2>4. CASE /\ ~Overrun /\ list' = SavedList /\ tasks' = SavedTasks
             /\ comm' = SavedComm /\ gv' = SavedGV
    <3>1. /\ list' \in Seq(Nat) /\ tasks' \in Seq(TaskRange)
          /\ comm' \in Seq(Nat) /\ gv' \in Seq(Nat \X Nat)
      BY <2>1, <2>4, SavedTypes
    <3> QED BY <2>2, <3>1 DEF RamTypes
  <2> QED BY <2>3, <2>4 DEF PowerUp
<1> QED BY <1>1, <1>2, <1>3, <1>4 DEF TypesInv

LEMMA SameTypes == ASSUME TypesInv, UNCHANGED vars PROVE TypesInv'
  BY SameRam, SameStore, SameStudio, SameLinks, SamePast
     DEF TypesInv, vars, ram, store, studio, past

LEMMA TypesStep == ASSUME TypesInv, [Next]_vars PROVE TypesInv'
<1>1. CASE Studio
  BY <1>1, BeginTypes, SendTypes, TakeTypes, GiveUpTypes, LoseTypes DEF Studio, LastOf
<1>2. CASE Device
  BY <1>2, StartTypes, DataTypes, CommTypes, GvTypes, TaskTypes, EndTypes, SaveTypes,
     EraseTypes, ProgramTypes DEF Device
<1>3. CASE Power
  BY <1>3, CutTypes, UpTypes DEF Power
<1>4. CASE UNCHANGED vars
  BY <1>4, SameTypes
<1> QED BY <1>1, <1>2, <1>3, <1>4 DEF Next

LEMMA TypesAlways == Spec => []TypesInv
  BY InitTypes, TypesStep, PTL DEF Spec

\* At all times the numbers are in their ranges, the studio sends a frame its
\* script has, the links hold no more than they can, a save is under way only
\* while the power is on, and no other configuration was accepted.
THEOREM TypeCorrect == Spec => []TypeOK
<1>1. ASSUME TypesInv PROVE TypeOK
  BY <1>1 DEF TypesInv, RamTypes, StoreTypes, StudioTypes, LinkTypes, PastTypes, TypeOK, LastOf
<1> QED BY <1>1, TypesAlways, PTL

-----------------------------------------------------------------------------
(* The links.  The studio repeats a frame but never returns to an earlier   *)
(* one, so what is under way are frames of one configuration in their       *)
(* order, at most one frame of the script apart, and no answer under way is *)
(* to a frame after one that still is.                                      *)

ReqOrdered ==
    \A j, k \in 1 .. Len(req) :
        /\ req[k].cfg = cfg
        /\ j < k => req[j].at <= req[k].at
        /\ req[k].at <= req[j].at + 1

StudioNear == at # 0 => \A k \in 1 .. Len(req) : req[k].at <= at /\ at <= req[k].at + 1

RepBehind ==
    \A s \in 1 .. Len(rep) : rep[s].at # 0 =>
        /\ \A k \in 1 .. Len(req) : rep[s].at <= req[k].at
        /\ at # 0 => rep[s].at <= at

LinkInv == ReqOrdered /\ StudioNear /\ RepBehind

\* A link from which at most the first message has been taken.
Taken(new, old) ==
    \E d \in {0, 1} : \A k \in 1 .. Len(new) : k + d \in 1 .. Len(old) /\ new[k] = old[k + d]

\* Answers to which at most one with this stamp has been added.
Added(new, old, stamp) ==
    \A k \in 1 .. Len(new) : (k \in 1 .. Len(old) /\ new[k] = old[k]) \/ new[k].at = stamp

LEMMA TakenSame == ASSUME NEW S, NEW s \in Seq(S) PROVE Taken(s, s)
<1>1. \A k \in 1 .. Len(s) : k + 0 \in 1 .. Len(s) /\ s[k] = s[k + 0]
  BY SeqShape
<1> QED BY <1>1 DEF Taken

LEMMA TakenTail == ASSUME NEW S, NEW s \in Seq(S), s # <<>> PROVE Taken(Tail(s), s)
  BY TailShape DEF Taken

LEMMA AddedNone == ASSUME NEW s, NEW stamp PROVE Added(s, s, stamp)
  BY DEF Added

LEMMA AddedAnswer ==
    ASSUME RepTypes, NEW stamp \in Nat, NEW ok \in BOOLEAN, Answer(stamp, ok)
    PROVE  Added(rep', rep, stamp)
<1>1. CASE Len(rep) < Capacity
  <2>1. PICK a \in AnswerSet : a = [at |-> stamp, ok |-> ok]
    BY DEF AnswerSet
  <2>2. rep' = Append(rep, a)
    BY <1>1, <2>1 DEF Answer
  <2>3. /\ Len(rep') = Len(rep) + 1 /\ Len(rep) \in Nat
        /\ \A k \in 1 .. Len(rep) + 1 : rep'[k] = IF k <= Len(rep) THEN rep[k] ELSE a
    BY <2>2, AppendShape DEF RepTypes
  <2>4. a.at = stamp
    BY <2>1
  <2> QED BY <2>3, <2>4 DEF Added
<1>2. CASE ~(Len(rep) < Capacity)
  BY <1>2, AddedNone DEF Answer
<1> QED BY <1>1, <1>2

LEMMA ReqElements ==
    ASSUME ReqTypes, NEW k \in 1 .. Len(req)
    PROVE  /\ req[k] \in Request /\ req[k].at \in Nat /\ req[k].cfg \in Configs
           /\ req[k].at \in 1 .. LastOf(req[k].cfg)
<1>1. req[k] \in Request
  BY ElementOfSeq DEF ReqTypes
<1> QED BY <1>1 DEF Request

LEMMA RepElements ==
    ASSUME RepTypes, NEW k \in 1 .. Len(rep) PROVE rep[k].at \in Nat
<1>1. rep[k] \in AnswerSet
  BY ElementOfSeq DEF RepTypes
<1> QED BY <1>1 DEF AnswerSet

\* The links keep their order when messages are taken off, and when the frame
\* at the head is answered.
LEMMA LinkTaken ==
    ASSUME LinkInv, cfg' = cfg, at' = at \/ at' = 0, Taken(req', req), Taken(rep', rep)
    PROVE  LinkInv'
<1>1. PICK d \in {0, 1} :
          \A k \in 1 .. Len(req') : k + d \in 1 .. Len(req) /\ req'[k] = req[k + d]
  BY DEF Taken
<1>2. PICK e \in {0, 1} :
          \A k \in 1 .. Len(rep') : k + e \in 1 .. Len(rep) /\ rep'[k] = rep[k + e]
  BY DEF Taken
<1>3. ReqOrdered'
  <2> SUFFICES ASSUME NEW j \in 1 .. Len(req'), NEW k \in 1 .. Len(req')
               PROVE  /\ req'[k].cfg = cfg
                      /\ j < k => req'[j].at <= req'[k].at
                      /\ req'[k].at <= req'[j].at + 1
    BY DEF ReqOrdered
  <2>1. /\ j + d \in 1 .. Len(req) /\ k + d \in 1 .. Len(req)
        /\ req'[j] = req[j + d] /\ req'[k] = req[k + d]
    BY <1>1
  <2>2. j < k => j + d < k + d
    OBVIOUS
  <2> QED BY <2>1, <2>2 DEF LinkInv, ReqOrdered
<1>4. StudioNear'
  BY <1>1 DEF LinkInv, StudioNear
<1>5. RepBehind'
  BY <1>1, <1>2 DEF LinkInv, RepBehind
<1> QED BY <1>3, <1>4, <1>5 DEF LinkInv

LEMMA LinkAnswered ==
    ASSUME LinkTypes, LinkInv, NEW stamp \in Nat, cfg' = cfg, at' = at,
           Taken(req', req), Added(rep', rep, stamp),
           stamp # 0 => req # <<>> /\ stamp = Head(req).at
    PROVE  LinkInv'
<1>0. ReqTypes /\ RepTypes
  BY LinkParts
<1>1. PICK d \in {0, 1} :
          \A k \in 1 .. Len(req') : k + d \in 1 .. Len(req) /\ req'[k] = req[k + d]
  BY DEF Taken
<1>2. ReqOrdered' /\ StudioNear'
  <2>1. ReqOrdered'
    <3> SUFFICES ASSUME NEW j \in 1 .. Len(req'), NEW k \in 1 .. Len(req')
                 PROVE  /\ req'[k].cfg = cfg
                        /\ j < k => req'[j].at <= req'[k].at
                        /\ req'[k].at <= req'[j].at + 1
      BY DEF ReqOrdered
    <3>1. /\ j + d \in 1 .. Len(req) /\ k + d \in 1 .. Len(req)
          /\ req'[j] = req[j + d] /\ req'[k] = req[k + d]
      BY <1>1
    <3>2. j < k => j + d < k + d
      OBVIOUS
    <3> QED BY <3>1, <3>2 DEF LinkInv, ReqOrdered
  <2>2. StudioNear'
    BY <1>1 DEF LinkInv, StudioNear
  <2> QED BY <2>1, <2>2
<1>3. ASSUME stamp # 0, NEW k \in 1 .. Len(req) PROVE stamp <= req[k].at
  <2>1. stamp = req[1].at /\ 1 \in 1 .. Len(req) /\ Len(req) \in Nat
    BY <1>0, <1>3, TailShape DEF ReqTypes
  <2>2. CASE k = 1
    BY <2>1, <2>2
  <2>3. CASE k # 1
    <3>1. 1 < k
      BY <2>3
    <3> QED BY <2>1, <3>1 DEF LinkInv, ReqOrdered
  <2> QED BY <2>2, <2>3
<1>4. stamp # 0 /\ at # 0 => stamp <= at
  <2>1. stamp # 0 => stamp = req[1].at /\ 1 \in 1 .. Len(req)
    BY <1>0, TailShape DEF ReqTypes
  <2> QED BY <2>1 DEF LinkInv, StudioNear
<1>5. RepBehind'
  <2> SUFFICES ASSUME NEW s \in 1 .. Len(rep'), rep'[s].at # 0
               PROVE  /\ \A k \in 1 .. Len(req') : rep'[s].at <= req'[k].at
                      /\ at' # 0 => rep'[s].at <= at'
    BY DEF RepBehind
  <2>1. CASE s \in 1 .. Len(rep) /\ rep'[s] = rep[s]
    BY <1>1, <2>1 DEF LinkInv, RepBehind
  <2>2. CASE rep'[s].at = stamp
    BY <1>1, <1>3, <1>4, <2>2
  <2> QED BY <2>1, <2>2 DEF Added
<1> QED BY <1>2, <1>5 DEF LinkInv

LEMMA LinkBegin == ASSUME NEW c, NEW first, BeginSession(c, first) PROVE LinkInv'
<1>1. Len(req') = 0 /\ Len(rep') = 0
  BY DEF BeginSession, links
<1>2. \A k : k \notin 1 .. Len(req') /\ k \notin 1 .. Len(rep')
  BY <1>1
<1> QED BY <1>2 DEF LinkInv, ReqOrdered, StudioNear, RepBehind

\* The frame sent is the one the studio is at.
LEMMA SendShape ==
    ASSUME TypesInv, Send
    PROVE  /\ at \in 1 .. LastOf(cfg) /\ at \in Nat
           /\ \A k \in 1 .. Len(req') :
                 \/ k \in 1 .. Len(req) /\ req'[k] = req[k]
                 \/ k = Len(req) + 1 /\ req'[k].cfg = cfg /\ req'[k].at = at
           /\ Len(req) \in Nat /\ rep' = rep /\ cfg' = cfg /\ at' = at
<1>1. at \in 1 .. LastOf(cfg) /\ at \in Nat
  BY LastShape DEF TypesInv, StudioTypes, Send
<1>2. PICK m \in [cfg : Configs, at : Nat] : m = [cfg |-> cfg, at |-> at]
  <2>1. [cfg |-> cfg, at |-> at] \in [cfg : Configs, at : Nat]
    BY <1>1 DEF TypesInv, StudioTypes
  <2> QED BY <2>1
<1>3. m \in Request /\ m.cfg = cfg /\ m.at = at
  BY <1>1, <1>2 DEF Request
<1>4. req' = Append(req, m) /\ rep' = rep /\ cfg' = cfg /\ at' = at
  BY <1>2 DEF Send
<1>5. req \in Seq(Request)
  BY DEF TypesInv, LinkTypes
<1>6. /\ Len(req') = Len(req) + 1 /\ Len(req) \in Nat
      /\ \A k \in 1 .. Len(req) + 1 : req'[k] = IF k <= Len(req) THEN req[k] ELSE m
  BY <1>3, <1>4, <1>5, AppendShape
<1>7. ASSUME NEW k \in 1 .. Len(req')
      PROVE  \/ k \in 1 .. Len(req) /\ req'[k] = req[k]
             \/ k = Len(req) + 1 /\ req'[k].cfg = cfg /\ req'[k].at = at
  <2>1. k \in 1 .. Len(req) + 1 /\ (k <= Len(req) => k \in 1 .. Len(req))
    BY <1>6
  <2>2. ~(k <= Len(req)) => k = Len(req) + 1
    BY <1>6, <2>1
  <2> QED BY <1>3, <1>6, <2>1, <2>2
<1> QED BY <1>1, <1>4, <1>6, <1>7

LEMMA LinkSend == ASSUME TypesInv, LinkInv, Send PROVE LinkInv'
<1>1. at \in Nat /\ at # 0 /\ Len(req) \in Nat /\ rep' = rep /\ cfg' = cfg /\ at' = at
  <2>1. \A n \in 1 .. LastOf(cfg) : n # 0
    OBVIOUS
  <2> QED BY <2>1, SendShape
<1>2. \A k \in 1 .. Len(req') :
         \/ k \in 1 .. Len(req) /\ req'[k] = req[k]
         \/ k = Len(req) + 1 /\ req'[k].cfg = cfg /\ req'[k].at = at
  BY SendShape
<1>3. \A k \in 1 .. Len(req) : req[k].at <= at /\ at <= req[k].at + 1 /\ req[k].at \in Nat
  BY <1>1, ReqElements, LinkParts DEF TypesInv, LinkInv, StudioNear
<1>4. ReqOrdered'
  <2> SUFFICES ASSUME NEW j \in 1 .. Len(req'), NEW k \in 1 .. Len(req')
               PROVE  /\ req'[k].cfg = cfg'
                      /\ j < k => req'[j].at <= req'[k].at
                      /\ req'[k].at <= req'[j].at + 1
    BY DEF ReqOrdered
  <2>1. CASE k \in 1 .. Len(req) /\ req'[k] = req[k] /\ j \in 1 .. Len(req) /\ req'[j] = req[j]
    BY <1>1, <2>1 DEF LinkInv, ReqOrdered
  <2>2. CASE k \in 1 .. Len(req) /\ req'[k] = req[k] /\ j = Len(req) + 1 /\ req'[j].at = at
    <3>1. ~(j < k) /\ req'[k].at \in Nat /\ req'[k].at <= at
      BY <1>1, <1>3, <2>2
    <3>2. req'[k].cfg = cfg'
      BY <1>1, <2>2 DEF LinkInv, ReqOrdered
    <3>3. req'[k].at <= req'[j].at + 1
      BY <1>1, <2>2, <3>1
    <3> QED BY <3>1, <3>2, <3>3
  <2>3. CASE /\ k = Len(req) + 1 /\ req'[k].at = at /\ req'[k].cfg = cfg
             /\ j \in 1 .. Len(req) /\ req'[j] = req[j]
    BY <1>1, <1>3, <2>3
  <2>4. CASE /\ k = Len(req) + 1 /\ req'[k].at = at /\ req'[k].cfg = cfg
             /\ j = Len(req) + 1 /\ req'[j].at = at
    BY <1>1, <2>4
  <2> QED BY <1>2, <2>1, <2>2, <2>3, <2>4
<1>5. StudioNear'
  BY <1>1, <1>2, <1>3 DEF StudioNear
<1>6. RepBehind'
  <2> SUFFICES ASSUME NEW s \in 1 .. Len(rep), rep[s].at # 0
               PROVE  /\ \A k \in 1 .. Len(req') : rep[s].at <= req'[k].at
                      /\ at # 0 => rep[s].at <= at
    BY <1>1 DEF RepBehind
  <2>1. (\A k \in 1 .. Len(req) : rep[s].at <= req[k].at) /\ rep[s].at <= at
    BY <1>1 DEF LinkInv, RepBehind
  <2> QED BY <1>2, <2>1
<1> QED BY <1>4, <1>5, <1>6 DEF LinkInv

\* What an answer does to the studio.
LEMMA TakeShape ==
    ASSUME TypesInv, TakeAnswer
    PROVE  /\ Taken(rep', rep) /\ req' = req /\ cfg' = cfg
           /\ \/ at' = at \/ at' = 0
              \/ /\ 1 \in 1 .. Len(rep) /\ rep[1].at = at /\ at # 0 /\ at \in Nat
                 /\ at < LastOf(cfg) /\ at' = at + 1
<1>1. rep \in Seq(AnswerSet) /\ rep # <<>> /\ rep' = Tail(rep)
  BY DEF TypesInv, LinkTypes, TakeAnswer
<1>2. Taken(rep', rep) /\ Head(rep) = rep[1] /\ 1 \in 1 .. Len(rep) /\ rep[1].at \in Nat
  <2>1. Taken(rep', rep)
    BY <1>1, TakenTail
  <2>2. Head(rep) = rep[1] /\ 1 \in 1 .. Len(rep)
    BY <1>1, TailShape
  <2> QED BY <2>1, <2>2, RepElements, LinkParts DEF TypesInv
<1>3. at \in Nat
  BY LastShape DEF TypesInv, StudioTypes
<1>4. CASE ~AnswersFrame(Head(rep).at)
  BY <1>2, <1>4 DEF TakeAnswer
<1>5. CASE AnswersFrame(Head(rep).at) /\ rep[1].at = 0
  <2>1. at = LastOf(cfg)
    BY <1>2, <1>5 DEF AnswersFrame, SaveStamp, LastOf
  <2>2. ~(at < LastOf(cfg))
    BY <1>3, <2>1
  <2> QED BY <1>2, <1>5, <2>2 DEF TakeAnswer, LastOf
<1>6. CASE AnswersFrame(Head(rep).at) /\ rep[1].at # 0
  <2>1. rep[1].at = at
    BY <1>2, <1>6 DEF AnswersFrame, SaveStamp
  <2>2. at' = (IF Head(rep).ok /\ at < LastOf(cfg) THEN at + 1 ELSE 0)
    BY <1>6 DEF TakeAnswer, LastOf
  <2> QED BY <1>2, <1>3, <1>6, <2>1, <2>2 DEF TakeAnswer
<1> QED BY <1>4, <1>5, <1>6

LEMMA LinkTake == ASSUME TypesInv, LinkInv, TakeAnswer PROVE LinkInv'
<1>1. Taken(rep', rep) /\ req' = req /\ cfg' = cfg /\ Taken(req', req)
  BY TakeShape, TakenSame DEF TypesInv, LinkTypes
<1>2. CASE at' = at \/ at' = 0
  BY <1>1, <1>2, LinkTaken
<1>3. CASE /\ 1 \in 1 .. Len(rep) /\ rep[1].at = at /\ at # 0 /\ at \in Nat /\ at' = at + 1
  <2>1. ReqOrdered'
    BY <1>1 DEF LinkInv, ReqOrdered
  <2>2. \A k \in 1 .. Len(req) : req[k].at <= at /\ at <= req[k].at /\ req[k].at \in Nat
    BY <1>3, ReqElements, LinkParts DEF TypesInv, LinkInv, StudioNear, RepBehind
  <2>3. StudioNear'
    <3>1. \A k \in 1 .. Len(req) : req[k].at <= at + 1 /\ at + 1 <= req[k].at + 1
      BY <1>3, <2>2
    <3> QED BY <1>1, <1>3, <3>1 DEF StudioNear
  <2>4. RepBehind'
    <3> SUFFICES ASSUME NEW s \in 1 .. Len(rep'), rep'[s].at # 0
                 PROVE  /\ \A k \in 1 .. Len(req) : rep'[s].at <= req[k].at
                        /\ rep'[s].at <= at + 1
      BY <1>1, <1>3 DEF RepBehind
    <3>1. PICK t \in 1 .. Len(rep) : rep'[s] = rep[t]
      BY <1>1 DEF Taken
    <3>2. rep[t].at \in Nat
      BY RepElements, LinkParts DEF TypesInv
    <3>3. (\A k \in 1 .. Len(req) : rep[t].at <= req[k].at) /\ rep[t].at <= at
      BY <1>3, <3>1 DEF LinkInv, RepBehind
    <3> QED BY <1>3, <3>1, <3>2, <3>3
  <2> QED BY <2>1, <2>3, <2>4 DEF LinkInv
<1> QED BY <1>2, <1>3, TakeShape

-----------------------------------------------------------------------------
(* Which frame of the script a frame is.                                    *)

Placed(m, c, D, C, G) ==
    /\ Frame(m).kind = "start" => m.at = 1
    /\ Frame(m).kind = "data" =>
          \E k \in 1 .. D : m.at = 1 + k /\ Frame(m).body = c.data[k]
    /\ Frame(m).kind = "comm" =>
          \E k \in 1 .. C : m.at = 1 + D + k /\ Frame(m).body = c.comm[k]
    /\ Frame(m).kind = "gv" =>
          \E k \in 1 .. G : m.at = 1 + D + C + k /\ Frame(m).body = c.gv[k]
    /\ Frame(m).kind = "tasks" => m.at = D + C + G + 2 /\ Frame(m).body = c.tasks
    /\ Frame(m).kind = "end" => m.at = D + C + G + 3 /\ Frame(m).body = Counts(c)
    /\ Frame(m).kind = "save" => m.at = D + C + G + 4

LEMMA KindShape ==
    ASSUME NEW m \in Request, NEW c \in Configs, c = m.cfg, NEW D \in Nat, NEW C \in Nat,
           NEW G \in Nat, D = DataFrames(c), C = CommFrames(c), G = GvFrames(c)
    PROVE  Placed(m, c, D, C, G)
<1>1. Scripted(c, D, C, G)
  BY ScriptShape
<1>2. m.at \in 1 .. D + C + G + 4 /\ Frame(m) = Script(c)[m.at]
  <2>1. m.at \in 1 .. LastOf(c)
    BY DEF Request
  <2>2. LastOf(c) = D + C + G + 4
    BY LastShape
  <2> QED BY <2>1, <2>2 DEF Frame
<1>3. CASE m.at = 1
  <2>1. Frame(m) = [kind |-> "start", body |-> 0]
    BY <1>1, <1>2, <1>3 DEF Scripted
  <2> QED BY <1>3, <2>1 DEF Placed
<1>4. CASE \E k \in 1 .. D : m.at = 1 + k
  <2>1. PICK k \in 1 .. D : m.at = 1 + k
    BY <1>4
  <2>2. Frame(m) = [kind |-> "data", body |-> c.data[k]]
    BY <1>1, <1>2, <2>1 DEF Scripted
  <2> QED BY <2>1, <2>2 DEF Placed
<1>5. CASE \E k \in 1 .. C : m.at = 1 + D + k
  <2>1. PICK k \in 1 .. C : m.at = 1 + D + k
    BY <1>5
  <2>2. Frame(m) = [kind |-> "comm", body |-> c.comm[k]]
    BY <1>1, <1>2, <2>1 DEF Scripted
  <2> QED BY <2>1, <2>2 DEF Placed
<1>6. CASE \E k \in 1 .. G : m.at = 1 + D + C + k
  <2>1. PICK k \in 1 .. G : m.at = 1 + D + C + k
    BY <1>6
  <2>2. Frame(m) = [kind |-> "gv", body |-> c.gv[k]]
    BY <1>1, <1>2, <2>1 DEF Scripted
  <2> QED BY <2>1, <2>2 DEF Placed
<1>7. CASE m.at = D + C + G + 2
  <2>1. Frame(m) = [kind |-> "tasks", body |-> c.tasks]
    BY <1>1, <1>2, <1>7 DEF Scripted
  <2> QED BY <1>7, <2>1 DEF Placed
<1>8. CASE m.at = D + C + G + 3
  <2>1. Frame(m) = [kind |-> "end", body |-> Counts(c)]
    BY <1>1, <1>2, <1>8 DEF Scripted
  <2> QED BY <1>8, <2>1 DEF Placed
<1>9. CASE m.at = D + C + G + 4
  <2>1. Frame(m) = [kind |-> "save", body |-> 0]
    BY <1>1, <1>2, <1>9 DEF Scripted
  <2> QED BY <1>9, <2>1 DEF Placed
<1>10. \/ m.at = 1
       \/ \E k \in 1 .. D : m.at = 1 + k
       \/ \E k \in 1 .. C : m.at = 1 + D + k
       \/ \E k \in 1 .. G : m.at = 1 + D + C + k
       \/ m.at = D + C + G + 2 \/ m.at = D + C + G + 3 \/ m.at = D + C + G + 4
  <2>1. PICK p \in 1 .. D + C + G + 4 : p = m.at
    BY <1>2
  <2>2. CASE p \in 2 .. 1 + D
    <3>1. p - 1 \in 1 .. D /\ p = 1 + (p - 1)
      BY <2>2
    <3> QED BY <2>1, <3>1
  <2>3. CASE p \in 2 + D .. 1 + D + C
    <3>1. p - 1 - D \in 1 .. C /\ p = 1 + D + (p - 1 - D)
      BY <2>3
    <3> QED BY <2>1, <3>1
  <2>4. CASE p \in 2 + D + C .. 1 + D + C + G
    <3>1. p - 1 - D - C \in 1 .. G /\ p = 1 + D + C + (p - 1 - D - C)
      BY <2>4
    <3> QED BY <2>1, <3>1
  <2>5. \/ p = 1 \/ p \in 2 .. 1 + D \/ p \in 2 + D .. 1 + D + C
        \/ p \in 2 + D + C .. 1 + D + C + G
        \/ p = D + C + G + 2 \/ p = D + C + G + 3 \/ p = D + C + G + 4
    OBVIOUS
  <2> QED BY <2>1, <2>2, <2>3, <2>4, <2>5
<1> QED BY <1>3, <1>4, <1>5, <1>6, <1>7, <1>8, <1>9, <1>10 DEF Placed

-----------------------------------------------------------------------------
(* The order of a download.  Once a frame, an answer or the studio itself   *)
(* shows that a download is on its way, due is the frame the studio sends   *)
(* or the one after it.                                                     *)

Current ==
    \/ at \in 2 .. LastOf(cfg) - 1
    \/ \E s \in 1 .. Len(rep) : rep[s].at # 0
    \/ \E k \in 1 .. Len(req) : req[k].at \in 2 .. LastOf(cfg) - 1

InTurn ==
    /\ due \in 2 .. LastOf(cfg)
    /\ at # 0 => at \in {due - 1, due}
    /\ \A k \in 1 .. Len(req) : req[k].at \in {due - 1, due}
    /\ \A s \in 1 .. Len(rep) : rep[s].at # 0 => rep[s].at < due

\* Steps that take nothing on and obey no frame of a download.
LEMMA QuietStep ==
    ASSUME cfg' = cfg, due' = due, at' = at \/ at' = 0, Taken(req', req),
           Taken(rep', rep) \/ Added(rep', rep, 0)
    PROVE  (Current' => Current) /\ (InTurn => InTurn')
<1>1. LastOf(cfg') = LastOf(cfg)
  OBVIOUS
<1>2. \A k \in 1 .. Len(req') : \E j \in 1 .. Len(req) : req'[k] = req[j]
  BY DEF Taken
<1>3. \A s \in 1 .. Len(rep') : rep'[s].at # 0 => \E t \in 1 .. Len(rep) : rep'[s] = rep[t]
  BY DEF Taken, Added
<1>4. ASSUME Current' PROVE Current
  <2>1. CASE at' \in 2 .. LastOf(cfg) - 1
    <3>1. 0 \notin 2 .. LastOf(cfg) - 1
      OBVIOUS
    <3> QED BY <2>1, <3>1 DEF Current
  <2>2. CASE \E s \in 1 .. Len(rep') : rep'[s].at # 0
    BY <1>3, <2>2 DEF Current
  <2>3. CASE \E k \in 1 .. Len(req') : req'[k].at \in 2 .. LastOf(cfg) - 1
    BY <1>2, <2>3 DEF Current
  <2> QED BY <1>1, <1>4, <2>1, <2>2, <2>3 DEF Current
<1>5. ASSUME InTurn PROVE InTurn'
  <2>1. due' \in 2 .. LastOf(cfg') /\ (at' # 0 => at' \in {due' - 1, due'})
    BY <1>1, <1>5 DEF InTurn
  <2>2. \A k \in 1 .. Len(req') : req'[k].at \in {due' - 1, due'}
    BY <1>2, <1>5 DEF InTurn
  <2>3. \A s \in 1 .. Len(rep') : rep'[s].at # 0 => rep'[s].at < due'
    BY <1>3, <1>5 DEF InTurn
  <2> QED BY <2>1, <2>2, <2>3 DEF InTurn
<1> QED BY <1>4, <1>5

LEMMA BeginOrder ==
    ASSUME NEW c \in Configs, NEW first \in {1, LastOf(c)}, BeginSession(c, first)
    PROVE  ~Current'
<1>1. cfg' = c /\ at' = first /\ LastOf(cfg') = LastOf(c) /\ LastOf(c) \in Nat
  BY LastShape DEF BeginSession
<1>2. at' \notin 2 .. LastOf(cfg') - 1
  BY <1>1
<1>3. Len(req') = 0 /\ Len(rep') = 0
  BY DEF BeginSession, links
<1>4. \A k : k \notin 1 .. Len(req') /\ k \notin 1 .. Len(rep')
  BY <1>3
<1> QED BY <1>2, <1>4 DEF Current

LEMMA SendOrder ==
    ASSUME TypesInv, Send PROVE (Current' => Current) /\ (InTurn => InTurn')
<1>1. /\ at \in 1 .. LastOf(cfg) /\ at \in Nat /\ rep' = rep /\ cfg' = cfg /\ at' = at
      /\ LastOf(cfg') = LastOf(cfg)
  BY SendShape
<1>2. \A k \in 1 .. Len(req') :
         \/ k \in 1 .. Len(req) /\ req'[k] = req[k]
         \/ req'[k].at = at
  BY SendShape
<1>3. due' = due /\ at # 0
  BY <1>1 DEF Send, past
<1>4. Current' => Current
  BY <1>1, <1>2 DEF Current
<1>5. InTurn => InTurn'
  BY <1>1, <1>2, <1>3 DEF InTurn
<1> QED BY <1>4, <1>5

LEMMA TakeOrder ==
    ASSUME TypesInv, LinkInv, TakeAnswer PROVE (Current' => Current) /\ (InTurn => InTurn')
<1>1. Taken(rep', rep) /\ req' = req /\ cfg' = cfg /\ Taken(req', req) /\ due' = due
  BY TakeShape, TakenSame DEF TypesInv, LinkTypes, TakeAnswer, past
<1>2. CASE at' = at \/ at' = 0
  BY <1>1, <1>2, QuietStep
<1>3. CASE /\ 1 \in 1 .. Len(rep) /\ rep[1].at = at /\ at # 0 /\ at \in Nat /\ at' = at + 1
  <2>1. Current
    BY <1>3 DEF Current
  <2>2. ASSUME InTurn PROVE InTurn'
    <3>1. at < due /\ at \in {due - 1, due} /\ due \in Nat
      BY <1>3, <2>2, LastShape DEF InTurn, TypesInv, PastTypes
    <3>2. at' \in {due - 1, due}
      BY <1>3, <3>1
    <3>3. \A s \in 1 .. Len(rep') : \E t \in 1 .. Len(rep) : rep'[s] = rep[t]
      BY <1>1 DEF Taken
    <3>4. LastOf(cfg') = LastOf(cfg)
      BY <1>1
    <3> QED BY <1>1, <2>2, <3>2, <3>3, <3>4 DEF InTurn
  <2> QED BY <2>1, <2>2
<1> QED BY <1>2, <1>3, TakeShape

\* A frame of a download is obeyed.
LEMMA TurnOrder ==
    ASSUME TypesInv, LinkInv, Current, InTurn, req # <<>>, req' = Tail(req),
           Head(req).at \in 2 .. LastOf(cfg) - 1, cfg' = cfg, at' = at,
           Added(rep', rep, Head(req).at), Turn
    PROVE  InTurn'
<1>1. PICK p \in 2 .. LastOf(cfg) - 1 : p = Head(req).at
  OBVIOUS
<1>2. 1 \in 1 .. Len(req) /\ req[1] = Head(req) /\ req \in Seq(Request) /\ Len(req) \in Nat
  BY TailShape DEF TypesInv, LinkTypes
<1>3. p \in {due - 1, due} /\ due \in 2 .. LastOf(cfg) /\ LastOf(cfg) \in Nat
  BY <1>1, <1>2, LastShape DEF InTurn, TypesInv, StudioTypes
<1>4. due' = p + 1 /\ due' \in 2 .. LastOf(cfg) /\ due <= due'
  <2>1. CASE p = due
    <3>1. due' = due + 1
      BY <1>1, <2>1 DEF Turn
    <3> QED BY <1>3, <2>1, <3>1
  <2>2. CASE p = due - 1
    <3>1. p # due
      BY <1>3, <2>2
    <3>2. due' = due
      BY <1>1, <3>1 DEF Turn
    <3> QED BY <1>3, <2>2, <3>2
  <2> QED BY <1>3, <2>1, <2>2
<1>5. at' # 0 => at' \in {due' - 1, due'}
  <2>1. at # 0 => p <= at /\ at <= p + 1
    BY <1>1, <1>2 DEF LinkInv, StudioNear
  <2>2. at \in Nat
    BY LastShape DEF TypesInv, StudioTypes
  <2> QED BY <1>4, <2>1, <2>2
<1>6. ASSUME NEW k \in 1 .. Len(req') PROVE req'[k].at \in {due' - 1, due'}
  <2>1. k + 1 \in 1 .. Len(req) /\ req'[k] = req[k + 1] /\ 1 < k + 1
    BY <1>2, TailShape
  <2>2. p <= req[k + 1].at /\ req[k + 1].at <= p + 1
    BY <1>1, <1>2, <2>1 DEF LinkInv, ReqOrdered
  <2>3. req[k + 1].at \in Nat
    BY <2>1, ReqElements, LinkParts DEF TypesInv
  <2> QED BY <1>4, <2>1, <2>2, <2>3
<1>7. ASSUME NEW s \in 1 .. Len(rep'), rep'[s].at # 0 PROVE rep'[s].at < due'
  <2>1. CASE s \in 1 .. Len(rep) /\ rep'[s] = rep[s]
    <3>1. rep[s].at < due /\ rep[s].at \in Nat
      BY <1>7, <2>1, RepElements, LinkParts DEF InTurn, TypesInv
    <3> QED BY <1>3, <1>4, <2>1, <3>1
  <2>2. CASE rep'[s].at = p
    BY <1>4, <2>2
  <2> QED BY <1>1, <2>1, <2>2 DEF Added
<1>8. LastOf(cfg') = LastOf(cfg)
  OBVIOUS
<1> QED BY <1>4, <1>5, <1>6, <1>7, <1>8 DEF InTurn

\* A start frame begins a download anew.
LEMMA StartOrder ==
    ASSUME TypesInv, LinkInv, NEW crc \in BOOLEAN, ApplyStartFrame(crc)
    PROVE  InTurn' /\ due' = 2 /\ LinkInv'
<1>1. ReqTypes /\ RepTypes
  BY LinkParts DEF TypesInv
<1>2. /\ Head(req) \in Request /\ Frame(Head(req)).kind = "start"
      /\ req # <<>> /\ req' = Tail(req)
  BY <1>1, ReceiveTypes DEF ApplyStartFrame
<1>3. Head(req).at = 1
  <2>1. PICK c \in Configs : c = Head(req).cfg
    BY <1>2 DEF Request
  <2>2. PICK D \in Nat, C \in Nat, G \in Nat :
           D = DataFrames(c) /\ C = CommFrames(c) /\ G = GvFrames(c)
    BY ConfigShape
  <2>3. Placed(Head(req), c, D, C, G)
    BY <1>2, <2>1, <2>2, KindShape
  <2> QED BY <1>2, <2>3 DEF Placed
<1>4. cfg' = cfg /\ at' = at /\ due' = 2 /\ LastOf(cfg') = LastOf(cfg)
  BY DEF ApplyStartFrame, studio
<1>5. Added(rep', rep, 1)
  <2>1. CASE rep' = rep
    BY <2>1, AddedNone
  <2>2. CASE Answer(1, TRUE)
    BY <1>1, <2>2, AddedAnswer
  <2> QED BY <1>3, <2>1, <2>2 DEF ApplyStartFrame, Reply
<1>6. Taken(req', req)
  BY <1>1, <1>2, TakenTail DEF ReqTypes
<1>7. LinkInv'
  BY <1>2, <1>3, <1>4, <1>5, <1>6, LinkAnswered DEF TypesInv
<1>8. 1 \in 1 .. Len(req) /\ req[1].at = 1 /\ Len(req) \in Nat
  BY <1>1, <1>2, <1>3, TailShape DEF ReqTypes
<1>9. at' # 0 => at' \in {1, 2}
  <2>1. at # 0 => 1 <= at /\ at <= 1 + 1
    BY <1>8 DEF LinkInv, StudioNear
  <2>2. at \in Nat
    BY LastShape DEF TypesInv, StudioTypes
  <2> QED BY <1>4, <2>1, <2>2
<1>10. ASSUME NEW k \in 1 .. Len(req') PROVE req'[k].at \in {1, 2}
  <2>1. PICK j \in 1 .. Len(req) : req'[k] = req[j]
    BY <1>6 DEF Taken
  <2>2. req[j].at <= req[1].at + 1 /\ req[j].at \in 1 .. LastOf(req[j].cfg)
    BY <1>1, <1>8, ReqElements DEF LinkInv, ReqOrdered
  <2> QED BY <1>8, <2>1, <2>2
<1>11. ASSUME NEW s \in 1 .. Len(rep'), rep'[s].at # 0 PROVE rep'[s].at < 2
  <2>1. CASE s \in 1 .. Len(rep) /\ rep'[s] = rep[s]
    <3>1. rep[s].at <= req[1].at /\ rep[s].at \in Nat
      BY <1>1, <1>8, <1>11, <2>1, RepElements DEF LinkInv, RepBehind
    <3> QED BY <1>8, <2>1, <3>1
  <2>2. CASE rep'[s].at = 1
    BY <2>2
  <2> QED BY <1>5, <2>1, <2>2 DEF Added
<1>12. due' - 1 = 1 /\ due' \in 2 .. LastOf(cfg')
  BY <1>4, LastShape DEF TypesInv, StudioTypes
<1> QED BY <1>4, <1>7, <1>9, <1>10, <1>11, <1>12 DEF InTurn

-----------------------------------------------------------------------------
(* What a download has put into RAM so far.                                 *)

\* How many of m frames are done when n frames have passed since the first.
Done(n, m) == IF n <= 0 THEN 0 ELSE IF n >= m THEN m ELSE n

DataDone == Done(due - 2, DataFrames(cfg))
CommDone == Done(due - 2 - DataFrames(cfg), CommFrames(cfg))
GvDone   == Done(due - 2 - DataFrames(cfg) - CommFrames(cfg), GvFrames(cfg))

\* No block is missing, and only a repeated data frame can have added more.
ListInv ==
    \/ list = FirstOf(cfg.data, DataDone)
    \/ Len(FirstOf(cfg.data, DataDone)) < Len(list)
CountInv == "data" \notin bad => list = FirstOf(cfg.data, DataDone) /\ pkgs = DataDone
CommInv  == "comm" \notin bad => comm = FirstOf(cfg.comm, CommDone)
GvInv    == "gv" \notin bad => gv = FirstOf(cfg.gv, GvDone)
TaskInv  == due > 2 + DataFrames(cfg) + CommFrames(cfg) + GvFrames(cfg) => tasks = cfg.tasks
EndInv   == accepted # {} => due = LastOf(cfg)

Contents == ListInv /\ CountInv /\ CommInv /\ GvInv /\ TaskInv /\ EndInv

LEMMA DoneShape ==
    ASSUME NEW n \in Int, NEW m \in Nat
    PROVE  /\ Done(n, m) \in 0 .. m
           /\ n <= 0 => Done(n, m) = 0
           /\ n \in 0 .. m => Done(n, m) = n
           /\ n >= m => Done(n, m) = m
  BY DEF Done

LEMMA SameContents ==
    ASSUME Contents, UNCHANGED <<list, pkgs, comm, gv, tasks, cfg, due, bad, accepted>>
    PROVE  Contents'
<1>1. DataDone' = DataDone /\ CommDone' = CommDone /\ GvDone' = GvDone
  BY DEF DataDone, CommDone, GvDone
<1>2. ListInv' /\ CountInv'
  BY <1>1 DEF Contents, ListInv, CountInv
<1>3. CommInv' /\ GvInv'
  BY <1>1 DEF Contents, CommInv, GvInv
<1>4. TaskInv' /\ EndInv'
  BY DEF Contents, TaskInv, EndInv
<1> QED BY <1>2, <1>3, <1>4 DEF Contents

LEMMA StartContents ==
    ASSUME TypesInv, NEW crc \in BOOLEAN, ApplyStartFrame(crc) PROVE Contents'
<1>1. PICK D \in Nat, C \in Nat, G \in Nat :
         D = DataFrames(cfg) /\ C = CommFrames(cfg) /\ G = GvFrames(cfg)
  BY ConfigShape DEF TypesInv, StudioTypes
<1>2. cfg' = cfg /\ due' = 2 /\ list' = <<>> /\ pkgs' = 0 /\ comm' = <<>> /\ gv' = <<>> /\ accepted' = {}
  BY DEF ApplyStartFrame, ParamInit, studio
<1>3. DataDone' = Done(0, D) /\ CommDone' = Done(0 - D, C) /\ GvDone' = Done(0 - D - C, G)
  <2>1. 2 - 2 = 0
    OBVIOUS
  <2> QED BY <1>1, <1>2, <2>1 DEF DataDone, CommDone, GvDone
<1>4. DataDone' = 0 /\ CommDone' = 0 /\ GvDone' = 0
  <2>1. 0 <= 0 /\ 0 - D <= 0 /\ 0 - D - C <= 0 /\ 0 - D \in Int /\ 0 - D - C \in Int /\ 0 \in Int
    OBVIOUS
  <2> QED BY <1>3, <2>1, DoneShape
<1>5. \A seqs : FirstOf(seqs, 0) = <<>>
  BY FirstOfNone
<1>6. ListInv' /\ CountInv' /\ CommInv' /\ GvInv' /\ EndInv'
  BY <1>2, <1>4, <1>5 DEF ListInv, CountInv, CommInv, GvInv, EndInv
<1>7. TaskInv'
  <2>1. ~(2 > 2 + D + C + G)
    OBVIOUS
  <2> QED BY <1>1, <1>2, <2>1 DEF TaskInv
<1> QED BY <1>6, <1>7 DEF Contents

\* A list that is, or is longer than, the first n of the sequences, and the
\* list with the next one behind it.
Grown(seqs, n, l, r) ==
    /\ l = FirstOf(seqs, n) => r = FirstOf(seqs, n + 1)
    /\ Len(FirstOf(seqs, n)) < Len(l) => Len(FirstOf(seqs, n + 1)) < Len(r)

\* The blocks of another data frame, in turn or repeated.
LEMMA NextBlocks ==
    ASSUME NEW S, NEW seqs \in Seq(Seq(S)), NEW n \in 0 .. Len(seqs) - 1, NEW l \in Seq(S),
           NEW r, r = l \o seqs[n + 1]
    PROVE  Grown(seqs, n, l, r)
<1>1. /\ FirstOf(seqs, n) \in Seq(S) /\ seqs[n + 1] \in Seq(S)
      /\ FirstOf(seqs, n + 1) = FirstOf(seqs, n) \o seqs[n + 1]
      /\ Len(FirstOf(seqs, n + 1)) = Len(FirstOf(seqs, n)) + Len(seqs[n + 1])
  BY FirstOfNext
<1>2. Len(r) = Len(l) + Len(seqs[n + 1])
  BY <1>1, ConcatShape
<1>3. PICK a \in Nat, b \in Nat, x \in Nat :
         a = Len(FirstOf(seqs, n)) /\ b = Len(l) /\ x = Len(seqs[n + 1])
  BY <1>1, SeqShape
<1>4. Len(FirstOf(seqs, n + 1)) = a + x /\ Len(r) = b + x
  BY <1>1, <1>2, <1>3
<1>5. a < b => a + x < b + x
  OBVIOUS
<1> QED BY <1>1, <1>3, <1>4, <1>5 DEF Grown

LEMMA MoreBlocks ==
    ASSUME NEW S, NEW l \in Seq(S), NEW b \in Seq(S), NEW f \in Seq(S), NEW r, r = l \o b,
           l = f \/ Len(f) < Len(l)
    PROVE  r = f \/ Len(f) < Len(r)
<1>1. Len(r) = Len(l) + Len(b) /\ Len(l) \in Nat /\ Len(b) \in Nat /\ Len(f) \in Nat
  BY ConcatShape, SeqShape
<1>2. CASE Len(b) = 0 /\ l = f
  <2>1. b = <<>>
    BY <1>2
  <2> QED BY <1>2, <2>1, EmptyConcat
<1>3. CASE Len(b) # 0 /\ l = f
  BY <1>1, <1>3
<1>4. CASE Len(f) < Len(l)
  BY <1>1, <1>4
<1> QED BY <1>2, <1>3, <1>4

\* The frame obeyed: the one due, or the one before it once more.
LEMMA TurnShape ==
    ASSUME TypesInv, InTurn, req # <<>>, Turn, NEW kind, kind = Frame(Head(req)).kind
    PROVE  /\ Head(req) \in Request /\ Head(req).at \in Nat /\ due \in Nat
           /\ \/ due = Head(req).at /\ due' = due + 1 /\ bad' = bad
              \/ due = Head(req).at + 1 /\ due' = due /\ bad' = bad \cup {kind}
<1>1. Head(req) = req[1] /\ 1 \in 1 .. Len(req) /\ Head(req) \in Request
  BY TailShape DEF TypesInv, LinkTypes
<1>2. Head(req).at \in Nat /\ due \in Nat
  BY <1>1 DEF Request, TypesInv, PastTypes
<1>3. Head(req).at = due - 1 \/ Head(req).at = due
  BY <1>1 DEF InTurn
<1>4. CASE Head(req).at = due
  BY <1>1, <1>2, <1>4 DEF Turn
<1>5. CASE Head(req).at = due - 1
  <2>1. Head(req).at # due /\ due = Head(req).at + 1
    BY <1>2, <1>5
  <2> QED BY <1>1, <1>2, <2>1 DEF Turn
<1> QED BY <1>3, <1>4, <1>5

\* How far a download is, in numbers.
LEMMA DoneNow ==
    ASSUME NEW D \in Nat, NEW C \in Nat, NEW G \in Nat, NEW d \in Nat, due = d,
           D = DataFrames(cfg), C = CommFrames(cfg), G = GvFrames(cfg)
    PROVE  /\ d - 2 \in 0 .. D => DataDone = d - 2
           /\ d >= D + 2 => DataDone = D
           /\ d <= D + 2 => CommDone = 0
           /\ d - 2 - D \in 0 .. C => CommDone = d - 2 - D
           /\ d >= D + C + 2 => CommDone = C
           /\ d <= D + C + 2 => GvDone = 0
           /\ d - 2 - D - C \in 0 .. G => GvDone = d - 2 - D - C
           /\ d >= D + C + G + 2 => GvDone = G
<1>1. DataDone = Done(d - 2, D) /\ CommDone = Done(d - 2 - D, C) /\ GvDone = Done(d - 2 - D - C, G)
  BY DEF DataDone, CommDone, GvDone
<1>2. d - 2 \in Int /\ d - 2 - D \in Int /\ d - 2 - D - C \in Int
  OBVIOUS
<1>3. /\ d - 2 \in 0 .. D => DataDone = d - 2
      /\ d - 2 >= D => DataDone = D
  BY <1>1, <1>2, DoneShape
<1>4. /\ d - 2 - D <= 0 => CommDone = 0
      /\ d - 2 - D \in 0 .. C => CommDone = d - 2 - D
      /\ d - 2 - D >= C => CommDone = C
  BY <1>1, <1>2, DoneShape
<1>5. /\ d - 2 - D - C <= 0 => GvDone = 0
      /\ d - 2 - D - C \in 0 .. G => GvDone = d - 2 - D - C
      /\ d - 2 - D - C >= G => GvDone = G
  BY <1>1, <1>2, DoneShape
<1>6. /\ d >= D + 2 => d - 2 >= D
      /\ d <= D + 2 => d - 2 - D <= 0
      /\ d >= D + C + 2 => d - 2 - D >= C
      /\ d <= D + C + 2 => d - 2 - D - C <= 0
      /\ d >= D + C + G + 2 => d - 2 - D - C >= G
  OBVIOUS
<1> QED BY <1>3, <1>4, <1>5, <1>6

LEMMA DoneNext ==
    ASSUME NEW D \in Nat, NEW C \in Nat, NEW G \in Nat, NEW d \in Nat, due' = d, cfg' = cfg,
           D = DataFrames(cfg), C = CommFrames(cfg), G = GvFrames(cfg)
    PROVE  /\ d - 2 \in 0 .. D => DataDone' = d - 2
           /\ d >= D + 2 => DataDone' = D
           /\ d <= D + 2 => CommDone' = 0
           /\ d - 2 - D \in 0 .. C => CommDone' = d - 2 - D
           /\ d >= D + C + 2 => CommDone' = C
           /\ d <= D + C + 2 => GvDone' = 0
           /\ d - 2 - D - C \in 0 .. G => GvDone' = d - 2 - D - C
           /\ d >= D + C + G + 2 => GvDone' = G
<1>1. /\ DataDone' = Done(d - 2, D) /\ CommDone' = Done(d - 2 - D, C)
      /\ GvDone' = Done(d - 2 - D - C, G)
  BY DEF DataDone, CommDone, GvDone
<1>2. d - 2 \in Int /\ d - 2 - D \in Int /\ d - 2 - D - C \in Int
  OBVIOUS
<1>3. /\ d - 2 \in 0 .. D => DataDone' = d - 2
      /\ d - 2 >= D => DataDone' = D
  BY <1>1, <1>2, DoneShape
<1>4. /\ d - 2 - D <= 0 => CommDone' = 0
      /\ d - 2 - D \in 0 .. C => CommDone' = d - 2 - D
      /\ d - 2 - D >= C => CommDone' = C
  BY <1>1, <1>2, DoneShape
<1>5. /\ d - 2 - D - C <= 0 => GvDone' = 0
      /\ d - 2 - D - C \in 0 .. G => GvDone' = d - 2 - D - C
      /\ d - 2 - D - C >= G => GvDone' = G
  BY <1>1, <1>2, DoneShape
<1>6. /\ d >= D + 2 => d - 2 >= D
      /\ d <= D + 2 => d - 2 - D <= 0
      /\ d >= D + C + 2 => d - 2 - D >= C
      /\ d <= D + C + 2 => d - 2 - D - C <= 0
      /\ d >= D + C + G + 2 => d - 2 - D - C >= G
  OBVIOUS
<1> QED BY <1>3, <1>4, <1>5, <1>6

\* Before the end frame nothing was accepted in this download.
LEMMA NotYetAccepted ==
    ASSUME TypesInv, EndInv, NEW p \in Nat, p < LastOf(cfg) - 1, due \in {p, p + 1}
    PROVE  accepted = {}
<1>1. LastOf(cfg) \in Nat
  BY LastShape DEF TypesInv, StudioTypes
<1>2. due # LastOf(cfg)
  BY <1>1
<1> QED BY <1>2 DEF EndInv

\* The head of the link, a frame of this kind of the configuration sent.
LEMMA HeadShape ==
    ASSUME TypesInv, LinkInv, NEW kind, Receive(kind)
    PROVE  /\ Head(req) \in Request /\ Frame(Head(req)).kind = kind /\ Head(req).cfg = cfg
           /\ req # <<>> /\ req' = Tail(req) /\ cfg \in Configs /\ Head(req).at \in Nat
<1>1. Head(req) \in Request /\ Frame(Head(req)).kind = kind /\ req # <<>> /\ req' = Tail(req)
  BY LinkParts, ReceiveTypes DEF TypesInv
<1>2. Head(req) = req[1] /\ 1 \in 1 .. Len(req)
  BY <1>1, TailShape DEF TypesInv, LinkTypes
<1>3. Head(req).cfg = cfg
  BY <1>2 DEF LinkInv, ReqOrdered
<1>4. cfg \in Configs /\ Head(req).at \in Nat
  BY <1>1 DEF TypesInv, StudioTypes, Request
<1> QED BY <1>1, <1>3, <1>4

LEMMA DataContents ==
    ASSUME TypesInv, LinkInv, InTurn, Contents, ApplyDataFrame
    PROVE  Contents' /\ accepted = {}
<1>1. PICK D \in Nat, C \in Nat, G \in Nat :
         D = DataFrames(cfg) /\ C = CommFrames(cfg) /\ G = GvFrames(cfg)
  BY ConfigShape DEF TypesInv, StudioTypes
<1>2. /\ Head(req) \in Request /\ Frame(Head(req)).kind = "data" /\ Head(req).cfg = cfg
      /\ req # <<>> /\ cfg \in Configs
  BY HeadShape DEF ApplyDataFrame
<1>3. PICK k \in 1 .. D : Head(req).at = 1 + k /\ Frame(Head(req)).body = cfg.data[k]
  <2>1. Placed(Head(req), cfg, D, C, G)
    BY <1>1, <1>2, KindShape
  <2> QED BY <1>2, <2>1 DEF Placed
<1>4. /\ list' = list \o cfg.data[k] /\ pkgs' = (pkgs + 1) % PkgLimit
      /\ comm' = comm /\ gv' = gv /\ tasks' = tasks /\ cfg' = cfg /\ accepted' = accepted
  BY <1>3 DEF ApplyDataFrame, SaveObjectList, studio
<1>5. \/ due = 1 + k /\ due' = 2 + k /\ bad' = bad
      \/ due = 2 + k /\ due' = 2 + k /\ bad' = bad \cup {"data"}
  <2>1. \/ due = 1 + k /\ due' = due + 1 /\ bad' = bad
        \/ due = 1 + k + 1 /\ due' = due /\ bad' = bad \cup {"data"}
    BY <1>2, <1>3, TurnShape DEF ApplyDataFrame
  <2>2. 1 + k + 1 = 2 + k
    OBVIOUS
  <2> QED BY <2>1, <2>2
<1>6. accepted = {}
  <2>1. LastOf(cfg) = D + C + G + 4
    BY <1>1, <1>2, LastShape
  <2>2. 1 + k \in Nat /\ 1 + k < LastOf(cfg) - 1 /\ due \in {1 + k, 1 + k + 1}
    BY <1>5, <2>1
  <2> QED BY <2>2, NotYetAccepted DEF Contents
<1>7. cfg.data \in Seq(Seq(Nat)) /\ Len(cfg.data) = D /\ list \in Seq(Nat) /\ D < PkgLimit
  <2>1. D \in 1 .. PkgLimit - 1
    BY <1>1, <1>2, ConfigShape
  <2>2. D < PkgLimit
    BY <2>1, BoundShape
  <2> QED BY <1>1, <1>2, <2>2, ConfigShape DEF TypesInv, RamTypes
<1>8. DataDone' = k /\ CommDone' = 0 /\ GvDone' = 0
  <2>1. PICK d \in Nat : d = 2 + k
    OBVIOUS
  <2>2. d - 2 \in 0 .. D /\ d - 2 = k /\ d <= D + 2 /\ d <= D + C + 2
    BY <2>1
  <2>3. due' = d /\ cfg' = cfg
    BY <1>4, <1>5, <2>1
  <2> QED BY <1>1, <2>2, <2>3, DoneNext
<1>9. TaskInv' /\ EndInv'
  <2>1. ~(2 + k > 2 + D + C + G)
    OBVIOUS
  <2> QED BY <1>1, <1>4, <1>5, <1>6, <2>1 DEF TaskInv, EndInv
<1>10. CASE due = 1 + k /\ due' = 2 + k /\ bad' = bad
  <2>1. DataDone = k - 1 /\ CommDone = 0 /\ GvDone = 0
    <3>1. /\ 1 + k \in Nat /\ 1 + k - 2 \in 0 .. D /\ 1 + k - 2 = k - 1
          /\ 1 + k <= D + 2 /\ 1 + k <= D + C + 2
      OBVIOUS
    <3> QED BY <1>1, <1>10, <3>1, DoneNow
  <2>2. PICK n \in 0 .. Len(cfg.data) - 1 : n = k - 1 /\ k = n + 1
    <3>1. k - 1 \in 0 .. Len(cfg.data) - 1 /\ k = k - 1 + 1
      BY <1>7
    <3> QED BY <3>1
  <2>3. /\ list = FirstOf(cfg.data, k - 1) => list' = FirstOf(cfg.data, k)
        /\ Len(FirstOf(cfg.data, k - 1)) < Len(list) => Len(FirstOf(cfg.data, k)) < Len(list')
    <3>1. list' = list \o cfg.data[n + 1]
      BY <1>4, <2>2
    <3>2. /\ list = FirstOf(cfg.data, n) => list' = FirstOf(cfg.data, n + 1)
          /\ Len(FirstOf(cfg.data, n)) < Len(list) => Len(FirstOf(cfg.data, n + 1)) < Len(list')
      <4>1. PICK r : r = list'
        OBVIOUS
      <4>0. PICK S : S = Nat
        OBVIOUS
      <4>2. PICK seqs \in Seq(Seq(S)), l \in Seq(S) : seqs = cfg.data /\ l = list
        BY <1>7, <4>0, Zenon
      <4>3. n \in 0 .. Len(seqs) - 1 /\ r = l \o seqs[n + 1]
        <5>1. n \in 0 .. Len(seqs) - 1
          BY <4>2
        <5>2. r = l \o seqs[n + 1]
          BY <3>1, <4>1, <4>2, Zenon
        <5> QED BY <5>1, <5>2
      <4>4. Grown(seqs, n, l, r)
        BY <4>3, NextBlocks
      <4> QED BY <4>1, <4>2, <4>4 DEF Grown
    <3> QED BY <2>2, <3>2
  <2>4. ListInv'
    BY <1>4, <1>8, <2>1, <2>3 DEF Contents, ListInv
  <2>5. CountInv'
    <3>1. k < PkgLimit /\ k \in Nat /\ PkgLimit \in Nat
      BY <1>7, BoundShape
    <3>2. (k - 1 + 1) % PkgLimit = k
      <4>1. k - 1 + 1 = k /\ \A p \in Nat, q \in Nat : q < p => q % p = q
        OBVIOUS
      <4> QED BY <3>1, <4>1
    <3> QED BY <1>4, <1>8, <1>10, <2>1, <2>3, <3>2 DEF Contents, CountInv
  <2>6. CommInv' /\ GvInv'
    BY <1>4, <1>8, <1>10, <2>1 DEF Contents, CommInv, GvInv
  <2> QED BY <1>6, <1>9, <2>4, <2>5, <2>6 DEF Contents
<1>11. CASE due = 2 + k /\ due' = 2 + k /\ bad' = bad \cup {"data"}
  <2>1. DataDone = k /\ CommDone = 0 /\ GvDone = 0
    <3>1. /\ 2 + k \in Nat /\ 2 + k - 2 \in 0 .. D /\ 2 + k - 2 = k
          /\ 2 + k <= D + 2 /\ 2 + k <= D + C + 2
      OBVIOUS
    <3> QED BY <1>1, <1>11, <3>1, DoneNow
  <2>2. ListInv'
    <3>1. k \in 0 .. Len(cfg.data) /\ k \in 1 .. Len(cfg.data)
      BY <1>7
    <3>2. FirstOf(cfg.data, k) \in Seq(Nat) /\ cfg.data[k] \in Seq(Nat)
      BY <1>7, <3>1, FirstOfType, ElementOfSeq
    <3>3. list = FirstOf(cfg.data, k) \/ Len(FirstOf(cfg.data, k)) < Len(list)
      BY <2>1 DEF Contents, ListInv
    <3>4. list' = FirstOf(cfg.data, k) \/ Len(FirstOf(cfg.data, k)) < Len(list')
      BY <1>4, <1>7, <3>2, <3>3, MoreBlocks
    <3> QED BY <1>4, <1>8, <3>4 DEF ListInv
  <2>3. CountInv'
    BY <1>11 DEF CountInv
  <2>4. CommInv' /\ GvInv'
    BY <1>4, <1>8, <1>11, <2>1 DEF Contents, CommInv, GvInv
  <2> QED BY <1>6, <1>9, <2>2, <2>3, <2>4 DEF Contents
<1> QED BY <1>5, <1>6, <1>10, <1>11

LEMMA CommContents ==
    ASSUME TypesInv, LinkInv, InTurn, Contents, ApplyCommDataFrame
    PROVE  Contents' /\ accepted = {}
<1>1. PICK D \in Nat, C \in Nat, G \in Nat :
         D = DataFrames(cfg) /\ C = CommFrames(cfg) /\ G = GvFrames(cfg)
  BY ConfigShape DEF TypesInv, StudioTypes
<1>2. /\ Head(req) \in Request /\ Frame(Head(req)).kind = "comm" /\ Head(req).cfg = cfg
      /\ req # <<>> /\ cfg \in Configs
  BY HeadShape DEF ApplyCommDataFrame
<1>3. PICK k \in 1 .. C : Head(req).at = 1 + D + k /\ Frame(Head(req)).body = cfg.comm[k]
  <2>1. Placed(Head(req), cfg, D, C, G)
    BY <1>1, <1>2, KindShape
  <2> QED BY <1>2, <2>1 DEF Placed
<1>4. /\ comm' = comm \o cfg.comm[k] /\ list' = list /\ pkgs' = pkgs /\ gv' = gv
      /\ tasks' = tasks /\ cfg' = cfg /\ accepted' = accepted
  BY <1>3 DEF ApplyCommDataFrame, studio
<1>5. \/ due = 1 + D + k /\ due' = 2 + D + k /\ bad' = bad
      \/ due = 2 + D + k /\ due' = 2 + D + k /\ bad' = bad \cup {"comm"}
  <2>1. \/ due = 1 + D + k /\ due' = due + 1 /\ bad' = bad
        \/ due = 1 + D + k + 1 /\ due' = due /\ bad' = bad \cup {"comm"}
    BY <1>2, <1>3, TurnShape DEF ApplyCommDataFrame
  <2>2. 1 + D + k + 1 = 2 + D + k
    OBVIOUS
  <2> QED BY <2>1, <2>2
<1>6. accepted = {}
  <2>1. LastOf(cfg) = D + C + G + 4
    BY <1>1, <1>2, LastShape
  <2>2. 1 + D + k \in Nat /\ 1 + D + k < LastOf(cfg) - 1
    BY <2>1
  <2>3. 1 + D + k + 1 = 2 + D + k
    OBVIOUS
  <2>4. due \in {1 + D + k, 1 + D + k + 1}
    BY <1>5, <2>3
  <2> QED BY <2>2, <2>4, NotYetAccepted DEF Contents
<1>7. cfg.comm \in Seq(Seq(Nat)) /\ Len(cfg.comm) = C
  BY <1>1, <1>2, ConfigShape
<1>8. DataDone' = D /\ CommDone' = k /\ GvDone' = 0
  <2>1. PICK d \in Nat : d = 2 + D + k
    OBVIOUS
  <2>2. d >= D + 2 /\ d - 2 - D \in 0 .. C /\ d - 2 - D = k /\ d <= D + C + 2
    BY <2>1
  <2>3. due' = d /\ cfg' = cfg
    BY <1>4, <1>5, <2>1
  <2> QED BY <1>1, <2>2, <2>3, DoneNext
<1>9. TaskInv' /\ EndInv'
  <2>1. ~(2 + D + k > 2 + D + C + G)
    OBVIOUS
  <2> QED BY <1>1, <1>4, <1>5, <1>6, <2>1 DEF TaskInv, EndInv
<1>10. CASE due = 1 + D + k /\ due' = 2 + D + k /\ bad' = bad
  <2>1. DataDone = D /\ CommDone = k - 1 /\ GvDone = 0
    <3>1. PICK d \in Nat : d = 1 + D + k
      OBVIOUS
    <3>2. d >= D + 2 /\ d - 2 - D \in 0 .. C /\ d - 2 - D = k - 1 /\ d <= D + C + 2
      BY <3>1
    <3> QED BY <1>1, <1>10, <3>1, <3>2, DoneNow, SMTT(30)
  <2>2. PICK n \in 0 .. Len(cfg.comm) - 1 : n = k - 1 /\ k = n + 1
    <3>1. k - 1 \in 0 .. Len(cfg.comm) - 1 /\ k = k - 1 + 1
      BY <1>7
    <3> QED BY <3>1
  <2>3. FirstOf(cfg.comm, k) = FirstOf(cfg.comm, k - 1) \o cfg.comm[k]
    <3>1. FirstOf(cfg.comm, n + 1) = FirstOf(cfg.comm, n) \o cfg.comm[n + 1]
      BY <1>7, FirstOfNext
    <3> QED BY <2>2, <3>1
  <2>4. CommInv'
    BY <1>4, <1>8, <1>10, <2>1, <2>3 DEF Contents, CommInv
  <2>5. ListInv' /\ CountInv' /\ GvInv'
    BY <1>4, <1>8, <1>10, <2>1 DEF Contents, ListInv, CountInv, GvInv
  <2> QED BY <1>6, <1>9, <2>4, <2>5 DEF Contents
<1>11. CASE due = 2 + D + k /\ due' = 2 + D + k /\ bad' = bad \cup {"comm"}
  <2>1. DataDone = D /\ CommDone = k /\ GvDone = 0
    <3>1. PICK d \in Nat : d = 2 + D + k
      OBVIOUS
    <3>2. d >= D + 2 /\ d - 2 - D \in 0 .. C /\ d - 2 - D = k /\ d <= D + C + 2
      BY <3>1
    <3> QED BY <1>1, <1>11, <3>1, <3>2, DoneNow
  <2>2. CommInv'
    BY <1>11 DEF CommInv
  <2>3. ListInv' /\ CountInv' /\ GvInv'
    BY <1>4, <1>8, <1>11, <2>1 DEF Contents, ListInv, CountInv, GvInv
  <2> QED BY <1>6, <1>9, <2>2, <2>3 DEF Contents
<1> QED BY <1>5, <1>6, <1>10, <1>11

LEMMA GvContents ==
    ASSUME TypesInv, LinkInv, InTurn, Contents, ApplyGlobalVariableFrame
    PROVE  Contents' /\ accepted = {}
<1>1. PICK D \in Nat, C \in Nat, G \in Nat :
         D = DataFrames(cfg) /\ C = CommFrames(cfg) /\ G = GvFrames(cfg)
  BY ConfigShape DEF TypesInv, StudioTypes
<1>2. /\ Head(req) \in Request /\ Frame(Head(req)).kind = "gv" /\ Head(req).cfg = cfg
      /\ req # <<>> /\ cfg \in Configs
  BY HeadShape DEF ApplyGlobalVariableFrame
<1>3. PICK k \in 1 .. G : Head(req).at = 1 + D + C + k /\ Frame(Head(req)).body = cfg.gv[k]
  <2>1. Placed(Head(req), cfg, D, C, G)
    BY <1>1, <1>2, KindShape
  <2> QED BY <1>2, <2>1 DEF Placed
<1>4. /\ gv' = gv \o cfg.gv[k] /\ list' = list /\ pkgs' = pkgs /\ comm' = comm
      /\ tasks' = tasks /\ cfg' = cfg /\ accepted' = accepted
  BY <1>3 DEF ApplyGlobalVariableFrame, studio
<1>5. \/ due = 1 + D + C + k /\ due' = 2 + D + C + k /\ bad' = bad
      \/ due = 2 + D + C + k /\ due' = 2 + D + C + k /\ bad' = bad \cup {"gv"}
  <2>1. \/ due = 1 + D + C + k /\ due' = due + 1 /\ bad' = bad
        \/ due = 1 + D + C + k + 1 /\ due' = due /\ bad' = bad \cup {"gv"}
    BY <1>2, <1>3, TurnShape DEF ApplyGlobalVariableFrame
  <2>2. 1 + D + C + k + 1 = 2 + D + C + k
    OBVIOUS
  <2> QED BY <2>1, <2>2
<1>6. accepted = {}
  <2>1. LastOf(cfg) = D + C + G + 4
    BY <1>1, <1>2, LastShape
  <2>2. 1 + D + C + k \in Nat /\ 1 + D + C + k < LastOf(cfg) - 1
    BY <2>1
  <2>3. 1 + D + C + k + 1 = 2 + D + C + k
    OBVIOUS
  <2>4. due \in {1 + D + C + k, 1 + D + C + k + 1}
    BY <1>5, <2>3
  <2> QED BY <2>2, <2>4, NotYetAccepted DEF Contents
<1>7. cfg.gv \in Seq(Seq(Nat \X Nat)) /\ Len(cfg.gv) = G
  BY <1>1, <1>2, ConfigShape
<1>8. DataDone' = D /\ CommDone' = C /\ GvDone' = k
  <2>1. PICK d \in Nat : d = 2 + D + C + k
    OBVIOUS
  <2>2. d >= D + 2 /\ d >= D + C + 2 /\ d - 2 - D - C \in 0 .. G /\ d - 2 - D - C = k
    BY <2>1
  <2>3. due' = d /\ cfg' = cfg
    BY <1>4, <1>5, <2>1
  <2> QED BY <1>1, <2>2, <2>3, DoneNext
<1>9. TaskInv' /\ EndInv'
  <2>1. ~(2 + D + C + k > 2 + D + C + G)
    OBVIOUS
  <2> QED BY <1>1, <1>4, <1>5, <1>6, <2>1 DEF TaskInv, EndInv
<1>10. CASE due = 1 + D + C + k /\ due' = 2 + D + C + k /\ bad' = bad
  <2>1. DataDone = D /\ CommDone = C /\ GvDone = k - 1
    <3>1. PICK d \in Nat : d = 1 + D + C + k
      OBVIOUS
    <3>2. d >= D + 2 /\ d >= D + C + 2 /\ d - 2 - D - C \in 0 .. G /\ d - 2 - D - C = k - 1
      BY <3>1
    <3> QED BY <1>1, <1>10, <3>1, <3>2, DoneNow, SMTT(30)
  <2>2. PICK n \in 0 .. Len(cfg.gv) - 1 : n = k - 1 /\ k = n + 1
    <3>1. k - 1 \in 0 .. Len(cfg.gv) - 1 /\ k = k - 1 + 1
      BY <1>7
    <3> QED BY <3>1
  <2>3. FirstOf(cfg.gv, k) = FirstOf(cfg.gv, k - 1) \o cfg.gv[k]
    <3>1. FirstOf(cfg.gv, n + 1) = FirstOf(cfg.gv, n) \o cfg.gv[n + 1]
      BY <1>7, FirstOfNext
    <3> QED BY <2>2, <3>1
  <2>4. GvInv'
    BY <1>4, <1>8, <1>10, <2>1, <2>3 DEF Contents, GvInv
  <2>5. ListInv' /\ CountInv' /\ CommInv'
    BY <1>4, <1>8, <1>10, <2>1 DEF Contents, ListInv, CountInv, CommInv
  <2> QED BY <1>6, <1>9, <2>4, <2>5 DEF Contents
<1>11. CASE due = 2 + D + C + k /\ due' = 2 + D + C + k /\ bad' = bad \cup {"gv"}
  <2>1. DataDone = D /\ CommDone = C /\ GvDone = k
    <3>1. PICK d \in Nat : d = 2 + D + C + k
      OBVIOUS
    <3>2. d >= D + 2 /\ d >= D + C + 2 /\ d - 2 - D - C \in 0 .. G /\ d - 2 - D - C = k
      BY <3>1
    <3> QED BY <1>1, <1>11, <3>1, <3>2, DoneNow
  <2>2. GvInv'
    BY <1>11 DEF GvInv
  <2>3. ListInv' /\ CountInv' /\ CommInv'
    BY <1>4, <1>8, <1>11, <2>1 DEF Contents, ListInv, CountInv, CommInv
  <2> QED BY <1>6, <1>9, <2>2, <2>3 DEF Contents
<1> QED BY <1>5, <1>6, <1>10, <1>11

\* After the last table nothing is missing.
LEMMA DoneAll ==
    ASSUME NEW D \in Nat, NEW C \in Nat, NEW G \in Nat, NEW d \in Nat, d >= D + C + G + 2,
           D = DataFrames(cfg), C = CommFrames(cfg), G = GvFrames(cfg)
    PROVE  /\ due = d => DataDone = D /\ CommDone = C /\ GvDone = G
           /\ due' = d /\ cfg' = cfg => DataDone' = D /\ CommDone' = C /\ GvDone' = G
<1>1. d >= D + 2 /\ d >= D + C + 2
  OBVIOUS
<1>2. ASSUME due = d PROVE DataDone = D /\ CommDone = C /\ GvDone = G
  BY <1>1, <1>2, DoneNow
<1>3. ASSUME due' = d, cfg' = cfg PROVE DataDone' = D /\ CommDone' = C /\ GvDone' = G
  BY <1>1, <1>3, DoneNext
<1> QED BY <1>2, <1>3

LEMMA TaskContents ==
    ASSUME TypesInv, LinkInv, InTurn, Contents, ApplyTaskData
    PROVE  Contents' /\ accepted = {}
<1>1. PICK D \in Nat, C \in Nat, G \in Nat :
         D = DataFrames(cfg) /\ C = CommFrames(cfg) /\ G = GvFrames(cfg)
  BY ConfigShape DEF TypesInv, StudioTypes
<1>2. /\ Head(req) \in Request /\ Frame(Head(req)).kind = "tasks" /\ Head(req).cfg = cfg
      /\ req # <<>> /\ cfg \in Configs
  BY HeadShape DEF ApplyTaskData
<1>3. Head(req).at = D + C + G + 2 /\ Frame(Head(req)).body = cfg.tasks
  <2>1. Placed(Head(req), cfg, D, C, G)
    BY <1>1, <1>2, KindShape
  <2> QED BY <1>2, <2>1 DEF Placed
<1>4. /\ tasks' = cfg.tasks /\ list' = list /\ pkgs' = pkgs /\ comm' = comm /\ gv' = gv
      /\ cfg' = cfg /\ accepted' = accepted
  BY <1>3 DEF ApplyTaskData, tables, studio
<1>5. PICK d \in Nat : d = D + C + G + 2
  OBVIOUS
<1>6. (due = d \/ due = d + 1) /\ due' = d + 1 /\ (bad' = bad \/ bad' = bad \cup {"tasks"})
  BY <1>2, <1>3, <1>5, TurnShape DEF ApplyTaskData
<1>7. accepted = {}
  <2>1. LastOf(cfg) = D + C + G + 4
    BY <1>1, <1>2, LastShape
  <2>2. d < LastOf(cfg) - 1 /\ due \in {d, d + 1}
    BY <1>5, <1>6, <2>1
  <2> QED BY <2>2, NotYetAccepted DEF Contents
<1>8. DataDone = D /\ CommDone = C /\ GvDone = G /\ DataDone' = D /\ CommDone' = C /\ GvDone' = G
  <2>1. PICK e \in Nat : e = d + 1
    OBVIOUS
  <2>2. d >= D + C + G + 2 /\ e >= D + C + G + 2
    BY <1>5, <2>1
  <2>3. due' = e /\ cfg' = cfg
    BY <1>4, <1>6, <2>1
  <2>4. DataDone' = D /\ CommDone' = C /\ GvDone' = G
    BY <1>1, <2>2, <2>3, DoneAll
  <2>5. CASE due = d
    <3>1. DataDone = D /\ CommDone = C /\ GvDone = G
      BY <1>1, <2>2, <2>5, DoneAll
    <3> QED BY <2>4, <3>1
  <2>6. CASE due = e
    <3>1. DataDone = D /\ CommDone = C /\ GvDone = G
      BY <1>1, <2>2, <2>6, DoneAll
    <3> QED BY <2>4, <3>1
  <2> QED BY <1>4, <1>6, <2>1, <2>5, <2>6
<1>9. ListInv' /\ CountInv' /\ CommInv' /\ GvInv'
  BY <1>4, <1>6, <1>8 DEF Contents, ListInv, CountInv, CommInv, GvInv
<1>10. TaskInv' /\ EndInv'
  BY <1>4, <1>7 DEF TaskInv, EndInv
<1> QED BY <1>7, <1>9, <1>10 DEF Contents

\* What RAM holds when the end frame comes.
Finished ==
    /\ list = Blocks(cfg) \/ Len(Blocks(cfg)) < Len(list)
    /\ "data" \notin bad => list = Blocks(cfg) /\ pkgs = DataFrames(cfg)
    /\ "comm" \notin bad => comm = FlattenSeq(cfg.comm)
    /\ "gv" \notin bad => gv = FlattenSeq(cfg.gv)
    /\ tasks = cfg.tasks

LEMMA EndShape ==
    ASSUME TypesInv, LinkInv, ApplyEndFrame
    PROVE  /\ Head(req).cfg = cfg /\ Head(req).at = LastOf(cfg) - 1
           /\ Frame(Head(req)).body = Counts(cfg)
<1>1. PICK D \in Nat, C \in Nat, G \in Nat :
         D = DataFrames(cfg) /\ C = CommFrames(cfg) /\ G = GvFrames(cfg)
  BY ConfigShape DEF TypesInv, StudioTypes
<1>2. /\ Head(req) \in Request /\ Frame(Head(req)).kind = "end" /\ Head(req).cfg = cfg
      /\ req # <<>> /\ cfg \in Configs
  BY HeadShape DEF ApplyEndFrame
<1>3. Head(req).at = D + C + G + 3 /\ Frame(Head(req)).body = Counts(cfg)
  <2>1. Placed(Head(req), cfg, D, C, G)
    BY <1>1, <1>2, KindShape
  <2> QED BY <1>2, <2>1 DEF Placed
<1>4. LastOf(cfg) = D + C + G + 4
  BY <1>1, <1>2, LastShape
<1>5. LastOf(cfg) - 1 = D + C + G + 3
  BY <1>4
<1> QED BY <1>2, <1>3, <1>5

LEMMA FinishedShape ==
    ASSUME TypesInv, Contents, due >= LastOf(cfg) - 1 PROVE Finished
<1>1. PICK D \in Nat, C \in Nat, G \in Nat :
         D = DataFrames(cfg) /\ C = CommFrames(cfg) /\ G = GvFrames(cfg)
  BY ConfigShape DEF TypesInv, StudioTypes
<1>2. cfg \in Configs /\ due \in Nat
  BY DEF TypesInv, StudioTypes, PastTypes
<1>3. LastOf(cfg) = D + C + G + 4
  BY <1>1, <1>2, LastShape
<1>4. due >= D + C + G + 2 /\ due > 2 + D + C + G
  BY <1>2, <1>3
<1>5. DataDone = D /\ CommDone = C /\ GvDone = G
  BY <1>1, <1>2, <1>4, DoneAll
<1>6. Len(cfg.data) = D /\ Len(cfg.comm) = C /\ Len(cfg.gv) = G
  BY <1>1, <1>2, ConfigShape
<1>7. /\ Blocks(cfg) = FirstOf(cfg.data, D) /\ FlattenSeq(cfg.comm) = FirstOf(cfg.comm, C)
      /\ FlattenSeq(cfg.gv) = FirstOf(cfg.gv, G)
  BY <1>2, <1>6, BlocksShape
<1>8. tasks = cfg.tasks
  BY <1>1, <1>4 DEF Contents, TaskInv
<1> QED BY <1>1, <1>5, <1>7, <1>8 DEF Contents, ListInv, CountInv, CommInv, GvInv, Finished

LEMMA EndContents ==
    ASSUME TypesInv, LinkInv, InTurn, Contents, ApplyEndFrame
    PROVE  Contents' /\ Finished /\ due' = LastOf(cfg)
<1>1. PICK D \in Nat, C \in Nat, G \in Nat :
         D = DataFrames(cfg) /\ C = CommFrames(cfg) /\ G = GvFrames(cfg)
  BY ConfigShape DEF TypesInv, StudioTypes
<1>2. cfg \in Configs /\ req # <<>> /\ Frame(Head(req)).kind = "end"
  BY HeadShape DEF ApplyEndFrame
<1>3. LastOf(cfg) = D + C + G + 4 /\ Head(req).at = LastOf(cfg) - 1
  BY <1>1, <1>2, LastShape, EndShape
<1>4. list' = list /\ pkgs' = pkgs /\ comm' = comm /\ gv' = gv /\ tasks' = tasks /\ cfg' = cfg
  BY DEF ApplyEndFrame, tables, studio
<1>5. PICK d \in Nat : d = D + C + G + 3
  OBVIOUS
<1>6. Head(req).at = d /\ LastOf(cfg) = d + 1
  BY <1>3, <1>5
<1>7. (due = d \/ due = d + 1) /\ due' = d + 1 /\ (bad' = bad \/ bad' = bad \cup {"end"})
  BY <1>2, <1>6, TurnShape DEF ApplyEndFrame
<1>8. DataDone = D /\ CommDone = C /\ GvDone = G /\ DataDone' = D /\ CommDone' = C /\ GvDone' = G
  <2>1. PICK e \in Nat : e = d + 1
    OBVIOUS
  <2>2. d >= D + C + G + 2 /\ e >= D + C + G + 2
    BY <1>5, <2>1
  <2>3. due' = e /\ cfg' = cfg
    BY <1>4, <1>7, <2>1
  <2>4. DataDone' = D /\ CommDone' = C /\ GvDone' = G
    BY <1>1, <2>2, <2>3, DoneAll
  <2>5. CASE due = d
    <3>1. DataDone = D /\ CommDone = C /\ GvDone = G
      BY <1>1, <2>2, <2>5, DoneAll
    <3> QED BY <2>4, <3>1
  <2>6. CASE due = e
    <3>1. DataDone = D /\ CommDone = C /\ GvDone = G
      BY <1>1, <2>2, <2>6, DoneAll
    <3> QED BY <2>4, <3>1
  <2> QED BY <1>4, <1>7, <2>1, <2>5, <2>6
<1>9. Finished
  <2>1. due >= LastOf(cfg) - 1
    BY <1>6, <1>7
  <2> QED BY <2>1, FinishedShape
<1>10. ListInv' /\ CountInv' /\ CommInv' /\ GvInv'
  BY <1>4, <1>7, <1>8 DEF Contents, ListInv, CountInv, CommInv, GvInv
<1>11. TaskInv'
  BY <1>4, <1>9 DEF TaskInv, Finished
<1>12. due' = LastOf(cfg) /\ EndInv'
  <2>1. LastOf(cfg') = LastOf(cfg)
    BY <1>4
  <2> QED BY <1>6, <1>7, <2>1 DEF EndInv
<1> QED BY <1>9, <1>10, <1>11, <1>12 DEF Contents

-----------------------------------------------------------------------------
(* What runs is what was sent.                                              *)

SentInv ==
    /\ LinkInv
    /\ due # 0 /\ Current => InTurn /\ Contents
    /\ RunsWhatWasSent

\* Steps that change neither RAM nor what was accepted.
LEMMA QuietSent ==
    ASSUME SentInv, UNCHANGED <<list, pkgs, comm, gv, tasks, design, cfg, due, bad, accepted>>,
           LinkInv', Current' => Current, InTurn => InTurn'
    PROVE  SentInv'
<1>1. RunsWhatWasSent'
  BY DEF SentInv, RunsWhatWasSent
<1>2. ASSUME due' # 0, Current' PROVE InTurn' /\ Contents'
  <2>1. InTurn /\ Contents
    BY <1>2 DEF SentInv
  <2> QED BY <2>1, SameContents
<1> QED BY <1>1, <1>2 DEF SentInv

LEMMA BeginSent ==
    ASSUME TypesInv, SentInv, NEW c \in Configs, NEW first \in {1, LastOf(c)},
           BeginSession(c, first)
    PROVE  SentInv'
<1>1. LinkInv' /\ ~Current'
  BY LinkBegin, BeginOrder
<1>2. RunsWhatWasSent'
  BY DEF SentInv, RunsWhatWasSent, BeginSession, ram, past
<1> QED BY <1>1, <1>2 DEF SentInv

LEMMA SendSent == ASSUME TypesInv, SentInv, Send PROVE SentInv'
<1>1. LinkInv' /\ (Current' => Current) /\ (InTurn => InTurn')
  BY LinkSend, SendOrder DEF SentInv
<1>2. UNCHANGED <<list, pkgs, comm, gv, tasks, design, cfg, due, bad, accepted>>
  BY DEF Send, ram, past
<1> QED BY <1>1, <1>2, QuietSent

LEMMA TakeSent == ASSUME TypesInv, SentInv, TakeAnswer PROVE SentInv'
<1>1. LinkInv' /\ (Current' => Current) /\ (InTurn => InTurn')
  BY LinkTake, TakeOrder DEF SentInv
<1>2. UNCHANGED <<list, pkgs, comm, gv, tasks, design, cfg, due, bad, accepted>>
  BY DEF TakeAnswer, ram, past
<1> QED BY <1>1, <1>2, QuietSent

LEMMA LessSent == ASSUME TypesInv, SentInv, GiveUp \/ LoseFrame \/ LoseAnswer PROVE SentInv'
<1>1. req \in Seq(Request) /\ rep \in Seq(AnswerSet)
  BY DEF TypesInv, LinkTypes
<1>2. /\ UNCHANGED <<list, pkgs, comm, gv, tasks, design, cfg, due, bad, accepted>>
      /\ at' = at \/ at' = 0
  BY DEF GiveUp, LoseFrame, LoseAnswer, ram, past, studio
<1>3. Taken(req', req)
  <2>1. req' = req \/ (req # <<>> /\ req' = Tail(req))
    BY DEF GiveUp, LoseFrame, LoseAnswer, links
  <2> QED BY <1>1, <2>1, TakenSame, TakenTail
<1>4. Taken(rep', rep)
  <2>1. rep' = rep \/ (rep # <<>> /\ rep' = Tail(rep))
    BY DEF GiveUp, LoseFrame, LoseAnswer, links
  <2> QED BY <1>1, <2>1, TakenSame, TakenTail
<1>5. LinkInv'
  BY <1>2, <1>3, <1>4, LinkTaken DEF SentInv
<1>6. (Current' => Current) /\ (InTurn => InTurn')
  BY <1>2, <1>3, <1>4, QuietStep
<1> QED BY <1>2, <1>5, <1>6, QuietSent

LEMMA StartSent ==
    ASSUME TypesInv, SentInv, NEW crc \in BOOLEAN, ApplyStartFrame(crc) PROVE SentInv'
<1>1. InTurn' /\ LinkInv' /\ Contents'
  BY StartOrder, StartContents DEF SentInv
<1>2. RunsWhatWasSent'
  BY DEF RunsWhatWasSent, ApplyStartFrame
<1> QED BY <1>1, <1>2 DEF SentInv

\* A frame between the start and the save: the links keep their order and the
\* download goes on.
LEMMA FrameOrder ==
    ASSUME TypesInv, LinkInv, NEW kind \in {"data", "comm", "gv", "tasks", "end"}, Receive(kind),
           NEW ok \in BOOLEAN, Reply(ok), Turn, UNCHANGED studio
    PROVE  LinkInv' /\ Current /\ (due = 0 => due' = 0) /\ (InTurn => InTurn')
<1>1. /\ Head(req) \in Request /\ Frame(Head(req)).kind = kind /\ Head(req).cfg = cfg
      /\ req # <<>> /\ req' = Tail(req) /\ cfg \in Configs /\ Head(req).at \in Nat
  BY HeadShape
<1>2. Head(req).at \in 2 .. LastOf(cfg) - 1
  <2>1. PICK D \in Nat, C \in Nat, G \in Nat :
           D = DataFrames(cfg) /\ C = CommFrames(cfg) /\ G = GvFrames(cfg)
    BY <1>1, ConfigShape
  <2>2. LastOf(cfg) = D + C + G + 4
    BY <1>1, <2>1, LastShape
  <2>3. Placed(Head(req), cfg, D, C, G)
    BY <1>1, <2>1, KindShape
  <2>4. \/ \E k \in 1 .. D : Head(req).at = 1 + k
        \/ \E k \in 1 .. C : Head(req).at = 1 + D + k
        \/ \E k \in 1 .. G : Head(req).at = 1 + D + C + k
        \/ Head(req).at = D + C + G + 2 \/ Head(req).at = D + C + G + 3
    BY <1>1, <2>3 DEF Placed
  <2> QED BY <2>2, <2>4
<1>3. Head(req) = req[1] /\ 1 \in 1 .. Len(req)
  BY <1>1, TailShape DEF TypesInv, LinkTypes
<1>4. Current
  BY <1>2, <1>3 DEF Current
<1>5. cfg' = cfg /\ at' = at
  BY DEF studio
<1>6. Taken(req', req) /\ Added(rep', rep, Head(req).at)
  <2>1. Taken(req', req)
    BY <1>1, TakenTail DEF TypesInv, LinkTypes
  <2>2. Answer(Head(req).at, ok) /\ RepTypes
    BY LinkParts DEF TypesInv, Reply
  <2> QED BY <1>1, <2>1, <2>2, AddedAnswer
<1>7. LinkInv'
  BY <1>1, <1>5, <1>6, LinkAnswered DEF TypesInv
<1>8. due = 0 => due' = 0
  <2>1. Head(req).at # 0
    BY <1>2
  <2> QED BY <2>1 DEF Turn
<1>9. InTurn => InTurn'
  BY <1>1, <1>2, <1>4, <1>5, <1>6, TurnOrder
<1> QED BY <1>4, <1>7, <1>8, <1>9

LEMMA TableSent ==
    ASSUME TypesInv, SentInv,
           ApplyDataFrame \/ ApplyCommDataFrame \/ ApplyGlobalVariableFrame \/ ApplyTaskData
    PROVE  SentInv'
<1>1. LinkInv' /\ Current /\ (due = 0 => due' = 0) /\ (InTurn => InTurn')
  <2>1. CASE ApplyDataFrame
    BY <2>1, FrameOrder DEF SentInv, ApplyDataFrame
  <2>2. CASE ApplyCommDataFrame
    BY <2>2, FrameOrder DEF SentInv, ApplyCommDataFrame
  <2>3. CASE ApplyGlobalVariableFrame
    BY <2>3, FrameOrder DEF SentInv, ApplyGlobalVariableFrame
  <2>4. CASE ApplyTaskData
    BY <2>4, FrameOrder DEF SentInv, ApplyTaskData
  <2> QED BY <2>1, <2>2, <2>3, <2>4
<1>2. accepted' = accepted
  BY DEF ApplyDataFrame, ApplyCommDataFrame, ApplyGlobalVariableFrame, ApplyTaskData
<1>3. CASE due = 0
  BY <1>1, <1>3 DEF SentInv, RunsWhatWasSent
<1>4. CASE due # 0
  <2>1. InTurn /\ Contents
    BY <1>1, <1>4 DEF SentInv
  <2>2. Contents' /\ accepted = {}
    BY <2>1, DataContents, CommContents, GvContents, TaskContents DEF SentInv
  <2>3. RunsWhatWasSent'
    BY <1>2, <2>2 DEF RunsWhatWasSent
  <2> QED BY <1>1, <2>1, <2>2, <2>3 DEF SentInv
<1> QED BY <1>3, <1>4

LEMMA EndSent == ASSUME TypesInv, SentInv, ApplyEndFrame PROVE SentInv'
<1>1. LinkInv' /\ Current /\ (due = 0 => due' = 0) /\ (InTurn => InTurn')
  <2>1. Right(Frame(Head(req)).body) \in BOOLEAN
    BY DEF Right
  <2> QED BY <2>1, FrameOrder DEF SentInv, ApplyEndFrame
<1>2. CASE due = 0
  BY <1>1, <1>2 DEF SentInv, RunsWhatWasSent
<1>3. CASE due # 0
  <2>1. InTurn /\ Contents
    BY <1>1, <1>3 DEF SentInv
  <2>2. Contents' /\ Finished
    BY <2>1, EndContents DEF SentInv
  <2>3. /\ list' = list /\ comm' = comm /\ gv' = gv /\ tasks' = tasks
        /\ \A kind : kind \in bad => kind \in bad'
    BY DEF ApplyEndFrame, tables, Turn
  <2>4. CASE Right(Frame(Head(req)).body)
    <3>1. accepted' = {cfg} /\ design' = Parts(list, tasks)
      BY <2>4, EndShape DEF SentInv, ApplyEndFrame
    <3>2. list = Blocks(cfg)
      <4>1. Len(list) = Len(Blocks(cfg))
        BY <2>4, EndShape DEF SentInv, Right, Counts
      <4>2. ~(Len(Blocks(cfg)) < Len(list))
        <5>1. Len(list) \in Nat
          BY DEF TypesInv, RamTypes
        <5> QED BY <4>1, <5>1
      <4> QED BY <2>2, <4>2 DEF Finished
    <3>3. ASSUME bad' \cap {"comm", "gv"} = {}
          PROVE  comm = FlattenSeq(cfg.comm) /\ gv = FlattenSeq(cfg.gv)
      <4>1. "comm" \notin bad /\ "gv" \notin bad
        BY <2>3, <3>3
      <4> QED BY <2>2, <4>1 DEF Finished
    <3>4. RunsWhatWasSent'
      <4>1. tasks = cfg.tasks
        BY <2>2 DEF Finished
      <4> QED BY <2>3, <3>1, <3>2, <3>3, <4>1 DEF RunsWhatWasSent
    <3> QED BY <1>1, <2>1, <2>2, <3>4 DEF SentInv
  <2>5. CASE ~Right(Frame(Head(req)).body)
    <3>1. accepted' = accepted /\ design' = design
      BY <2>5 DEF ApplyEndFrame
    <3>2. bad' \cap {"comm", "gv"} = {} => bad \cap {"comm", "gv"} = {}
      BY <2>3
    <3>3. RunsWhatWasSent'
      BY <1>3, <2>3, <3>1, <3>2 DEF SentInv, RunsWhatWasSent
    <3> QED BY <1>1, <2>1, <2>2, <3>3 DEF SentInv
  <2> QED BY <2>4, <2>5
<1> QED BY <1>2, <1>3

LEMMA SaveSent == ASSUME TypesInv, SentInv, ApplySaveConfigData PROVE SentInv'
<1>1. req # <<>> /\ req' = Tail(req) /\ rep' = rep
  BY DEF ApplySaveConfigData, Receive
<1>2. Taken(req', req) /\ Taken(rep', rep)
  BY <1>1, TakenTail, TakenSame DEF TypesInv, LinkTypes
<1>3. /\ UNCHANGED <<list, pkgs, comm, gv, tasks, design, cfg, due, bad, accepted>>
      /\ at' = at
  BY DEF ApplySaveConfigData, ram, past, studio
<1>4. LinkInv'
  BY <1>2, <1>3, LinkTaken DEF SentInv
<1>5. (Current' => Current) /\ (InTurn => InTurn')
  BY <1>2, <1>3, QuietStep
<1> QED BY <1>3, <1>4, <1>5, QuietSent

LEMMA FlashSent ==
    ASSUME TypesInv, SentInv, FlashErase \/ FlashProgram \/ PowerCut PROVE SentInv'
<1>1. /\ UNCHANGED <<list, pkgs, comm, gv, tasks, design, cfg, due, bad, accepted>>
      /\ at' = at /\ req' = req
  BY DEF FlashErase, FlashProgram, PowerCut, ram, past, studio, links
<1>2. Taken(req', req)
  BY <1>1, TakenSame DEF TypesInv, LinkTypes
<1>3. Added(rep', rep, 0)
  <2>1. CASE rep' = rep
    BY <2>1, AddedNone
  <2>2. CASE Answer(SaveStamp, TRUE)
    <3>1. RepTypes /\ SaveStamp \in Nat /\ SaveStamp = 0
      BY LinkParts DEF TypesInv, SaveStamp
    <3> QED BY <2>2, <3>1, AddedAnswer
  <2> QED BY <2>1, <2>2 DEF FlashErase, FlashProgram, PowerCut, links
<1>4. LinkInv'
  <2>1. 0 \in Nat /\ LinkTypes /\ LinkInv
    BY DEF TypesInv, SentInv
  <2> QED BY <1>1, <1>2, <1>3, <2>1, LinkAnswered
<1>5. (Current' => Current) /\ (InTurn => InTurn')
  BY <1>1, <1>2, <1>3, QuietStep
<1> QED BY <1>1, <1>4, <1>5, QuietSent

LEMMA UpSent == ASSUME TypesInv, SentInv, PowerUp PROVE SentInv'
<1>1. cfg' = cfg /\ at' = at /\ req' = req /\ rep' = rep /\ due' = 0 /\ accepted' = {}
  BY DEF PowerUp, studio, links
<1>2. LinkInv'
  <2>1. Taken(req', req) /\ Taken(rep', rep)
    BY <1>1, TakenSame DEF TypesInv, LinkTypes
  <2> QED BY <1>1, <2>1, LinkTaken DEF SentInv
<1>3. RunsWhatWasSent'
  BY <1>1 DEF RunsWhatWasSent
<1> QED BY <1>1, <1>2, <1>3 DEF SentInv

LEMMA InitSent == ASSUME Init PROVE SentInv
<1>1. Len(req) = 0 /\ Len(rep) = 0
  BY DEF Init
<1>2. \A k : k \notin 1 .. Len(req) /\ k \notin 1 .. Len(rep)
  BY <1>1
<1>3. LinkInv
  BY <1>2 DEF LinkInv, ReqOrdered, StudioNear, RepBehind
<1>4. due = 0 /\ accepted = {}
  BY DEF Init
<1> QED BY <1>3, <1>4 DEF SentInv, RunsWhatWasSent

LEMMA SentStep == ASSUME TypesInv, SentInv, [Next]_vars PROVE SentInv'
<1>1. CASE Studio
  BY <1>1, BeginSent, SendSent, TakeSent, LessSent DEF Studio, LastOf
<1>2. CASE Device
  BY <1>2, StartSent, TableSent, EndSent, SaveSent, FlashSent DEF Device
<1>3. CASE Power
  BY <1>3, FlashSent, UpSent DEF Power
<1>4. CASE UNCHANGED vars
  <2>1. /\ UNCHANGED <<list, pkgs, comm, gv, tasks, design, cfg, due, bad, accepted>>
        /\ at' = at /\ req' = req /\ rep' = rep
    BY <1>4 DEF vars, ram, studio, links, past
  <2>2. Taken(req', req) /\ Taken(rep', rep)
    BY <2>1, TakenSame DEF TypesInv, LinkTypes
  <2>3. LinkInv'
    BY <2>1, <2>2, LinkTaken DEF SentInv
  <2>4. (Current' => Current) /\ (InTurn => InTurn')
    BY <2>1, <2>2, QuietStep
  <2> QED BY <2>1, <2>3, <2>4, QuietSent
<1> QED BY <1>1, <1>2, <1>3, <1>4 DEF Next

LEMMA SentAlways == Spec => [](TypesInv /\ SentInv)
  BY InitTypes, InitSent, TypesStep, SentStep, PTL DEF Spec

\* From the answer "right" to an end frame until the next start frame or
\* power-up, the device runs exactly the blocks that were sent, whatever the
\* links lost and the studio repeated; and the tables the end frame does not
\* count are those sent unless one of their frames was obeyed twice.
THEOREM SentCorrect == Spec => []RunsWhatWasSent
<1>1. SentInv => RunsWhatWasSent
  BY DEF SentInv
<1> QED BY <1>1, SentAlways, PTL

\* An end frame is refused only with reason: a download whose data frames were
\* all obeyed once and in order since the start frame is accepted.
THEOREM RefusalCorrect == Spec => NoFalseRefusal
<1> DEFINE Wanted == ApplyEndFrame /\ "data" \notin bad /\ due >= Head(req).at
                     => accepted' = {Head(req).cfg}
<1>1. ASSUME TypesInv /\ SentInv, [Next]_vars PROVE [Wanted]_vars
  <2> SUFFICES ASSUME ApplyEndFrame, "data" \notin bad, due >= Head(req).at
               PROVE  accepted' = {Head(req).cfg}
    OBVIOUS
  <2>1. Head(req).at = LastOf(cfg) - 1 /\ Frame(Head(req)).body = Counts(cfg)
    BY <1>1, EndShape DEF SentInv
  <2>2. Current
    <3>1. Right(Frame(Head(req)).body) \in BOOLEAN
      BY DEF Right
    <3> QED BY <1>1, <3>1, FrameOrder DEF SentInv, ApplyEndFrame
  <2>3. due # 0 /\ due >= LastOf(cfg) - 1
    BY <1>1, <2>1, LastShape DEF TypesInv, StudioTypes
  <2>4. Finished
    BY <1>1, <2>2, <2>3, FinishedShape DEF SentInv
  <2>5. Right(Counts(cfg))
    <3>1. Counts(cfg).blocks = Len(Blocks(cfg)) /\ Counts(cfg).pkgs = DataFrames(cfg)
      BY <1>1, CountsShape DEF Counts, TypesInv, StudioTypes
    <3>2. list = Blocks(cfg) /\ pkgs = DataFrames(cfg)
      BY <2>4 DEF Finished
    <3> QED BY <3>1, <3>2 DEF Right
  <2> QED BY <2>1, <2>5 DEF ApplyEndFrame
<1>2. Spec => [][Wanted]_vars
  BY <1>1, SentAlways, PTL DEF Spec
<1> QED BY <1>2 DEF NoFalseRefusal

-----------------------------------------------------------------------------
(* What flash keeps.  Between erasing a block and programming it the        *)
(* content of the block is the buffer's; the writes of a save add up to the *)
(* configuration in RAM, and power-up reads back what they have put there.  *)
(* Neither the communication nor the variable frames check the length of    *)
(* their tables, so this holds as long as the tables are not overrun.       *)

Fits == Len(comm) <= MaxComm /\ Len(gv) <= MaxGV

EffPara    == IF buf # <<>> /\ BlockOf(step) = "para" THEN buf[1] ELSE flash.para
EffRuntime == IF buf # <<>> /\ BlockOf(step) = "runtime" THEN buf[1] ELSE flash.runtime
Count      == IF buf = <<>> THEN step - 1 ELSE step

\* Blocks P and R after the first n writes of a save.
ParaSaved(P, n) ==
    /\ n >= 1 => P.flag = Valid
    /\ n >= 2 => P.num = Len(list)
    /\ n >= 3 => P.total = Len(tasks)

ListSaved(R, n) ==
    /\ n >= 4 => R.tasks = tasks
    /\ n >= 5 => /\ Len(list) <= Len(R.list)
                 /\ \A k \in 1 .. Len(list) : R.list[k] = list[k]

AreaSaved(area, n) ==
    /\ n >= 6 => area[0] = Len(comm)
    /\ n >= 7 => \A k \in 1 .. Len(comm) : area[k] = comm[k]
    /\ n >= 8 => area[1 + Len(comm)] = Len(gv)
    /\ n >= 9 => \A k \in 1 .. Len(gv) : area[1 + Len(comm) + k] = gv[k][1]
    /\ n >= 10 => \A k \in 1 .. Len(gv) : area[1 + Len(comm) + Len(gv) + k] = gv[k][2]

Saved(P, R, n) == ParaSaved(P, n) /\ ListSaved(R, n) /\ AreaSaved(R.area, n)

Restores(c) ==
    IF flash.para.flag # Valid
    THEN c = [list |-> <<>>, comm |-> <<>>, gv |-> <<>>, tasks |-> <<>>, can |-> flash.para.can]
    ELSE /\ ~Overrun
         /\ c = [list |-> SavedList, comm |-> SavedComm, gv |-> SavedGV, tasks |-> SavedTasks,
                 can |-> flash.para.can]

StoreInv ==
    /\ power # "off" => EffPara.can = can
    /\ step > 0 => Saved(EffPara, EffRuntime, Count)
    /\ step = 0 /\ kept # Lost => Restores(kept)

LEMMA BlockNames ==
    /\ \A i \in 0 .. 3 : BlockOf(i) = "para"
    /\ \A i \in 4 .. 10 : BlockOf(i) = "runtime"
  BY DEF BlockOf

\* Writing cells of the area leaves the other cells alone.
LEMMA PutShape ==
    ASSUME NEW area \in [Area -> Nat], NEW first \in Nat, NEW cells \in Seq(Nat),
           NEW r, r = Put(area, first, cells), first + Len(cells) <= AreaTop + 1
    PROVE  /\ \A k \in 1 .. Len(cells) : r[first + k - 1] = cells[k]
           /\ \A a \in Area : a < first => r[a] = area[a]
<1>1. AreaTop \in Nat /\ Area = 0 .. AreaTop /\ DOMAIN cells = 1 .. Len(cells) /\ Len(cells) \in Nat
  BY BoundShape, SeqShape DEF AreaTop, Area
<1>2. r = [a \in Area |-> IF a - first + 1 \in 1 .. Len(cells) THEN cells[a - first + 1] ELSE area[a]]
  BY <1>1 DEF Put
<1>3. ASSUME NEW k \in 1 .. Len(cells) PROVE r[first + k - 1] = cells[k]
  <2>1. PICK a \in Area : a = first + k - 1
    BY <1>1
  <2>2. a - first + 1 = k
    BY <1>1, <2>1
  <2> QED BY <1>2, <2>1, <2>2
<1>4. ASSUME NEW a \in Area, a < first PROVE r[a] = area[a]
  <2>1. a - first + 1 \notin 1 .. Len(cells)
    BY <1>1, <1>4
  <2> QED BY <1>2, <2>1
<1> QED BY <1>3, <1>4

\* A write of the save adds its part to what the writes before have put there.
LEMMA WriteArea ==
    ASSUME RamTypes, Fits, flash \in FlashSet, step \in 6 .. 10,
           AreaSaved(flash.runtime.area, step - 1)
    PROVE  /\ AreaSaved(Written(step).area, step)
           /\ Written(step).tasks = flash.runtime.tasks
           /\ Written(step).list = flash.runtime.list
<1>1. PICK area \in [Area -> Nat] : area = flash.runtime.area
  BY DEF FlashSet, RuntimeSet
<1>2. PICK c \in Nat, g \in Nat : c = Len(comm) /\ g = Len(gv)
  BY SeqShape DEF RamTypes
<1>3. c <= MaxComm /\ g <= MaxGV
  BY <1>2 DEF Fits
<1>4. AreaTop = 1 + MaxComm + 2 * MaxGV /\ Area = 0 .. AreaTop
  BY DEF AreaTop, Area
<1>5. 1 + c + g + g <= AreaTop /\ AreaTop \in Nat
  BY <1>3, <1>4, BoundShape
<1>6. /\ <<c>> \in Seq(Nat) /\ Len(<<c>>) = 1 /\ <<c>>[1] = c
      /\ <<g>> \in Seq(Nat) /\ Len(<<g>>) = 1 /\ <<g>>[1] = g
  OBVIOUS
<1>7. comm \in Seq(Nat)
  BY DEF RamTypes
<1>8. /\ IDs(gv) \in Seq(Nat) /\ Len(IDs(gv)) = g /\ \A k \in 1 .. g : IDs(gv)[k] = gv[k][1]
      /\ Types(gv) \in Seq(Nat) /\ Len(Types(gv)) = g /\ \A k \in 1 .. g : Types(gv)[k] = gv[k][2]
  <2>1. gv \in Seq(Nat \X Nat)
    BY DEF RamTypes
  <2>2. DOMAIN gv = 1 .. g /\ \A k \in 1 .. g : gv[k] \in Nat \X Nat
    BY <1>2, <2>1, SeqShape
  <2>3. IDs(gv) \in [1 .. g -> Nat] /\ Types(gv) \in [1 .. g -> Nat]
    BY <2>2 DEF IDs, Types
  <2>4. \A k \in 1 .. g : IDs(gv)[k] = gv[k][1] /\ Types(gv)[k] = gv[k][2]
    BY <2>2 DEF IDs, Types
  <2> QED BY <2>3, <2>4, FunctionIsSeq
<1>9. flash.runtime \in RuntimeSet /\ dwGVofs = 1 + c
  BY <1>2 DEF FlashSet, dwGVofs
<1>10. CASE step = 6
  <2>1. PICK r : r = Put(area, 0, <<c>>)
    OBVIOUS
  <2>2. Written(step) = [flash.runtime EXCEPT !.area = r]
    BY <1>1, <1>2, <1>10, <2>1 DEF Written
  <2>3. r[0] = c
    <3>1. 0 + Len(<<c>>) <= AreaTop + 1 /\ 1 \in 1 .. Len(<<c>>) /\ 0 + 1 - 1 = 0
      BY <1>5, <1>6
    <3>2. r[0 + 1 - 1] = <<c>>[1]
      <4>1. PICK s \in Seq(Nat) : s = <<c>>
        BY <1>6
      <4>2. 0 \in Nat /\ 0 + Len(s) <= AreaTop + 1 /\ 1 \in 1 .. Len(s) /\ r = Put(area, 0, s)
        BY <2>1, <3>1, <4>1
      <4>3. \A k \in 1 .. Len(s) : r[0 + k - 1] = s[k]
        BY <4>2, PutShape, SMTT(30)
      <4> QED BY <4>1, <4>2, <4>3
    <3> QED BY <1>6, <3>1, <3>2
  <2>4. AreaSaved(r, 6)
    BY <1>2, <2>3 DEF AreaSaved
  <2> QED BY <1>9, <1>10, <2>2, <2>4 DEF RuntimeSet
<1>11. CASE step = 7
  <2>1. PICK r : r = Put(area, 1, comm)
    OBVIOUS
  <2>2. Written(step) = [flash.runtime EXCEPT !.area = r]
    BY <1>1, <1>11, <2>1 DEF Written
  <2>3. area[0] = c
    BY <1>1, <1>2, <1>11 DEF AreaSaved
  <2>4. /\ \A k \in 1 .. Len(comm) : r[1 + k - 1] = comm[k]
        /\ \A a \in Area : a < 1 => r[a] = area[a]
    <3>1. 1 + Len(comm) <= AreaTop + 1
      BY <1>2, <1>5
    <3> QED BY <1>7, <2>1, <3>1, PutShape
  <2>5. r[0] = c /\ \A k \in 1 .. c : r[k] = comm[k]
    <3>1. 0 \in Area /\ \A k \in 1 .. c : 1 + k - 1 = k
      BY <1>4, <1>5
    <3> QED BY <1>2, <2>3, <2>4, <3>1
  <2>6. AreaSaved(r, 7)
    BY <1>2, <2>5 DEF AreaSaved
  <2> QED BY <1>9, <1>11, <2>2, <2>6 DEF RuntimeSet
<1>12. CASE step = 8
  <2>1. PICK r : r = Put(area, 1 + c, <<g>>)
    OBVIOUS
  <2>2. Written(step) = [flash.runtime EXCEPT !.area = r]
    BY <1>1, <1>2, <1>9, <1>12, <2>1 DEF Written
  <2>3. area[0] = c /\ \A k \in 1 .. c : area[k] = comm[k]
    BY <1>1, <1>2, <1>12 DEF AreaSaved
  <2>4. r[1 + c] = g /\ \A a \in Area : a < 1 + c => r[a] = area[a]
    <3>1. /\ 1 + c \in Nat /\ 1 + c + Len(<<g>>) <= AreaTop + 1
          /\ 1 \in 1 .. Len(<<g>>) /\ 1 + c + 1 - 1 = 1 + c
      BY <1>5, <1>6
    <3>2. r[1 + c + 1 - 1] = <<g>>[1] /\ \A a \in Area : a < 1 + c => r[a] = area[a]
      <4>0. PICK s \in Seq(Nat) : s = <<g>>
        BY <1>6
      <4>1. PICK f \in Nat : s = <<g>> /\ f = 1 + c
        BY <4>0
      <4>2. f + Len(s) <= AreaTop + 1 /\ 1 \in 1 .. Len(s) /\ r = Put(area, f, s)
        BY <2>1, <3>1, <4>1
      <4>3. /\ \A k \in 1 .. Len(s) : r[f + k - 1] = s[k]
            /\ \A a \in Area : a < f => r[a] = area[a]
        BY <4>2, PutShape
      <4> QED BY <4>1, <4>2, <4>3
    <3> QED BY <1>6, <3>1, <3>2
  <2>5. r[0] = c /\ \A k \in 1 .. c : r[k] = comm[k]
    <3>1. 0 \in Area /\ 0 < 1 + c /\ \A k \in 1 .. c : k \in Area /\ k < 1 + c
      BY <1>4, <1>5
    <3> QED BY <2>3, <2>4, <3>1
  <2>6. AreaSaved(r, 8)
    BY <1>2, <2>4, <2>5 DEF AreaSaved
  <2> QED BY <1>9, <1>12, <2>2, <2>6 DEF RuntimeSet
<1>13. CASE step = 9
  <2>1. PICK r : r = Put(area, 2 + c, IDs(gv))
    OBVIOUS
  <2>2. Written(step) = [flash.runtime EXCEPT !.area = r]
    <3>1. dwGVofs + 1 = 2 + c
      BY <1>9
    <3> QED BY <1>1, <1>13, <2>1, <3>1 DEF Written
  <2>3. area[0] = c /\ (\A k \in 1 .. c : area[k] = comm[k]) /\ area[1 + c] = g
    BY <1>1, <1>2, <1>13 DEF AreaSaved
  <2>4. /\ \A k \in 1 .. g : r[2 + c + k - 1] = IDs(gv)[k]
        /\ \A a \in Area : a < 2 + c => r[a] = area[a]
    <3>0. PICK s \in Seq(Nat) : s = IDs(gv) /\ Len(s) = g
      BY <1>8
    <3>1. PICK f \in Nat : s = IDs(gv) /\ Len(s) = g /\ f = 2 + c
      BY <3>0
    <3>2. f + Len(s) <= AreaTop + 1 /\ r = Put(area, f, s)
      BY <1>5, <2>1, <3>1
    <3>3. /\ \A k \in 1 .. Len(s) : r[f + k - 1] = s[k]
          /\ \A a \in Area : a < f => r[a] = area[a]
      BY <3>2, PutShape
    <3> QED BY <3>1, <3>3
  <2>5. r[0] = c /\ (\A k \in 1 .. c : r[k] = comm[k]) /\ r[1 + c] = g
    <3>1. /\ 0 \in Area /\ 0 < 2 + c /\ 1 + c \in Area /\ 1 + c < 2 + c
          /\ \A k \in 1 .. c : k \in Area /\ k < 2 + c
      BY <1>4, <1>5
    <3> QED BY <2>3, <2>4, <3>1
  <2>6. \A k \in 1 .. g : r[1 + c + k] = gv[k][1]
    <3>1. \A k \in 1 .. g : 2 + c + k - 1 = 1 + c + k
      OBVIOUS
    <3> QED BY <1>8, <2>4, <3>1
  <2>7. AreaSaved(r, 9)
    BY <1>2, <2>5, <2>6 DEF AreaSaved
  <2> QED BY <1>9, <1>13, <2>2, <2>7 DEF RuntimeSet
<1>14. CASE step = 10
  <2>1. PICK r : r = Put(area, 2 + c + g, Types(gv))
    OBVIOUS
  <2>2. Written(step) = [flash.runtime EXCEPT !.area = r]
    <3>1. dwGVofs + 1 + Len(gv) = 2 + c + g
      BY <1>2, <1>9
    <3> QED BY <1>1, <1>14, <2>1, <3>1 DEF Written
  <2>3. /\ area[0] = c /\ (\A k \in 1 .. c : area[k] = comm[k]) /\ area[1 + c] = g
        /\ \A k \in 1 .. g : area[1 + c + k] = gv[k][1]
    BY <1>1, <1>2, <1>14 DEF AreaSaved
  <2>4. /\ \A k \in 1 .. g : r[2 + c + g + k - 1] = Types(gv)[k]
        /\ \A a \in Area : a < 2 + c + g => r[a] = area[a]
    <3>0. PICK s \in Seq(Nat) : s = Types(gv) /\ Len(s) = g
      BY <1>8
    <3>1. PICK f \in Nat : s = Types(gv) /\ Len(s) = g /\ f = 2 + c + g
      BY <3>0
    <3>2. f + Len(s) <= AreaTop + 1 /\ r = Put(area, f, s)
      BY <1>5, <2>1, <3>1
    <3>3. /\ \A k \in 1 .. Len(s) : r[f + k - 1] = s[k]
          /\ \A a \in Area : a < f => r[a] = area[a]
      BY <3>2, PutShape
    <3> QED BY <3>1, <3>3
  <2>5. /\ r[0] = c /\ (\A k \in 1 .. c : r[k] = comm[k]) /\ r[1 + c] = g
        /\ \A k \in 1 .. g : r[1 + c + k] = gv[k][1]
    <3>1. /\ 0 \in Area /\ 0 < 2 + c + g /\ 1 + c \in Area /\ 1 + c < 2 + c + g
          /\ \A k \in 1 .. c : k \in Area /\ k < 2 + c + g
          /\ \A k \in 1 .. g : 1 + c + k \in Area /\ 1 + c + k < 2 + c + g
      BY <1>4, <1>5
    <3> QED BY <2>3, <2>4, <3>1
  <2>6. \A k \in 1 .. g : r[1 + c + g + k] = gv[k][2]
    <3>1. \A k \in 1 .. g : 2 + c + g + k - 1 = 1 + c + g + k
      OBVIOUS
    <3> QED BY <1>8, <2>4, <3>1
  <2>7. AreaSaved(r, 10)
    BY <1>2, <2>5, <2>6 DEF AreaSaved
  <2> QED BY <1>9, <1>14, <2>2, <2>7 DEF RuntimeSet
<1> QED BY <1>10, <1>11, <1>12, <1>13, <1>14

LEMMA WritePara ==
    ASSUME flash \in FlashSet, step \in 1 .. 3, ParaSaved(flash.para, step - 1)
    PROVE  ParaSaved(Written(step), step) /\ Written(step).can = flash.para.can
<1>1. flash.para \in ParaSet
  BY DEF FlashSet
<1>2. CASE step = 1
  <2>1. Written(step) = [flash.para EXCEPT !.flag = Valid]
    BY <1>2 DEF Written
  <2> QED BY <1>1, <1>2, <2>1 DEF ParaSaved, ParaSet
<1>3. CASE step = 2
  <2>1. Written(step) = [flash.para EXCEPT !.num = Len(list)]
    BY <1>3 DEF Written
  <2> QED BY <1>1, <1>3, <2>1 DEF ParaSaved, ParaSet
<1>4. CASE step = 3
  <2>1. Written(step) = [flash.para EXCEPT !.total = Len(tasks)]
    BY <1>4 DEF Written
  <2> QED BY <1>1, <1>4, <2>1 DEF ParaSaved, ParaSet
<1> QED BY <1>2, <1>3, <1>4

LEMMA WriteList ==
    ASSUME RamTypes, flash \in FlashSet, step \in 4 .. 5, ListSaved(flash.runtime, step - 1)
    PROVE  ListSaved(Written(step), step)
<1>1. flash.runtime \in RuntimeSet
  BY DEF FlashSet
<1>2. CASE step = 4
  <2>1. Written(step) = [flash.runtime EXCEPT !.tasks = tasks]
    BY <1>2 DEF Written
  <2> QED BY <1>1, <1>2, <2>1 DEF ListSaved, RuntimeSet
<1>3. CASE step = 5
  <2>1. PICK l : l = flash.runtime.list
    OBVIOUS
  <2>2. PICK s : s = SubSeq(l, Len(list) + 1, Len(l))
    OBVIOUS
  <2>3. Written(step) = [flash.runtime EXCEPT !.list = list \o s]
    BY <1>3, <2>1, <2>2 DEF Written
  <2>4. l \in Seq(Nat) /\ list \in Seq(Nat) /\ Len(list) \in Nat /\ Len(l) \in Nat
    BY <1>1, <2>1, SeqShape DEF RuntimeSet, RamTypes
  <2>5. s \in Seq(Nat)
    <3>1. \A k \in Len(list) + 1 .. Len(l) : l[k] \in Nat
      <4>1. \A k \in Len(list) + 1 .. Len(l) : k \in 1 .. Len(l)
        BY <2>4
      <4> QED BY <2>4, <4>1, ElementOfSeq
    <3> QED BY <2>2, <2>4, <3>1, SubSeqProperties
  <2>6. PICK r : r = list \o s
    OBVIOUS
  <2>7. MadeOf(r, list, s) /\ Len(s) \in Nat
    BY <2>4, <2>5, <2>6, ConcatParts, SeqShape
  <2>8. Len(list) <= Len(r) /\ \A k \in 1 .. Len(list) : r[k] = list[k]
    BY <2>4, <2>7 DEF MadeOf
  <2>9. Written(step).list = r /\ Written(step).tasks = flash.runtime.tasks
    BY <1>1, <2>3, <2>6 DEF RuntimeSet
  <2>10. flash.runtime.tasks = tasks
    BY <1>3 DEF ListSaved
  <2> QED BY <1>3, <2>8, <2>9, <2>10 DEF ListSaved
<1> QED BY <1>2, <1>3

LEMMA WriteSaved ==
    ASSUME RamTypes, Fits, flash \in FlashSet, step \in 1 .. 10,
           Saved(flash.para, flash.runtime, step - 1)
    PROVE  /\ BlockOf(step) = "para" =>
                 /\ Saved(Written(step), flash.runtime, step)
                 /\ Written(step).can = flash.para.can
           /\ BlockOf(step) = "runtime" => Saved(flash.para, Written(step), step)
<1>1. /\ ParaSaved(flash.para, step - 1) /\ ListSaved(flash.runtime, step - 1)
      /\ AreaSaved(flash.runtime.area, step - 1)
  BY DEF Saved
<1>2. CASE step \in 1 .. 3
  <2>1. BlockOf(step) = "para" /\ BlockOf(step) # "runtime"
    BY <1>2, BlockNames
  <2>2. ListSaved(flash.runtime, step) /\ AreaSaved(flash.runtime.area, step)
    BY <1>2 DEF ListSaved, AreaSaved
  <2> QED BY <1>1, <1>2, <2>1, <2>2, WritePara DEF Saved
<1>3. CASE step \in 4 .. 5
  <2>1. BlockOf(step) = "runtime" /\ BlockOf(step) # "para"
    BY <1>3, BlockNames
  <2>2. ParaSaved(flash.para, step) /\ AreaSaved(Written(step).area, step)
    BY <1>1, <1>3 DEF ParaSaved, AreaSaved
  <2> QED BY <1>1, <1>3, <2>1, <2>2, WriteList DEF Saved
<1>4. CASE step \in 6 .. 10
  <2>1. BlockOf(step) = "runtime" /\ BlockOf(step) # "para"
    BY <1>4, BlockNames
  <2>2. ParaSaved(flash.para, step)
    BY <1>1, <1>4 DEF ParaSaved
  <2>3. AreaSaved(Written(step).area, step) /\ ListSaved(Written(step), step)
    <3>1. /\ AreaSaved(Written(step).area, step)
          /\ Written(step).tasks = flash.runtime.tasks
          /\ Written(step).list = flash.runtime.list
      BY <1>1, <1>4, WriteArea
    <3>2. ListSaved(flash.runtime, step)
      BY <1>1, <1>4 DEF ListSaved
    <3> QED BY <3>1, <3>2 DEF ListSaved
  <2> QED BY <2>1, <2>2, <2>3 DEF Saved
<1> QED BY <1>2, <1>3, <1>4

LEMMA EraseStore == ASSUME TypesInv, StoreInv, Fits, FlashErase PROVE StoreInv'
<1>1. /\ RamTypes /\ flash \in FlashSet /\ step \in 1 .. 10 /\ buf = <<>> /\ power = "on"
  <2>1. step \in 0 .. 10 /\ step > 0
    BY DEF TypesInv, StoreTypes, FlashErase, LastWrite
  <2> QED BY <2>1 DEF TypesInv, StoreTypes, FlashErase
<1>2. EffPara = flash.para /\ EffRuntime = flash.runtime /\ Count = step - 1
  BY <1>1 DEF EffPara, EffRuntime, Count
<1>3. Saved(flash.para, flash.runtime, step - 1) /\ flash.para.can = can
  BY <1>1, <1>2 DEF StoreInv
<1>4. PICK w : w = Written(step)
  OBVIOUS
<1>5. /\ buf' = <<w>> /\ buf' # <<>> /\ buf'[1] = w /\ step' = step /\ power' = power
      /\ flash' = [flash EXCEPT ![BlockOf(step)] = Erased[BlockOf(step)]]
      /\ list' = list /\ comm' = comm /\ gv' = gv /\ tasks' = tasks /\ can' = can
  BY <1>4 DEF FlashErase, ram
<1>6. Count' = step
  BY <1>5 DEF Count
<1>7. /\ BlockOf(step) = "para" => EffPara' = w /\ EffRuntime' = flash.runtime
      /\ BlockOf(step) = "runtime" => EffPara' = flash.para /\ EffRuntime' = w
  <2>1. BlockOf(step') = BlockOf(step)
    BY <1>5
  <2>2. /\ BlockOf(step) = "para" => flash'.runtime = flash.runtime
        /\ BlockOf(step) = "runtime" => flash'.para = flash.para
    BY <1>1, <1>5 DEF FlashSet
  <2> QED BY <1>5, <2>1, <2>2 DEF EffPara, EffRuntime
<1>8. Saved(EffPara', EffRuntime', step) /\ EffPara'.can = can
  <2>1. CASE BlockOf(step) = "para"
    <3>1. Saved(w, flash.runtime, step) /\ w.can = flash.para.can
      BY <1>1, <1>3, <1>4, <2>1, WriteSaved
    <3> QED BY <1>3, <1>7, <2>1, <3>1
  <2>2. CASE BlockOf(step) = "runtime"
    <3>1. Saved(flash.para, w, step)
      BY <1>1, <1>3, <1>4, <2>2, WriteSaved
    <3> QED BY <1>3, <1>7, <2>2, <3>1
  <2> QED BY <2>1, <2>2 DEF BlockOf
<1>9. Saved(EffPara, EffRuntime, Count)'
  <2>1. PICK P, R : P = EffPara' /\ R = EffRuntime'
    OBVIOUS
  <2>2. Saved(P, R, step)
    BY <1>8, <2>1
  <2>3. Saved(P, R, step)'
    BY <1>5, <2>2 DEF Saved, ParaSaved, ListSaved, AreaSaved
  <2> QED BY <1>5, <1>6, <2>1, <2>3 DEF Saved, ParaSaved, ListSaved, AreaSaved
<1>10. step' # 0
  BY <1>1, <1>5
<1> QED BY <1>5, <1>8, <1>9, <1>10 DEF StoreInv

LEMMA SeqIsFunction ==
    ASSUME NEW S, NEW s \in Seq(S), NEW n, n = Len(s), NEW f, f = [k \in 1 .. n |-> s[k]]
    PROVE  f = s
<1>1. n \in Nat /\ \A k \in 1 .. n : s[k] \in S
  BY SeqShape
<1>2. f \in [1 .. n -> S]
  BY <1>1
<1>3. f \in Seq(S) /\ Len(f) = n
  BY <1>1, <1>2, FunctionIsSeq
<1> QED BY <1>3, SameElements

\* After the last write power-up would read back what is in RAM.
LEMMA SavedRestores ==
    ASSUME RamTypes, Fits, UNCHANGED <<list, comm, gv, tasks, can>>,
           NEW P, NEW R \in RuntimeSet, P = flash'.para, R = flash'.runtime, Saved(P, R, 10), P.can = can
    PROVE  Restores(Config)'
<1>1. /\ P.flag = Valid /\ P.num = Len(list) /\ P.total = Len(tasks)
      /\ R.tasks = tasks /\ Len(list) <= Len(R.list)
      /\ \A k \in 1 .. Len(list) : R.list[k] = list[k]
  BY DEF Saved, ParaSaved, ListSaved
<1>2. PICK area : area = R.area
  OBVIOUS
<1>3. PICK c \in Nat, g \in Nat : c = Len(comm) /\ g = Len(gv)
  BY SeqShape DEF RamTypes
<1>4. /\ area[0] = c /\ area[1 + c] = g
      /\ \A k \in 1 .. c : area[k] = comm[k]
      /\ \A k \in 1 .. g : area[1 + c + k] = gv[k][1]
      /\ \A k \in 1 .. g : area[1 + c + g + k] = gv[k][2]
  BY <1>2, <1>3 DEF Saved, AreaSaved
<1>5. flash'.runtime.area = area /\ flash'.para = P /\ flash'.runtime = R
  BY <1>2
<1>6. NComm' = c /\ NGV' = g
  BY <1>4, <1>5 DEF NComm, NGV
<1>7. ~Overrun'
  <2>1. c <= MaxComm /\ g <= MaxGV
    BY <1>3 DEF Fits
  <2>2. ~(c > MaxComm) /\ ~(g > MaxGV)
    BY <2>1, BoundShape
  <2>3. ~(Len(tasks) > Len(tasks))
    <3>1. Len(tasks) \in Nat
      BY SeqShape DEF RamTypes
    <3> QED BY <3>1
  <2> QED BY <1>1, <1>5, <1>6, <2>2, <2>3 DEF Overrun
<1>8. SavedList' = list
  <2>1. PICK n \in Nat : n = Len(list)
    BY SeqShape DEF RamTypes
  <2>2. PICK l : l = R.list
    OBVIOUS
  <2>3. SavedList' = [k \in 1 .. n |-> IF k <= Len(l) THEN l[k] ELSE Blank]
    BY <1>1, <1>5, <2>1, <2>2 DEF SavedList
  <2>4. \A k \in 1 .. n : k <= Len(l) /\ l[k] = list[k]
    <3>1. Len(l) \in Nat /\ n <= Len(l)
      BY <1>1, <2>1, <2>2, SeqShape DEF RuntimeSet
    <3>2. \A k \in 1 .. n : k <= Len(l)
      BY <3>1
    <3> QED BY <1>1, <2>1, <2>2, <3>2
  <2>5. SavedList' = [k \in 1 .. n |-> list[k]]
    BY <2>3, <2>4
  <2> QED BY <2>1, <2>5, SeqIsFunction DEF RamTypes
<1>9. SavedTasks' = tasks
  <2>1. SavedTasks' = SubSeq(tasks, 1, Len(tasks))
    BY <1>1, <1>5 DEF SavedTasks
  <2> QED BY <2>1, WholeSeq DEF RamTypes
<1>10. SavedComm' = comm
  <2>1. SavedComm' = [k \in 1 .. c |-> area[1 + k - 1]]
    BY <1>5, <1>6 DEF SavedComm, Cells
  <2>2. \A k \in 1 .. c : area[1 + k - 1] = comm[k]
    <3>1. \A k \in 1 .. c : 1 + k - 1 = k
      OBVIOUS
    <3> QED BY <1>4, <3>1
  <2>3. SavedComm' = [k \in 1 .. c |-> comm[k]]
    BY <2>1, <2>2
  <2> QED BY <1>3, <2>3, SeqIsFunction DEF RamTypes
<1>11. SavedGV' = gv
  <2>1. PICK ids : ids = [k \in 1 .. g |-> area[2 + c + k - 1]]
    OBVIOUS
  <2>2. PICK types : types = [k \in 1 .. g |-> area[2 + c + g + k - 1]]
    OBVIOUS
  <2>3. SavedGV' = [k \in 1 .. g |-> <<ids[k], types[k]>>]
    BY <1>5, <1>6, <2>1, <2>2 DEF SavedGV, Cells
  <2>4. ASSUME NEW k \in 1 .. g PROVE <<ids[k], types[k]>> = gv[k]
    <3>1. 2 + c + k - 1 = 1 + c + k /\ 2 + c + g + k - 1 = 1 + c + g + k
      OBVIOUS
    <3>2. ids[k] = gv[k][1] /\ types[k] = gv[k][2]
      BY <1>4, <2>1, <2>2, <3>1
    <3>3. gv[k] \in Nat \X Nat
      BY <1>3, ElementOfSeq DEF RamTypes
    <3> QED BY <3>2, <3>3
  <2>5. SavedGV' = [k \in 1 .. g |-> gv[k]]
    BY <2>3, <2>4
  <2> QED BY <1>3, <2>5, SeqIsFunction DEF RamTypes
<1>12. Config' = [list |-> SavedList', comm |-> SavedComm', gv |-> SavedGV',
                  tasks |-> SavedTasks', can |-> P.can]
  BY <1>8, <1>9, <1>10, <1>11 DEF Config
<1> QED BY <1>1, <1>5, <1>7, <1>12 DEF Restores

LEMMA ProgramStore == ASSUME TypesInv, StoreInv, Fits, FlashProgram PROVE StoreInv'
<1>1. /\ RamTypes /\ flash \in FlashSet /\ step \in 1 .. 10 /\ power = "on"
      /\ flash.para \in ParaSet /\ flash.runtime \in RuntimeSet
  <2>1. step \in 0 .. 10 /\ step > 0
    BY DEF TypesInv, StoreTypes, FlashProgram, LastWrite
  <2> QED BY <2>1 DEF TypesInv, StoreTypes, FlashProgram, FlashSet
<1>2. PICK b \in BlockSet(step) : buf = <<b>> /\ buf # <<>> /\ buf[1] = b
  BY DEF TypesInv, StoreTypes, FlashProgram
<1>3. /\ flash' = [flash EXCEPT ![BlockOf(step)] = b] /\ buf' = <<>> /\ power' = power
      /\ list' = list /\ comm' = comm /\ gv' = gv /\ tasks' = tasks /\ can' = can
  BY <1>2 DEF FlashProgram, ram
<1>4. PICK P, R : P = EffPara /\ R = EffRuntime
  OBVIOUS
<1>5. flash'.para = P /\ flash'.runtime = R /\ R \in RuntimeSet
  <2>1. CASE BlockOf(step) = "para"
    <3>1. P = b /\ R = flash.runtime
      BY <1>2, <1>4, <2>1 DEF EffPara, EffRuntime
    <3>2. flash'.para = b /\ flash'.runtime = flash.runtime
      BY <1>1, <1>3, <2>1 DEF FlashSet
    <3> QED BY <1>1, <3>1, <3>2
  <2>2. CASE BlockOf(step) = "runtime"
    <3>1. P = flash.para /\ R = b
      BY <1>2, <1>4, <2>2 DEF EffPara, EffRuntime
    <3>2. flash'.runtime = b /\ flash'.para = flash.para
      BY <1>1, <1>3, <2>2 DEF FlashSet
    <3>3. b \in RuntimeSet
      BY <2>2 DEF BlockSet
    <3> QED BY <3>1, <3>2, <3>3
  <2> QED BY <2>1, <2>2 DEF BlockOf
<1>6. EffPara' = P /\ EffRuntime' = R
  BY <1>3, <1>5 DEF EffPara, EffRuntime
<1>7. Saved(P, R, step) /\ P.can = can
  <2>1. Count = step
    BY <1>2 DEF Count
  <2> QED BY <1>1, <1>4, <2>1 DEF StoreInv
<1>8. CASE step < 10
  <2>1. step' = step + 1 /\ kept' = kept
    BY <1>8 DEF FlashProgram, LastWrite
  <2>2. Count' = step /\ step' # 0
    BY <1>1, <1>3, <2>1 DEF Count
  <2>3. Saved(EffPara, EffRuntime, Count)'
    BY <1>3, <1>6, <1>7, <2>2 DEF Saved, ParaSaved, ListSaved, AreaSaved
  <2> QED BY <1>3, <1>6, <1>7, <2>2, <2>3 DEF StoreInv
<1>9. CASE step = 10
  <2>1. step' = 0 /\ kept' = Config
    BY <1>9 DEF FlashProgram, LastWrite
  <2>2. Restores(Config)'
    BY <1>1, <1>3, <1>5, <1>7, <1>9, SavedRestores
  <2>3. Config' = Config
    BY <1>3 DEF Config
  <2>4. Restores(kept)'
    BY <2>1, <2>2, <2>3 DEF Restores
  <2>5. ~(step' > 0)
    BY <2>1
  <2> QED BY <1>3, <1>6, <1>7, <2>4, <2>5 DEF StoreInv
<1>10. step < 10 \/ step = 10
  BY <1>1
<1> QED BY <1>8, <1>9, <1>10

\* Steps that leave flash alone.  They may change RAM while no save is under way.
LEMMA SameFlash ==
    ASSUME StoreInv, UNCHANGED <<flash, step, buf, power, kept, can>>,
           step > 0 => UNCHANGED <<list, comm, gv, tasks>>
    PROVE  StoreInv'
<1>1. EffPara' = EffPara /\ EffRuntime' = EffRuntime /\ Count' = Count
  BY DEF EffPara, EffRuntime, Count
<1>2. power' # "off" => EffPara'.can = can'
  BY <1>1 DEF StoreInv
<1>3. step' > 0 => Saved(EffPara, EffRuntime, Count)'
  <2>1. ASSUME step > 0 PROVE Saved(EffPara, EffRuntime, Count)'
    BY <1>1, <2>1 DEF StoreInv, Saved, ParaSaved, ListSaved, AreaSaved
  <2> QED BY <2>1
<1>4. step' = 0 /\ kept' # Lost => Restores(kept)'
  <2>1. ASSUME step = 0, kept # Lost PROVE Restores(kept)'
    <3>1. Restores(kept)
      BY <2>1 DEF StoreInv
    <3>2. /\ Overrun' <=> Overrun
          /\ SavedList' = SavedList /\ SavedTasks' = SavedTasks
          /\ SavedComm' = SavedComm /\ SavedGV' = SavedGV
      BY DEF Overrun, NComm, NGV, SavedList, SavedTasks, SavedComm, SavedGV, Cells
    <3> QED BY <3>1, <3>2 DEF Restores
  <2> QED BY <2>1 DEF Lost
<1> QED BY <1>2, <1>3, <1>4 DEF StoreInv

LEMMA StudioStore == ASSUME TypesInv, StoreInv, Studio PROVE StoreInv'
<1>1. UNCHANGED <<flash, step, buf, power, kept, can, list, comm, gv, tasks>>
  BY DEF Studio, BeginSession, Send, TakeAnswer, GiveUp, LoseFrame, LoseAnswer, ram, store
<1> QED BY <1>1, SameFlash

\* The frames of a download leave flash alone, and no save is under way.
Download ==
    \/ \E crc \in BOOLEAN : ApplyStartFrame(crc)
    \/ ApplyDataFrame \/ ApplyCommDataFrame \/ ApplyGlobalVariableFrame
    \/ ApplyTaskData \/ ApplyEndFrame

LEMMA DownloadShape ==
    ASSUME Download
    PROVE  step = 0 /\ power = "on" /\ UNCHANGED <<flash, step, buf, power, kept, can>>
<1>1. UNCHANGED store /\ can' = can
  BY DEF Download, ApplyStartFrame, ApplyDataFrame, ApplyCommDataFrame,
         ApplyGlobalVariableFrame, ApplyTaskData, ApplyEndFrame
<1>2. step = 0 /\ power = "on"
  BY DEF Download, ApplyStartFrame, ApplyDataFrame, ApplyCommDataFrame,
         ApplyGlobalVariableFrame, ApplyTaskData, ApplyEndFrame, Receive
<1> QED BY <1>1, <1>2 DEF store

LEMMA DownloadStore == ASSUME TypesInv, StoreInv, Download PROVE StoreInv'
<1>1. step = 0 /\ UNCHANGED <<flash, step, buf, power, kept, can>>
  BY DownloadShape
<1>2. ~(step > 0)
  BY <1>1
<1> QED BY <1>1, <1>2, SameFlash

LEMMA SaveStore == ASSUME TypesInv, StoreInv, ApplySaveConfigData PROVE StoreInv'
<1>1. step = 0 /\ power = "on" /\ buf = <<>>
  BY DEF ApplySaveConfigData, Receive, TypesInv, StoreTypes
<1>2. /\ step' = 1 /\ flash' = flash /\ buf' = <<>> /\ power' = power /\ can' = can
  BY <1>1 DEF ApplySaveConfigData, ram
<1>3. EffPara' = EffPara /\ Count' = 0
  BY <1>1, <1>2 DEF EffPara, Count
<1>4. Saved(EffPara, EffRuntime, Count)'
  BY <1>3 DEF Saved, ParaSaved, ListSaved, AreaSaved
<1>5. step' # 0
  BY <1>2
<1> QED BY <1>1, <1>2, <1>3, <1>4, <1>5 DEF StoreInv

LEMMA CutStore == ASSUME TypesInv, StoreInv, PowerCut PROVE StoreInv'
<1>1. power' = "off" /\ step' = 0 /\ flash' = flash /\ kept' = (IF step > 0 THEN Lost ELSE kept)
  BY DEF PowerCut
<1>2. ~(step' > 0)
  BY <1>1
<1>3. kept' # Lost => Restores(kept)'
  <2>1. ASSUME kept' # Lost PROVE Restores(kept)'
    <3>1. ~(step > 0) /\ kept' = kept
      BY <1>1, <2>1
    <3>2. step = 0
      <4>1. step \in 0 .. 10
        BY DEF TypesInv, StoreTypes, LastWrite
      <4> QED BY <3>1, <4>1
    <3>3. Restores(kept)
      BY <2>1, <3>1, <3>2 DEF StoreInv
    <3>4. /\ Overrun' <=> Overrun
          /\ SavedList' = SavedList /\ SavedTasks' = SavedTasks
          /\ SavedComm' = SavedComm /\ SavedGV' = SavedGV
      BY <1>1 DEF Overrun, NComm, NGV, SavedList, SavedTasks, SavedComm, SavedGV, Cells
    <3> QED BY <1>1, <3>1, <3>3, <3>4 DEF Restores
  <2> QED BY <2>1
<1>4. Lost' = Lost
  BY DEF Lost
<1> QED BY <1>1, <1>2, <1>3, <1>4 DEF StoreInv

LEMMA UpStore == ASSUME TypesInv, StoreInv, PowerUp PROVE StoreInv'
<1>1. step = 0 /\ buf = <<>>
  BY DEF TypesInv, StoreTypes, PowerUp
<1>2. /\ flash' = flash /\ step' = 0 /\ buf' = <<>> /\ kept' = kept /\ can' = flash.para.can
  BY <1>1 DEF PowerUp
<1>3. EffPara' = flash.para
  BY <1>2 DEF EffPara
<1>4. kept # Lost => Restores(kept)'
  <2>1. ASSUME kept # Lost PROVE Restores(kept)'
    <3>1. Restores(kept)
      BY <1>1, <2>1 DEF StoreInv
    <3>2. /\ Overrun' <=> Overrun
          /\ SavedList' = SavedList /\ SavedTasks' = SavedTasks
          /\ SavedComm' = SavedComm /\ SavedGV' = SavedGV
      BY <1>2 DEF Overrun, NComm, NGV, SavedList, SavedTasks, SavedComm, SavedGV, Cells
    <3> QED BY <1>2, <3>1, <3>2 DEF Restores
  <2> QED BY <2>1
<1>5. ~(step' > 0) /\ Lost' = Lost
  BY <1>2 DEF Lost
<1> QED BY <1>2, <1>3, <1>4, <1>5 DEF StoreInv

LEMMA InitStore == ASSUME Init PROVE StoreInv
<1>1. flash.para = [flag |-> Blank, num |-> Blank, total |-> Blank, can |-> 1]
  BY DEF Init, Erased
<1>2. step = 0 /\ buf = <<>> /\ can = 1 /\ kept = Fresh
  BY DEF Init
<1>3. EffPara = flash.para
  BY <1>2 DEF EffPara
<1>4. Restores(kept)
  BY <1>1, <1>2 DEF Restores, Fresh, Blank, Valid
<1>5. ~(step > 0)
  BY <1>2
<1> QED BY <1>1, <1>2, <1>3, <1>4, <1>5 DEF StoreInv

LEMMA StoreStep == ASSUME TypesInv, StoreInv, Fits, [Next]_vars PROVE StoreInv'
<1>1. CASE Studio
  BY <1>1, StudioStore
<1>2. CASE Device
  BY <1>2, DownloadStore, SaveStore, EraseStore, ProgramStore DEF Device, Download
<1>3. CASE Power
  BY <1>3, CutStore, UpStore DEF Power
<1>4. CASE UNCHANGED vars
  BY <1>4, SameFlash DEF vars, ram, store
<1> QED BY <1>1, <1>2, <1>3, <1>4 DEF Next

-----------------------------------------------------------------------------
(* The refinement of SavedConfig, step by step.                             *)

InUse == IF power = "wild" THEN Lost ELSE Config

LEMMA MapInit == ASSUME Init PROVE Store!Init
<1>1. Config = Fresh /\ power = "on" /\ kept = Fresh /\ step = 0
  BY DEF Init, Config, Fresh
<1>2. ~(step > 0) /\ power # "wild" /\ power # "off"
  BY <1>1
<1> QED BY <1>1, <1>2 DEF Store!Init

LEMMA MapStutter ==
    ASSUME UNCHANGED <<list, comm, gv, tasks, can, step, power, kept>>
    PROVE  UNCHANGED Store!vars
  BY DEF Store!vars, Config, Lost

LEMMA MapDownload == ASSUME Download PROVE Store!Edit
<1>1. step = 0 /\ power = "on" /\ step' = step /\ power' = power /\ kept' = kept
  BY DownloadShape
<1>2. ~(step > 0) /\ ~(step' > 0) /\ power # "off" /\ power' # "off"
  BY <1>1
<1> QED BY <1>1, <1>2 DEF Store!Edit

LEMMA MapSave == ASSUME ApplySaveConfigData PROVE Store!BeginSave
<1>1. /\ step = 0 /\ power = "on" /\ step' = 1 /\ power' = power /\ kept' = kept
      /\ UNCHANGED <<list, comm, gv, tasks, can>>
  BY DEF ApplySaveConfigData, Receive, ram
<1>2. ~(step > 0) /\ step' > 0 /\ power # "off" /\ power' # "off" /\ power # "wild" /\ power' # "wild"
  BY <1>1
<1>3. Config' = Config
  BY <1>1 DEF Config
<1> QED BY <1>1, <1>2, <1>3 DEF Store!BeginSave

LEMMA MapProgram ==
    ASSUME TypesInv, FlashProgram PROVE Store!FinishSave \/ UNCHANGED Store!vars
<1>1. /\ step > 0 /\ power = "on" /\ power' = power /\ step \in 0 .. 10
      /\ UNCHANGED <<list, comm, gv, tasks, can>>
  BY DEF FlashProgram, ram, TypesInv, StoreTypes, LastWrite
<1>2. Config' = Config /\ power # "off" /\ power' # "off" /\ power # "wild" /\ power' # "wild"
  BY <1>1 DEF Config
<1>3. CASE step < 10
  <2>1. step' = step + 1 /\ kept' = kept
    BY <1>3 DEF FlashProgram, LastWrite
  <2>2. step' > 0
    BY <1>1, <2>1
  <2> QED BY <1>1, <1>2, <2>1, <2>2 DEF Store!vars
<1>4. CASE ~(step < 10)
  <2>1. step' = 0 /\ kept' = Config
    BY <1>4 DEF FlashProgram, LastWrite
  <2>2. ~(step' > 0)
    BY <2>1
  <2> QED BY <1>1, <1>2, <2>1, <2>2 DEF Store!FinishSave
<1> QED BY <1>3, <1>4

LEMMA MapCut == ASSUME PowerCut PROVE Store!PowerCut
<1>1. /\ power # "off" /\ power' = "off" /\ step' = 0
      /\ kept' = IF step > 0 THEN Lost ELSE kept
  BY DEF PowerCut
<1>2. ~(step' > 0) /\ ~(power' # "off")
  BY <1>1
<1> QED BY <1>1, <1>2 DEF Store!PowerCut

\* The step the proof is about: what power-up reads is what was kept.
LEMMA MapUp == ASSUME TypesInv, StoreInv, PowerUp PROVE Store!PowerUp
<1>1. power = "off" /\ step = 0 /\ step' = step /\ kept' = kept /\ can' = flash.para.can
  BY DEF TypesInv, StoreTypes, PowerUp
<1>2. power' \in {"on", "wild"} /\ power' # "off"
  BY DEF PowerUp
<1>3. ASSUME kept # Lost PROVE InUse' = kept
  <2>1. Restores(kept)
    BY <1>1, <1>3 DEF StoreInv
  <2>2. CASE flash.para.flag # Valid
    <3>1. power' = "on" /\ list' = <<>> /\ comm' = <<>> /\ gv' = <<>> /\ tasks' = <<>>
      BY <2>2 DEF PowerUp
    <3>2. kept = [list |-> <<>>, comm |-> <<>>, gv |-> <<>>, tasks |-> <<>>,
                  can |-> flash.para.can]
      BY <2>1, <2>2 DEF Restores
    <3> QED BY <1>1, <3>1, <3>2 DEF InUse, Config
  <2>3. CASE flash.para.flag = Valid
    <3>1. /\ ~Overrun
          /\ kept = [list |-> SavedList, comm |-> SavedComm, gv |-> SavedGV,
                     tasks |-> SavedTasks, can |-> flash.para.can]
      BY <2>1, <2>3 DEF Restores
    <3>2. /\ power' = "on" /\ list' = SavedList /\ comm' = SavedComm /\ gv' = SavedGV
          /\ tasks' = SavedTasks
      BY <2>3, <3>1 DEF PowerUp
    <3> QED BY <1>1, <3>1, <3>2 DEF InUse, Config
  <2> QED BY <2>2, <2>3
<1>4. (step' > 0) = (step > 0)
  BY <1>1
<1> QED BY <1>1, <1>2, <1>3, <1>4 DEF Store!PowerUp, InUse

LEMMA MapStep ==
    ASSUME TypesInv, StoreInv, [Next]_vars PROVE Store!Next \/ UNCHANGED Store!vars
<1>1. CASE Studio
  <2>1. UNCHANGED <<list, comm, gv, tasks, can, step, power, kept>>
    BY <1>1 DEF Studio, BeginSession, Send, TakeAnswer, GiveUp, LoseFrame, LoseAnswer, ram, store
  <2> QED BY <2>1, MapStutter
<1>2. CASE Device
  <2>1. CASE Download
    BY <2>1, MapDownload DEF Store!Next
  <2>2. CASE ApplySaveConfigData
    BY <2>2, MapSave DEF Store!Next
  <2>3. CASE FlashErase
    <3>1. UNCHANGED <<list, comm, gv, tasks, can, step, power, kept>>
      BY <2>3 DEF FlashErase, ram
    <3> QED BY <3>1, MapStutter
  <2>4. CASE FlashProgram
    BY <2>4, MapProgram DEF Store!Next
  <2> QED BY <1>2, <2>1, <2>2, <2>3, <2>4 DEF Device, Download
<1>3. CASE Power
  BY <1>3, MapCut, MapUp DEF Power, Store!Next
<1>4. CASE UNCHANGED vars
  <2>1. UNCHANGED <<list, comm, gv, tasks, can, step, power, kept>>
    BY <1>4 DEF vars, ram, store
  <2> QED BY <2>1, MapStutter
<1> QED BY <1>1, <1>2, <1>3, <1>4 DEF Next

\* As long as the tables of communication data and global variables are not
\* overrun, power-up brings back exactly the configuration the last complete
\* save has kept, unless the power was cut during a save since: whenever the
\* power fails, between which erasure and which programming.
THEOREM KeptCorrect == Spec /\ []Fits => KeptAcrossPowerCuts
<1>1. Spec /\ []Fits => [](TypesInv /\ StoreInv)
  BY InitTypes, InitStore, TypesStep, StoreStep, PTL DEF Spec
<1>2. Init => Store!Init
  BY MapInit
<1>3. TypesInv /\ StoreInv /\ [Next]_vars => [Store!Next]_(Store!vars)
  BY MapStep
<1>4. Spec /\ []Fits => Store!Spec
  BY <1>1, <1>2, <1>3, PTL DEF Spec, Store!Spec
<1> QED BY <1>4 DEF KeptAcrossPowerCuts
=============================================================================
