---------------------- MODULE FunctionBlockScanProofs ----------------------
(***************************************************************************)
(* A scan of a configured task, proved for every number of rows and every  *)
(* set of lists of blocks.                                                 *)
(***************************************************************************)
EXTENDS FunctionBlockScan, FiniteSetTheorems, TLAPS

USE SizeAssumption

-----------------------------------------------------------------------------
(* The count of scanned inputs.                                             *)

\* A set of some of the first k numbers has k elements when it has them all.
LEMMA CountAll ==
    ASSUME NEW k \in Nat, NEW S, S \subseteq 1 .. k
    PROVE  Cardinality(S) \in Nat /\ (Cardinality(S) = k <=> S = 1 .. k)
<1>1. IsFiniteSet(1 .. k) /\ Cardinality(1 .. k) = k
  BY FS_Interval
<1>2. IsFiniteSet(S) /\ Cardinality(S) \in Nat
  BY <1>1, FS_Subset, FS_CardinalityType
<1>3. Cardinality(S) = Cardinality(1 .. k) => S = 1 .. k
  BY <1>1, FS_Subset
<1> QED BY <1>1, <1>2, <1>3

\* Objects of the rows, whatever first block and row.
LEMMA AtObject ==
    ASSUME TypeOK, NEW b \in Blocks
    PROVE  At(b) \in Objects /\ At(b) = start + b /\ start \in Nat /\ 0 \in Objects
<1>1. start \in Nat /\ start + MaxBlocks <= MaxObjects /\ b \in 0 .. MaxBlocks - 1
  BY DEF TypeOK, Blocks
<1>2. start + b \in 0 .. MaxObjects - 1 /\ 0 \in 0 .. MaxObjects - 1
  BY <1>1
<1> QED BY <1>1, <1>2 DEF At, Objects

\* inputScanCount reaches InputCounts when every input has been scanned.
LEMMA ScannedAll ==
    ASSUME TypeOK, NEW b \in Blocks
    PROVE  /\ Scanned(b) \in Nat /\ Len(src[b]) \in Nat /\ DOMAIN src[b] = 1 .. Len(src[b])
           /\ \A m \in DOMAIN src[b] : src[b][m] \in Objects
           /\ Scanned(b) = Len(src[b]) <=> \A m \in DOMAIN src[b] : status[src[b][m]] = 1
<1>1. src[b] \in Seq(Objects)
  BY DEF TypeOK
<1>2. Len(src[b]) \in Nat /\ DOMAIN src[b] = 1 .. Len(src[b])
  BY <1>1
<1>3. \A m \in DOMAIN src[b] : src[b][m] \in Objects
  BY <1>1
<1> DEFINE S == {m \in DOMAIN src[b] : status[src[b][m]] = 1}
<1>4. S \subseteq 1 .. Len(src[b])
  BY <1>2
<1>5. S = 1 .. Len(src[b]) <=> \A m \in DOMAIN src[b] : status[src[b][m]] = 1
  BY <1>2
<1>6. Scanned(b) = Cardinality(S)
  BY DEF Scanned
<1> HIDE DEF S
<1>7. Cardinality(S) \in Nat /\ (Cardinality(S) = Len(src[b]) <=> S = 1 .. Len(src[b]))
  BY <1>2, <1>4, CountAll
<1> QED BY <1>2, <1>3, <1>5, <1>6, <1>7

-----------------------------------------------------------------------------
(* The inductive invariant.                                                 *)

\* The positions that run are those of the list received last, and, once that
\* one's end frame has come, so are the rows and the functions.
RowsSettled ==
    /\ start = pending.start /\ n = pending.n
    /\ settled => \A b \in Blocks : b < n =>
         /\ src[b] = pending.src[start + b] /\ serial[b] = start + b
         /\ func[start + b] = pending.kind[start + b]

\* The blocks called in this scan are those with scanStatus 1, and before each
\* of them all it reads.
ScanInv ==
    /\ pc = "init" => ran = [b \in Blocks |-> 0] /\ i = 0 /\ calls = 0
    /\ pc # "idle" /\ clean => settled /\ total = n
    /\ pc = "scan" /\ clean =>
         \A b \in Blocks : b < n =>
            /\ status[start + b] = 1 <=> ran[b] > 0
            /\ ran[b] > 0 => \A m \in DOMAIN src[b] : ran[src[b][m] - start] > 0
    /\ pc = "scan" => i <= total

\* In a sorted list the first pass calls everything.
PassInv ==
    pc = "scan" /\ clean /\ Sorted(total) =>
       /\ calls = i
       /\ \A b \in Blocks : b < total => ran[b] = IF b < i THEN 1 ELSE 0
       /\ \A b \in Blocks : b < i => out[start + b] = Compute(b)

Inv == TypeOK /\ RowsSettled /\ ScanInv /\ PassInv

\* What the studio's lists are.
LEMMA GraphType ==
    ASSUME NEW g \in Graphs
    PROVE  /\ g.n \in 1 .. MaxBlocks /\ g.start \in Nat /\ g.start + MaxBlocks <= MaxObjects
           /\ g.kind \in [Objects -> Kinds] /\ g.src \in [Objects -> Seq(Objects)]
           /\ \A o \in BlocksOf(g) : \A m \in DOMAIN g.src[o] : g.src[o][m] \in BlocksOf(g)
           /\ \A o \in BlocksOf(g) : g.kind[o] \in {"not", "copy"} => Len(g.src[o]) > 0
  BY GraphAssumption

\* The rows of a list that has been installed, with what they read.
LEMMA SettledRow ==
    ASSUME TypeOK, RowsSettled, settled, NEW b \in Blocks, b < n
    PROVE  /\ serial[b] = start + b
           /\ \A m \in DOMAIN src[b] : src[b][m] - start \in Blocks /\ src[b][m] - start < n
           /\ func[start + b] \in {"not", "copy"} => Len(src[b]) > 0
<1>1. pending \in Graphs /\ start \in Nat /\ n \in 1 .. MaxBlocks /\ start = pending.start
      /\ n = pending.n
  BY DEF TypeOK, RowsSettled
<1>2. src[b] = pending.src[start + b] /\ serial[b] = start + b
      /\ func[start + b] = pending.kind[start + b]
  BY DEF RowsSettled
<1>3. start + b \in BlocksOf(pending)
  BY <1>1 DEF BlocksOf, Blocks
<1>4. \A m \in DOMAIN src[b] : src[b][m] \in start .. start + n - 1
  BY <1>1, <1>2, <1>3, GraphType DEF BlocksOf
<1>5. \A m \in DOMAIN src[b] : src[b][m] - start \in Blocks /\ src[b][m] - start < n
  <2> TAKE m \in DOMAIN src[b]
  <2>1. src[b][m] \in start .. start + n - 1
    BY <1>4
  <2> QED BY <1>1, <2>1 DEF Blocks
<1> QED BY <1>1, <1>2, <1>3, <1>5, GraphType

\* What one end frame puts into the rows.
LEMMA RowType ==
    ASSUME NEW g \in Graphs, NEW b \in Blocks
    PROVE  /\ g.start + b \in Objects /\ g.kind[g.start + b] \in Kinds
           /\ g.src[g.start + b] \in Seq(Objects)
<1>1. g.start \in Nat /\ g.start + MaxBlocks <= MaxObjects /\ b \in 0 .. MaxBlocks - 1
  BY GraphType DEF Blocks
<1>2. g.start + b \in 0 .. MaxObjects - 1
  BY <1>1
<1>3. g.start + b \in Objects
  BY <1>2 DEF Objects
<1> QED BY <1>3, GraphType

LEMMA InitInv == Init => Inv
<1> SUFFICES ASSUME Init PROVE Inv
  OBVIOUS
<1>1. /\ pending \in Graphs /\ start = pending.start /\ n = pending.n
      /\ start \in Nat /\ n \in 1 .. MaxBlocks /\ start + MaxBlocks <= MaxObjects
  BY GraphType DEF Init
<1>2. \A b \in Blocks : start + b \in Objects /\ pending.src[start + b] \in Seq(Objects)
  BY <1>1, RowType
<1>3. src \in [Blocks -> Seq(Objects)] /\ serial \in [Blocks -> Objects]
  <2>1. << >> \in Seq(Objects) /\ 0 \in Objects
    BY <1>1 DEF Objects
  <2> QED BY <1>2, <2>1 DEF Init
<1>4. func \in [Objects -> Kinds]
  <2>1. "point" \in Kinds /\ pending.kind \in [Objects -> Kinds]
    BY <1>1, GraphType DEF Kinds
  <2> QED BY <2>1 DEF Init
<1>5. TypeOK
  <2>1. 0 \in 0 .. MaxBlocks /\ 0 \in 0 .. 2 /\ 0 \in Nat
    OBVIOUS
  <2> QED BY <1>1, <1>3, <1>4, <2>1 DEF Init, TypeOK
<1>6. RowsSettled
  <2>1. ASSUME NEW b \in Blocks, b < n PROVE start + b \in BlocksOf(pending)
    BY <1>1, <2>1 DEF BlocksOf, Blocks
  <2> QED BY <1>1, <1>2, <2>1 DEF Init, RowsSettled
<1> QED BY <1>5, <1>6 DEF Init, Inv, ScanInv, PassInv

\* The functions of blocks give truth values.
LEMMA ComputeType ==
    ASSUME TypeOK, NEW b \in Blocks
    PROVE  Compute(b) \in BOOLEAN /\ DealFunc(b) \in BOOLEAN
<1>1. \A m \in DOMAIN src[b] : out[src[b][m]] \in BOOLEAN
  BY ScannedAll DEF TypeOK
<1>2. First(b) \in BOOLEAN
  <2>1. CASE src[b] = << >>
    BY <2>1, AtObject DEF First, TypeOK
  <2>2. CASE src[b] # << >>
    <3>1. 1 \in DOMAIN src[b]
      <4>1. src[b] \in Seq(Objects)
        BY DEF TypeOK
      <4> QED BY <2>2, <4>1
    <3> QED BY <1>1, <2>2, <3>1 DEF First
  <2> QED BY <2>1, <2>2
<1>3. func[At(b)] \in Kinds /\ point \in BOOLEAN /\ out[serial[b]] \in BOOLEAN
      /\ (Len(src[b]) < 2 \/ Len(src[b]) >= 2)
  BY AtObject, ScannedAll DEF TypeOK
<1>4. Compute(b) \in BOOLEAN
  BY <1>1, <1>2, <1>3 DEF Compute, Kinds
<1> QED BY <1>3, <1>4 DEF DealFunc
-----------------------------------------------------------------------------
(* The steps.                                                               *)

\* Steps of main but Visit move main on; the rows and the outputs stay.
LEMMA StartInv == ASSUME Inv, StartScan PROVE Inv'
<1>1. TypeOK'
  BY DEF StartScan, Inv, TypeOK, design, rows, state
<1>2. RowsSettled'
  BY DEF StartScan, Inv, RowsSettled, design, rows
<1>3. ScanInv' /\ PassInv'
  BY DEF StartScan, ScanInv, PassInv, Inv, RowsSettled, design, rows
<1> QED BY <1>1, <1>2, <1>3 DEF Inv

LEMMA InitStatusInv == ASSUME Inv, InitStatus PROVE Inv'
<1>1. TypeOK'
  BY DEF InitStatus, Inv, TypeOK, design, rows
<1>2. RowsSettled'
  BY DEF InitStatus, Inv, RowsSettled, design, rows
<1>3. /\ pc = "init" /\ pc' = "scan" /\ start' = start /\ n' = n /\ src' = src
      /\ settled' = settled /\ total' = total /\ clean' = clean /\ i' = i /\ calls' = calls
      /\ ran' = ran /\ ran = [b \in Blocks |-> 0] /\ i = 0 /\ calls = 0
  BY DEF InitStatus, Inv, ScanInv, design, rows
<1>4. \A b \in Blocks : b < n => status'[start + b] = 0
  <2> TAKE b \in Blocks
  <2> HAVE b < n
  <2>1. start + b \in Objects
    BY AtObject DEF Inv
  <2>2. start + b \in start .. start + n - 1
    BY AtObject DEF Inv, TypeOK, Blocks
  <2> QED BY <2>1, <2>2 DEF InitStatus
<1>5. ScanInv'
  BY <1>3, <1>4 DEF Inv, ScanInv, TypeOK
<1>6. PassInv'
  <2>1. \A b \in Blocks : ~(b < i)
    BY <1>3 DEF Blocks
  <2> QED BY <1>3, <2>1 DEF PassInv
<1> QED BY <1>1, <1>2, <1>5, <1>6 DEF Inv

\* The row main looks at in a scan that nothing is installed in.
LEMMA VisitRow ==
    ASSUME Inv, Visit, clean
    PROVE  /\ i \in Blocks /\ i < n /\ total = n /\ n \in Int /\ settled /\ pc = "scan"
           /\ start \in Nat /\ serial[i] = start + i
           /\ \A b \in Blocks : b < n =>
                \A m \in DOMAIN src[b] : /\ src[b][m] - start \in Blocks /\ src[b][m] - start < n
                                         /\ start + (src[b][m] - start) = src[b][m]
<1>1. i \in Blocks /\ i < n /\ total = n /\ n \in Int /\ settled /\ pc = "scan" /\ start \in Nat
  BY DEF Visit, Inv, TypeOK, ScanInv, Blocks
<1>2. serial[i] = start + i
  BY <1>1, SettledRow DEF Inv
<1>3. ASSUME NEW b \in Blocks, b < n, NEW m \in DOMAIN src[b]
      PROVE  /\ src[b][m] - start \in Blocks /\ src[b][m] - start < n
             /\ start + (src[b][m] - start) = src[b][m]
  <2>1. src[b][m] - start \in Blocks /\ src[b][m] - start < n
    BY <1>1, <1>3, SettledRow DEF Inv
  <2>2. src[b][m] \in Int
    BY ScannedAll DEF Inv, Objects
  <2> QED BY <1>1, <2>1, <2>2
<1> QED BY <1>1, <1>2, <1>3

\* What the loop over the rows has called in this scan, after one more row.
LEMMA VisitReady ==
    ASSUME Inv, Visit, Recount(i) = Len(src[i]), clean
    PROVE  \A m \in DOMAIN src[i] : ran[src[i][m] - start] > 0
<1>1. i \in Blocks /\ i < n /\ pc = "scan" /\ At(i) = start + i /\ At(i) \in Objects
  BY VisitRow, AtObject DEF Inv
<1>2. CASE status[start + i] = 0
  <2>1. \A m \in DOMAIN src[i] : status[src[i][m]] = 1
    BY <1>1, <1>2, ScannedAll DEF Recount, Inv
  <2>2. ASSUME NEW m \in DOMAIN src[i] PROVE ran[src[i][m] - start] > 0
    <3>1. /\ src[i][m] - start \in Blocks /\ src[i][m] - start < n
          /\ start + (src[i][m] - start) = src[i][m]
      BY <1>1, VisitRow
    <3>2. status[start + (src[i][m] - start)] = 1
      BY <2>1, <3>1
    <3> DEFINE k == src[i][m] - start
    <3> HIDE DEF k
    <3>3. k \in Blocks /\ k < n /\ status[start + k] = 1
      BY <3>1, <3>2 DEF k
    <3>4. ran[k] > 0
      BY <1>1, <3>3 DEF Inv, ScanInv
    <3> QED BY <3>4 DEF k
  <2> QED BY <2>2
<1>3. CASE status[start + i] # 0
  <2>1. status[start + i] = 1
    BY <1>1, <1>3 DEF Inv, TypeOK
  <2> QED BY <1>1, <2>1 DEF Inv, ScanInv
<1> QED BY <1>2, <1>3

\* In a sorted list the block visited is called now.
LEMMA VisitSorted ==
    ASSUME Inv, Visit, clean, Sorted(total)
    PROVE  /\ status[start + i] = 0 /\ Recount(i) = Len(src[i])
           /\ \A b \in Blocks : b <= i =>
                \A m \in DOMAIN src[b] : src[b][m] \in Objects /\ src[b][m] < start + b
<1>1. /\ i \in Blocks /\ i < n /\ total = n /\ n \in Int /\ pc = "scan" /\ start \in Nat
      /\ At(i) = start + i /\ At(i) \in Objects /\ settled
  BY VisitRow, AtObject DEF Inv
<1>2. status[start + i] = 0
  <2>1. ran[i] = 0
    BY <1>1 DEF Inv, PassInv, Blocks
  <2>2. status[start + i] \in {0, 1}
    BY <1>1 DEF Inv, TypeOK
  <2> QED BY <1>1, <2>1, <2>2 DEF Inv, ScanInv
<1>3. ASSUME NEW b \in Blocks, b <= i, NEW m \in DOMAIN src[b]
      PROVE  src[b][m] \in Objects /\ src[b][m] < start + b
  <2>1. b \in 0 .. total - 1 /\ b < n
    BY <1>1, <1>3 DEF Blocks
  <2>2. serial[b] = start + b
    BY <1>1, <2>1, SettledRow DEF Inv
  <2>3. src[b][m] < serial[b]
    BY <2>1 DEF Sorted
  <2> QED BY <2>2, <2>3, ScannedAll DEF Inv
<1>4. ASSUME NEW m \in DOMAIN src[i] PROVE status[src[i][m]] = 1
  <2> DEFINE k == src[i][m] - start
  <2>1. k \in Blocks /\ k < n /\ start + k = src[i][m]
    BY <1>1, VisitRow
  <2>2. src[i][m] < start + i /\ src[i][m] \in Int
    BY <1>1, <1>3 DEF Blocks, Objects
  <2>3. k < i
    BY <1>1, <2>2 DEF Blocks
  <2> HIDE DEF k
  <2>4. ran[k] = 1
    BY <1>1, <2>1, <2>3 DEF Inv, PassInv
  <2>5. status[start + k] = 1
    BY <1>1, <2>1, <2>4 DEF Inv, ScanInv
  <2> QED BY <2>1, <2>5
<1>5. Recount(i) = Len(src[i])
  BY <1>1, <1>2, <1>4, ScannedAll DEF Recount, Inv
<1> QED BY <1>2, <1>3, <1>5

LEMMA VisitType == ASSUME Inv, Visit PROVE TypeOK'
<1>1. i \in Blocks /\ i' \in 0 .. MaxBlocks /\ At(i) \in Objects /\ serial[i] \in Objects
  <2>1. i \in Blocks /\ i' \in 0 .. MaxBlocks
    BY DEF Visit, Inv, TypeOK, Blocks
  <2> QED BY <2>1, AtObject DEF Inv, TypeOK
<1>2. Recount(i) \in Nat /\ DealFunc(i) \in BOOLEAN /\ Calls(i) \in Nat
  <2>1. Scanned(i) \in Nat
    BY <1>1, ScannedAll DEF Inv
  <2>2. Recount(i) \in Nat /\ Calls(i) \in Nat
    BY <1>1, <2>1 DEF Inv, TypeOK, Recount, Calls
  <2>3. DealFunc(i) \in BOOLEAN
    BY <1>1, ComputeType DEF Inv
  <2> QED BY <2>2, <2>3
<1>3. inCount' \in [Objects -> Nat]
  BY <1>1, <1>2 DEF Visit, Inv, TypeOK
<1>4. /\ out' \in [Objects -> BOOLEAN] /\ status' \in [Objects -> {0, 1}]
      /\ calls' \in Nat /\ ran' \in [Blocks -> 0 .. 2]
  <2>1. CASE Recount(i) = Len(src[i])
    <3>1. out' \in [Objects -> BOOLEAN]
      BY <2>1, <1>1, <1>2 DEF Visit, Inv, TypeOK
    <3>2. status' \in [Objects -> {0, 1}] /\ calls' \in Nat
      BY <2>1, <1>1, <1>2 DEF Visit, Inv, TypeOK
    <3>3. ran' \in [Blocks -> 0 .. 2]
      BY <2>1, <1>1 DEF Visit, Inv, TypeOK
    <3> QED BY <3>1, <3>2, <3>3
  <2>2. CASE Recount(i) # Len(src[i])
    BY <2>2 DEF Visit, Inv, TypeOK
  <2> QED BY <2>1, <2>2
<1> QED BY <1>1, <1>3, <1>4 DEF Visit, Inv, TypeOK, design, rows

\* A row that is called joins those with scanStatus 1, after what it reads.
LEMMA VisitScan == ASSUME Inv, Visit PROVE ScanInv'
<1>1. /\ i < total /\ pc = "scan" /\ i' = i + 1 /\ total' = total /\ pc' = pc /\ start' = start
      /\ n' = n /\ src' = src /\ clean' = clean /\ settled' = settled
      /\ i \in Blocks /\ At(i) = start + i /\ At(i) \in Objects /\ total \in Int /\ start \in Nat
  <2>1. i \in Blocks
    BY DEF Visit, Inv, TypeOK, Blocks
  <2> QED BY <2>1, AtObject DEF Visit, Inv, TypeOK, design, rows
<1>2. CASE Recount(i) = Len(src[i])
  <2>1. /\ status' = [status EXCEPT ![start + i] = 1]
        /\ ran' = [ran EXCEPT ![i] = IF @ < 2 THEN @ + 1 ELSE 2]
    BY <1>1, <1>2 DEF Visit
  <2>2. ran'[i] > 0 /\ \A b \in Blocks : (ran[b] > 0 => ran'[b] > 0) /\ (b # i => ran'[b] = ran[b])
    BY <1>1, <2>1 DEF Inv, TypeOK
  <2>3. ASSUME clean, NEW b \in Blocks, b < n
        PROVE  /\ status'[start + b] = 1 <=> ran'[b] > 0
               /\ ran'[b] > 0 => \A m \in DOMAIN src[b] : ran'[src[b][m] - start] > 0
    <3>1. status'[start + b] = 1 <=> ran'[b] > 0
      <4>1. CASE b = i
        BY <4>1, <1>1, <2>1, <2>2 DEF Inv, TypeOK
      <4>2. CASE b # i
        <5>1. start + b # start + i
          BY <4>2, <1>1 DEF Blocks
        <5> QED BY <4>2, <5>1, <1>1, <2>1, <2>2, <2>3 DEF Inv, ScanInv, TypeOK
      <4> QED BY <4>1, <4>2
    <3>2. ASSUME ran'[b] > 0, NEW m \in DOMAIN src[b] PROVE ran'[src[b][m] - start] > 0
      <4>1. src[b][m] - start \in Blocks
        BY <2>3, VisitRow
      <4>2. ran[src[b][m] - start] > 0
        <5>1. CASE b = i
          BY <5>1, <1>2, <2>3, VisitReady
        <5>2. CASE b # i
          BY <5>2, <3>2, <2>2, <2>3, <1>1 DEF Inv, ScanInv
        <5> QED BY <5>1, <5>2
      <4> DEFINE k == src[b][m] - start
      <4> HIDE DEF k
      <4>3. k \in Blocks /\ ran[k] > 0
        BY <4>1, <4>2 DEF k
      <4>4. ran'[k] > 0
        BY <4>3, <2>2
      <4> QED BY <4>4 DEF k
    <3> QED BY <3>1, <3>2
  <2>4. clean => settled /\ total = n
    BY <1>1 DEF Inv, ScanInv
  <2> QED BY <1>1, <2>3, <2>4 DEF ScanInv, Blocks
<1>3. CASE Recount(i) # Len(src[i])
  <2>1. status' = status /\ ran' = ran
    BY <1>3 DEF Visit
  <2> QED BY <1>1, <2>1 DEF Inv, ScanInv, Blocks
<1> QED BY <1>2, <1>3

\* In a sorted list the row's output is its function of what it reads, and the
\* rows before it read none that changes.
LEMMA VisitPass == ASSUME Inv, Visit PROVE PassInv'
<1>1. /\ pc' = pc /\ start' = start /\ src' = src /\ clean' = clean /\ total' = total
      /\ serial' = serial /\ func' = func /\ point' = point /\ i' = i + 1
  BY DEF Visit, design, rows
<1> SUFFICES ASSUME clean, Sorted(total) PROVE PassInv'
  BY <1>1 DEF PassInv, Sorted
<1>2. /\ i \in Blocks /\ i < total /\ pc = "scan" /\ serial[i] = start + i /\ start \in Nat
      /\ total = n /\ settled /\ n \in Int /\ At(i) = start + i /\ At(i) \in Objects
  BY VisitRow, AtObject DEF Inv
<1>3. /\ status[start + i] = 0 /\ Recount(i) = Len(src[i])
      /\ \A b \in Blocks : b <= i => \A m \in DOMAIN src[b] : src[b][m] \in Objects /\ src[b][m] < start + b
  BY VisitSorted
<1>4. /\ out' = [out EXCEPT ![start + i] = DealFunc(i)] /\ calls' = calls + 1
      /\ ran' = [ran EXCEPT ![i] = IF @ < 2 THEN @ + 1 ELSE 2]
  BY <1>2, <1>3 DEF Visit, Calls
<1>5. DealFunc(i) = Compute(i)
  BY <1>2, <1>3 DEF DealFunc
<1>6. /\ calls = i /\ \A b \in Blocks : b < total => ran[b] = IF b < i THEN 1 ELSE 0
      /\ \A b \in Blocks : b < i => out[start + b] = Compute(b)
  BY <1>2 DEF Inv, PassInv
<1>7. \A b \in Blocks : b < total => ran'[b] = IF b < i + 1 THEN 1 ELSE 0
  BY <1>2, <1>4, <1>6 DEF Inv, TypeOK, Blocks
<1>8. ASSUME NEW b \in Blocks, b <= i PROVE Compute(b)' = Compute(b)
  <2>1. b < n /\ At(b) = start + b /\ At(b) \in Objects /\ At(b)' = At(b) /\ serial[b] = start + b
    <3>1. b < n
      BY <1>2, <1>8 DEF Blocks
    <3> QED BY <1>1, <1>2, <3>1, AtObject, SettledRow DEF Inv, At
  <2>2. \A m \in DOMAIN src[b] : out'[src[b][m]] = out[src[b][m]]
    <3> TAKE m \in DOMAIN src[b]
    <3>1. src[b][m] \in Objects /\ src[b][m] < start + b
      BY <1>3, <1>8
    <3>2. src[b][m] # start + i
      BY <3>1, <1>2, <1>8 DEF Objects, Blocks
    <3> QED BY <3>1, <3>2, <1>4 DEF Inv, TypeOK
  <2>3. func[At(b)] \in {"not", "copy"} => First(b)' = First(b)
    <3>1. func[At(b)] \in {"not", "copy"} => 1 \in DOMAIN src[b] /\ src[b] # << >>
      BY <1>2, <2>1, SettledRow, ScannedAll DEF Inv
    <3> QED BY <1>1, <2>2, <3>1 DEF First
  <2>4. func[At(b)] \in {"and", "or"} /\ Len(src[b]) < 2 => out'[serial[b]] = out[serial[b]]
    <3> SUFFICES ASSUME func[At(b)] \in {"and", "or"}, Len(src[b]) < 2
                 PROVE  out'[serial[b]] = out[serial[b]]
      OBVIOUS
    <3>1. CASE b = i
      <4>1. Compute(i) = out[serial[i]]
        <5>1. func[At(i)] \in {"and", "or"} /\ Len(src[i]) < 2
          BY <3>1
        <5>2. Len(src[i]) \in Nat
          BY <1>2, ScannedAll DEF Inv
        <5>3. ~(Len(src[i]) >= 2) /\ func[At(i)] \notin {"point", "not", "copy"}
          BY <5>1, <5>2
        <5>4. out[serial[i]] \in BOOLEAN
          BY <1>2 DEF Inv, TypeOK
        <5> QED BY <5>1, <5>3, <5>4 DEF Compute
      <4> QED BY <3>1, <4>1, <1>2, <1>4, <1>5 DEF Inv, TypeOK
    <3>2. CASE b # i
      <4>1. start + b # start + i
        BY <3>2, <1>2 DEF Blocks
      <4> QED BY <2>1, <4>1, <1>4 DEF Inv, TypeOK
    <3> QED BY <3>1, <3>2
  <2>5. func[At(b)] \in Kinds /\ (Len(src[b]) < 2 \/ Len(src[b]) >= 2)
    BY <2>1, ScannedAll DEF Inv, TypeOK
  <2>6. /\ At(b)' = At(b) /\ func' = func /\ src' = src /\ serial' = serial /\ point' = point
    BY <1>1, <2>1
  <2>7. CASE func[At(b)] \in {"point", "not", "copy"}
    BY <2>7, <2>3, <2>6 DEF Compute
  <2>8. CASE func[At(b)] \in {"and", "or"} /\ Len(src[b]) < 2
    BY <2>8, <2>4, <2>6 DEF Compute
  <2>9. CASE func[At(b)] = "and" /\ Len(src[b]) >= 2
    <3>1. (\A m \in DOMAIN src[b] : out'[src[b][m]]) <=> (\A m \in DOMAIN src[b] : out[src[b][m]])
      BY <2>2
    <3> QED BY <2>5, <2>6, <2>9, <3>1 DEF Compute
  <2>10. CASE func[At(b)] = "or" /\ Len(src[b]) >= 2
    <3>1. (\E m \in DOMAIN src[b] : out'[src[b][m]]) <=> (\E m \in DOMAIN src[b] : out[src[b][m]])
      BY <2>2
    <3> QED BY <2>5, <2>6, <2>10, <3>1 DEF Compute
  <2> QED BY <2>5, <2>7, <2>8, <2>9, <2>10 DEF Kinds
<1>9. \A b \in Blocks : b < i + 1 => out'[start + b] = Compute(b)'
  <2> TAKE b \in Blocks
  <2>1. start + b \in Objects
    BY AtObject DEF Inv
  <2>2. CASE b < i
    <3>1. start + b # start + i /\ b <= i
      BY <2>2, <1>2 DEF Blocks
    <3> QED BY <2>1, <2>2, <3>1, <1>4, <1>6, <1>8 DEF Inv, TypeOK
  <2>3. CASE b = i
    <3>1. b <= i
      BY <2>3 DEF Blocks
    <3> QED BY <2>1, <2>3, <3>1, <1>4, <1>5, <1>8 DEF Inv, TypeOK
  <2> QED BY <2>2, <2>3, <1>2 DEF Blocks
<1> QED BY <1>1, <1>4, <1>6, <1>7, <1>9 DEF PassInv

LEMMA VisitInv == ASSUME Inv, Visit PROVE Inv'
<1>1. RowsSettled'
  BY DEF Visit, Inv, RowsSettled, design, rows
<1> QED BY <1>1, VisitType, VisitScan, VisitPass DEF Inv

\* The steps that leave the rows alone, and with them what the scan has called.
LEMMA QuietInv ==
    ASSUME Inv, NextPass \/ EndScan \/ IOAcquisition \/ UNCHANGED vars PROVE Inv'
<1>1. CASE EndScan \/ IOAcquisition
  <2>1. /\ pc' = "idle" /\ UNCHANGED <<design, func, state, out, i, total, calls, ran, clean>>
        /\ point' \in BOOLEAN /\ moved' \in BOOLEAN
    BY <1>1 DEF EndScan, IOAcquisition, scan, Inv, TypeOK
  <2>2. TypeOK'
    BY <2>1 DEF Inv, TypeOK, design, rows, state
  <2> QED BY <2>1, <2>2 DEF Inv, RowsSettled, ScanInv, PassInv, design, rows
<1>2. CASE UNCHANGED vars
  <2>1. UNCHANGED <<design, rows, func, state, out, point, scan, clean, moved>>
    BY <1>2 DEF vars, design
  <2>2. TypeOK' /\ RowsSettled'
    BY <2>1 DEF Inv, TypeOK, RowsSettled, design, rows, state, scan
  <2>3. ScanInv'
    BY <2>1 DEF Inv, ScanInv, design, rows, state, scan
  <2>4. Sorted(total)' = Sorted(total) /\ \A b \in Blocks : Compute(b)' = Compute(b)
    BY <2>1 DEF Sorted, Compute, First, At, design, rows, state, scan
  <2>5. PassInv'
    BY <2>1, <2>4 DEF Inv, PassInv, design, rows, state, scan
  <2> QED BY <2>2, <2>3, <2>5 DEF Inv
<1>3. CASE NextPass
  <2>1. ~(clean /\ Sorted(total))
    BY <1>3 DEF NextPass, More, Inv, PassInv, TypeOK
  <2>2. TypeOK'
    BY <1>3 DEF NextPass, Inv, TypeOK, design, rows, state
  <2>3. RowsSettled'
    BY <1>3 DEF NextPass, Inv, RowsSettled, design, rows
  <2>4. ScanInv'
    BY <1>3 DEF NextPass, Inv, ScanInv, TypeOK, design, rows, state
  <2>5. PassInv'
    BY <1>3, <2>1 DEF NextPass, PassInv, Sorted, design, rows
  <2> QED BY <2>2, <2>3, <2>4, <2>5 DEF Inv
<1> QED BY <1>1, <1>2, <1>3

\* The handler's frames: the scan that runs is not clean any more.
LEMMA HostInv == ASSUME Inv, Host PROVE Inv'
<1>1. ASSUME NEW g \in Graphs, TaskDataFrame(g) PROVE Inv'
  <2>1. clean' = FALSE /\ settled' = FALSE /\ UNCHANGED <<rows, func, state, out, point, scan>>
        /\ pending' = g /\ start' = g.start /\ n' = g.n /\ moved' \in BOOLEAN
    BY <1>1 DEF TaskDataFrame, Inv, TypeOK
  <2>2. TypeOK'
    BY <2>1, GraphType DEF Inv, TypeOK, rows, state, scan
  <2> QED BY <2>1, <2>2 DEF Inv, RowsSettled, ScanInv, PassInv, rows, scan
<1>2. CASE EndFrame
  <2>1. clean' = FALSE /\ UNCHANGED <<start, n, pending, state, point, scan, moved>>
    BY <1>2 DEF EndFrame
  <2>2. pending \in Graphs /\ start = pending.start /\ n = pending.n
    BY DEF Inv, TypeOK, RowsSettled
  <2>3. src' \in [Blocks -> Seq(Objects)] /\ serial' \in [Blocks -> Objects]
    <3>1. \A b \in Blocks : pending.src[start + b] \in Seq(Objects) /\ start + b \in Objects
      BY <2>2, RowType
    <3> QED BY <1>2, <3>1 DEF EndFrame, Inv, TypeOK
  <2>4. func' \in [Objects -> Kinds]
    <3>1. pending.kind \in [Objects -> Kinds]
      BY <2>2, GraphType
    <3> QED BY <1>2, <3>1 DEF EndFrame, Inv, TypeOK
  <2>5. out' \in [Objects -> BOOLEAN] /\ settled' \in BOOLEAN
    BY <1>2 DEF EndFrame
  <2>6. TypeOK'
    BY <2>1, <2>3, <2>4, <2>5 DEF Inv, TypeOK, state, scan
  <2>7. RowsSettled'
    <3>1. ASSUME NEW b \in Blocks, b < n
          PROVE  start + b \in BlocksOf(pending) /\ start + b \in Objects
      BY <2>2, <3>1, GraphType, RowType DEF BlocksOf, Blocks
    <3> QED BY <1>2, <2>1, <2>2, <3>1 DEF EndFrame, RowsSettled
  <2> QED BY <2>1, <2>6, <2>7 DEF Inv, ScanInv, PassInv, scan
<1> QED BY <1>1, <1>2 DEF Host

LEMMA StepInv == Inv /\ [Next]_vars => Inv'
  BY StartInv, InitStatusInv, VisitInv, QuietInv, HostInv DEF Next, Main

LEMMA InvAlways == Spec => []Inv
  BY InitInv, StepInv, PTL DEF Spec

-----------------------------------------------------------------------------

\* The rows, counts and outputs keep their types, whatever lists replace one
\* another in the middle of a scan.
THEOREM TypeCorrect == Spec => []TypeOK
<1>1. Inv => TypeOK
  BY DEF Inv
<1> QED BY <1>1, InvAlways, PTL

\* No function is called before those of the blocks it reads, in whatever order
\* the blocks are listed.
THEOREM InputsCorrect == Spec => InputsFirst
<1> DEFINE Right == clean /\ clean' =>
                      \A b \in Blocks : ran'[b] > ran[b] =>
                         \A m \in DOMAIN src[b] : ran[src[b][m] - start] > 0
<1>1. Inv /\ [Next]_vars => [Right]_vars
  <2> SUFFICES ASSUME Inv, Next, clean, clean', NEW b \in Blocks, ran'[b] > ran[b]
               PROVE  \A m \in DOMAIN src[b] : ran[src[b][m] - start] > 0
    OBVIOUS
  <2>1. Visit
    <3> ran[b] \in 0 .. 2
      BY DEF Inv, TypeOK
    <3>1. CASE InitStatus \/ NextPass \/ EndScan \/ IOAcquisition \/ Host
      <4>1. ran' = ran
        BY <3>1 DEF InitStatus, NextPass, EndScan, IOAcquisition, Host, TaskDataFrame, EndFrame, scan
      <4> QED BY <4>1
    <3>2. CASE StartScan
      <4>1. ran'[b] = 0
        BY <3>2 DEF StartScan
      <4> QED BY <4>1
    <3> QED BY <3>1, <3>2 DEF Next, Main
  <2>2. b = i /\ Recount(i) = Len(src[i])
    <3>1. ran \in [Blocks -> 0 .. 2] /\ ran[b] \in 0 .. 2
      BY DEF Inv, TypeOK
    <3>2. CASE Recount(i) # Len(src[i])
      <4>1. ran' = ran
        BY <2>1, <3>2 DEF Visit
      <4> QED BY <3>1, <4>1
    <3>3. CASE Recount(i) = Len(src[i])
      <4>1. ran' = [ran EXCEPT ![i] = IF ran[i] < 2 THEN ran[i] + 1 ELSE 2]
        BY <2>1, <3>3 DEF Visit
      <4> QED BY <3>1, <3>3, <4>1
    <3> QED BY <3>2, <3>3
  <2> QED BY <2>1, <2>2, VisitReady
<1>2. Spec => [][Right]_vars
  BY <1>1, InvAlways, PTL DEF Spec
<1> QED BY <1>2 DEF InputsFirst

\* In a list in which every block follows those it reads, each function is
\* called exactly once in a scan ...
THEOREM OnceCorrect == Spec => []OncePerScan
<1>1. Inv => OncePerScan
  BY DEF Inv, TypeOK, ScanInv, PassInv, OncePerScan, ScanDone, Blocks
<1> QED BY <1>1, InvAlways, PTL

\* ... and at its end every output belongs to the outputs it was computed from.
THEOREM RefreshedCorrect == Spec => []Refreshed
<1>1. Inv => Refreshed
  BY DEF Inv, TypeOK, ScanInv, PassInv, Refreshed, ScanDone, Blocks, At
<1> QED BY <1>1, InvAlways, PTL

=============================================================================
