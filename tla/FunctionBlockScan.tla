-------------------------- MODULE FunctionBlockScan --------------------------
(***************************************************************************)
(* One scan of a configured task: RunFunctionBlock (task_Runtime.c) calls  *)
(* the function of every block whose inputs have all been scanned, pass    *)
(* after pass, until it has made as many calls as the task has blocks.     *)
(* The studio's interrupt handler may replace the first block and the      *)
(* number of blocks (ApplyTaskData) and the blocks themselves              *)
(* (ReplyEndFrame) between any two rows of a scan.                         *)
(*                                                                         *)
(* The design rows of the task are numbered from 0; the run-time data of   *)
(* row b are at StartComponentNo + b, read anew for every row, while a     *)
(* row's own number (serialNo) and its inputs (InputsID) are absolute.  An *)
(* output is a truth value: the functions modelled test it for zero only.  *)
(***************************************************************************)
EXTENDS Integers, Sequences, FiniteSets

CONSTANTS
    MaxBlocks,  \* MAXNUM: rows of a task in g_DesignTime_ObjectListData
    MaxObjects, \* MaxTask * MAXNUM: g_RunTime_ObjectData
    Graphs      \* the lists of blocks the studio may send

Blocks  == 0 .. MaxBlocks - 1
Objects == 0 .. MaxObjects - 1
Kinds   == {"point", "not", "and", "or", "copy"}

\* The positions of the blocks of list g.
BlocksOf(g) == g.start .. g.start + g.n - 1

ASSUME SizeAssumption == MaxBlocks \in Nat \ {0} /\ MaxObjects \in Nat
ASSUME GraphAssumption ==
    \A g \in Graphs :
        /\ g.n \in 1 .. MaxBlocks
        \* No row of a task lies behind the array, whatever list comes before.
        /\ g.start \in Nat /\ g.start + MaxBlocks <= MaxObjects
        /\ g.kind \in [Objects -> Kinds]
        /\ g.src \in [Objects -> Seq(Objects)]
        \* A list's blocks read blocks of the list, "not" and "copy" at least one.
        /\ \A o \in BlocksOf(g) : \A m \in DOMAIN g.src[o] : g.src[o][m] \in BlocksOf(g)
        /\ \A o \in BlocksOf(g) : g.kind[o] \in {"not", "copy"} => Len(g.src[o]) > 0

VARIABLES
    start,    \* StartComponentNo
    n,        \* EndComponentNo - StartComponentNo + 1
    pending,  \* g_ALLObjectListData: the list received last
    src,      \* InputsID of each row; its length is InputCounts
    serial,   \* serialNo of each row, its position as the studio counts
    func,     \* index of each object: the function Init_FunctionBlock chose
    status,   \* scanStatus of each object
    inCount,  \* inputScanCount
    out,      \* outputValue
    point,    \* the digital input, as the database holds it
    pc,       \* where RunFunctionBlock is
    i,        \* the row it looks at
    total,    \* wTotal_FunctionBlockNum
    calls,    \* scanObjectCount
    ran,      \* history: how often each row was called in this scan, 2 for more
    settled,  \* history: start, n and the rows belong together
    clean,    \* history: they have during the whole scan
    moved     \* history: start has changed since InitObjectListStatus

rows    == <<src, serial>>
design  == <<start, n, pending, rows, settled>>
state   == <<status, inCount>>
scan    == <<pc, i, total, calls, ran>>
vars    == <<design, func, state, out, point, scan, clean, moved>>

\* Where main looks for the run-time data of row b.
At(b) == start + b

-----------------------------------------------------------------------------
\* The first input.  A row without inputs has 0 in InputsID.
First(b) == IF src[b] = << >> THEN out[0] ELSE out[src[b][1]]

\* What a block's function leaves in its output.  "and" and "or" start from the
\* first input and assign in the loop over the others, so that a block with
\* fewer than two inputs keeps what it had.
Compute(b) ==
    CASE func[At(b)] = "point" -> point
      [] func[At(b)] = "not"   -> ~First(b)
      [] func[At(b)] = "copy"  -> First(b)
      [] func[At(b)] \in {"and", "or"} /\ Len(src[b]) < 2 -> out[serial[b]]
      [] func[At(b)] = "and" /\ Len(src[b]) >= 2 -> \A m \in DOMAIN src[b] : out[src[b][m]]
      [] func[At(b)] = "or"  /\ Len(src[b]) >= 2 -> \E m \in DOMAIN src[b] : out[src[b][m]]

\* All but an output module compute only if the block has not been scanned yet.
DealFunc(b) ==
    IF status[serial[b]] = 0 \/ func[At(b)] = "copy" THEN Compute(b) ELSE out[serial[b]]

\* Inputs already scanned, an input used twice counted twice.
Scanned(b) == Cardinality({m \in DOMAIN src[b] : status[src[b][m]] = 1})

-----------------------------------------------------------------------------
\* Power-up with a list read from flash.
Init ==
    /\ pending \in Graphs /\ start = pending.start /\ n = pending.n
    /\ src = [b \in Blocks |-> IF b < n THEN pending.src[start + b] ELSE << >>]
    /\ serial = [b \in Blocks |-> IF b < n THEN start + b ELSE 0]
    /\ func = [o \in Objects |-> IF o \in BlocksOf(pending) THEN pending.kind[o] ELSE "point"]
    /\ status = [o \in Objects |-> 0] /\ inCount = [o \in Objects |-> 0]
    /\ out = [o \in Objects |-> FALSE] /\ point \in BOOLEAN
    /\ pc = "idle" /\ i = 0 /\ total = 0 /\ calls = 0
    /\ ran = [b \in Blocks |-> 0]
    /\ settled = TRUE /\ clean = TRUE /\ moved = FALSE

\* Mutant: the number of blocks one too large.
StartScanPast ==
    /\ pc = "idle" /\ pc' = "init"
    /\ total' = n + 1 /\ calls' = 0 /\ i' = 0
    /\ ran' = [b \in Blocks |-> 0]
    /\ clean' = settled
    /\ UNCHANGED <<design, func, state, out, point, moved>>

\* main: the number of blocks is read once for the whole scan ...
StartScan ==
    /\ pc = "idle" /\ pc' = "init"
    /\ total' = n /\ calls' = 0 /\ i' = 0
    /\ ran' = [b \in Blocks |-> 0]
    /\ clean' = settled
    /\ UNCHANGED <<design, func, state, out, point, moved>>

\* Mutant: the counts reset, the status of the scan before left.
InitStatusCounts ==
    /\ pc = "init" /\ pc' = "scan"
    /\ inCount' = [o \in Objects |-> IF o \in start .. start + n - 1 THEN 0 ELSE inCount[o]]
    /\ UNCHANGED <<status, design, func, out, point, i, total, calls, ran, clean, moved>>

\* Mutant: the first row of the task not reset.
InitStatusFrom ==
    /\ pc = "init" /\ pc' = "scan"
    /\ status'  = [o \in Objects |-> IF o \in start + 1 .. start + n - 1 THEN 0 ELSE status[o]]
    /\ inCount' = [o \in Objects |-> IF o \in start + 1 .. start + n - 1 THEN 0 ELSE inCount[o]]
    /\ UNCHANGED <<design, func, out, point, i, total, calls, ran, clean, moved>>

\* ... and once more, with the first block, for InitObjectListStatus.
InitStatus ==
    /\ pc = "init" /\ pc' = "scan"
    /\ status'  = [o \in Objects |-> IF o \in start .. start + n - 1 THEN 0 ELSE status[o]]
    /\ inCount' = [o \in Objects |-> IF o \in start .. start + n - 1 THEN 0 ELSE inCount[o]]
    /\ UNCHANGED <<design, func, out, point, i, total, calls, ran, clean, moved>>

\* inputScanCount is counted anew until the block has been scanned.
Recount(b) == IF status[At(b)] = 0 THEN Scanned(b) ELSE inCount[At(b)]

\* Mutant: a call is counted for the block's first time only.
CallsFirst(b) == IF status[At(b)] = 0 THEN calls + 1 ELSE calls

\* Every call counts, also one of a block that was called before.
Calls(b) == calls + 1

Visit ==
    /\ pc = "scan" /\ i < total
    /\ inCount' = [inCount EXCEPT ![At(i)] = Recount(i)]
    /\ IF Recount(i) = Len(src[i])
       THEN /\ out' = [out EXCEPT ![serial[i]] = DealFunc(i)]
            /\ status' = [status EXCEPT ![At(i)] = 1]
            /\ calls' = Calls(i)
            /\ ran' = [ran EXCEPT ![i] = IF @ < 2 THEN @ + 1 ELSE 2]
       ELSE UNCHANGED <<out, status, calls, ran>>
    /\ i' = i + 1
    /\ UNCHANGED <<design, func, point, pc, total, clean, moved>>

\* Mutant: one call too many asked for.
MoreIncl == calls <= total

More == calls < total

NextPass ==
    /\ pc = "scan" /\ i = total /\ More
    /\ i' = 0
    /\ UNCHANGED <<design, func, state, out, point, pc, total, calls, ran, clean, moved>>

EndScan ==
    /\ pc = "scan" /\ i = total /\ ~More
    /\ pc' = "idle" /\ moved' = FALSE
    /\ UNCHANGED <<design, func, state, out, point, i, total, calls, ran, clean>>

\* input_test, a task of its own, so between two scans.
IOAcquisition ==
    /\ pc = "idle" /\ point' = ~point
    /\ UNCHANGED <<design, func, state, out, scan, clean, moved>>

\* host: ApplyTaskData.
TaskDataFrame(g) ==
    /\ pending' = g /\ start' = g.start /\ n' = g.n
    /\ moved' = (moved \/ (pc = "scan" /\ g.start # start))
    /\ settled' = FALSE /\ clean' = FALSE
    /\ UNCHANGED <<rows, func, state, out, point, scan>>

\* host: ReplyEndFrame, for its ComponenttoTaskData, InitObjectListData and
\* Init_FunctionBlock.  Rows and objects beyond the new list keep what an older
\* one has left there.
EndFrame ==
    /\ src' = [b \in Blocks |-> IF b < n THEN pending.src[start + b] ELSE src[b]]
    /\ serial' = [b \in Blocks |-> IF b < n THEN start + b ELSE serial[b]]
    /\ func' = [o \in Objects |-> IF o \in BlocksOf(pending) THEN pending.kind[o] ELSE func[o]]
    /\ out' = [o \in Objects |-> FALSE]
    /\ settled' = TRUE /\ clean' = FALSE
    /\ UNCHANGED <<start, n, pending, state, point, scan, moved>>

Main == StartScan \/ InitStatus \/ Visit \/ NextPass \/ EndScan
Host == EndFrame \/ \E g \in Graphs : TaskDataFrame(g)

Next == Main \/ IOAcquisition \/ Host

Spec     == Init /\ [][Next]_vars
FairSpec == Spec /\ WF_vars(Main)

-----------------------------------------------------------------------------
TypeOK ==
    /\ start \in Nat /\ start + MaxBlocks <= MaxObjects
    /\ n \in 1 .. MaxBlocks /\ pending \in Graphs
    /\ src \in [Blocks -> Seq(Objects)] /\ serial \in [Blocks -> Objects]
    /\ func \in [Objects -> Kinds]
    /\ status \in [Objects -> {0, 1}] /\ inCount \in [Objects -> Nat]
    /\ out \in [Objects -> BOOLEAN] /\ point \in BOOLEAN
    /\ pc \in {"idle", "init", "scan"}
    /\ i \in 0 .. MaxBlocks /\ total \in 0 .. MaxBlocks /\ calls \in Nat
    /\ ran \in [Blocks -> 0 .. 2]
    /\ settled \in BOOLEAN /\ clean \in BOOLEAN /\ moved \in BOOLEAN

\* Every one of the first k rows comes after the blocks it reads; in a list that
\* reads its own blocks only, the first reads none.
Sorted(k) ==
    \A b \in 0 .. k - 1 : \A m \in DOMAIN src[b] :
        serial[b] - b <= src[b][m] /\ src[b][m] < serial[b]

ScanDone == pc = "scan" /\ i = total /\ ~More

\* A block's function is called only when every block it reads has been called
\* in the same scan, in whatever order the studio lists them; the scan has only
\* the counts of scanned inputs to tell.
InputsFirst ==
    [][clean /\ clean' =>
         \A b \in Blocks : ran'[b] > ran[b] =>
             \A m \in DOMAIN src[b] : ran[src[b][m] - start] > 0]_vars

\* A list in which every block comes after the blocks it reads is scanned in
\* one pass: each function is called exactly once (a second call would count a
\* pulse twice).
OncePerScan == ScanDone /\ clean /\ Sorted(total) => \A b \in 0 .. total - 1 : ran[b] = 1

\* ... and then every output is its function of the outputs it reads, all of
\* this scan, although rows and objects keep what earlier lists left in them.
\* ("and" and "or" with fewer than two inputs have no function: Compute.)
Refreshed ==
    ScanDone /\ clean /\ Sorted(total) => \A b \in 0 .. total - 1 : out[At(b)] = Compute(b)

\* Main is not caught in RunFunctionBlock.  A scan that the handler does not
\* touch ends, in whatever order the blocks are listed; and as long as only
\* lists come in which every block follows the blocks it reads, every scan
\* ends unless the handler moves the task's first block while it runs, whatever
\* else it replaces.  (With other lists it may not: a row that was called under
\* the old list and has another number of inputs in the new one is never called
\* again.  Nor may it when the first block is moved, in any order of the blocks:
\* what is at the new positions may have been scanned with other numbers of
\* inputs, and is then neither counted again nor called.)
ScanEnds ==
    /\ (pc = "scan" /\ clean) ~> (pc = "idle" \/ ~clean)
    /\ []Sorted(MaxBlocks) => (pc = "scan" ~> (pc = "idle" \/ moved))

\* task_Runtime.c:143: "Scan all the FunctionBlock and refresh the data of
\* functionBlocks".
ScansAll == ScanDone /\ clean => \A b \in 0 .. total - 1 : ran[b] > 0
=============================================================================
