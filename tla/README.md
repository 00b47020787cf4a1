# tmIoT Runtime M4: a TLA+ model

The repository is the firmware of a small controller (TI TM4C, no operating
system): a kernel of cooperating tasks (`tm.em.tmOS_M4`), protocol libraries
(`tm.em.comm_lib_M4`) and an application (`tm.em.tmIoTRuntime`) that runs
graphs of function blocks which a PC tool, the *studio*, downloads over USB or
Ethernet.  Paths below are relative to `src/tmIoT Runtime_M4_v2.1.011/`;
`app/` stands for `tm.em.tmIoTRuntime/app/src/`.

## Inventory

Execution contexts.  `main` polls: `while (1) Run_App();`.  Everything else is
an interrupt handler: the system tick (`SysTick_ISR`), Ethernet
(`UdpReceiveData`, the TCP callbacks) and USB (`RxHandler`), CAN and the UARTs.
All have one priority: a handler preempts main anywhere and is itself not
preempted.  The studio's frames are obeyed *inside* the handler
(`DealRcvProtocol`), which edits the task table and the configuration main is
using.  Nothing locks anything.

| part | state | operations | meets | correct when |
|---|---|---|---|---|
| task table, main loop (`kernel/src/task.c`, `app.c`) | 4 x 16 slots: handle, status, counter, descriptor; tasks per type | `Create_Task`, `Destroy_Task`, `GetTask_Task`, `SetStatus_Task`, `Run_App` | tick advances the counters it registers; handlers edit it | slots, counts and counters agree; only live tasks are called; a due task is called |
| tick (`driver/src/_timer.c`) | lists of pointers to up and down counters, routines; run and step flags | add, delete, `SysTick_ISR` | interrupts every edit of its own lists | each counter advances once per tick |
| task ownership (`app/studioprotocol.c`, `task_Runtime.c`, `tasklwiptcp.c`, `taskmodbustcp.c`, `taskiNet.c`) | handles in globals, the configuration, the network modes | end frame, debug start and stop, network frames, link up and down, self destruction | slots are reused while old handles are kept | the configured tasks run, and no others |
| function block runtime (`app/task_Runtime.c`, `Calculations.c`) | the blocks of each task, their scan status, outputs | scan, installation | the studio replaces the list during a scan | inputs before outputs, once per scan, scans end |
| function blocks (`app/Function_*.c`) | counters, clocks and latches per block | one function per kind | called by the scan | their definition, over whole input histories |
| studio protocol, download and save (`app/studioprotocol.c`, `taskusb.c`, `tasklwipudp.c`) | received blocks, packet counts, receive buffer | start, data, task, end, save, debug frames | USB packets, datagrams, flash | what is accepted is what was sent; what is restored was saved |
| flash (`driver/src/_flash.c`) | 16 KB blocks | read, read-erase-program | power cuts | other data in the block survive |
| CANopen (`canopen/src`, `app/taskcanopen*.c`) | links, SDO transfers, timers, heartbeat, object dictionaries | send, receive, timeout | lost, late, repeated frames | a transfer ends, with its own answer |
| CAN drivers (`driver/src/_ecan*.c`) | ring queues of 30 frames, lock flags | read, write, interrupt | main against interrupt | FIFO, nothing torn |
| Modbus RTU and TCP (`app/taskrs485.c`, `taskmodbustcp.c`) | request window, old values, send counts | compose, parse, retry | late answers, changed values | a write is repeated until answered or given up |
| iNet (`app/taskiNet.c`, `ethernet/src/tminet.c`) | mode, list of points | configure, report | shares the TCP link with Modbus TCP | exclusive with Modbus TCP |
| database (`app/database.c`) | values by ID | binary search, get, set | all | the search finds what is there |
| drivers, display, EEPROM, lwIP and other vendored code | registers | I/O | | not modelled |

`PROJECT.json` lists every part with its status, and every hazard with the
line where it bites.

## Modules

| module | what |
|---|---|
| `Kernel` | task table, up counters and main loop, store by store, with the tick and the studio's handler in between |
| `TaskOwners` | the application's handles: who creates and destroys which task |
| `FunctionBlockScan` | one task's scan of its function blocks while the studio replaces them |
| `ConfigDownload` | download, take-over and storage of a configuration, with lost frames and power cuts |
| `SavedConfig` | what storage promises; `ConfigDownload` implements it |
| `NetConfig` | the configurations of Modbus TCP and iNet in RAM and flash |
| `ModbusRTU` | the Modbus RTU master of one port and the devices on its line |
| `CanMaster` | the CANopen master, its SDO client and heartbeat consumer, and one device |
| `KernelProofs`, `TaskOwnersProofs`, `FunctionBlockScanProofs`, `ConfigDownloadProofs`, `NetConfigProofs`, `ModbusRTUProofs`, `CanMasterProofs` | the theorems about each module, and the inductive invariants they rest on |
| `CommonLemmas` | smallest elements, sequences as functions, concatenations: what several of the proofs need |
| `MCKernel`, `MCTaskOwners`, `MCFunctionBlockScan`, `MCConfigDownload`, `MCNetConfig`, `MCModbusRTU`, `MCCanMaster` | instances for TLC |

`TaskOwners` uses the contract of `Kernel`: one call of `Create_Task` or
`Destroy_Task` is one step there, justified as long as no edit is torn (below).

### Kernel

Variables are the C globals (`handle`, `status`, `task`, `ticks` for the fields
of `CTask`, `count` for `u_aTasksCount`, `upList` and `nUp` for `u_ptUpCounter`
and `u_nUpCounter`) plus main's program counter and registers (`pc`, `cursor`,
`slot`, `desc`, `j`).  A handle is the number of its slot plus one, a counter's
address is named by its slot.  `Create_Task` is the path `CreateCheck`,
`CreateWrite`, `AddInc`/`AddStore` (in either order), `CreateCopy`,
`CreateCount`; `Destroy_Task` is `DestroyCheck`, `DeleteShift` (once per element
moved), `DestroyZero`, `DestroyCount`.  `Run_App` is `RunLookup`, `RunCompare`
(the counter against the period), `RunCall`, the task's body (which may start
edits of its own or set a status) and `RunReturn`.  A call of `pRun` = NULL ends
in `FaultISR` (the startup code's endless loop).  `Tick` is the whole of `SysTick_ISR`.  The handler of the studio
is `HostEnter`, any number of edits, `HostLeave`; main and the tick wait.

The code lets the handler edit the table at every point of main.  While main is
itself in the middle of an edit, no invariant of the table survives that: the
history variable `torn` records it, and the properties of the table say "as long
as not `torn`".  That is what the code guarantees, no more.  An edit between the
lookup, the comparison, the call and the return of a task is no such case: the
history variable `owner` says what has become of the slot `Run_App` goes on to use
(`"same"` task, `"gone"`, or a `"new"` one), and `CallDue` and `WaitKept` state what
happens in each case.

### TaskOwners

`slot` is the part of the table that holds the tasks that come and go, `h` the
handles in `g_htask_Calculations`, `u_wDtask`, `g_htask_ModbusTCP`,
`g_htask_iNet`.  A handler's frame is one step; the creation of runners is one
step per runner, with main kept out (`op # "none"`).  Main's steps
(`RunFunctionBlock` ending a task that runs once, `RunLwipTcpMeg` ending itself
or reconnecting) are split wherever a frame may come between.  `net` stands for
mode and protocol of iNet, which the studio sends together.  The cycle of a
task does not matter: with equal start counts `Create_Task` takes a runner of
the same index for the same task whatever its timer.  Power-up
starts with any network protocols in flash, both included, which `NetConfig`
shows to be reachable (`net_exclusive`).

### FunctionBlockScan

One task.  `start` and `n` are `TaskData[i].StartComponentNo` and the number of
blocks, which `ApplyTaskData` replaces at any time; the scan keeps the number but
reads the start anew for every row.  The design rows are numbered from 0, the
run-time data of row `b` (status, count, output, function) are at `start + b`, and
the inputs of a row and its `serialNo` are absolute positions, as in the code: a
list and a start that do not belong together read and write what other lists left
there.  The function of an object is chosen when the list is taken over
(`Init_FunctionBlock`).  `Visit` is one row of the inner loop of `RunFunctionBlock`,
in one step: the block's function is called with the row the test has read, and a
frame in the middle of a row is not modelled.  `StartScan` and `InitStatus` read
the number of blocks separately, as the code does.  Outputs are truth values and the
functions are an input point, `NOT`, `AND`, `OR` and an output module ("copy", the
kind that computes whether or not the block has been scanned).  `AND` and `OR` assign
their output in the loop over the second and later inputs only, so that with fewer
than two they keep what it was (`Function_LogicFormula.c:36`, `:66`).  The list's
blocks are in any order without cycles.  `RunFunctionBlock_Debug` is an empty
function in this version and is not modelled.

### ConfigDownload and SavedConfig

The studio sends a start frame, the blocks in data frames, communication data,
global variables, the task list, an end frame with the number of blocks and of
data frames, and a save frame; it repeats a frame until an answer with its
stamp comes, or gives up.  `list`, `pkgs`, `comm`, `gv`, `tasks`, `design` are
the globals of `studioprotocol.c`; a frame is one step of the device, except
that a save is ten calls of `Flash_Write` of two steps each (`FlashErase`,
`FlashProgram`), between which the power may be cut.  `Runtime_Block` is
modelled by cells, since the place of the global variables depends on the number
of communication data before them (`dwGVofs`).  `PowerUp` is main up to
`CreateTask`.  After a power-up with a number from an erased block the program
writes behind its tables; the model stops there (`power = "wild"`).

`SavedConfig` is the promise: a power-up brings back what the last complete save
has kept, unless the power was cut during a save since.  The refinement maps
`ram` to the configuration in use, `saving` to `step > 0` and `powered` to
`power # "off"`; `kept` is the history variable of the same name.

Assumed of the studio and the link: frames and answers keep their order, and a
person begins a session when nothing of the session before is under way.  Fewer
than 256 data frames belong to one configuration, and the tables of communication
data and global variables are large enough: the code does not check their length.

### NetConfig

Each of the two configurations is received in a mode frame, packets of rows, an
end and a save frame.  Modbus TCP collects its rows in an image of its flash
block (`buf`, `ModbusTCPFlashData`) and takes it over at the end frame; its mode
goes to flash at once.  iNet's rows go where they are used.  A handler's calls
of `Flash_Write` are in `todo` and are made one step each; a power cut leaves
the block of the first as it was, erased, or with only the first words of its
image programmed (`Torn`: the mode, or the mode and the number of rows).  The
frame with the addresses of iNet writes iNet's block too (`taskiNet.c:1522-1534`):
its completed write puts back the mode and number that were there, so it has no
step of its own, but the power may fail in it at any time that no other write is
under way (`BeingWritten`).  The tasks it creates are those of `TaskOwners`
(`INetIPFrame`).  The bytes at address 0, which the
"clear" calls write because they pass a null pointer as source, are a mode
`"junk"` and 665 rows in the build whose map file the repository holds.
`inUse`, `inBuf`, `kept`, `clean` and `restored` are history: what RAM, buffer and
flash should hold, as far as the sessions have been orderly, and whether the points
of iNet are still those that power-up has restored.

### ModbusRTU

`Tx` is the 200 ms timer of the port's task, `Compose` one turn of the loop in
`Request_ModbusOD`: `Setp_Modbus` and the composing function for the window's
command.  `Rx` is the next run of the task with an answer in the queue.  `Serve`
and `Lose` are the devices and the line: at most two requests are under way, and
a device may answer after the next request has been sent.  A read register
holds the name of the register it came from, so that `ReadOwn` can tell a wrong
one.  Registers and coils differ in the window (`Splits`) and in how an answer is
entered: `ParseData_ReadCoils` takes the answer for one word, so that up to one
byte's coils come into their own entries, those of two bytes change places
(`Swaps`), and a longer answer is dropped (`Ignored`).  The constant `PerByte`, 8 in
the code, is 2 in the run.

Assumed of the devices: they answer in the byte order of the Modbus protocol, the
first coils in the first byte.  The slave role of this firmware, which is not
modelled, swaps the bytes of such an answer as well, so that two of these
controllers understand each other there.

### CanMaster

`link` is `CANOPEN_LINK_T` with its SDO client and object dictionary.  `Read` is
one frame through `Canopen_Dispatch`; `Run` is what `Canopen_Run` does after the
last frame, with `RunResend` and `RunSilent` for the runs in which a timer has
expired.  `SendSDO` and `SetUpLoad` are the calls of the function blocks.  Entry
0 is the only configuration entry the application uses, the heartbeat time
0x1017.  The device obeys and answers; it may lose its power, be slow, or be cut
off from a frame (`MaxFaults`).  A frame that writes carries the history flag
`now`, which goes when its transfer has ended (`Earlier`), and the answer takes the
flag along: the client compares the index alone (`canopen_sdo.c:300`), the flag is
what lets `lost` tell an answer to this sending from one to an earlier transfer
of the same entry.

The object dictionary is on the heap and nothing clears it
(`taskcanopenmaster.c:358`, `:375`).  A link starts with any values in it and with
the marks `heap`, part of the configuration: which entries happen to be marked for
an update, as dirty, for reading or for writing.  The device has values of its own
and may be at work already, with heartbeats or without.  What memory holds is
abstracted to one of the entry's values.

Assumed: one link; 0x1017 is listed in the object dictionary (otherwise
`Canopen_Sdo_DownLoad` copies as many bytes as an uninitialised variable says,
`canopen_sdo.c:164-169`); the periodic table is not used (`NormalComm.pTable` is
never set); abort frames change nothing (`canopen_sdo.c:305-310`) and are left out.
A repeated NMT command and a heartbeat that tells nothing new are kept once.

## What the runs show

| run | instance | shows |
|---|---|---|
| `kernel_table` | 2 types of 2 slots, loop type served; d1 and d2 equal for `Create_Task`, d3 for the debugger, e1 of the other type; counters up to 1; not followed beyond a torn edit | types, counts, slots, no twins, the list exact at every store, what one tick can do wrong, what is called when, waiting kept |
| `kernel_live` | 1 type of 2 slots, 2 tasks, fairness | a runnable task is served |
| `task_owners` | 3 slots, 2 configured tasks, three configurations, all iNet modes; up to the first failed `Create_Task` | one slot and one handle per task, what runs after each frame, who may stop a runner |
| `debug_stop` | 4 slots, iNet off or over TCP | **violation**: stopping the debugger leaves its runners |
| `block_scan` | 3 rows on 4 objects, two sorted lists from 0, one in reverse order from 1 | inputs first, once per scan, outputs fresh, scans end |
| `block_scan_all` | two of the lists, one in reverse order | **violation**: a scan ends with blocks never called |
| `config_download` | 2 configurations, 2 sessions, each frame sent at most twice, 2 power cuts, queues of 2, packet counts modulo 3 | an accepted end frame has installed what was sent; no refusal without reason; storage implements `SavedConfig` |
| `net_config` | 6 rows, 3 sessions, 1 repetition, 2 power cuts | what runs is what was sent or saved; not both modes after complete sessions |
| `net_exclusive` | the same without power cuts | **violation**: both modes on in flash |
| `modbus_rtu` | 6 tables of 2 to 6 entries, bursts of 5, 2 coils per byte, two values | what the master believes and reads, no hang, no write repeated for ever |
| `modbus_coils` | 5 coils, 2 per byte | **violation**: the answer to the request last sent is not entered |
| `can_master` | 3 devices of 1 or 2 entries, each with marks in memory, all values on both sides, queues of 2 frames, 1 fault | which writes can be lost, which transfers stick, configured before at work, the device gets back into operation |

Why the bounds are enough.  The list has to shift by more than one element with
an element before and one after: three registered counters do that
(the two of a type and `e1`).  The table's errors need two slots of a type and a neighbouring
type (running out of one type's range lands in the next).  Two descriptors that
`Create_Task` confuses and one it does not cover its search.  `MaxCount` is 1
because the code compares a counter with its period only.  In `TaskOwners` a
stale handle needs a slot that changes its owner: two runners and three network
tasks on three slots reach that and fill the table.  In `FunctionBlockScan`
counts carry over from one pass to the next (`Backward` needs two passes, its first
row waits for both others), rows and objects are shared by lists of two and of three
blocks, and a start of 0 or 1 moves every row onto another's data.  In `ConfigDownload` a wrong list needs one frame
lost and one repeated, a mixed store two different configurations, one saved
completely before a save that is cut, and a second cut what comes after.  In `NetConfig` what a session leaves
behind meets the next session, and a third shows whether that makes it good; two
cuts allow one in a save and one after it.  In `ModbusRTU` windows of one and of
two entries, of reads and of writes, follow one another in every order that
matters, and two values are enough to change one back; with two coils in a byte, windows of
five are the shortest whose answer is dropped, of three those that are swapped.  In `CanMaster` a late
answer needs an earlier request of the same kind: two entries.  One fault puts
the master out of step; the device's answers and the blocks do the rest.

The interesting observations, in words:

* `TickFair`: while `DeleteUpCounter` shifts the list, one task can miss a tick
  and one can get it twice, never more, and only inside the shift or the
  two stores of `AddUpCounter`.
* `CallDue`: a frame between the comparison and the call can put another task
  into the slot, which is then called before its time, or leave the slot empty,
  and then main calls NULL and the processor stays in `FaultISR`.  With the task
  that was found still there, the call is due.
* `WaitKept`: after a task has returned `Run_App` reloads the counter of the slot,
  whoever is in it by then (`app.c:81`).  A task created in the slot of the one that is
  running starts to wait again with its own `tCounter`; no task in any other slot
  loses what it has waited.
* `StoppedByStudio`: apart from an end frame and the start of debugging a
  cyclic runner is stopped in exactly two ways, both by stale handles:
  `RunFunctionBlock` ending a task that runs once after its slot has changed
  hands, and a network frame destroying a task long gone.  Each disjunct of the
  property is needed: without it the run fails.
* `ScanEnds` holds for lists in any order if nothing is installed during the
  scan, and for all installations that do not move the first block if lists are
  sorted.  Each condition is needed.  A row called under the old list whose new
  version has another number of inputs is never called again, and main does not
  leave `RunFunctionBlock`; nor does it when the first block is moved in mid-scan,
  even between sorted lists: what is at the new positions may have been scanned
  with other numbers of inputs.
* `Refreshed` says of `AND` and `OR` with fewer than two inputs only that they keep their
  output: `Compute` is that output.
* `RunsWhatWasSent` has an exception: a power-up in the middle of a session resets
  the counts, and a repeated data frame can then make up for one that was
  obeyed before, so that the end frame accepts the wrong list.  The tables of communication
  data and global variables are not counted at all: a repeated frame appends its
  rows again and the end frame does not notice.  They are also used by the
  running blocks while they are being received.
* `KeptAcrossPowerCuts`: a cut in the very first save leaves a valid flag with
  counts of 65535, which `Read_ObjectListData_FromFlash` follows.
* `ModbusAsSent` and `INetAsSent` hold with the exceptions their comment lists.
  Each is needed.  The saved configuration of iNet is lost when the power fails while
  its addresses, which are in the same flash block, are written.  A repeated save stores the cleared buffer; a repeated end
  frame installs an empty table; a session given up leaves its rows in front of
  the next one's.  After iNet has been saved, the number of rows in Modbus TCP's
  block is 665, and a mode written by a first frame alone makes power-up copy that
  many.  The points of iNet themselves are never saved, only their number and
  their old address: from a power-up to the next end frame the list in use may dangle,
  from then on it is exactly the one sent.
* `Believed`: the master takes a value for written that the device does not have in
  four cases: it gave up, the answer belonged to an earlier request, the value
  was changed between request and answer, or changed and changed back.  The
  first request of an entry is sent three times before it is given up, later ones
  twice, because the count starts at 0xFF; the comments say three times.
* `ReadOwn`: an entry holds its own register, or, for coils in two bytes, the coil
  one byte's places away; answers that come after the window has moved on are the
  exception.  `AnswerEntered` fails: requests for up to 32 coils are sent
  (`taskrs485.c:510`), answers of more than 16 are dropped (`:575`).
* `TxEnds`: a table without reads and without a changed value keeps main in
  `Request_ModbusOD` until something changes, which with main in the loop only
  an interrupt could do.
* `Written`: a block's first write is not sent if it equals what memory held for the
  entry, although the device has another value (`taskcanopenmaster.c:211`).  A write is
  lost when the device restarts (nothing marks an entry `bDirty`, except what memory
  happened to hold, so the heartbeat callback sends nothing again), when an answer out of
  turn aborts it, when a read of the same entry replaces its request in the same
  run, when a read of an entry that is not read-write takes the mark of the
  write, when a read brings another value into the dictionary before the new one
  is sent, or when the answer to an earlier transfer of the same entry ends the new
  one, whose request is then lost on the bus and not repeated.  The last takes two faults
  in a row (a slow device and a lost frame), so `can_master` with its one fault
  does not show it; the attempt to prove `Written` did.  `Repeated`: a late answer to an upload takes the timer of the next.
* `Configured`: an answer out of turn during the configuration makes the master
  skip it and take the device for operational (`canopen.c:108-113`).

### Fairness

Only `kernel_live`, `ScanEnds`, and the liveness properties of `modbus_rtu` and
`can_master` use fairness.  Kernel: main's steps are
strongly fair (interrupts return and leave main time; `isr` disables main
repeatedly, so weak fairness would not do), the handler leaves (weak), and
ticks outside edits are strongly fair (a tick cannot always hit an edit).  Task
bodies return because `RunReturn` is fair.  The handler may enter as often as
it likes.  FunctionBlockScan: weak fairness of main's steps; the handler needs
none.  ModbusRTU: weak fairness of `Tx` (the port's task is called again, as
`Served` shows for tasks in general) and of `Compose` (main's own steps); none of
the devices and the line, so `Settles` holds for devices that never answer.
CanMaster: weak fairness of the master's runs and of the bus and the device that
is on; strong fairness of the timers and of the heartbeat, which are periodic and
meet other steps that disable them for a moment; a device that lost its power
gets it back.  Faults are bounded, not fair.

## What is proved

`KernelProofs`, checked by TLAPS for every number of types, slots and
descriptors, from the two assumptions of `Kernel` on its constants (there are at
least as many entries for counters as slots, `MAX_COUNTER` = `MAX_TASK` = 64 in
the code):

* `TypeCorrect`, `ListCorrect`, `CountCorrect`, `SlotCorrect`, `TwinsCorrect`,
  `CallCorrect`: `TypeOK`, `RegisteredOnce`, `CountExact`, `SlotInRange`,
  `NoTwins` and `CallDue` are invariants of `Spec`;
* `TickCorrect`: `TickFair`, that a tick in the middle of `DeleteUpCounter` misses
  one counter and repeats one at most;
* `WaitCorrect`: every step satisfies `WaitKept`, which leaves torn edits out.

The invariants run checks hold only together: that the slot `Create_Task` finds
is free and in range needs the count, the count needs that the slot was free,
the list needs both and that it never overflows, which needs that there are no
more registered counters than slots.  The inductive invariant `IInv` is
`TypeOK /\ (~torn => TableInv)` with `TableInv` the conjunction of `EditOK`
(what main has in hand), `ListOK`, `CountOK`, `TaskOK` and `UniqueOK`.  `CallDue` has an
invariant of its own, `CallInv`, which holds after torn edits too: it follows the
task under the cursor through every edit, from the lookup on.
`ListOK` is stated for the middle of an edit (`GoodPlaces`, `Expected`): which
entries are good while one is being added or while the list closes up behind a
hole.  `CountOK` uses the cardinality theorems.  The proof has one lemma per
action (or group of actions with the same effect), and a QED by cases of
`Next`.  `TickFair` follows from `ListOK` by counting the entries of the list that
hold a given counter.

`TaskOwnersProofs`, for every number of slots, configured tasks, configurations
and modes of iNet:

* `TypeCorrect`, `OneSlotCorrect`, `HeldCorrect`: `TypeOK`, `OneSlotEach` and
  `Held` are invariants; `InstalledCorrect`, `ExclusiveCorrect`,
  `StoppedCorrect`: every step satisfies `Installed`, `ExclusiveAtEnd` and
  `StoppedByStudio`.

The handlers are chains of calls of `Create_Task` and `Destroy_Task`, so the
lemmas speak of one call on the table as a record: what creation leaves
(`Made`), what destruction leaves (`Gone`).  The invariant `OwnersInv` says that
the table is sound, no task twice and each reachable through its global
(`Once`, `Named`), and, while an end frame creates the runners one by one, that
those created so far and no other configured task are in it (`Created`).

`FunctionBlockScanProofs`, for every number of rows and objects and every set of
lists, from any start, whose blocks read blocks of the list and whose rows fit into
the array (`GraphAssumption`; "not" and "copy" have an input, as the studio's blocks
of these kinds do, "and" and "or" may have any number):

* `TypeCorrect`, `OnceCorrect`, `RefreshedCorrect`: `TypeOK`, `OncePerScan` and
  `Refreshed` are invariants; `InputsCorrect`: every step satisfies
  `InputsFirst`.

`InputsFirst` needs that a row's `scanStatus` is 1 exactly if its block has been
called in this scan (`ScanInv`), and that the count of scanned inputs reaches the
number of inputs only when all of them are (`ScannedAll`, a lemma on
cardinalities).  The other two need that in a sorted list the first pass calls
every row in turn (`PassInv`), and all of them that start and number are those of the
list received last, and so are the rows once they have been installed (`settled`,
`RowsSettled`).

`ConfigDownloadProofs`, for every set of configurations of fewer than `PkgLimit`
data frames, any number of sessions, sendings and power cuts, and links of any
capacity:

* `TypeCorrect`, `SentCorrect`: `TypeOK` and `RunsWhatWasSent` are invariants;
  `RefusalCorrect`: every step satisfies `NoFalseRefusal`;
* `KeptCorrect`: `Spec /\ []Fits` implements `SavedConfig`.

The invariant of the download, `SentInv`, relates the four places a frame can be:
frames and answers under way are in the order of the script, and the studio is
at most one frame ahead of the device (`LinkInv`).  It says what list and counts
hold when exactly the first `due - 1` frames of the configuration have been
obeyed, each data frame once (`Contents`), from which an accepted end frame
follows to have installed what was sent: the counts are compared modulo
`PkgLimit`, and the assumption that a configuration has fewer data frames is
what makes them tell.  For the storage, `StoreInv` says what the blocks hold
after each of the ten writes, with the block that is erased and not yet
programmed read from the buffer it will be programmed from (`EffPara`,
`EffRuntime`), and that blocks which hold what the last complete save wrote give
that configuration back (`Restores`).  The last part goes through `Next` step by
step: each maps to a step of `SavedConfig` or a stutter.

`Fits` says that the tables of communication data and global variables are not
overrun.  It is a hypothesis, because the code does not check it
(`app/studioprotocol.c:664` and `:717`) and repeated frames append their rows
again: rows behind the end of a table would overwrite other globals, which the
model does not follow.  It holds in every state of the run `config_download`,
whose tables have room for four times what a configuration brings: twice by
repeated frames, and twice more when these come after a power-up that restored the
tables in the middle of a download.

`NetConfigProofs`, for every set of configurations, tables of any length, any
number of packets, sessions, repetitions and cuts:

* `TypeCorrect`, `ModbusCorrect`, `INetCorrect`: `TypeOK`, `ModbusAsSent` and
  `INetAsSent` are invariants; `ExclusiveCorrect`: every step satisfies
  `ExclusiveWhenSaved`.

The assumption on `Configs` is that a working mode of iNet comes with points, which
`app/taskiNet.c:1516` checks.  The invariant has parts for the calls that are
outstanding (`CallsInv`), for the rows collected so far in a session in which
nothing went wrong (`ModbusInv`, `INetInv`: those of the packets sent, in order)
and for flash and the buffer at each point of a save (`FlashInv`).  A power cut in the
frame with iNet's addresses is among the steps; that it loses the saved mode is in
`kept`.

`ModbusRTUProofs`, for every table, every length of a request, every number of coils in
a byte (`ByteAssumption`) and every set of values (not empty tables; a value is a word in a double word, so never the
0xFFFFFFFF that stands for "never written"):

* `TypeCorrect`, `BelievedCorrect`, `ReadCorrect`: `TypeOK`, `Believed` and
  `ReadOwn` are invariants.

`Believed` is not inductive: it says nothing of the requests on the wire.
`WireInv` says that the devices obey them in order and that the last one is that
of the window the master is in; `ValueInv` that a request under way writes no
other value than the one the master takes for written, unless the entry has
changed or is in doubt.  `ReadOwn` needs where in an answer the value of an entry is
(`OwnPlace`).

`CanMasterProofs`, for every object dictionary, queue and number of faults:

* `TransfersRepeated`: `Repeated` is an invariant of `Spec`; `ConfiguredFirst`:
  every step of `Spec` satisfies `Configured`.

`Canopen_Run` is a chain of functions of the link, so the proof has one lemma per
function, each saying that it preserves `Held` (a request under way has its timer)
or `Phase` (until the configuration has been sent nothing is under way; then its
request is under way, answered, or cut short), and one lemma per step of the
master.  `Phase` is needed because `Configured` speaks of an answer that came many
steps before.  These two proofs use nothing of the bus and the device: whatever
arrives, in whatever order, the two hold.

* `TypeCorrect`: `TypeOK` is an invariant of `Spec`; `WrittenCorrect`: so is
  `Written`.

`TypesInv` types the two queues (`Requests`, `Answers`) along with the link and the
device, and knows that the timer runs only while a transfer is under way, which is why
`Canopen_Sdo_TimeOut` never sends a request that is none.  `Written` is not
inductive: an entry may be neither marked nor under way because its value has
arrived, and an older frame for it may still be on the bus.  `WriteInv` says where the
value of an entry is when it is not marked and not noted as lost: on the device, with
no frame under way that would change it (`Settled`), or in the transfer, which no
answer of its own has ended (`Placed`); that the frames of the transfer are the last
ones on the bus (`Newest`) and carry its data (`Own`); and that dictionary and
transfer agree with the blocks (`Kept`, `Carried`).  Each function of `Canopen_Run` has a
lemma that it keeps a mark until the value is in the transfer (`Works`) and sends only
the transfer's own frames (`SentOK`).  The three theorems hold whatever the memory of the
dictionary and the device hold at the start.  Assumed: 0, which a device has after
power-up, is a value of every entry, memory holds one of the values of the entry, and
a queue has room for a frame.  TLC checked `WriteInv` with two faults and three frames in
a queue before it was proved.

Only model-checked: what says that something happens in the end (`Served`,
`ScanEnds`, `TxEnds`, `Settles`, `Reaches`, `BroughtBack`), since the provers here
know neither fairness nor ENABLED.  Every invariant and every action property of
the passing runs is proved.

## Not modelled

Formatting, checksums and addressing of the protocols, register accesses, the
display and vendored code: the vendored libraries (lwIP, the USB library, FatFs,
the peripheral library with its register definitions) are by far the larger part
of the repository's lines.  `SetMessage_App`, `GetMessage_App` and
`Run_TimerIntApp` have no callers.  Priorities of tasks are stored and never read.
Not modelled yet:

* the slave sides of Modbus and CANopen, PDOs, node guarding;
* the Modbus TCP master: it repeats one window until any read answer comes, does
  not match transactions, and takes a write as done when lwIP has accepted it;
* the ring queues of the CAN drivers;
* the function blocks with state (counters, timers) and the pure algorithms:
  the binary search of `database.c` and the reassembly of USB packets;
* allocation of memory: `taskiNet.c:1554` frees the address of the list's
  pointer, `taskmodbustcp.c:391` a list that may have been freed before.

## Plan

1. `ModbusTCP`: the requests of the TCP master over a connection that drops,
   composed with the link of `TaskOwners`.
2. `CanQueue`: the ring queues of the drivers refine a bounded FIFO that may
   refuse.
3. `Blocks`: counters, timers and logic blocks against reference definitions,
   `DataIDToOffset` against a search by definition, and the reassembly of USB
   packets.
