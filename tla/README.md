# A TLA+ verification of the vPLC runtime

The vPLC runtime (`src/`) is a software PLC: a scan thread runs a control program
loaded from a shared library, and four industrial protocol servers, a web server,
an MQTT publisher and a terminal UI read and write the same memory concurrently.
This directory holds TLA+ models of that code, TLC configurations that check
them on small instances, and TLAPS proofs of what matters most.

Paths of code below are relative to the repository's `src/`, those of documents to
its root; `PROJECT.json` maps every
definition to the lines it models.

## 1. Inventory

| Component | State it keeps | Operations | Hard behaviour | What makes it correct |
|---|---|---|---|---|
| **Memory** `core/PlcMemory` | one vector per area (bits 2048, words 1024), `mutex_` | single and block reads and writes, `readValue`, `writeValue`, `parseAddress` | every access is atomic, no sequence of accesses is; out-of-range writes vanish | bits stay bits; an access outside an area has no effect on another cell |
| **Mapping engine** `core/PlcMemory` | rules with last values and an initialized flag, `mappings_mutex_` | `syncMappings` (scan thread twice a cycle, web thread after a write), `loadMappings` | clients write between any two accesses of a pass; a reload between passes forgets last values | a change is propagated, never answered with the old value; linked cells converge |
| **Logic loader** `core/PlcLoader` | library handle, bindings to the library's variables | `loadLibrary`, `unloadLibrary`, `syncInputsToDll`, `runLogic`, `syncOutputsFromDll` | memory is copied out and back around the logic, cell by cell, while clients write | manual commands reach the logic and survive; the logic's outputs reach the memory |
| **Scheduler** `core/PlcScheduler` | `is_running_`, tick, statistics | `start`, `stop`, `loop` | deadline misses, stop during a cycle | one cycle at a time; statistics are those of one cycle |
| **S7 server** `s7/S7Server` | Snap7 buffers and shadows for DB1 and DB2, PE and PA buffers | `syncBeforeCycle`, `syncAfterCycle`, on its own 10 ms thread | clients write the buffers byte by byte without a lock while the thread compares and copies | a client write reaches memory once, as written |
| **Modbus, MC, XGT servers** | listening socket, client list, one detached thread per client | `start`, `stop`, `serverLoop`, `handleClient`, `processRequest` | handlers close and forget descriptors in two steps, stop closes them too | the list holds the open descriptors; requests outside the memory are refused |
| **Tag manager** `core/PlcTagManager` | tags, `tags.json` | add, remove, read, write, load, save | the file is truncated and rewritten; a crash in between | what was acknowledged is there after a restart |
| **Web server** `web/WebServer` | `mappings.json`, the mode flag | REST handlers on a thread pool | file and engine are updated in two steps by concurrent requests | file and engine agree |
| **MQTT publisher** `mqtt/MqttPublisher` | socket client, `is_running_` | connect, publish, reconnect | readings of several registers are not one snapshot | reconnects after a loss |
| **Terminal UI** `tui/PlcTui` | terminal mode, page | key handling, drawing | read-modify-write of registers; quitting by key skips the clean-up | leaves the terminal as it found it |
| **Main** `main.cpp` | flags, all objects | start in order with rollback, wait, stop in order | a failing start; a thread that ends by itself | every started thread is joined |
| **Logic libraries** `logic/*.cpp` | sequence state, simulated plant | `config_init__`, `config_run__` | step sequences with emergency stop | no step is skipped, stops are obeyed |

The parts interact through `PlcMemory` only: no component sends another a
message. Every interaction is therefore an interleaving of memory accesses
of different threads, and that is what the models are about.

## 2. Modules

```
PlcMemory ── MappingEngine ──┬── MappingHistory ── MCMapping
    │                        │         └── MappingProofs
    │                        └── ScanCycle ── ScanHistory ──┬── MCScan
    │                                                       └── ScanProofs
    ├── ModbusRequest ─┐
    ├── McRequest ─────┼── Requests ──┬── MCRequests
    └── XgtRequest ────┘              └── RequestProofs
S7Sync ── S7History ──┬── MCS7          TcpServer ──┬── MCTcp
                      └── S7Proofs                  └── TcpProofs
TagDirectory ·· TagStore ── WebFiles ──┬── MCWeb
                 MappingFile ···┘      └── TagProofs
AssemblyLogic ──┬── MCAssembly          Lifecycle ──┬── MCLife
                └── AssemblyProofs                  └── LifeProofs
TrimLogic ── MCTrim
```

A line is EXTENDS, from left to right; a dotted line is INSTANCE. Every
component has one module with its state and one action per step of the code. Where a property speaks of the past, a *history*
module adds observer variables; they enable or disable no step, except that
`traffic` in `MappingHistory` lets the clients fall silent for good. An `MC`
module has the instance, a `Proofs` module the theorems. Operators whose comment
begins with *Mutant* are plausible bugs of the code; no specification uses
them. `PROJECT.json` puts one in the place of the definition it varies and expects
the named property to fail.

### Memory: `PlcMemory`

`core/PlcMemory.cpp`. A cell is an area and an index; the memory is a function
from the cells that exist to words. `ReadValue` and `WriteValue` are the
accessors: a reference outside its area reads 0 and takes no write, a bit
area keeps whether a word is nonzero. `mutex_` is held for one access, so one
access is one step; the block accessors, which hold it longer, are in `Requests`.

### Mapping engine: `MappingEngine`, `MappingHistory`

`syncMappings` and `loadMappings` (PlcMemory.cpp:440-528). `mappings_mutex_` is
the fact that some `call[t]` is `"inside"`. A pass takes three steps per rule,
`ReadSrc`, `ReadDst` and `SyncRule`, and between any two of them `ClientWrite`,
`WebWrite` and the other thread's call may happen. The outcomes of a rule are
the branches of the code: `PropagateToDst` for the first pass, a changed
source and the branch "out of sync but neither changed"; `PropagateToSrc`;
`NothingToDo`. `LoadMappings` swaps the table and forgets what the old rules
remembered, as the code does.

`MappingHistory` follows `lone`, a write that found the engine settled and has
been the only one since, and `quiet`, the passes completed since anybody
wrote.

### Scan cycle: `ScanCycle`, `ScanHistory`

`PlcScheduler::loop` with `PlcLoader::syncInputsToDll`, `runLogic` and
`syncOutputsFromDll`. The scan thread's program counter is `phase`; `image` holds
the library's variables. A cycle is a mapping pass, `CopyIn` or `ReadMode` and
`CopyCoil` per binding (a coil takes two accesses, since the mode switch is read
for each coil), `RunLogic`, `CopyOut` per binding, and a second mapping pass. The
passes are those of `MappingEngine`, so web threads compete for
`mappings_mutex_` and everybody writes in between. `Logic` is a constant: what a
run of `config_run__` may make of the variables.

`ScanHistory` follows the last command to one coil or to a cell linked to it, the
runs of the logic since, and whether the running cycle has been disturbed.

### S7 server: `S7Sync`, `S7History`

The sync thread of `s7/S7Server.cpp` against Snap7's workers, which store
into the same buffers without a lock. Words are two bytes; the thread loads
and stores them one byte at a time in either order (`LoadByte`, `StoreByte`),
because the accesses race with `ClientStore` and no order is fixed. `Detect` is
the comparison with the shadow and, if it differs, the write to the memory.
A bit of PE or PA is published by loading its byte and storing it changed
(`LoadBit`, `StoreBit`).

### Connections: `TcpServer`

`start`, `serverLoop`, `handleClient` and `stop` of the three TCP servers, which
are one code but for one line: `EraseAll` is TRUE for Modbus, whose handlers erase
every entry equal to their descriptor, and FALSE for MC and XGT, which erase the
first. A descriptor is a number the kernel gives out again once it is closed, to
this server or to anything else (`OtherOpen`); `owner` says what it denotes now.
A handler closes (`CloseFd`) and forgets (`Forget`) in two steps; `stop` closes
what the list holds (`CloseEntry`), whatever the numbers denote by then. `recv` is
called by number as well: `Recv` waits for the client (`"recv"`), fails, or, when
`stop` has closed the number and something else has got it, waits for that
(`"stray"`), which `StrayReads` may end and nothing need.

### Requests: `ModbusRequest`, `McRequest`, `XgtRequest`, `Requests`

What happens on open connections between accept and hang-up. The first three
modules are operators: which headers `handleClient` refuses, which requests
`processRequest` refuses, and which cells an accepted one accesses in which
order. `XgtRequest` also has the byte arithmetic of the drain layer
(XgtServer.cpp:195-321), which guesses how many bytes a request really has because
PyXGT's length field is 2 short. `Requests` runs handlers of one of the servers,
chosen in `Init`: `ReadHeader` or `RefuseHeader`, `ReadBody`, one `Access` per
accessor call (one for the whole block in Modbus), `Answer`. A client hangs up at
any point (`HangUp`), after which `ReadFails`, `DrainFails` or `AnswerFails`; then
it connects again. `due` is what a client must find in the cells only it writes.

### Tags: `TagDirectory`, `TagStore`

`core/PlcTagManager.cpp` as the web server's handler threads use it, one program
counter `at[h]` per handler. `addTag` and `removeTag` change `tags_` under the
exclusive lock, let go of it, and call `saveConfig`, which takes `mutex_` *shared*:
`OpenTags` truncates the file, `BuildText` makes the text, `WriteTags` writes it.
`writeTagValue` is `FindTag` and `PokeTag` under one shared lock. `shared` is the
set of holders; the exclusive sections are single steps that need it empty.
`OpenTagsFails` and `WriteTagsFails` are a disk that refuses, whose result nobody
looks at; `Killed` ends the process at any point and starts it again from what the
file holds. `tagFault` remembers that the last save was not completed.

`TagDirectory` is the abstract specification: one name changes at a time and never
moves, the file becomes unreadable or gets the tags as they are *at that moment*, a
restart finds what the file holds. `TagStore` implements it with the identity on
`tags` and `saved <- tagFile`; what has to be shown is that a text built earlier
and written later is still the directory.

### Mapping file: `MappingFile`, `WebFiles`

POST `/api/mappings` (web/WebServer.cpp:129-158) and `loadMappings`' reading
of the file (core/PlcMemory.cpp:449-489). No lock covers the file: requests open,
truncate, write and load it in any order. The file is the JSON value at its
head and a length, since a short text over a longer one leaves a tail, which the
parser does not read. `RulesOf` is what the engine makes of it: a text that cannot be
parsed, and an array with an entry `item.value` throws on (`Mistyped`: an entry that is
no object, or whose `src` or `dst` is no string), leave the old rules in force, all of
them. The handler looks for an array only, so it saves a `Mistyped` one before the loader
refuses it. `WebFiles` composes both stores: a handler does
one request at a time, and a kill hits both.

### Assembly line: `AssemblyLogic`

`logic/assembly_logic.cpp`: a call of `config_run__` is one step. It first simulates
the plant under the outputs of the cycle before (`Plant`, with the drives cut by a
broken curtain, `Convey`, `MoveArm`, `Supply`) and then takes one step of the
sequence (`Sequence`, one operator per `sfc_state`), or holds it
(curtain) or resets it (MANUAL). What the loader copies in for the cycle, the mode,
the coils in MANUAL, the curtain, the speed register, is an input any client may
have written. Positions are integers: thousandths of the arm's travel, fiftieths
of a mm of the conveyor. Travel per cycle, speeds and modes are constants. `touched` and `cut` are
history: the line was run in MANUAL, or the curtain broken in one of the states that do
not recover, since a fresh car started; `calm` is that clients have left the line alone.

### Trim line: `TrimLogic`

`logic/trim_logic.cpp` in the same form, with the code's own distances, because
these are what goes wrong (section 5). The difference of unsigned numbers in the jitter
wraps (`Huge`), and the conversion of the result to 16 bits, which C++ leaves
undefined, gives any member of `Undefined`.

### Process: `Lifecycle`

`main.cpp` with the flags and threads of all components. Main walks through them in
`StartOrder`, `StopOrder`, `RollbackOrder` or `DestroyOrder`; `todo` is what it has not
treated yet, and `Turn` says whose turn it is: `Start`, or `StartFails`
with rollback, or `MqttFails`, which is tolerated; `Quit` on the polled flag; `stop` of each component
(`StopReturnsEarly`, or `StopBegins` and `Joined`); unloading; destructors, where a
thread that is neither joined nor detached ends the process (`aborted`). A thread ends
once it is `Told`: its flag is down, except for the web server's, which tests no flag and
sits in httplib's `listen` until `stop` has closed the listener. `listening` is that
listener: `stop` closes it when it is up (`WebListens`) and does nothing before
(3rdparty/httplib.h:11015).

## 3. Runs

| Run | Instance | What it shows |
|---|---|---|
| `mapping` | 3 one-cell word areas, values 0..2, a hub of two rules and 5 other tables to reload, scan and web thread | a lone write survives and propagates, the third branch is dead, two quiet passes suffice, and after the last write everything settles for good |
| `scan_command` | a coil with two linked outputs, a register, both modes; two words | a command in MANUAL is not lost outside the copy window and reaches the logic by its second run; cycles never stop |
| `scan_mixed` | coil, sensor, mode switch, all writable, reload | one undisturbed cycle repairs everything |
| `s7` | 1 register, 2 bits in one byte, bytes 0..1 | whole stores outside the window arrive, no echo, quiet loop agrees |
| `tcp` | 3 connections, 2 descriptors | list = open handlers, only the own handler closes and, while the server runs, receives; all handlers end after stop but strays |
| `life` | all 8 components | the process ends, in order, whatever start fails, unless `stop` comes before the web server listens |
| `requests` | 2 clients, one of the 3 servers, 4 words and 2 bits per area, 2 to 14 kinds of request each | writes are kept, reads return them in place, blocks are whole, the stream stays in step, requests are answered |
| `web` | 2 handlers, 2 names, 3 places (a coil, an unknown area, one past its area), a long, a short and a mistyped table | texts written are current, both files and what is in memory follow each other but for faults, kills and the mistyped table, values land on tags, and the tag manager is `TagDirectory` |
| `assembly` | steps of 334, 200 and 500 thousandths, 250 mm a cycle and the overspeed, AUTO and MANUAL | parts are carried, swung and placed as the sequence says, the conveyor moves only with the arm home, and a line left alone comes back |

Three runs expect a violation (`tcp_modbus`, `life_key`, `trim_stuck`); section 5
tells what they show.

**Why the bounds are enough.** The engine compares values for equality only, so
three values suffice for old, new and a competitor's, and rules interact only
through shared cells: the tables have every way two rules can share one
(same source, same destination, chain, mirror, a rule on itself). A pass is
per rule, so a longer table repeats these. In `scan_command` the coil has two
spokes because with one there is no rule that could carry a stale value past the
commanded one. Bindings are copied independently; one of each kind, in the
order `resolveBindings` lists them, has every order of the mode switch, the coil
and the register. In the S7 server the registers are compared and published
independently; the hazards are two bytes torn inside one word and two bits
sharing a byte, and both are in the instance (`NoEcho` is proved for any number).
Reuse of a descriptor needs a connection that closes, one that takes its number and
a third one elsewhere: three connections over two numbers; the counting
properties are proved for any number. In `requests` areas and limits are cut down
(`Addresses`, `MaxBits`, `MaxReadWords`, `MaxWriteWords`, `MaxLength`, `WordMax`) with
the inequalities kept that matter: a batch can pass the end of an area and
the end of the address space, and the Modbus length limit lies below
the longest legal write, as 250 lies below the 253 of 123 registers. `amy`, who may hang
up, sends every kind of request, and `bob` those that could get in her way. In
`web`, two handlers have every overlap of two requests, two names make the order
of two saves visible, and a long and a short table leave a tail, while the third is saved and not loaded; `TagProofs` covers
any number of each. In `assembly` the arm takes 3, 5 and 2 cycles for its travels
instead of 25, 31 and 10, so that clients may interfere in every one of them and in every
combination of them; the proofs cover every step, the code's included. The switch
flipping inside a copy (`"flips"` in `Modes`) is left out of the run: a coil
copied in as MANUAL in state 8 then stays set and `ComesBack` fails (section 6). The
invariants are proved with it. `trim_stuck` has the code's numbers. No
run has a bound beyond the constants of its cfg; of the observer variables, `quiet`
saturates at `Passes` and `runs` at 2.

**Fairness.** `mapping`: the scan loop calls `syncMappings` as long as the runtime is
up, and a pass that runs is never blocked for good, since it waits for
`mutex_` only, which is held for single accesses (weak fairness of the call and of
each thread's pass). `scan_command`: the same for the scan thread and for a web
request under way; strong fairness only for the scan thread obtaining
`mappings_mutex_`, a `std::shared_mutex` that every thread takes exclusively
and releases after one pass. C++ promises no order among waiters; the lock of the
operating system hands it over eventually, and without that web traffic could
starve the scan thread. No web request need ever arrive. `tcp`: `serverLoop`, `stop` once it
is called, and handlers; a client need neither send nor disconnect, nor need
`stop` be called. A `recv` whose socket `stop` has shut down returns; one that waits for
a stranger need not. `requests`: handlers that can go on do; clients need not send.
`life`: main, and every thread coming to the test of its own flag, which
each loop does at least once a poll interval; the web server's thread comes to listening
once it is scheduled, and leaves `listen` once the listener is closed, but no fairness
makes it leave for a flag. `assembly` and `trim_stuck`: the
scheduler goes on calling `config_run__`; `ComesBack` asks nothing of clients but
that they leave the line in AUTO at some time, with a speed that moves the
conveyor and does not jump it. `web` states no fairness.

## 4. Proofs

TLAPS checks about 5900 obligations in eight modules; nothing is assumed beyond the
named `ASSUME`s, which only say that constants have the types their comments give
(areas are strings and bits and words do not overlap, tables are sequences of
entries, connections are finitely many, steps are between 1 and 1000 thousandths,
and so on). Every invariant a run checks is proved too, for every value of the
constants. Some theorems have a premise in their statement, a named definition:

| Premise | Of | Says | Why it is the code's |
|---|---|---|---|
| `MatchedTable` | `LoneWrite` | rules join existing cells of one kind | asked for by the guide (docs/mapping_engine_guide.md:167); section 6 tells what happens to a rule that names a cell beyond its area |
| `StarTables` | `StarsConverge`, `LoneWriteArrives`; in `ScanHistory` `Heals`, `CommandsHold`, `CommandsReachLogic` | each rule has an end of its own, which no other rule names and (in a scan cycle) the library is not bound to | the 81 rules of the shipped `mappings.json` are of this shape; the guide asks for one rule per destination (:166), which also admits chains of three rules or more, and these are left to the run |
| `SwitchUntouched`, `SwitchFirst` | `CommandsHold`, `CommandsReachLogic` | nobody moves the mode switch; it is bound before the coils | the second is the order of `resolveBindings`; the first is what it is to be in MANUAL while a command travels |
| `ManualIsRespected` | `CommandsHold`, `CommandsReachLogic` | the library leaves the commanded coil alone in MANUAL | the valves of `mock_logic` (logic/mock_logic.cpp:91-95), and the drives of the two lines unless their emergency stop overrides the command |
| `~EraseAll` | `TcpCount`, `TcpTracked` | a handler erases one entry | MC and XGT; Modbus erases all (section 5) |
| `CountedRequests` | `StreamInStep` | XGT requests with a short length field are reads and writes, without a block of 32 bytes | section 6 tells what happens to the others |
| `MeantRequests` | `OwnWritesStay`, `OwnWritesRead` | one request, taken alone, accesses the cells its client means | that is what a client is; a statement about single requests, without any interleaving |
| `Timing` | `AssemblySwings` | how travels fit the arm's limit switches | the code's travels meet it |

TLC evaluates `CountedRequests` and `MeantRequests` for every request of the run
(`MCRequests!Premises`) and the premises on tables, switch and library for the runs of the
scan cycle (`MCScan!Premises`), so none of them is empty.

**`MappingProofs`.** `Typing`: `TypeOK` for every memory layout, table and reload.
One step per action; the engine's data structure is typed through the lemmas
`ReadType`, `WriteType`, `LoadType`, `RememberType`. `DeadBranch`:
`OutOfSyncNeverTaken`. It is not inductive; the reason is `RulesAgree`, that an
initialized rule remembers one value for both ends, because every branch sets
both. Then two unchanged reads cannot differ. `LoneWrite`: `LoneWriteSurvives`,
for tables whose rules join existing cells of one kind (`MatchedTable`; section 6
tells what happens to a rule that names a cell beyond its area). The inductive
invariant `IInv` adds `RulesMatched` and `LoneInv`: while a write *v* has the engine
to itself, each end of every rule holds what the rule remembers or *v*, a running
pass has read one or the other, and an end it has read *v* from still holds *v*. So
whatever a rule writes is *v*, or it overwrites a remembered value, and a cell with
*v* keeps it. This is more than the run: rules of any shape, number and value. `StarsConverge` is
`QuietConverged`, and `LoneWriteArrives` is `LoneWritePropagates`, for tables of stars.
The first undisturbed pass *anchors* every rule (`Anchored`): the rule is initialized
and the spoke holds what the rule remembers. The hub may still change, when a later rule
carries its own spoke's change into it. In the second pass no spoke has changed, so
every rule carries the hub outwards and leaves its ends alike, and none after it
undoes that (`QuietInv`). Hence the bound of two passes, whatever the table's length.

**`ScanProofs`.** The largest proof, about the whole of a cycle with its two passes.
`ScanTyping` has no premise; besides types it says that what a pass has read is
a value its cell can hold and that one thread at a time is inside. `Heals` (`CycleHeals`): `HealInv` follows an undisturbed cycle
through its phases. The first pass anchors the rules, the copies touch bound
cells only, which are no rule's spoke, and so the second pass finds every spoke as it
was left and carries every hub outwards, also over what the logic has just published.
`CommandsHold` (`CommandHolds`) and `CommandsReachLogic` (`CommandReachesLogic`):
`CommandInv` follows a lone command through the passes of both threads, the
copy window, the logic and the write-back; by `ModeInv` the switch is copied in first and
from then on the library's copy of it agrees with the memory. Each end of a rule of the commanded coil holds
what the rule remembers or the command, a pass has read one or the other, and an end
it has read the command from still holds it (`CommandRule`); `CommandCarried` is the way
of a command from a linked cell to the coil in the pass that ends a cycle, which is
why the logic's second run has it.

**`S7Proofs`.** `S7Typing`, and `S7NoEcho`: the server writes a register of the
memory only after a client stored to it. The invariant `Untouched` says that a
register no client has stored to since its publication began agrees with its
shadow, but for the bytes still to be stored, and that what the comparison
has loaded of it is its shadow. It holds although other threads change the
memory between the bytes, because buffer and shadow are stored from one read.
`S7LoopAgrees`: an undisturbed loop repairs whatever happened before. `Settles` is its
loop invariant, that bits and words before the counter are published, phase by phase; a
bit is stored together with the neighbours it was loaded with. `S7QuietStore`:
`QuietStoreArrives`. `Arrives` follows the store through its life: while bytes are
missing (`UnderWay`), memory and shadow hold the old word and the buffer each byte's
old or new value; when it is complete (`Whole`), the buffer holds the word until the
comparison has carried it into the memory, and after that publication stores
the same word again. It rests on `Untouched`, which says what the comparison can have
loaded when the store begins.

**`TcpProofs`.** `TcpTyping`, and for a server with `~EraseAll` `TcpCount`,
that `client_fds_` holds each descriptor as often as there are handlers of it that
are not done, and from it `TcpTracked`. The count is inductive with the types:
`Track` adds one handler and one entry, `Forget` takes one of each, although
between `CloseFd` and `Forget` the number may have been given out again. The
assumption is needed: `tcp_modbus` violates `ServedAreTracked` without it. `TcpOwn`:
`OwnHandlerCloses`, for all three servers. Its invariant `Owns` says that a
connection not yet closed by its handler owns its number, so the kernel
cannot have given it to anybody else; `TcpReceives`, `ReceivesFromOwn`, is its other half.

**`RequestProofs`.** `BlocksRead`: `BlocksWhole`, for any number of Modbus clients,
areas and requests, as long as an accepted write that reaches the shared block
writes all of it to one value (`WritesWhole`, part of the named assumption
`SharedAssumption`, which TLC evaluates on the run's requests). The invariant
`IInv` says that the block holds one value between any two steps, and that a handler has
made no call or its one call, whose response has one value for the block. The lemma
`CellsOnce`, that a request names each cell once, is why the order of the writes
inside a call does not matter. `StreamInStep`: `InStep`, on all servers. The lemma
`TakenAll` compares the two byte counts of the drain layer: a handler that does
not wait in vain has taken what was sent, exactly. `OwnWritesStay` and `OwnWritesRead`:
`OwnWritesHold` and `ReadsOwnWrites`. Their invariant `OwnInv` follows a batch through
its accesses while other clients' accesses fall between them: each own cell a write has
reached holds the value of the last access to it so far (`Writing`), what a
read has got is what the client left (`Reading`), and between requests
memory is as the client knows it (`Idle`). What a *single* request does, taken alone,
is the premise; the proof is about the interleaving, the hang-ups and the requests
cut short or given up.

**`LifeProofs`.** `ProcessEndsInOrder` (`EndsInOrder`) and `LibraryIsUnloadedLast`
(`LibraryOutlivesScan`), for every set of components asked for, every failing start
and every moment of a signal. `LifeInv` joins flag, thread and main's task:
`FlagsTell`, that a flag is up only over a live thread, and that a thread whose flag is
down is being joined, unless the flag fell behind main's back (the Q key, a web port in use);
`StartInOrder`, that at a server's turn nothing but servers has started, which is why a rollback
that stops servers only leaves nothing running; `StopReachesAll`, that what is still
up is still to be stopped.

**`TagProofs`.** All about one argument, stated by `WebTypeOK`: a handler is in
`shared` exactly while it is between opening `tags.json` and having written it, or
between finding a tag and having written its cell; and nobody changes `tags_` while
anybody is. Hence the text a handler has built is still the list when it
is written (`TagText`), the file follows the tags (`TagFollows`), and a tag that was found
is there when its cell is written (`TagLands`, over the lemma `TagFound`).
`TagRefines`: `TagStore` implements `TagDirectory`. `AddTag` and `RemoveTag` are
`Change`, `OpenTags` is `Spoil`, `WriteTags` is `Save` *because of* `TagText`, `Killed` is
`Restart`, everything else stutters. `WebIsTags` carries these theorems into the
composition with the mapping file. `WebEngine`: `EngineFollowsFile`, although no
lock covers that file, because every request that writes it goes on to read it; the
lemma `SpoiltInv` is about the file that was opened and not written, and says that the
engine never has a table the loader throws on.

**`AssemblyProofs`.** `AssemblyInv`: `IInv` is inductive for *every* travel per
cycle, every set of speeds and modes, the switch flipping inside a copy included.
The invariants of the run are not inductive, since a state of the sequence knows of
the plant only what the states before it have brought about: `Safe` is what it
knows as long as the line was not run in MANUAL, `Sure` what it knows besides as long as
the curtain was not broken in a state that does not recover. The lemmas follow the
stages of the plant's step, then the states of the sequence. From it follow
`AssemblyTyping`, `AssemblyPlaced`, `AssemblyHeld` and `AssemblyAlone`.
`AssemblySwings`, `SwingsHigh`, is a matter of the steps: the switch that ends state 4
closes at 950 of 1000, so a loaded arm is still swinging when state 5 lowers it.
`Timing` says that either what is left is one step of the arm, or two steps of it
fit and the lift is still at its top after one of its own. The code's 33 and 40 meet
it by the second case, the run's 200 and 334 by the first. `Poised` and `Settled` say
in numbers what the arm has left to go when a cycle begins and after the plant's step.

**Only model-checked.** Liveness (`EventuallyConverged`, `CyclesGoOn`, `HandlersEnd`,
`QuitEnds`, `Answered`, `ComesBack`), which is beyond the prover, like ENABLED. Convergence
and the commands for tables that are no stars, which depends on the table's shape
(section 6). That single requests do what their clients mean (`MeantRequests`), which
TLC evaluates for every request of the run and section 8 has next. The violations of
section 5. Nothing here uses a RECURSIVE operator.

## 5. Where the code disagrees with what is said of it

| Run | Said | Done |
|---|---|---|
| `tcp_modbus` | "Track the connection" (modbus/ModbusServer.cpp:129) | `Forget` erases the entry of the connection that meanwhile got the number: it is served untracked and `stop` does not end it |
| `life_key` | "[Q] Graceful Shutdown and Exit" (tui/PlcTui.cpp:330) | the key takes the TUI's flag down, so `stop` returns at its first line; the terminal stays raw and the joinable threads' destructor terminates the process |
| `trim_stuck` | "State 3: Transport vehicle to Glass Glue Station" (logic/trim_logic.cpp:291) | the conveyor moves 3 mm a cycle and a body within 10 mm past a station is put back on it (:155), so every step from 200 to 203 mm is undone: no body leaves the cockpit station |

## 6. Behaviour no run keeps

Met while modelling and kept out of the properties by the precondition named in
brackets, or by the instance. The first group disagrees with a document or a
comment too; it has no run of its own.

- `MC.SM.8000` is a mapping address (docs/mapping_engine_guide.md:63) and changes of
  the source are propagated (:13). SM has 2048 bits: the write is dropped, the rule
  believes it was made, and the next pass takes the 0 it reads for a change and
  clears the source [`MatchedTable`, and the cells of the instances].
- Writing a coil back "does no harm" in MANUAL (core/PlcLoader.cpp:127). A command
  between the coil's copy in and its write-back is lost without trace
  [`cmd.exposed` in `ScanHistory`]. A holding register is copied in and back
  likewise (:135), also one the logic only reads.
- The XGT drain layer reads "the exact remaining bytes" (xgt/XgtServer.cpp:198). A
  data length of 32 counts as 2 (:245), so of a 16-word write with PyXGT's short length
  field 2 bytes stay in the stream and end the connection. With a right length field,
  one word is written and success reported [not among the requests of
  `Everything`]. An unknown XGT command with a short length field is answered with its
  last bytes still in the stream, and a request of no blocks waits for 12 bytes
  [likewise].
- Tags are said to survive a restart (docs/walkthrough.md:25) and to be reflected in the
  file (docs/implementation_plan.md:48). A process killed between the truncation of
  `tags.json` and the writing of it has lost all of them, and a request whose save
  failed was answered with success [`tagFault`].
- "In AUTO Mode, the DLL sequence logic itself controls all coils, so we must not
  overwrite them" (core/PlcLoader.cpp:90). The switch is read anew for every coil (:91):
  when it goes to MANUAL in the middle of a copy, coils are overwritten from memory in a
  cycle whose logic still runs in AUTO [nobody moves the switch in `scan_command`; in
  `scan_mixed` everybody does, and one undisturbed cycle repairs it].
- Mappings are hot-reloaded by a post (README.md:79). An array with an entry that is no
  object of strings is saved, then refused by the loader as a whole, as the answer admits
  ("Failed to parse some mappings, but saved file.", web/WebServer.cpp:152): the engine
  keeps the old rules beside the new file, and after a restart it has none
  [`Mistyped` in `EngineFollowsFile`].

Mapping and scan cycle:

- Three rules in a ring, hot-reloaded over different values, may pass the values
  round for ever [no ring of three in `AllShapes`]; `QuietConverged` holds for the shapes there.
- A reload forgets the last values, so a write of a rule's destination that no
  pass has seen is overwritten with the source [`lone` ends at a reload].
- A web thread's pass between a coil's copy in and its write-back carries a
  linked cell's command into the coil, where the write-back overwrites it and the
  next pass carries the old value back [`cmd.exposed`].
- Of the discrete inputs the loader forwards only `%IX0.0` and `%IX0.7`
  (core/PlcLoader.cpp:100). The trim line's emergency stop `%IX0.5` never reaches it
  (logic/trim_logic.cpp:115), and its own 0 is published over what a client wrote.

Servers and process:

- A word stored by an S7 client between its comparison and its publication is
  overwritten by the memory's old word and never seen [`cmd.exposed` in
  `S7History`]. Client stores to PE and PA never reach the memory: they are
  published only [`LoopAgrees`].
- `stop` closes descriptor numbers that other parts of the process may have been given
  since, and so do handlers that come to their own `close` afterwards
  [`OwnHandlerCloses` holds while the server runs].
- A handler that `stop` overtakes between the test of `is_running_` and `recv`, or between
  header and body, calls `recv` on a number that may denote something else by then
  (mc/McServer.cpp:172, 202): it takes that one's bytes, or waits for them for ever, and
  closes the number at its end [`"stray"` in `HandlersEnd`; `ReceivesFromOwn` holds while
  the server runs].
- A signal during start-up may make main come to `WebServer::stop` before the server's
  thread has come to `listen`. httplib's `stop` then does nothing, the thread goes on to
  listen and serves, and main waits in `join` for ever, with the terminal restored and
  the scan cycle running [`Deaf` in `QuitEnds`].
- When the web server's port is taken, its thread ends by itself, `stop` returns
  early and its destructor terminates the process [`EndsInOrder` excepts it].
- MC batches past the end of an area are acknowledged though the points beyond
  are dropped, and one past address 65535 goes on at 0 [both in `Everything`, as
  what the client may expect]; the response length of a long read is cut to 16 bits
  (mc/McServer.cpp:375). A legal Modbus write of 123 registers is cut off
  by the length limit of 250 [in `Everything`].
- In an XGT bit name a single number is a byte: `%MX1` is bit 8.
- The terminal's A and Z keys read a register and write it back changed
  (tui/PlcTui.cpp:116); an MQTT message combines registers of different cycles
  (mqtt/MqttPublisher.cpp:96). Nothing in the runtime promises more.

Logic libraries:

- A curtain broken in state 2, 5 or 6 of the assembly line cuts the drives, and the
  state does not switch them on again (logic/assembly_logic.cpp:88): the arm goes
  back while the sequence believes it in place, and the part is placed at the pick side
  or released in the air [`cut`].
- A coil copied in as MANUAL in a cycle that runs in AUTO in state 8 stays set. If it
  is the one that lowers the arm, the arm is never home again, no part is supplied,
  and the line waits for one for ever [`Modes` of the run; the invariants are proved with `"flips"`].
- A speed of 1000 mm a cycle or more jumps the conveyor's whole length, and no
  chassis ever arrives [`Undisturbed`]. `%MW0` counts nothing in AUTO.
- In the trim line the alarm it sets at `%IX0.7` is overwritten by the next copy in,
  torque is 0 again when the inspection looks at it, so that every body would fail, a
  setpoint above 452 waits in state 2 for ever or is met by an undefined conversion
  (logic/trim_logic.cpp:206, :227) [none of this is reached from `Init` with the
  run's setpoint, section 5].

## 7. Not modelled

`PROJECT.json` lists every part with its status. Left out for good: the web page and
the terminal's paging and drawing (presentation), vendored headers, build files and
sample clients, logging, argument parsing, requests that only read, the statistics of
the scheduler, which only the display reads, and the length of its sleep. The MQTT
publisher's loop writes nothing of the runtime; only its start and stop are modelled.
`parseAddress` turns text into the references that rules have and changes no state. Of
the lines, lamps, production counters and the heater are left out, which no state
reads. Inside modelled parts, error codes and echoed bytes of responses, `dlopen` and
symbol lookup, and failures of `std::thread` and of allocation. SIGPIPE from `send`
to a closed connection and handlers that outlive their server's destructor are listed
among the hazards and not modelled: what happens then is outside the program's own
control flow.

## 8. What could come next

The runs are kept to a dozen, so that all of them can be repeated after every
change: a new component's run takes the place of a documented violation or of a run its
own instance covers. In the order of what they would add:

1. `MeantRequests` and `CountedRequests` for all requests as the clients of the three
   protocols build them, in place of the premises; for XGT the lengths are sums
   over blocks, whose natural-number type needs induction over data.
2. More abstract specifications: linked cells that the engine implements between
   passes; a register gateway that the S7 server implements; a set of connections that
   `TcpServer` implements without `EraseAll`.
3. A composition of `TcpServer` and `Lifecycle`: detached handlers against the
   destructors of their servers and of the memory.
4. A composition of `AssemblyLogic` with `ScanCycle`, whose `Logic` is a constant
   today; the interface is the same, the inputs of `config_run__`.
5. `AddressParser`, `parseAddress` against a reference definition; the reconnects of
   the MQTT publisher.
