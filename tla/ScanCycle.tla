----------------------------- MODULE ScanCycle -----------------------------
(***************************************************************************)
(* The scan cycle: PlcScheduler::loop with PlcLoader's copying between the *)
(* shared memory and the variables of the logic library, on top of the     *)
(* mapping engine it calls before and after the logic.                     *)
(*                                                                         *)
(* The scan thread copies one binding at a time, each access under mutex_  *)
(* by itself, so the servers, the TUI and the web handlers write the       *)
(* memory between any two of its accesses.  The library's variables belong *)
(* to the scan thread alone.                                               *)
(***************************************************************************)
EXTENDS MappingEngine

CONSTANTS
    Bindings,      \* bindings_: cells with a library variable, in order
    LogicInit,     \* the variables after config_init__
    Logic(_),      \* Logic(img): what config_run__ may make of img
    Writable,      \* cells the protocol servers and the TUI write here
    WebWritable,   \* cells POST /api/memory/write writes here
    AutoAtStart    \* values main may give %IX0.0: 1, or 0 with --manual

ModeSwitch == Ref("DI", 0)   \* %IX0.0

BoundCell == {Bindings[i] : i \in 1 .. Len(Bindings)}

\* What the library's variables may hold: a BOOL is 0 or 1.
Image == {img \in [BoundCell -> Word] : \A c \in BoundCell \cap BitCell : img[c] \in Bit}

ASSUME ScanAssumption ==
    /\ Bindings \in Seq(Cell)
    /\ \A c \in BoundCell : c.area \in {"DI", "COIL", "IR", "HR"}
    /\ Writable \subseteq Cell
    /\ WebWritable \subseteq Cell
    /\ ModeSwitch \in BitCell
    /\ AutoAtStart \subseteq Bit
    /\ LogicInit \in Image
    /\ \A img \in Image : Logic(img) \subseteq Image

VARIABLES
    image,      \* the library's variables, by the cell each is bound to
    phase,      \* what the scan thread is doing
    b,          \* index of the binding being copied
    auto_mode   \* syncInputsToDll's local: the mode read for this coil

scanVars == <<image, phase, b, auto_mode>>

\* Discrete inputs set from outside, which the logic only reads.
ExternalControl(c) == c.area = "DI" /\ c.index \in {0, 7}

\* What syncInputsToDll copies without looking at the mode.
AlwaysCopied(c) == ExternalControl(c) \/ c.area = "HR"

\* What syncOutputsFromDll writes back: everything but external controls.
Published(c) == ~ExternalControl(c)


ScanInit ==
    /\ \E auto \in AutoAtStart : mem = [ZeroMemory EXCEPT ![ModeSwitch] = auto]
    /\ SyncInit
    /\ image = [c \in BoundCell |-> 0]
    /\ phase = "start"
    /\ b = 1
    /\ auto_mode = "unread"

-----------------------------------------------------------------------------
\* Calls of syncMappings by the scan thread: phase "syncIn" or "syncOut".
CallSync(next) ==
    /\ SyncCall(Scheduler)
    /\ phase' = next
    /\ UNCHANGED <<image, b, auto_mode>>

\* The call returns: the copying starts, or the cycle is over.
SyncReturned ==
    /\ SyncReturn(Scheduler)
    /\ \/ phase = "syncIn" /\ phase' = "copyIn"
       \/ phase = "syncOut" /\ phase' = "idle"
    /\ b' = 1
    /\ UNCHANGED <<image, auto_mode>>

\* The scan thread's own steps inside the call.
SyncWork ==
    /\ LockMappings(Scheduler) \/ ReadSrc(Scheduler) \/ ReadDst(Scheduler) \/ SyncRule(Scheduler)
    /\ UNCHANGED scanVars

-----------------------------------------------------------------------------
\* config_init__, once, before the loop; then syncOutputsFromDll.
InitLogic ==
    /\ phase = "start"
    /\ image' = LogicInit
    /\ phase' = "copyOut"
    /\ b' = 1
    /\ UNCHANGED <<engineVars, auto_mode>>

\* A cycle starts with the mapping pass of syncInputsToDll.
BeginCycle == phase = "idle" /\ CallSync("syncIn")

\* One iteration of the loop in syncInputsToDll, but for coils.
CopyIn ==
    /\ phase = "copyIn"
    /\ b <= Len(Bindings)
    /\ LET c == Bindings[b] IN
         /\ c.area # "COIL"
         /\ image' = IF AlwaysCopied(c) THEN [image EXCEPT ![c] = ReadValue(mem, c)]
                                        ELSE image
    /\ b' = b + 1
    /\ UNCHANGED <<engineVars, phase, auto_mode>>

\* Mutant: the mode is tested the wrong way round.
ReadModeInverted ==
    /\ phase = "copyIn"
    /\ b <= Len(Bindings)
    /\ Bindings[b].area = "COIL"
    /\ auto_mode = "unread"
    /\ \/ ReadValue(mem, ModeSwitch) = 0 /\ b' = b + 1 /\ UNCHANGED auto_mode
       \/ ReadValue(mem, ModeSwitch) = 1 /\ auto_mode' = "manual" /\ UNCHANGED b
    /\ UNCHANGED <<engineVars, image, phase>>

\* A coil takes two accesses: the mode switch is read anew for every coil,
\* and in AUTO the coil is left to the logic.
ReadMode ==
    /\ phase = "copyIn"
    /\ b <= Len(Bindings)
    /\ Bindings[b].area = "COIL"
    /\ auto_mode = "unread"
    /\ \/ ReadValue(mem, ModeSwitch) = 1 /\ b' = b + 1 /\ UNCHANGED auto_mode
       \/ ReadValue(mem, ModeSwitch) = 0 /\ auto_mode' = "manual" /\ UNCHANGED b
    /\ UNCHANGED <<engineVars, image, phase>>

\* Mutant: a coil can be set but not cleared.
CopyCoilSetOnly ==
    /\ phase = "copyIn"
    /\ auto_mode = "manual"
    /\ image' = IF ReadValue(mem, Bindings[b]) = 0 THEN image ELSE [image EXCEPT ![Bindings[b]] = 1]
    /\ b' = b + 1
    /\ auto_mode' = "unread"
    /\ UNCHANGED <<engineVars, phase>>

CopyCoil ==
    /\ phase = "copyIn"
    /\ auto_mode = "manual"
    /\ image' = [image EXCEPT ![Bindings[b]] = ReadValue(mem, Bindings[b])]
    /\ b' = b + 1
    /\ auto_mode' = "unread"
    /\ UNCHANGED <<engineVars, phase>>

\* runLogic(tick), with no memory access: config_run__ sees its variables.
RunLogic ==
    /\ phase = "copyIn"
    /\ b > Len(Bindings)
    /\ image' \in Logic(image)
    /\ phase' = "copyOut"
    /\ b' = 1
    /\ UNCHANGED <<engineVars, auto_mode>>

\* One iteration of the loop in syncOutputsFromDll.
CopyOut ==
    /\ phase = "copyOut"
    /\ b <= Len(Bindings)
    /\ LET c == Bindings[b] IN
         mem' = IF Published(c) THEN WriteValue(mem, c, image[c]) ELSE mem
    /\ b' = b + 1
    /\ UNCHANGED <<rules, call, passVars, image, phase, auto_mode>>

\* Mutant: the cycle ends without the second mapping pass.
EndCopyOutNoSync ==
    /\ phase = "copyOut"
    /\ b > Len(Bindings)
    /\ phase' = "idle"
    /\ UNCHANGED <<engineVars, image, b, auto_mode>>

EndCopyOut ==
    /\ phase = "copyOut"
    /\ b > Len(Bindings)
    /\ CallSync("syncOut")

ScanStep ==
    \/ InitLogic \/ BeginCycle \/ SyncWork \/ SyncReturned
    \/ CopyIn \/ ReadMode \/ CopyCoil \/ RunLogic \/ CopyOut \/ EndCopyOut

-----------------------------------------------------------------------------
\* The other threads: servers and TUI, and the web handlers.
ExternalWrite(c, v) == c \in Writable /\ ClientWrite(c, v) /\ UNCHANGED scanVars

WebPost(c, v) == c \in WebWritable /\ WebWrite(c, v) /\ UNCHANGED scanVars

WebSync == SyncStep(Web) /\ UNCHANGED scanVars

HotReload(table) == LoadMappings(table) /\ UNCHANGED scanVars

ScanNext ==
    \/ ScanStep
    \/ \E c \in Cell, v \in Word : ExternalWrite(c, v) \/ WebPost(c, v)
    \/ WebSync
    \/ \E table \in Tables : HotReload(table)
=============================================================================
