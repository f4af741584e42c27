---------------------------- MODULE ScanHistory ----------------------------
(***************************************************************************)
(* The scan cycle with what an observer remembers of it: the last operator *)
(* command to one coil (or to a cell a rule links to it), how often the    *)
(* logic has run since, and whether the running cycle was disturbed.       *)
(***************************************************************************)
EXTENDS ScanCycle

CONSTANT Target   \* the coil, or holding register, the commands are for

ASSUME TargetAssumption == Target \in BoundCell /\ Published(Target)

VARIABLES
    cmd,         \* the only command since the system was calm, if any
    runs,        \* runs of the logic since that command, up to 2
    undisturbed  \* a cycle began and nobody else wrote a cell since

historyVars == <<cmd, runs, undisturbed>>
vars == <<engineVars, scanVars, historyVars>>

\* Until the first cycle begins the logic's initial values are still being
\* published and no write counts as a command.
Cold == [kind |-> "cold", cell |-> Target, value |-> 0, exposed |-> FALSE]
NoCommand == [Cold EXCEPT !.kind = "none"]
Contended == [Cold EXCEPT !.kind = "many"]

\* Target and the cells a rule joins to it.
Group == {Target} \cup
    UNION {{rules[k].src, rules[k].dst} :
             k \in {j \in 1 .. Len(rules) : Target \in {rules[j].src, rules[j].dst}}}

\* MANUAL, every rule settled, and the logic's variable is what memory holds.
Calm ==
    /\ Settled
    /\ ReadValue(mem, ModeSwitch) = 0
    /\ mem[Target] = image[Target]

\* The scan thread has copied Target in and not yet written it back.
WindowOpen ==
    \E i \in 1 .. Len(Bindings) :
        /\ Bindings[i] = Target
        /\ \/ phase = "copyIn" /\ b > i
           \/ phase = "copyOut" /\ b <= i

Init == ScanInit /\ cmd = Cold /\ runs = 0 /\ undisturbed = FALSE

\* Somebody but the scan thread changed Target while its old value waits to
\* be written back: the command that did it is in reach of the write-back.
Exposure == [cmd EXCEPT !.exposed = @ \/ (WindowOpen /\ mem'[Target] # mem[Target])]

Observe(c, v) ==
    /\ IF c \in Group /\ cmd.kind # "cold"
       THEN /\ cmd' = IF Calm THEN [kind |-> "lone", cell |-> c, value |-> Narrow(c, v),
                                    exposed |-> c = Target /\ WindowOpen]
                              ELSE Contended
            /\ runs' = 0
       ELSE UNCHANGED <<cmd, runs>>
    /\ undisturbed' = FALSE

Begin ==
    /\ BeginCycle
    /\ cmd' = IF cmd.kind = "cold" THEN NoCommand ELSE cmd
    /\ undisturbed' = TRUE
    /\ UNCHANGED runs

Run ==
    /\ RunLogic
    /\ runs' = IF runs < 2 THEN runs + 1 ELSE runs
    /\ UNCHANGED <<cmd, undisturbed>>

Proceed ==
    /\ \/ InitLogic \/ SyncWork \/ SyncReturned
       \/ CopyIn \/ ReadMode \/ CopyCoil \/ CopyOut \/ EndCopyOut
    /\ UNCHANGED historyVars

Scan == Begin \/ Run \/ Proceed

\* A web thread's pass may carry a linked cell's command into Target.
WebPass ==
    /\ WebSync
    /\ cmd' = IF cmd.kind = "lone" THEN Exposure ELSE cmd
    /\ UNCHANGED <<runs, undisturbed>>

Write(c, v) == ExternalWrite(c, v) /\ Observe(c, v)

Post(c, v) == WebPost(c, v) /\ Observe(c, v)

Reload(table) ==
    /\ HotReload(table)
    /\ cmd' = IF cmd.kind = "cold" THEN cmd ELSE Contended
    /\ undisturbed' = FALSE
    /\ UNCHANGED runs

Next ==
    \/ Scan
    \/ WebPass
    \/ \E c \in Cell, v \in Word : Write(c, v) \/ Post(c, v)
    \/ \E table \in Tables : Reload(table)

Spec == Init /\ [][Next]_vars

\* The scan thread loops for as long as the runtime is up, a web request that
\* has started runs to its end, and mappings_mutex_ is eventually handed to
\* the scan thread however many web requests compete for it.
Fairness ==
    /\ WF_vars(Scan)
    /\ SF_vars(Proceed /\ LockMappings(Scheduler))
    /\ WF_vars(WebPass)

FairSpec == Spec /\ Fairness
-----------------------------------------------------------------------------
\* What the theorems about all instances ask of the constants.

\* Every table is one of stars whose spokes the library is not bound to.
StarTables ==
    \A table \in Tables \cup {InitTable} : StarTable(table, BoundCell)

\* Nobody moves the mode switch: no client writes it and no rule names it.
SwitchUntouched ==
    /\ ModeSwitch \notin Writable \cup WebWritable
    /\ \A table \in Tables \cup {InitTable} :
         \A k \in 1 .. Len(table) : ModeSwitch \notin {table[k].src, table[k].dst}

\* resolveBindings looks __IX0_0 up before every other symbol.
SwitchFirst == Len(Bindings) > 0 /\ Bindings[1] = ModeSwitch

\* The library leaves Target, a coil, alone while its switch says MANUAL.
ManualIsRespected ==
    /\ Target.area = "COIL"
    /\ \A img \in Image : img[ModeSwitch] = 0 =>
         \A new \in Logic(img) : new[Target] = img[Target]

-----------------------------------------------------------------------------
\* In MANUAL, a command that finds the system calm is never overwritten by
\* the cycle, be it a write of the coil outside the copy window or a write of
\* a linked S7, MC or LS cell at any moment: in the window, the cycle
\* publishes the old coil over nothing, and the pass that follows still sees
\* the linked cell change, unless a web thread's pass has carried it into the
\* coil inside the window (PlcLoader.cpp:84-143, WebServer.cpp:196-200).
CommandHolds ==
    cmd.kind = "lone" /\ ~cmd.exposed => mem[cmd.cell] = cmd.value

\* Such a command has reached the logic by its second run, whatever the scan
\* thread was doing when it came (PlcScheduler.cpp:55-58).
CommandReachesLogic ==
    cmd.kind = "lone" /\ ~cmd.exposed /\ runs = 2 => image[Target] = cmd.value

\* After a cycle in which nobody else wrote, memory holds what the logic left
\* and both ends of every rule agree, in either mode and whatever clients had
\* forced on outputs, sensors and linked cells before (PlcScheduler.cpp:49-61).
CycleHeals ==
    phase = "idle" /\ undisturbed =>
        /\ \A c \in BoundCell : Published(c) => mem[c] = image[c]
        /\ Converged

\* The scan thread never stalls: cycles complete for ever, whatever the web
\* threads do with mappings_mutex_.
CyclesGoOn == []<>(phase = "idle") /\ []<>(phase = "copyIn")
=============================================================================
