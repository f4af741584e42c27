----------------------------- MODULE Lifecycle -----------------------------
(***************************************************************************)
(* The life of the process: main starts the components in order, undoes    *)
(* that when a server cannot start, waits for should_quit, stops them in   *)
(* order and destroys them.  Each component has an is_running_ flag and a  *)
(* thread; the terminal UI's two threads act as one here.                  *)
(*                                                                         *)
(* The C++ runtime's rule matters: destroying a std::thread that nobody    *)
(* joined or detached ends the program by std::terminate.                  *)
(***************************************************************************)
EXTENDS Naturals, Sequences

CONSTANT Enabled   \* components the command line asks for

Server == {"modbus", "s7", "mc", "xgt"}
Component == Server \cup {"scheduler", "mqtt", "web", "tui"}

ASSUME LifecycleAssumption ==
    /\ Enabled \subseteq Component
    /\ {"scheduler", "tui"} \subseteq Enabled

VARIABLES
    flag,          \* flag[k]: is_running_ of component k
    thread,        \* thread[k]: "none", "live", "ended" or "joined"
    task,          \* what main is doing
    todo,          \* components main has still to treat in this task
    stopping,      \* the component whose stop is joining its thread, or "none"
    should_quit,   \* the flag main polls
    terminal,      \* "normal", or "raw" while the TUI owns it
    library,       \* the logic library is "loaded" or "unloaded"
    key,           \* the operator has pressed Q
    listening      \* httplib's listener: "no", "yes", or "closed" by stop

vars == <<flag, thread, task, todo, stopping, should_quit, terminal, library, key, listening>>

\* The components of an order that the command line asks for.
Only(order) == {k \in Enabled : \E i \in DOMAIN order : order[i] = k}

StartOrder == <<"modbus", "s7", "mc", "xgt", "scheduler", "mqtt", "web", "tui">>

\* Mutant: the scheduler is left to its destructor.
StopOrderNoScheduler == <<"tui", "mqtt", "web", "s7", "modbus", "mc", "xgt">>

StopOrder == <<"tui", "mqtt", "web", "scheduler", "s7", "modbus", "mc", "xgt">>
DestroyOrder == <<"tui", "web", "mqtt", "xgt", "mc", "s7", "modbus", "scheduler">>

\* The servers that are up when one fails, the last one first: what main stops.
RollbackOrder == <<"xgt", "mc", "s7", "modbus">>
Rollback == {s \in Server : thread[s] = "live"}

\* main treats k next: nothing that comes before it is left.
Before(order, j, k) == \E x, y \in DOMAIN order : x < y /\ order[x] = j /\ order[y] = k

Turn(order, k) == k \in todo /\ \A j \in todo : ~Before(order, j, k)

StopTurn(k) ==
    \/ task = "rollback" /\ Turn(RollbackOrder, k)
    \/ task = "stop" /\ Turn(StopOrder, k)

Init ==
    /\ flag = [k \in Component |-> FALSE]
    /\ thread = [k \in Component |-> "none"]
    /\ task = "start"
    /\ todo = Only(StartOrder)
    /\ stopping = "none"
    /\ should_quit = FALSE
    /\ terminal = "normal"
    /\ library = "loaded"
    /\ key = FALSE
    /\ listening = "no"

-----------------------------------------------------------------------------
\* main: start of the next component.
Start(k) ==
    /\ task = "start" /\ Turn(StartOrder, k)
    /\ flag' = [flag EXCEPT ![k] = TRUE]
    /\ thread' = [thread EXCEPT ![k] = "live"]
    /\ terminal' = IF k = "tui" THEN "raw" ELSE terminal
    /\ todo' = todo \ {k}
    /\ UNCHANGED <<task, stopping, should_quit, library, key, listening>>

\* A server cannot listen: main stops those that are up and returns 1.
StartFails(k) ==
    /\ task = "start" /\ Turn(StartOrder, k)
    /\ k \in Server
    /\ task' = "rollback" /\ todo' = Rollback
    /\ UNCHANGED <<flag, thread, stopping, should_quit, terminal, library, key, listening>>

\* The broker cannot be reached: main goes on without MQTT.
MqttFails ==
    /\ task = "start" /\ Turn(StartOrder, "mqtt")
    /\ todo' = todo \ {"mqtt"}
    /\ UNCHANGED <<flag, thread, task, stopping, should_quit, terminal, library, key, listening>>

Started ==
    /\ task = "start" /\ todo = {}
    /\ task' = "wait"
    /\ UNCHANGED <<flag, thread, todo, stopping, should_quit, terminal, library, key, listening>>

Quit ==
    /\ task = "wait" /\ should_quit
    /\ task' = "stop" /\ todo' = Only(StopOrder)
    /\ UNCHANGED <<flag, thread, stopping, should_quit, terminal, library, key, listening>>

\* A call of stop() on the next component: nothing at all when its flag is
\* down already, otherwise the flag is cleared and the thread awaited.
StopReturnsEarly(k) ==
    /\ StopTurn(k) /\ stopping = "none"
    /\ ~flag[k]
    /\ todo' = todo \ {k}
    /\ UNCHANGED <<flag, thread, task, stopping, should_quit, terminal, library, key, listening>>

\* Mutant: the thread is awaited without being told.
ClearFlagForgotten(k) ==
    /\ flag[k]
    /\ stopping' = k
    /\ UNCHANGED flag

ClearFlag(k) ==
    /\ flag[k]
    /\ flag' = [flag EXCEPT ![k] = FALSE]
    /\ stopping' = k

\* httplib's stop closes a listener that is up and does nothing before that.
StopBegins(k) ==
    /\ StopTurn(k) /\ stopping = "none"
    /\ ClearFlag(k)
    /\ listening' = IF k = "web" /\ listening = "yes" THEN "closed" ELSE listening
    /\ todo' = todo \ {k}
    /\ UNCHANGED <<thread, task, should_quit, terminal, library, key>>

\* Mutant: the TUI's stop leaves the terminal as it is.
JoinedLeavesRaw ==
    /\ stopping # "none"
    /\ thread[stopping] = "ended"
    /\ thread' = [thread EXCEPT ![stopping] = "joined"]
    /\ stopping' = "none"
    /\ UNCHANGED <<flag, task, todo, should_quit, terminal, library, key, listening>>

\* The join returns; the TUI's stop goes on to restore the terminal.
Joined ==
    /\ stopping # "none"
    /\ thread[stopping] = "ended"
    /\ thread' = [thread EXCEPT ![stopping] = "joined"]
    /\ terminal' = IF stopping = "tui" THEN "normal" ELSE terminal
    /\ stopping' = "none"
    /\ UNCHANGED <<flag, task, todo, should_quit, library, key, listening>>

\* All are stopped.  A failed start returns at once: ~PlcLoader unloads last.
EndStop ==
    /\ task \in {"rollback", "stop"} /\ todo = {} /\ stopping = "none"
    /\ IF task = "stop" THEN task' = "unload" /\ UNCHANGED todo
                        ELSE task' = "destroy" /\ todo' = Only(DestroyOrder)
    /\ UNCHANGED <<flag, thread, stopping, should_quit, terminal, library, key, listening>>

Unload ==
    /\ task = "unload"
    /\ library' = "unloaded"
    /\ task' = "destroy" /\ todo' = Only(DestroyOrder)
    /\ UNCHANGED <<flag, thread, stopping, should_quit, terminal, key, listening>>

\* A destructor: its stop() has nothing left to do, for stop was called on all
\* that started and every flag is down; then the members go, its thread among
\* them.  Were one still up, QuitEnds would fail.
DestroyMembers(k) ==
    /\ task = "destroy" /\ Turn(DestroyOrder, k) /\ stopping = "none"
    /\ ~flag[k]
    /\ IF thread[k] \in {"live", "ended"}
       THEN task' = "aborted" /\ UNCHANGED todo
       ELSE todo' = todo \ {k} /\ UNCHANGED task
    /\ UNCHANGED <<flag, thread, stopping, should_quit, terminal, library, key, listening>>

Exit ==
    /\ task = "destroy" /\ todo = {} /\ stopping = "none"
    /\ library' = "unloaded"
    /\ task' = "exited"
    /\ UNCHANGED <<flag, thread, todo, stopping, should_quit, terminal, key, listening>>

Main ==
    \/ \E k \in Component :
         \/ Start(k) \/ StartFails(k) \/ StopReturnsEarly(k) \/ StopBegins(k) \/ DestroyMembers(k)
    \/ MqttFails \/ Started \/ Quit \/ Joined \/ EndStop \/ Unload \/ Exit

-----------------------------------------------------------------------------
Up == task \notin {"exited", "aborted"}

\* What ends a component's loop: its flag is down, or its sockets are closed.
\* The web server's thread tests no flag; it sits in httplib's listen.
Told(k) == IF k = "web" THEN listening = "closed" ELSE ~flag[k]

ThreadEnds(k) ==
    /\ Up
    /\ thread[k] = "live" /\ Told(k)
    /\ thread' = [thread EXCEPT ![k] = "ended"]
    /\ UNCHANGED <<flag, task, todo, stopping, should_quit, terminal, library, key, listening>>

\* WebServer::run: the port is bound and accepted on some time after start has
\* returned true.
WebListens ==
    /\ Up
    /\ thread["web"] = "live" /\ listening = "no"
    /\ listening' = "yes"
    /\ UNCHANGED <<flag, thread, task, todo, stopping, should_quit, terminal, library, key>>

\* listen fails: the port is taken, or accept fails later.
ListenFails ==
    /\ Up
    /\ thread["web"] = "live" /\ listening # "closed"
    /\ flag' = [flag EXCEPT !["web"] = FALSE]
    /\ thread' = [thread EXCEPT !["web"] = "ended"]
    /\ UNCHANGED <<task, todo, stopping, should_quit, terminal, library, key, listening>>

\* The TUI's input thread reads q; in raw mode Ctrl-C is an ordinary byte.
PressQ ==
    /\ Up
    /\ thread["tui"] = "live" /\ flag["tui"]
    /\ flag' = [flag EXCEPT !["tui"] = FALSE]
    /\ should_quit' = TRUE
    /\ key' = TRUE
    /\ UNCHANGED <<thread, task, todo, stopping, terminal, library, listening>>

\* SIGINT or SIGTERM, from outside the terminal, at any moment and again.
Signal ==
    /\ Up
    /\ should_quit' = TRUE
    /\ UNCHANGED <<flag, thread, task, todo, stopping, terminal, library, key, listening>>

Ended == ~Up /\ UNCHANGED vars

Next ==
    \/ Main
    \/ \E k \in Component : ThreadEnds(k)
    \/ WebListens \/ ListenFails \/ PressQ \/ Signal \/ Ended

\* main runs, every component's thread comes to the test of its flag, and the
\* web server's, once scheduled, to listening, or fails to.
Fairness ==
    /\ WF_vars(Main)
    /\ WF_vars(WebListens)
    /\ \A k \in Component : WF_vars(ThreadEnds(k))

Spec == Init /\ [][Next]_vars /\ Fairness
-----------------------------------------------------------------------------
\* Whatever start fails and whenever a signal comes, the process ends with the
\* terminal as it was and every thread joined, unless Q was pressed or the web
\* port was taken: nothing else takes a flag down behind main's back
\* (main.cpp:171-293).
EndsInOrder ==
    ~Up /\ ~key =>
        /\ terminal = "normal"
        /\ thread["web"] # "ended" =>
             task = "exited" /\ \A k \in Component : thread[k] \in {"none", "joined"}

\* The library is never unloaded under a scan cycle: its code runs on the
\* scheduler's thread only (main.cpp:266, 290).
LibraryOutlivesScan ==
    library = "unloaded" => thread["scheduler"] \in {"none", "joined"}

\* main waits for the web server's thread, which nothing has told to end: stop
\* came before httplib's listener was up, and the listener came up after it.
Deaf == stopping = "web" /\ thread["web"] = "live" /\ listening # "closed"

\* Once asked to quit, even while it is still starting, the process ends unless
\* the web server goes deaf: main waits for no other thread that has not been
\* told, whatever failed before (main.cpp:246-293, WebServer.cpp:222-242).
QuitEnds == should_quit ~> ~Up \/ Deaf

\* "[Q] Graceful Shutdown and Exit" (PlcTui.cpp:330) and "Stop TUI first to
\* restore terminal state" (main.cpp:250).
QuitKeyRestoresTerminal == ~Up /\ key => terminal = "normal"
=============================================================================
