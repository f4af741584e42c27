----------------------------- MODULE TcpServer -----------------------------
(***************************************************************************)
(* Connections of the Modbus, MC and XGT servers: serverLoop accepts and   *)
(* tracks them, a detached thread each serves them, stop ends them.  The   *)
(* three classes are the same code but for how a handler forgets its       *)
(* descriptor: Modbus erases every equal entry of client_fds_, MC and XGT  *)
(* the first one.                                                          *)
(*                                                                         *)
(* A descriptor is a number the kernel hands out again as soon as it is    *)
(* closed, to this server or to anything else in the process; a handler    *)
(* closes it first and takes clients_mutex_ to forget it afterwards.  recv *)
(* is called by number too: what it reads from is what the number denotes  *)
(* at the call, and a call that blocks stays with that.                    *)
(***************************************************************************)
EXTENDS Naturals, FiniteSets

CONSTANTS
    Conn,      \* connections clients ever make
    Fd,        \* descriptor numbers
    Free,      \* a number that denotes nothing
    Other,     \* what any other part of the process has opened
    EraseAll   \* TRUE for Modbus, FALSE for MC and XGT

ASSUME TcpAssumption ==
    /\ IsFiniteSet(Conn) /\ Fd # {}
    /\ Free \notin Conn /\ Other \notin Conn /\ Free # Other
    /\ EraseAll \in BOOLEAN

VARIABLES
    owner,     \* owner[f]: what descriptor f denotes in the process
    tracked,   \* client_fds_, as the number of times it holds each f
    running,   \* is_running_
    loop,      \* serverLoop: "test", "accept", "track" or "ended"
    got,       \* the connection serverLoop has accepted and not yet tracked
    at,        \* at[c]: where the handler of c is
    fd,        \* fd[c]: its client_fd
    hungUp,    \* connections whose socket stop has shut down
    stopping,  \* stop: "no", "flag", "listener", "closing", "join", "returned"
    left       \* the entries stop's loop has still to close

tcpVars == <<owner, tracked, running, loop, got, at, fd, hungUp, stopping, left>>

NoneTracked == [f \in Fd |-> 0]

Init ==
    /\ owner \in [Fd -> {Free, Other}]
    /\ tracked = NoneTracked
    /\ running = TRUE
    /\ loop = "test"
    /\ got = Free
    /\ at = [c \in Conn |-> "none"]
    /\ fd = [c \in Conn |-> CHOOSE f \in Fd : TRUE]
    /\ hungUp = {}
    /\ stopping = "no"
    /\ left = NoneTracked

\* clients_mutex_ is free: stop holds it while it closes the entries.
ClientsUnlocked == stopping # "closing"

\* close(f), whoever calls it: the number denotes nothing, whatever it did.
Closed(f) == [owner EXCEPT ![f] = Free]

-----------------------------------------------------------------------------
\* serverLoop.
TestRunning ==
    /\ loop = "test"
    /\ loop' = IF running THEN "accept" ELSE "ended"
    /\ UNCHANGED <<owner, tracked, running, got, at, fd, hungUp, stopping, left>>

\* The listening socket is open until stop closes it.
Accept(c, f) ==
    /\ loop = "accept"
    /\ stopping \in {"no", "flag"}
    /\ at[c] = "none"
    /\ owner[f] = Free
    /\ owner' = [owner EXCEPT ![f] = c]
    /\ fd' = [fd EXCEPT ![c] = f]
    /\ got' = c
    /\ loop' = "track"
    /\ UNCHANGED <<tracked, running, at, hungUp, stopping, left>>

AcceptFails ==
    /\ loop = "accept"
    /\ stopping \notin {"no", "flag"}
    /\ loop' = "test"
    /\ UNCHANGED <<owner, tracked, running, got, at, fd, hungUp, stopping, left>>

\* push_back under clients_mutex_, then the handler's thread is started.
Track ==
    /\ loop = "track"
    /\ ClientsUnlocked
    /\ tracked' = [tracked EXCEPT ![fd[got]] = @ + 1]
    /\ at' = [at EXCEPT ![got] = "test"]
    /\ got' = Free
    /\ loop' = "test"
    /\ UNCHANGED <<owner, running, fd, hungUp, stopping, left>>

ServerLoop == TestRunning \/ AcceptFails \/ Track

-----------------------------------------------------------------------------
\* handleClient: the test of is_running_, the calls of recv for the parts of a
\* request, "recv" while one waits for the client.  A request received whole and
\* answered leads back to the test; anything else leaves the loop.
Serve(c) ==
    /\ at[c] = "test"
    /\ at' = [at EXCEPT ![c] = IF running THEN "call" ELSE "close"]
    /\ UNCHANGED <<owner, tracked, running, loop, got, fd, hungUp, stopping, left>>

\* A number that denotes nothing is refused; one that stop has closed and the
\* kernel handed out again is a stray: recv waits for whoever has it now.
Recv(c) ==
    /\ at[c] = "call"
    /\ \/ owner[fd[c]] = c              /\ at' = [at EXCEPT ![c] = "recv"]
       \/ owner[fd[c]] = Free           /\ at' = [at EXCEPT ![c] = "close"]
       \/ owner[fd[c]] \notin {c, Free} /\ at' = [at EXCEPT ![c] = "stray"]
    /\ UNCHANGED <<owner, tracked, running, loop, got, fd, hungUp, stopping, left>>

\* The part has come: the next one is read, or the request is answered.  What
\* came before stop shut the socket down is still read after it.
Answer(c) ==
    /\ at[c] = "recv"
    /\ \E s \in {"call", "test"} : at' = [at EXCEPT ![c] = s]
    /\ UNCHANGED <<owner, tracked, running, loop, got, fd, hungUp, stopping, left>>

\* The client disconnects, sends what is refused, or recv or send fails.
Disconnect(c) ==
    /\ at[c] = "recv"
    /\ at' = [at EXCEPT ![c] = "close"]
    /\ UNCHANGED <<owner, tracked, running, loop, got, fd, hungUp, stopping, left>>

\* The stranger sends, closes or fails recv; it need do none of these.
StrayReads(c) ==
    /\ at[c] = "stray"
    /\ \E s \in {"test", "close"} : at' = [at EXCEPT ![c] = s]
    /\ UNCHANGED <<owner, tracked, running, loop, got, fd, hungUp, stopping, left>>

\* Mutant: an error path closes the socket and leaves it to be closed again.
CloseFdTwice(c) ==
    /\ at[c] = "close"
    /\ owner' = Closed(fd[c])
    /\ at' \in {[at EXCEPT ![c] = "forget"], at}
    /\ UNCHANGED <<tracked, running, loop, got, fd, hungUp, stopping, left>>

CloseFd(c) ==
    /\ at[c] = "close"
    /\ owner' = Closed(fd[c])
    /\ at' = [at EXCEPT ![c] = "forget"]
    /\ UNCHANGED <<tracked, running, loop, got, fd, hungUp, stopping, left>>

\* Mutants: MC and XGT erase every equal entry, as Modbus does; no entry goes
\* when the descriptor has already been handed out again.
ForgetAll(c) ==
    /\ at[c] = "forget"
    /\ ClientsUnlocked
    /\ tracked' = [tracked EXCEPT ![fd[c]] = 0]
    /\ at' = [at EXCEPT ![c] = "gone"]
    /\ UNCHANGED <<owner, running, loop, got, fd, hungUp, stopping, left>>

ForgetIfFree(c) ==
    /\ at[c] = "forget"
    /\ ClientsUnlocked
    /\ tracked' = [tracked EXCEPT ![fd[c]] = IF owner[fd[c]] # Free \/ @ = 0 THEN @ ELSE @ - 1]
    /\ at' = [at EXCEPT ![c] = "gone"]
    /\ UNCHANGED <<owner, running, loop, got, fd, hungUp, stopping, left>>

\* The entry goes; stop may have cleared the list before.
Forget(c) ==
    /\ at[c] = "forget"
    /\ ClientsUnlocked
    /\ tracked' = [tracked EXCEPT ![fd[c]] = IF EraseAll \/ @ = 0 THEN 0 ELSE @ - 1]
    /\ at' = [at EXCEPT ![c] = "gone"]
    /\ UNCHANGED <<owner, running, loop, got, fd, hungUp, stopping, left>>

-----------------------------------------------------------------------------
\* stop.  Mutant: the flag is left up.
StopFlagForgotten ==
    /\ stopping = "no"
    /\ stopping' = "flag"
    /\ UNCHANGED <<owner, tracked, running, loop, got, at, fd, hungUp, left>>

StopFlag ==
    /\ stopping = "no"
    /\ running' = FALSE
    /\ stopping' = "flag"
    /\ UNCHANGED <<owner, tracked, loop, got, at, fd, hungUp, left>>

StopListener ==
    /\ stopping = "flag"
    /\ stopping' = "listener"
    /\ UNCHANGED <<owner, tracked, running, loop, got, at, fd, hungUp, left>>

\* Mutant: clients_mutex_ is taken and the list is cleared, not closed.
LockClientsClosesNone ==
    /\ stopping = "listener"
    /\ left' = NoneTracked
    /\ stopping' = "closing"
    /\ UNCHANGED <<owner, tracked, running, loop, got, at, fd, hungUp>>

LockClients ==
    /\ stopping = "listener"
    /\ left' = tracked
    /\ stopping' = "closing"
    /\ UNCHANGED <<owner, tracked, running, loop, got, at, fd, hungUp>>

\* shutdown and close of one entry: whatever the number denotes by now.
CloseEntry(f) ==
    /\ stopping = "closing"
    /\ left[f] > 0
    /\ left' = [left EXCEPT ![f] = @ - 1]
    /\ hungUp' = hungUp \cup ({owner[f]} \cap Conn)
    /\ owner' = Closed(f)
    /\ UNCHANGED <<tracked, running, loop, got, at, fd, stopping>>

Clear ==
    /\ stopping = "closing"
    /\ \A f \in Fd : left[f] = 0
    /\ tracked' = NoneTracked
    /\ stopping' = "join"
    /\ UNCHANGED <<owner, running, loop, got, at, fd, hungUp, left>>

Join ==
    /\ stopping = "join"
    /\ loop = "ended"
    /\ stopping' = "returned"
    /\ UNCHANGED <<owner, tracked, running, loop, got, at, fd, hungUp, left>>

StopWork == StopListener \/ LockClients \/ (\E f \in Fd : CloseEntry(f)) \/ Clear \/ Join

-----------------------------------------------------------------------------
\* Another server, a file, a socket of the web server: any other descriptor.
OtherOpen(f) ==
    /\ owner[f] = Free
    /\ owner' = [owner EXCEPT ![f] = Other]
    /\ UNCHANGED <<tracked, running, loop, got, at, fd, hungUp, stopping, left>>

OtherClose(f) ==
    /\ owner[f] = Other
    /\ owner' = Closed(f)
    /\ UNCHANGED <<tracked, running, loop, got, at, fd, hungUp, stopping, left>>

Handler(c) ==
    Serve(c) \/ Recv(c) \/ CloseFd(c) \/ Forget(c) \/ (c \in hungUp /\ Disconnect(c))

Next ==
    \/ ServerLoop
    \/ \E c \in Conn, f \in Fd : Accept(c, f)
    \/ \E c \in Conn : Handler(c) \/ Answer(c) \/ Disconnect(c) \/ StrayReads(c)
    \/ StopFlag \/ StopWork
    \/ \E f \in Fd : OtherOpen(f) \/ OtherClose(f)

\* Threads that can run do, a recv whose socket is shut down among them; a
\* client need not disconnect, nor send, nor need a stranger; what other parts of
\* the process open they need not close.
Fairness ==
    /\ WF_tcpVars(ServerLoop)
    /\ WF_tcpVars(StopWork)
    /\ \A c \in Conn : WF_tcpVars(Handler(c))

Spec == Init /\ [][Next]_tcpVars

FairSpec == Spec /\ Fairness
-----------------------------------------------------------------------------
\* Handlers that have not given their descriptor back to the list.
Listed(f) ==
    {c \in Conn : at[c] \in {"test", "call", "recv", "stray", "close", "forget"} /\ fd[c] = f}

\* Types; only one connection is between accept and push_back, and no entry
\* is left to close but in stop's loop.
TypeOK ==
    /\ owner \in [Fd -> Conn \cup {Free, Other}]
    /\ tracked \in [Fd -> Nat] /\ left \in [Fd -> Nat]
    /\ running \in BOOLEAN
    /\ running <=> stopping = "no"
    /\ loop \in {"test", "accept", "track", "ended"}
    /\ got \in Conn \cup {Free}
    /\ loop = "track" <=> got # Free
    /\ got # Free => at[got] = "none"
    /\ at \in [Conn -> {"none", "test", "call", "recv", "stray", "close", "forget", "gone"}]
    /\ fd \in [Conn -> Fd]
    /\ hungUp \in SUBSET Conn
    /\ stopping \in {"no", "flag", "listener", "closing", "join", "returned"}
    /\ stopping # "closing" => left = NoneTracked

\* "Track the connection" (McServer.cpp:148): until stop takes the list, the
\* descriptor of every connection being served is in it, so stop reaches it,
\* although a number is handed out again before its old entry is erased.
ServedAreTracked ==
    stopping \in {"no", "flag", "listener"} =>
        \A c \in Conn : at[c] \in {"test", "call", "recv"} => tracked[fd[c]] > 0

\* The list never holds more than the handlers still to forget: it does not
\* grow with the connections served (getClientsCount reports its length).
CountIsHandlers ==
    stopping \in {"no", "flag", "listener"} =>
        \A f \in Fd : tracked[f] = Cardinality(Listed(f))

\* While the server runs, a connection's socket is closed by its own handler
\* and by nobody else, whichever numbers are reused (McServer.cpp:231-239).
OwnHandlerCloses ==
    [][\A f \in Fd : running /\ owner[f] \in Conn /\ owner'[f] # owner[f] =>
          at[owner[f]] = "close" /\ at'[owner[f]] = "forget"]_tcpVars

\* While the server runs, a handler receives from its own connection and from
\* nothing else, although it calls recv by number and numbers are handed out
\* again before their old entries are erased (McServer.cpp:172, 202, 233).
ReceivesFromOwn ==
    running => \A c \in Conn : at[c] # "stray" /\ (at[c] = "recv" => owner[fd[c]] = c)

\* After stop every handler comes to its end, also those whose clients stay
\* connected and silent (McServer.cpp:95-125), but for one stop has overtaken on
\* its way into recv and whose number something else has got: that one waits for
\* a stranger, and nothing of stop's ends it.
HandlersEnd ==
    stopping = "flag" ~> \A c \in Conn : at[c] \in {"none", "gone", "stray"}
=============================================================================
