----------------------------- MODULE TcpProofs -----------------------------
(***************************************************************************)
(* For any number of connections and descriptors: a server that erases one *)
(* entry per closed connection, as MC and XGT do, tracks every connection  *)
(* it serves, although the kernel reuses descriptors before their old      *)
(* entries are gone; and in all three servers only its own handler closes  *)
(* a connection until stop is called.                                      *)
(***************************************************************************)
EXTENDS TcpServer, FiniteSetTheorems, TLAPS

\* Types in every reachable state of any of the three servers: the thread
\* that accepts holds one connection at a time (TcpServer's TypeOK).
THEOREM TcpTyping == Spec => []TypeOK
<1> USE TcpAssumption DEF TcpAssumption, TypeOK, tcpVars, NoneTracked
<1>1. Init => TypeOK
    BY DEF Init
<1>2. TypeOK /\ [Next]_tcpVars => TypeOK'
    <2> SUFFICES ASSUME TypeOK, [Next]_tcpVars PROVE TypeOK'
        OBVIOUS
    <2>1. CASE ServerLoop
        BY <2>1 DEF ServerLoop, TestRunning, AcceptFails, Track
    <2>2. ASSUME NEW c \in Conn, NEW f \in Fd, Accept(c, f) PROVE TypeOK'
        BY <2>2 DEF Accept
    <2>3. ASSUME NEW c \in Conn, Serve(c) \/ Answer(c) \/ Disconnect(c) PROVE TypeOK'
        BY <2>3 DEF Serve, Answer, Disconnect
    <2>9. ASSUME NEW c \in Conn, Recv(c) \/ StrayReads(c) PROVE TypeOK'
        BY <2>9 DEF Recv, StrayReads
    <2>4. ASSUME NEW c \in Conn, CloseFd(c) \/ Forget(c) PROVE TypeOK'
        BY <2>4 DEF CloseFd, Closed, Forget
    <2>5. CASE StopFlag \/ StopListener \/ LockClients \/ Clear \/ Join
        <3>1. CASE StopFlag
            BY <3>1 DEF StopFlag
        <3>4. CASE StopListener
            BY <3>4 DEF StopListener
        <3>2. CASE LockClients
            BY <3>2 DEF LockClients
        <3>3. CASE Clear \/ Join
            BY <3>3 DEF Clear, Join
        <3> QED
            BY <2>5, <3>1, <3>2, <3>3, <3>4
    <2>6. ASSUME NEW f \in Fd, CloseEntry(f) PROVE TypeOK'
        BY <2>6 DEF CloseEntry, Closed
    <2>7. ASSUME NEW f \in Fd, OtherOpen(f) \/ OtherClose(f) PROVE TypeOK'
        BY <2>7 DEF OtherOpen, OtherClose, Closed
    <2>8. CASE UNCHANGED tcpVars
        BY <2>8
    <2> QED
        BY <2>1, <2>2, <2>3, <2>4, <2>5, <2>6, <2>7, <2>8, <2>9 DEF Next, Handler, StopWork
<1> QED
    BY <1>1, <1>2, PTL DEF Spec

-----------------------------------------------------------------------------
\* A set of connections is finite.
LEMMA ListedFinite ==
    ASSUME NEW f \in Fd
    PROVE  IsFiniteSet(Listed(f)) /\ Cardinality(Listed(f)) \in Nat
<1>1. Listed(f) \subseteq Conn /\ IsFiniteSet(Conn)
    BY TcpAssumption DEF TcpAssumption, Listed
<1> QED
    BY <1>1, FS_Subset, FS_CardinalityType

\* A step that moves no handler into or out of the listed states and leaves
\* the list alone keeps the count.
LEMMA SameListed ==
    ASSUME TypeOK, CountIsHandlers, UNCHANGED tracked,
           stopping' \in {"no", "flag", "listener"} => stopping \in {"no", "flag", "listener"},
           \A f \in Fd : Listed(f)' = Listed(f)
    PROVE  CountIsHandlers'
BY DEF CountIsHandlers

\* Tracking a connection adds one entry and one listed handler.
LEMMA TrackCounts ==
    ASSUME TypeOK, CountIsHandlers, Track
    PROVE  CountIsHandlers'
<1>1. PICK c \in Conn, g \in Fd : c = got /\ g = fd[c] /\ at[c] = "none"
    BY DEF Track, TypeOK
<1>2. fd' = fd /\ stopping' = stopping /\ at' = [at EXCEPT ![c] = "test"]
      /\ tracked' = [tracked EXCEPT ![g] = tracked[g] + 1]
    BY <1>1 DEF Track
<1>3. Listed(g)' = Listed(g) \cup {c} /\ c \notin Listed(g)
    BY <1>1, <1>2 DEF Listed, TypeOK
<1>4. Cardinality(Listed(g)') = Cardinality(Listed(g)) + 1
    <2>1. IsFiniteSet(Listed(g))
        BY <1>1, ListedFinite
    <2>2. Cardinality(Listed(g) \cup {c}) = Cardinality(Listed(g)) + 1
        BY <2>1, <1>3, FS_AddElement
    <2> QED
        BY <2>2, <1>3
<1>5. \A f \in Fd \ {g} : Listed(f)' = Listed(f)
    BY <1>1, <1>2 DEF Listed, TypeOK
<1> QED
    BY <1>1, <1>2, <1>4, <1>5 DEF CountIsHandlers, TypeOK

\* Forgetting one removes one entry and one listed handler.
LEMMA ForgetCounts ==
    ASSUME ~EraseAll, TypeOK, CountIsHandlers, NEW c \in Conn, Forget(c)
    PROVE  CountIsHandlers'
<1>1. PICK g \in Fd : g = fd[c] /\ at[c] = "forget" /\ c \in Listed(g)
    BY DEF Forget, TypeOK, Listed
<1>2. fd' = fd /\ stopping' = stopping /\ at' = [at EXCEPT ![c] = "gone"]
      /\ tracked' = [tracked EXCEPT ![g] = IF tracked[g] = 0 THEN 0 ELSE tracked[g] - 1]
    BY <1>1 DEF Forget
<1>3. Listed(g)' = Listed(g) \ {c}
    BY <1>1, <1>2 DEF Listed, TypeOK
<1>4. Cardinality(Listed(g)') = Cardinality(Listed(g)) - 1 /\ Cardinality(Listed(g)) \in Nat
    <2>1. IsFiniteSet(Listed(g)) /\ Cardinality(Listed(g)) \in Nat
        BY <1>1, ListedFinite
    <2>2. Cardinality(Listed(g) \ {c}) = Cardinality(Listed(g)) - 1
        BY <2>1, <1>1, FS_RemoveElement
    <2> QED
        BY <2>1, <2>2, <1>3
<1>5. Cardinality(Listed(g)') \in Nat
    <2>1. IsFiniteSet(Listed(g) \ {c})
        BY <1>1, ListedFinite, FS_RemoveElement
    <2> QED
        BY <2>1, <1>3, FS_CardinalityType
<1>6. \A f \in Fd \ {g} : Listed(f)' = Listed(f)
    BY <1>1, <1>2 DEF Listed, TypeOK
<1>7. SUFFICES ASSUME stopping \in {"no", "flag", "listener"}
               PROVE  \A f \in Fd : tracked'[f] = Cardinality(Listed(f)')
    BY <1>2 DEF CountIsHandlers
<1>8. tracked[g] = Cardinality(Listed(g))
    BY <1>1, <1>7 DEF CountIsHandlers
<1>9. tracked'[g] = Cardinality(Listed(g)')
    BY <1>1, <1>2, <1>4, <1>5, <1>8 DEF TypeOK
<1>10. \A f \in Fd \ {g} : tracked'[f] = Cardinality(Listed(f)')
    BY <1>2, <1>6, <1>7 DEF CountIsHandlers, TypeOK
<1> QED
    BY <1>9, <1>10

\* For any number of connections, client_fds_ of a server that erases one
\* entry at a time has exactly one entry per handler that is not done
\* (McServer.cpp:148-157, 231-239).
THEOREM TcpCount == ~EraseAll => (Spec => []CountIsHandlers)
<1> SUFFICES ASSUME ~EraseAll PROVE Spec => []CountIsHandlers
    OBVIOUS
<1>1. Init => CountIsHandlers
    <2> SUFFICES ASSUME Init PROVE CountIsHandlers
        OBVIOUS
    <2>1. \A f \in Fd : Listed(f) = {}
        BY DEF Init, Listed
    <2> QED
        BY <2>1, FS_EmptySet DEF CountIsHandlers, Init, NoneTracked
<1>2. TypeOK /\ CountIsHandlers /\ [Next]_tcpVars => CountIsHandlers'
    <2> SUFFICES ASSUME TypeOK, CountIsHandlers, [Next]_tcpVars PROVE CountIsHandlers'
        OBVIOUS
    <2>1. CASE TestRunning \/ AcceptFails
        BY <2>1, SameListed DEF TestRunning, AcceptFails, Listed
    <2>2. CASE Track
        BY <2>2, TrackCounts
    <2>3. ASSUME NEW c \in Conn, NEW f \in Fd, Accept(c, f) PROVE CountIsHandlers'
        <3>1. \A g \in Fd : Listed(g)' = Listed(g)
            BY <2>3 DEF Accept, Listed, TypeOK
        <3> QED
            BY <2>3, <3>1, SameListed DEF Accept
    <2>4. ASSUME NEW c \in Conn,
                 \/ Serve(c) \/ Recv(c) \/ Answer(c) \/ Disconnect(c)
                 \/ StrayReads(c) \/ CloseFd(c)
          PROVE  CountIsHandlers'
        <3>1. /\ at[c] \in {"test", "call", "recv", "stray", "close"}
              /\ UNCHANGED <<fd, tracked, stopping>>
              /\ \E s \in {"test", "call", "recv", "stray", "close", "forget"} :
                    at' = [at EXCEPT ![c] = s]
            BY <2>4 DEF Serve, Recv, Answer, Disconnect, StrayReads, CloseFd
        <3>2. \A g \in Fd : Listed(g)' = Listed(g)
            BY <3>1 DEF Listed, TypeOK
        <3> QED
            BY <3>1, <3>2, SameListed
    <2>5. ASSUME NEW c \in Conn, Forget(c) PROVE CountIsHandlers'
        BY <2>5, ForgetCounts
    <2>6. CASE StopFlag \/ StopListener \/ LockClients \/ Clear \/ Join
        BY <2>6 DEF StopFlag, StopListener, LockClients, Clear, Join, CountIsHandlers, Listed
    <2>7. ASSUME NEW f \in Fd, CloseEntry(f) \/ OtherOpen(f) \/ OtherClose(f)
          PROVE  CountIsHandlers'
        BY <2>7, SameListed DEF CloseEntry, OtherOpen, OtherClose, Listed
    <2>8. CASE UNCHANGED tcpVars
        BY <2>8, SameListed DEF tcpVars, Listed
    <2> QED
        BY <2>1, <2>2, <2>3, <2>4, <2>5, <2>6, <2>7, <2>8
        DEF Next, ServerLoop, Handler, StopWork
<1> QED
    BY <1>1, <1>2, TcpTyping, PTL DEF Spec

\* For any number of connections, the MC and XGT servers track every
\* connection they serve until stop takes the list (McServer.cpp:148).
THEOREM TcpTracked == ~EraseAll => (Spec => []ServedAreTracked)
<1> SUFFICES ASSUME ~EraseAll PROVE Spec => []ServedAreTracked
    OBVIOUS
<1>1. TypeOK /\ CountIsHandlers => ServedAreTracked
    <2> SUFFICES ASSUME TypeOK, CountIsHandlers, stopping \in {"no", "flag", "listener"},
                        NEW c \in Conn, at[c] \in {"test", "call", "recv"}
                 PROVE  tracked[fd[c]] > 0
        BY DEF ServedAreTracked
    <2>1. fd[c] \in Fd /\ c \in Listed(fd[c])
        BY DEF TypeOK, Listed
    <2>2. Cardinality(Listed(fd[c])) # 0 /\ Cardinality(Listed(fd[c])) \in Nat
        BY <2>1, ListedFinite, FS_EmptySet
    <2> QED
        BY <2>1, <2>2 DEF CountIsHandlers
<1> QED
    BY <1>1, TcpTyping, TcpCount, PTL
-----------------------------------------------------------------------------
\* While the server runs, an accepted connection that its handler has not
\* closed owns its descriptor, and no handler has become a stray.
Open == {"test", "call", "recv", "close"}

Owns ==
    running => \A c \in Conn :
        /\ (got = c \/ at[c] \in Open) => owner[fd[c]] = c
        /\ at[c] # "stray"

\* Steps that give no descriptor away and start no handler but the tracked one.
LEMMA OwnsKept ==
    ASSUME TypeOK, Owns, UNCHANGED <<owner, fd>>, running' => running,
           \A c \in Conn :
               /\ (got' = c \/ at'[c] \in Open) => (got = c \/ at[c] \in Open)
               /\ running /\ at'[c] = "stray" => at[c] = "stray"
    PROVE  Owns'
BY DEF Owns

\* A new connection takes a number that nobody's connection owns, and a
\* handler gives back its own and is then past its loop.
LEMMA OwnsMoved ==
    ASSUME TypeOK, Owns, NEW c \in Conn, (\E f \in Fd : Accept(c, f)) \/ CloseFd(c)
    PROVE  Owns'
<1>1. ASSUME NEW f \in Fd, Accept(c, f)
      PROVE  Owns'
    <2>1. owner[f] = Free /\ got = Free /\ at[c] = "none" /\ Free \notin Conn
        BY <1>1, TcpAssumption DEF Accept, TypeOK, TcpAssumption
    <2>2. /\ running' = running /\ at' = at /\ got' = c
          /\ owner' = [owner EXCEPT ![f] = c] /\ fd' = [fd EXCEPT ![c] = f]
        BY <1>1 DEF Accept
    <2>3. ASSUME running, NEW d \in Conn, d # c, at[d] \in Open
          PROVE  owner'[fd'[d]] = d
        <3>1. owner[fd[d]] = d /\ fd[d] # f /\ fd'[d] = fd[d] /\ fd[d] \in Fd
            BY <2>1, <2>2, <2>3 DEF Owns, TypeOK
        <3> QED
            BY <3>1, <2>2 DEF TypeOK
    <2>4. owner'[fd'[c]] = c
        BY <1>1, <2>2 DEF TypeOK
    <2> QED
        BY <2>2, <2>3, <2>4 DEF Owns
<1>2. CASE CloseFd(c)
    <2>1. /\ at[c] = "close" /\ running' = running /\ got' = got /\ fd' = fd
          /\ owner' = [owner EXCEPT ![fd[c]] = Free] /\ at' = [at EXCEPT ![c] = "forget"]
        BY <1>2 DEF CloseFd, Closed
    <2>2. SUFFICES ASSUME running, NEW d \in Conn, got = d \/ at'[d] \in Open
                   PROVE  owner'[fd[d]] = d
        BY <2>1 DEF Owns, TypeOK
    <2>3. d # c
        BY <2>1, <2>2, TcpAssumption DEF TypeOK, TcpAssumption, Open
    <2>4. owner[fd[d]] = d /\ owner[fd[c]] = c
        BY <2>1, <2>2, <2>3 DEF Owns, TypeOK, Open
    <2> QED
        BY <2>1, <2>3, <2>4 DEF TypeOK
<1> QED
    BY <1>1, <1>2

\* Whatever else the process opens and closes touches no connection's number.
LEMMA OwnsOthers ==
    ASSUME TypeOK, Owns, NEW f \in Fd, OtherOpen(f) \/ OtherClose(f)
    PROVE  Owns' /\ owner[f] \notin Conn
<1>1. /\ UNCHANGED <<running, got, at, fd>> /\ owner[f] \in {Free, Other}
      /\ \E o \in {Free, Other} : owner' = [owner EXCEPT ![f] = o]
    BY DEF OtherOpen, OtherClose, Closed
<1>2. owner[f] \notin Conn
    BY <1>1, TcpAssumption DEF TcpAssumption
<1>3. \A g \in Fd : owner[g] \in Conn => owner'[g] = owner[g]
    BY <1>1, <1>2 DEF TypeOK
<1> QED
    BY <1>1, <1>2, <1>3 DEF Owns, TypeOK

\* A handler that calls recv while the server runs finds its own connection.
LEMMA OwnsReceives ==
    ASSUME TypeOK, Owns, NEW c \in Conn, Recv(c) \/ StrayReads(c)
    PROVE  Owns'
<1>1. CASE Recv(c)
    <2>1. at[c] = "call" /\ UNCHANGED <<owner, fd, running, got>>
        BY <1>1 DEF Recv
    <2>2. running => owner[fd[c]] = c
        BY <2>1 DEF Owns, Open
    <2>3. running => at' = [at EXCEPT ![c] = "recv"]
        BY <1>1, <2>2, TcpAssumption DEF Recv, TcpAssumption
    <2> QED
        BY <2>1, <2>2, <2>3 DEF Owns, Open, TypeOK
<1>2. CASE StrayReads(c)
    BY <1>2 DEF StrayReads, Owns, TypeOK
<1> QED
    BY <1>1, <1>2

\* In every reachable state of any of the three servers.
LEMMA TcpOwns == Spec => []Owns
<1>1. Init => Owns
    BY TcpAssumption DEF Init, Owns, Open, TcpAssumption
<1>2. TypeOK /\ Owns /\ [Next]_tcpVars => Owns'
    <2> SUFFICES ASSUME TypeOK, Owns, [Next]_tcpVars PROVE Owns'
        OBVIOUS
    <2>1. CASE ServerLoop
        BY <2>1, OwnsKept, TcpAssumption
        DEF ServerLoop, TestRunning, AcceptFails, Track, TypeOK, TcpAssumption, Open
    <2>2. ASSUME NEW c \in Conn, (\E f \in Fd : Accept(c, f)) \/ CloseFd(c) PROVE Owns'
        BY <2>2, OwnsMoved
    <2>3. ASSUME NEW c \in Conn, Serve(c) \/ Answer(c) \/ Disconnect(c) \/ Forget(c)
          PROVE  Owns'
        BY <2>3, OwnsKept DEF Serve, Answer, Disconnect, Forget, TypeOK, Open
    <2>9. ASSUME NEW c \in Conn, Recv(c) \/ StrayReads(c) PROVE Owns'
        BY <2>9, OwnsReceives
    <2>4. CASE StopFlag
        BY <2>4 DEF StopFlag, Owns
    <2>5. CASE StopListener \/ LockClients \/ Clear \/ Join
        BY <2>5, OwnsKept DEF StopListener, LockClients, Clear, Join
    <2>6. ASSUME NEW f \in Fd, CloseEntry(f) PROVE Owns'
        BY <2>6 DEF CloseEntry, Owns, TypeOK
    <2>7. ASSUME NEW f \in Fd, OtherOpen(f) \/ OtherClose(f) PROVE Owns'
        BY <2>7, OwnsOthers
    <2>8. CASE UNCHANGED tcpVars
        BY <2>8, OwnsKept DEF tcpVars
    <2> QED
        BY <2>1, <2>2, <2>3, <2>4, <2>5, <2>6, <2>7, <2>8, <2>9 DEF Next, Handler, StopWork
<1> QED
    BY <1>1, <1>2, TcpTyping, PTL DEF Spec

\* For any number of connections and descriptors, and for all three servers:
\* while a server runs, every handler receives from its own connection
\* (McServer.cpp:172, 202).
THEOREM TcpReceives == Spec => []ReceivesFromOwn
<1>1. Owns => ReceivesFromOwn
    BY DEF Owns, Open, ReceivesFromOwn
<1> QED
    BY <1>1, TcpOwns, PTL

\* For any number of connections and descriptors, and for all three servers:
\* while a server runs, a connection's socket is closed by its own handler and
\* by nobody else (McServer.cpp:231-239).
THEOREM TcpOwn == Spec => OwnHandlerCloses
<1>1. TypeOK /\ Owns /\ [Next]_tcpVars =>
        [\A f \in Fd : running /\ owner[f] \in Conn /\ owner'[f] # owner[f] =>
            at[owner[f]] = "close" /\ at'[owner[f]] = "forget"]_tcpVars
    <2> SUFFICES ASSUME TypeOK, Owns, Next, NEW f \in Fd,
                        running, owner[f] \in Conn, owner'[f] # owner[f]
                 PROVE  at[owner[f]] = "close" /\ at'[owner[f]] = "forget"
        OBVIOUS
    <2>1. ASSUME NEW c \in Conn, NEW g \in Fd, Accept(c, g) PROVE FALSE
        BY <2>1, TcpAssumption DEF Accept, TypeOK, TcpAssumption
    <2>2. ASSUME NEW c \in Conn, CloseFd(c)
          PROVE  at[owner[f]] = "close" /\ at'[owner[f]] = "forget"
        <3>1. f = fd[c] /\ at[c] = "close" /\ at'[c] = "forget"
            BY <2>2 DEF CloseFd, Closed, TypeOK
        <3>2. owner[f] = c
            BY <3>1 DEF Owns, Open
        <3> QED
            BY <3>1, <3>2
    <2>3. ASSUME NEW g \in Fd, OtherOpen(g) \/ OtherClose(g) PROVE FALSE
        BY <2>3, OwnsOthers DEF OtherOpen, OtherClose, Closed, TypeOK
    <2>4. ASSUME NEW g \in Fd, CloseEntry(g) PROVE FALSE
        BY <2>4 DEF CloseEntry, TypeOK
    <2>5. ASSUME NEW c \in Conn, Serve(c) \/ Answer(c) \/ Disconnect(c) \/ Forget(c) PROVE FALSE
        BY <2>5 DEF Serve, Answer, Disconnect, Forget
    <2>7. ASSUME NEW c \in Conn, Recv(c) \/ StrayReads(c) PROVE FALSE
        BY <2>7 DEF Recv, StrayReads
    <2>6. CASE ServerLoop \/ StopFlag \/ StopListener \/ LockClients \/ Clear \/ Join
        BY <2>6 DEF ServerLoop, TestRunning, AcceptFails, Track, StopFlag, StopListener,
                    LockClients, Clear, Join
    <2> QED
        BY <2>1, <2>2, <2>3, <2>4, <2>5, <2>6, <2>7 DEF Next, Handler, StopWork
<1> QED
    BY <1>1, TcpTyping, TcpOwns, PTL DEF Spec, OwnHandlerCloses
=============================================================================
