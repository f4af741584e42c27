------------------------------ MODULE Requests -----------------------------
(***************************************************************************)
(* Requests on open connections of one server: handleClient's loop of the  *)
(* Modbus, MC and XGT servers, from the bytes of a request to its answer,  *)
(* with two or more clients working on the same memory.                    *)
(*                                                                         *)
(* A Modbus request makes one call of a block accessor, which holds mutex_ *)
(* for the whole block; the others make one call for each point.  Clients  *)
(* wait for an answer before they send again, and may hang up and connect  *)
(* again at any time.  TcpServer has the life of the connection itself.    *)
(***************************************************************************)
EXTENDS ModbusRequest, McRequest, XgtRequest

CONSTANTS
    Client,
    Quitters,   \* clients that may hang up
    Server,     \* the servers the clients may be connected to
    Sends,      \* Sends[c]: the requests client c may send
    Own,        \* Own[c]: cells only client c writes
    Shared      \* cells written as one block only, to one value

\* A request as the client means it: the server it is for, and the writes it
\* has a right to find done when it is answered, in the order of its cells.
ASSUME RequestsAssumption ==
    /\ Quitters \subseteq Client
    /\ Server \subseteq {"modbus", "mc", "xgt"}
    /\ \A c \in Client : Own[c] \subseteq Cell \ Shared
    /\ \A c, d \in Client : c # d => Own[c] \cap Own[d] = {}

\* A Modbus request that reaches Shared at all writes all of it, to one value.
WritesWhole(r) ==
    LET cells == ModbusCells(r)
        part == {i \in 1 .. Len(cells) : cells[i] \in Shared}
    IN  /\ {r.start, r.qty} \subseteq Nat
        /\ ModbusWrites(r) /\ ~ModbusHeaderRefused(r) /\ part # {} =>
              /\ Shared \subseteq {cells[i] : i \in part}
              /\ \A i, j \in part :
                    Narrow(cells[i], ModbusValue(r, i)) = Narrow(cells[j], ModbusValue(r, j))

ASSUME SharedAssumption ==
    /\ Shared \subseteq Cell
    /\ \A c \in Client : \A r \in Sends[c] : r.server = "modbus" => WritesWhole(r)

VARIABLES
    mem,
    server,   \* the server of this behaviour's connections
    pc,       \* pc[c]: where the handler of c's connection is
    req,      \* req[c]: c's request that has not been answered
    left,     \* left[c]: bytes of answered requests still in the stream
    k,        \* k[c]: next access of the request being processed
    got,      \* got[c]: the values it has read
    gone,     \* gone[c]: the client has hung up
    due       \* due[c]: what client c must find in its own cells

vars == <<mem, server, pc, req, left, k, got, gone, due>>

None == [server |-> "none"]

-----------------------------------------------------------------------------
\* The three protocols.
HeaderRefused(r) ==
    CASE r.server = "modbus" -> ModbusHeaderRefused(r)
      [] r.server = "mc"     -> McHeaderRefused(r)
      [] r.server = "xgt"    -> XgtHeaderRefused(r)

\* Bytes behind the header, as sent and as taken: Modbus and MC handlers
\* take what the header announces, which is what was sent.
Sent(r)  == IF r.server = "xgt" THEN XgtSent(r) ELSE 0
Taken(r) == IF r.server = "xgt" THEN XgtTaken(r) ELSE 0

Writes(r) == IF r.server = "modbus" THEN ModbusWrites(r) ELSE r.cmd = "write"

Cells(r) ==
    CASE r.server = "modbus" -> ModbusCells(r)
      [] r.server = "mc"     -> McCells(r)
      [] r.server = "xgt"    -> XgtCells(r)

Value(r, i) ==
    CASE r.server = "modbus" -> ModbusValue(r, i)
      [] r.server = "mc"     -> r.data[i]
      [] r.server = "xgt"    -> XgtValue(r, i)

\* Mutant: the block accessors take the lock for each cell.
AtomicNever(r) == FALSE

\* The accesses of the request are one critical section of mutex_.
Atomic(r) == r.server = "modbus"

-----------------------------------------------------------------------------
Init ==
    /\ mem = ZeroMemory
    /\ server \in Server
    /\ pc = [c \in Client |-> "header"]
    /\ req = [c \in Client |-> None]
    /\ left = [c \in Client |-> 0]
    /\ k = [c \in Client |-> 1]
    /\ got = [c \in Client |-> <<>>]
    /\ gone = [c \in Client |-> FALSE]
    /\ due = [c \in Client |-> [x \in Own[c] |-> 0]]

\* The client sends its next request.
Send(c, r) ==
    /\ r.server = server
    /\ req[c] = None
    /\ ~gone[c]
    /\ pc[c] = "header"
    /\ req' = [req EXCEPT ![c] = r]
    /\ UNCHANGED <<mem, server, pc, left, k, got, gone, due>>

\* The connection ends: its request, if any, goes with it.
Close(c) ==
    /\ pc' = [pc EXCEPT ![c] = "closed"]
    /\ req' = [req EXCEPT ![c] = None]
    /\ UNCHANGED <<mem, server, left, k, got, gone, due>>

\* The header's bytes have come.  Behind bytes left over they are no header.
ReadHeader(c) ==
    /\ pc[c] = "header"
    /\ req[c] # None
    /\ left[c] = 0
    /\ ~HeaderRefused(req[c])
    /\ pc' = [pc EXCEPT ![c] = "body"]
    /\ UNCHANGED <<mem, server, req, left, k, got, gone, due>>

RefuseHeader(c) ==
    /\ pc[c] = "header"
    /\ req[c] # None
    /\ left[c] # 0 \/ HeaderRefused(req[c])
    /\ Close(c)

\* The body's bytes have come, and for XGT what the drain layer adds.  A
\* handler that wants more than was sent goes on waiting.
ReadBody(c) ==
    /\ pc[c] = "body"
    /\ Taken(req[c]) <= Sent(req[c])
    /\ pc' = [pc EXCEPT ![c] = "access"]
    /\ left' = [left EXCEPT ![c] = Sent(req[c]) - Taken(req[c])]
    /\ UNCHANGED <<mem, server, req, k, got, gone, due>>

\* A client with a short length field hangs up before its last bytes: the
\* drain layer gives up, and what has come is processed all the same.
DrainFails(c) ==
    /\ gone[c]
    /\ server = "xgt"
    /\ pc[c] = "body"
    /\ XgtLength(req[c]) < XgtNeeds(req[c])
    /\ pc' = [pc EXCEPT ![c] = "access"]
    /\ req' = [req EXCEPT ![c].cut = TRUE]
    /\ UNCHANGED <<mem, server, left, k, got, gone, due>>

\* What accesses i to j of a write leave in memory, and what those of a read
\* find there.
Stored(r, cells, i, j) ==
    LET last(x) == Max({n \in i .. j : cells[n] = x})
        hit == {cells[n] : n \in i .. j}
    IN  [x \in Cell |-> IF x \in hit THEN Narrow(x, Value(r, last(x))) ELSE mem[x]]

Loaded(cells, i, j) == [n \in 1 .. (j - i + 1) |-> ReadValue(mem, cells[i + n - 1])]

\* Calls from i to j of the accessors a request uses.
Perform(c, r, cells, i, j) ==
    IF Writes(r) THEN mem' = Stored(r, cells, i, j) /\ UNCHANGED got
                 ELSE got' = [got EXCEPT ![c] = @ \o Loaded(cells, i, j)] /\ UNCHANGED mem

\* The next call, or the one call of a block accessor.
Access(c) ==
    LET r == req[c]
        cells == Cells(r)
        n == IF Atomic(r) THEN Len(cells) ELSE k[c]
    IN  /\ pc[c] = "access"
        /\ k[c] <= Len(cells)
        /\ Perform(c, r, cells, k[c], n)
        /\ k' = [k EXCEPT ![c] = n + 1]
        /\ UNCHANGED <<server, pc, req, left, gone, due>>

\* The request is done: all its accesses are.
Done(c) == pc[c] = "access" /\ k[c] > Len(Cells(req[c]))

\* What of the meaning of a request holds when it is done: all, or of one
\* that was cut short the blocks before the last.
Meaning(r) ==
    IF r.server # "xgt" THEN r.meant
    ELSE IF ~r.cut THEN r.meant
    ELSE IF r.continuous THEN <<>>
    ELSE SubSeq(r.meant, 1, Min({Len(r.meant), Len(r.blocks) - 1}))

MeantFor(r, x) == {i \in 1 .. Len(Meaning(r)) : Meaning(r)[i].cell = x}

\* The client's own cells after the writes it means.
DueAfter(c, r) ==
    [x \in Own[c] |-> IF ~Writes(r) \/ MeantFor(r, x) = {} THEN due[c][x]
                      ELSE Meaning(r)[Max(MeantFor(r, x))].value]

\* Mutant: the response buffer is not cleared for the next request.
AnswerKeepsBuffer(c) ==
    /\ Done(c)
    /\ pc' = [pc EXCEPT ![c] = "header"]
    /\ req' = [req EXCEPT ![c] = None]
    /\ due' = [due EXCEPT ![c] = DueAfter(c, req[c])]
    /\ k' = [k EXCEPT ![c] = 1]
    /\ UNCHANGED <<mem, server, left, got, gone>>

\* The answer is sent; to a client that has hung up, send may fail.
Answer(c) ==
    /\ Done(c)
    /\ pc' = [pc EXCEPT ![c] = "header"]
    /\ req' = [req EXCEPT ![c] = None]
    /\ due' = [due EXCEPT ![c] = DueAfter(c, req[c])]
    /\ k' = [k EXCEPT ![c] = 1]
    /\ got' = [got EXCEPT ![c] = <<>>]
    /\ UNCHANGED <<mem, server, left, gone>>

AnswerFails(c) ==
    /\ Done(c)
    /\ gone[c]
    /\ pc' = [pc EXCEPT ![c] = "closed"]
    /\ req' = [req EXCEPT ![c] = None]
    /\ due' = [due EXCEPT ![c] = DueAfter(c, req[c])]
    /\ k' = [k EXCEPT ![c] = 1]
    /\ got' = [got EXCEPT ![c] = <<>>]
    /\ UNCHANGED <<mem, server, left, gone>>

HangUp(c) ==
    /\ c \in Quitters
    /\ ~gone[c]
    /\ pc[c] # "closed"
    /\ gone' = [gone EXCEPT ![c] = TRUE]
    /\ UNCHANGED <<mem, server, pc, req, left, k, got, due>>

\* Mutant: a batch is given up where it stands when the client has gone.
ReadFailsInBatch(c) ==
    /\ gone[c]
    /\ pc[c] \in {"header", "body", "access"}
    /\ Close(c)

\* recv finds the stream ended: a client that hangs up may have sent nothing,
\* or only a part of its request.
ReadFails(c) ==
    /\ gone[c]
    /\ pc[c] \in {"header", "body"}
    /\ Close(c)

\* The client connects again: a new socket, a new handler.
Connect(c) ==
    /\ pc[c] = "closed"
    /\ pc' = [pc EXCEPT ![c] = "header"]
    /\ left' = [left EXCEPT ![c] = 0]
    /\ gone' = [gone EXCEPT ![c] = FALSE]
    /\ UNCHANGED <<mem, server, req, k, got, due>>

Handle(c) ==
    \/ ReadHeader(c) \/ RefuseHeader(c) \/ ReadBody(c) \/ DrainFails(c) \/ Access(c)
    \/ Answer(c) \/ AnswerFails(c) \/ ReadFails(c)

Next ==
    \E c \in Client :
        \/ \E r \in Sends[c] : Send(c, r)
        \/ Handle(c) \/ HangUp(c) \/ Connect(c)

Spec == Init /\ [][Next]_vars

\* A handler thread that can go on does.
FairSpec == Spec /\ \A c \in Client : WF_vars(Handle(c))
-----------------------------------------------------------------------------
(* What the theorems suppose of single requests, each taken alone; TLC     *)
(* evaluates it for the requests of its instance.                          *)

\* XGT's lengths: a client whose length field is short sends reads and writes
\* only, and no block of 32 bytes, which the server takes for two.
CountedRequests ==
    \A c \in Client : \A r \in Sends[c] : r.server = "xgt" =>
        /\ {XgtSent(r), XgtNeeds(r)} \subseteq Nat
        /\ r.exact \/ (r.cmd \in {"read", "write"} /\ \A i \in 1 .. Len(r.blocks) : r.blocks[i].len # 32)

\* The requests of c that come to be processed: whole, or cut short.
Processed(c) ==
    LET accepted == {r \in Sends[c] : r.server \in Server /\ ~HeaderRefused(r)}
    IN  accepted
          \cup {[r EXCEPT !.cut = TRUE] :
                  r \in {q \in accepted : q.server = "xgt" /\ XgtLength(q) < XgtNeeds(q)}}

\* A write's accesses: each one in an own cell is one the client means, no
\* other client's cell is among them, and the last one of each own cell
\* stores the last value meant for it.
WritesAsMeant(c, r) ==
    LET cells == Cells(r)
        hits(x) == {i \in 1 .. Len(cells) : cells[i] = x}
    IN  /\ \A i \in 1 .. Len(cells), d \in Client : cells[i] \in Own[d] =>
              /\ d = c
              /\ \E j \in 1 .. Len(r.meant) :
                    r.meant[j] = [cell |-> cells[i], value |-> Narrow(cells[i], Value(r, i))]
        /\ \A x \in Own[c] :
              /\ hits(x) = {} <=> MeantFor(r, x) = {}
              /\ \A i \in hits(x) : (\A j \in hits(x) : j <= i) =>
                    Narrow(x, Value(r, i)) = Meaning(r)[Max(MeantFor(r, x))].value

\* A read's accesses: each own cell the client asks for is read at its place.
ReadsAsMeant(c, r) ==
    \A i \in 1 .. Len(Meaning(r)) : Meaning(r)[i].cell \in Own[c] =>
        i <= Len(Cells(r)) /\ Cells(r)[i] = Meaning(r)[i].cell

MeantRequests ==
    \A c \in Client : \A r \in Processed(c) :
        /\ r.server \in Server
        /\ r \in Sends[c] \/ r.server = "xgt"
        /\ Len(Cells(r)) \in Nat
        /\ IF Writes(r) THEN WritesAsMeant(c, r) ELSE ReadsAsMeant(c, r)

-----------------------------------------------------------------------------
\* "We inspect the body and read the exact remaining bytes"
\* (XgtServer.cpp:198): however a client fills the length field, the next
\* header is read where the next request starts.
InStep == \A c \in Client : left[c] = 0

\* A client's own cells hold the writes it means, once they are answered:
\* all of an accepted request, of a refused one nothing but the blocks of an
\* XGT request before the bad or missing one.  Nobody else's request, and no
\* request of its own that names other cells, has changed them.
OwnWritesHold ==
    \A c \in Client : \A x \in Own[c] :
        \/ mem[x] = due[c][x]
        \/ /\ req[c] # None
           /\ Writes(req[c])
           /\ \E i \in 1 .. Len(req[c].meant) :
                 req[c].meant[i] = [cell |-> x, value |-> mem[x]]

\* A read gives a client the last value it wrote to each of its own cells,
\* and gives it at the place of that cell in the response.
ReadsOwnWrites ==
    \A c \in Client : Done(c) /\ ~Writes(req[c]) =>
        \A i \in 1 .. Len(Meaning(req[c])) :
            Meaning(req[c])[i].cell \in Own[c] =>
                got[c][i] = due[c][Meaning(req[c])[i].cell]

\* A block that Modbus clients write as a whole is read as a whole: no
\* response mixes two writes (PlcMemory.cpp:170-204, one lock for a block).
BlocksWhole ==
    \A c \in Client : Done(c) /\ server = "modbus" =>
        \A i, j \in 1 .. Len(got[c]) :
            {Cells(req[c])[i], Cells(req[c])[j]} \subseteq Shared => got[c][i] = got[c][j]

\* A request whose header is accepted is answered, unless the client gives up:
\* no handler waits for bytes its client has no reason to send.
Answered ==
    \A c \in Client :
        req[c] # None /\ ~HeaderRefused(req[c]) ~> req[c] = None \/ gone[c]
=============================================================================
