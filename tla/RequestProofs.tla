--------------------------- MODULE RequestProofs ---------------------------
(***************************************************************************)
(* For any number of clients, whatever they send and whenever they hang up *)
(* and come back.                                                          *)
(*   BlocksRead     a block that Modbus clients only write as a whole is   *)
(*                  only read as a whole: a request makes one call, and a  *)
(*                  call is one critical section.                          *)
(*   StreamInStep   what is taken of a request is what was sent of it, so  *)
(*                  the next header is read where it starts (the invariant *)
(*                  is StepInv).                                           *)
(*   OwnWritesStay  a client's cells hold what it means, on every server.  *)
(*   OwnWritesRead  and its reads find it, in place (the invariant of both *)
(*                  is OwnInv).                                            *)
(* The last three rest on what single requests are, CountedRequests and    *)
(* MeantRequests, which TLC evaluates for the requests of its instance.    *)
(***************************************************************************)
EXTENDS Requests, TLAPS

\* A Modbus request makes one call on consecutive cells, each of them once.
LEMMA ModbusCalls ==
    ASSUME NEW r, r.server = "modbus"
    PROVE  /\ HeaderRefused(r) = ModbusHeaderRefused(r)
           /\ Writes(r) = ModbusWrites(r)
           /\ Cells(r) = ModbusCells(r)
           /\ \A i : Value(r, i) = ModbusValue(r, i)
           /\ Atomic(r)
BY DEF HeaderRefused, Writes, Cells, Value, Atomic

LEMMA CellsOnce ==
    ASSUME NEW r, r.start \in Nat, r.qty \in Nat
    PROVE  /\ Len(ModbusCells(r)) \in Nat
           /\ \A i, j \in 1 .. Len(ModbusCells(r)) :
                 ModbusCells(r)[i] = ModbusCells(r)[j] => i = j
<1>1. CASE ModbusRefused(r)
    BY <1>1 DEF ModbusCells
<1>2. CASE ~ModbusRefused(r)
    <2> DEFINE n == IF r.fc \in Singles THEN 1 ELSE r.qty
               cells == [i \in 1 .. n |-> Ref(ModbusArea(r.fc), r.start + i - 1)]
    <2>1. ModbusCells(r) = cells /\ n \in Nat
        BY <1>2 DEF ModbusCells
    <2>2. Len(cells) = n
        BY <2>1
    <2>3. \A i, j \in 1 .. n : cells[i] = cells[j] => i = j
        BY <2>1 DEF Ref
    <2> HIDE DEF cells, n
    <2> QED
        BY <2>1, <2>2, <2>3
<1> QED
    BY <1>1, <1>2

\* The last access of a cell is the only one.
LEMMA OneAccess ==
    ASSUME NEW n \in Nat, NEW S, S = {n}
    PROVE  Max(S) = n
<1>1. n \in S /\ \A y \in S : n >= y
    OBVIOUS
<1>2. \A x \in S : x = n
    OBVIOUS
<1> QED
    BY <1>1, <1>2 DEF Max

\* A write that reaches a block leaves one value in all of it; one that does
\* not leaves it alone.
LEMMA BlockStored ==
    ASSUME NEW r, r.server = "modbus", WritesWhole(r), Writes(r), ~HeaderRefused(r),
           DOMAIN mem = Cell, Shared \subseteq Cell,
           \A x, y \in Shared : mem[x] = mem[y]
    PROVE  LET m == Stored(r, Cells(r), 1, Len(Cells(r)))
           IN  DOMAIN m = Cell /\ \A x, y \in Shared : m[x] = m[y]
<1> DEFINE cells == ModbusCells(r)
           n == Len(cells)
           part == {i \in 1 .. n : cells[i] \in Shared}
           m == Stored(r, cells, 1, n)
<1>1. /\ Cells(r) = cells /\ ModbusWrites(r) /\ ~ModbusHeaderRefused(r)
      /\ \A i : Value(r, i) = ModbusValue(r, i)
    BY ModbusCalls
<1>2. /\ n \in Nat
      /\ \A i, j \in 1 .. n : cells[i] = cells[j] => i = j
    BY CellsOnce DEF WritesWhole
<1>3. /\ part # {} => Shared \subseteq {cells[i] : i \in part}
      /\ \A i, j \in part :
            Narrow(cells[i], ModbusValue(r, i)) = Narrow(cells[j], ModbusValue(r, j))
    BY <1>1 DEF WritesWhole
<1> HIDE DEF cells, n
<1>4. /\ DOMAIN m = Cell
      /\ \A x \in Cell : m[x] = IF x \in {cells[i] : i \in 1 .. n}
                                THEN Narrow(x, Value(r, Max({i \in 1 .. n : cells[i] = x})))
                                ELSE mem[x]
    BY DEF Stored
<1>5. ASSUME NEW i \in part
      PROVE  m[cells[i]] = Narrow(cells[i], ModbusValue(r, i))
    <2>1. i \in 1 .. n /\ i \in Nat /\ cells[i] \in Cell
        BY <1>2
    <2>2. {j \in 1 .. n : cells[j] = cells[i]} = {i}
        BY <1>2, <2>1
    <2>3. Max({j \in 1 .. n : cells[j] = cells[i]}) = i
        BY <2>1, <2>2, OneAccess
    <2> HIDE DEF m
    <2> QED
        BY <1>1, <1>4, <2>1, <2>3
<1>6. CASE part = {}
    <2> HIDE DEF m
    <2>1. \A x \in Shared : x \notin {cells[i] : i \in 1 .. n}
        BY <1>6
    <2>2. \A x \in Shared : m[x] = mem[x]
        BY <1>4, <2>1
    <2> QED
        BY <1>1, <1>4, <2>2 DEF m, n
<1>7. CASE part # {}
    <2> HIDE DEF m
    <2>1. ASSUME NEW x \in Shared, NEW y \in Shared
          PROVE  m[x] = m[y]
        <3>1. PICK i \in part, j \in part : x = cells[i] /\ y = cells[j]
            BY <1>3, <1>7
        <3> QED
            BY <1>3, <1>5, <3>1
    <2> QED
        BY <1>1, <1>4, <2>1 DEF m, n
<1> QED
    BY <1>6, <1>7
-----------------------------------------------------------------------------
\* What one client's handler knows: its request is one the client may send and
\* has been let through the header's checks; it has made no call or its one
\* call, and what that has read of the block is one value.
Handler(c) ==
    /\ pc[c] \in {"header", "closed"} => k[c] = 1 /\ got[c] = <<>>
    /\ pc[c] = "closed" => req[c] = None
    /\ pc[c] = "header" => req[c] = None \/ (req[c].server = "modbus" /\ req[c] \in Sends[c])
    /\ pc[c] \in {"body", "access"} =>
          /\ req[c].server = "modbus" /\ req[c] \in Sends[c]
          /\ ~HeaderRefused(req[c])
    /\ pc[c] = "body" => k[c] = 1 /\ got[c] = <<>>
    /\ pc[c] = "access" =>
          \/ k[c] = 1 /\ got[c] = <<>>
          \/ /\ k[c] = Len(Cells(req[c])) + 1
             /\ \A i, j \in 1 .. Len(got[c]) :
                   {Cells(req[c])[i], Cells(req[c])[j]} \subseteq Shared => got[c][i] = got[c][j]

Shape ==
    /\ DOMAIN mem = Cell
    /\ pc \in [Client -> {"header", "body", "access", "closed"}]
    /\ DOMAIN req = Client /\ DOMAIN k = Client /\ DOMAIN got = Client

IInv ==
    server = "modbus" =>
        /\ Shape
        /\ \A x, y \in Shared : mem[x] = mem[y]
        /\ \A c \in Client : Handler(c)

\* A read of the block in one call.
LEMMA BlockLoaded ==
    ASSUME NEW cells, NEW n \in Nat, Shared \subseteq Cell, \A x, y \in Shared : mem[x] = mem[y]
    PROVE  /\ Len(<<>> \o Loaded(cells, 1, n)) = n
           /\ \A i, j \in 1 .. n : {cells[i], cells[j]} \subseteq Shared =>
                 (<<>> \o Loaded(cells, 1, n))[i] = (<<>> \o Loaded(cells, 1, n))[j]
<1> DEFINE s == [i \in 1 .. n |-> ReadValue(mem, cells[i])]
<1>1. Loaded(cells, 1, n) = s
    BY DEF Loaded
<1>2. s \in Seq({ReadValue(mem, cells[i]) : i \in 1 .. n}) /\ Len(s) = n
    OBVIOUS
<1>3. <<>> \o s = s
    BY <1>2
<1>4. \A i, j \in 1 .. n : {cells[i], cells[j]} \subseteq Shared => s[i] = s[j]
    BY DEF ReadValue
<1> QED
    BY <1>1, <1>2, <1>3, <1>4

\* A client's step leaves the other handlers as they are.
LEMMA OthersKept ==
    ASSUME NEW c \in Client, IInv, server = "modbus", server' = server, Shape',
           \A x, y \in Shared : mem'[x] = mem'[y], Handler(c)',
           \A d \in Client \ {c} : /\ pc'[d] = pc[d] /\ req'[d] = req[d]
                                   /\ k'[d] = k[d] /\ got'[d] = got[d]
    PROVE  IInv'
<1>1. ASSUME NEW d \in Client, d # c PROVE Handler(d)'
    BY <1>1 DEF IInv, Handler
<1> QED
    BY <1>1 DEF IInv

\* The one call of a request.
LEMMA AccessKeeps ==
    ASSUME NEW c \in Client, IInv, server = "modbus", Access(c)
    PROVE  IInv'
<1> DEFINE r == req[c]
           cells == Cells(r)
           n == Len(cells)
<1>1. /\ r.server = "modbus" /\ WritesWhole(r) /\ ~HeaderRefused(r) /\ Atomic(r)
      /\ n \in Nat /\ Shared \subseteq Cell /\ Shape
      /\ \A x, y \in Shared : mem[x] = mem[y]
    BY SharedAssumption, ModbusCalls, CellsOnce DEF IInv, Handler, Access, WritesWhole
<1>2. k[c] = 1 /\ got[c] = <<>>
    BY <1>1 DEF IInv, Handler, Access
<1>3. /\ pc[c] = "access" /\ Perform(c, r, cells, 1, n)
      /\ k' = [k EXCEPT ![c] = n + 1] /\ UNCHANGED <<server, pc, req, left, gone, due>>
    BY <1>1, <1>2 DEF Access
<1>4. CASE Writes(r)
    <2>1. mem' = Stored(r, cells, 1, n) /\ got' = got
        BY <1>3, <1>4 DEF Perform
    <2>2. DOMAIN mem' = Cell /\ \A x, y \in Shared : mem'[x] = mem'[y]
        <3>1. DOMAIN mem = Cell
            BY <1>1 DEF Shape
        <3>2. LET m == Stored(r, Cells(r), 1, Len(Cells(r)))
              IN  DOMAIN m = Cell /\ \A x, y \in Shared : m[x] = m[y]
            <4> HIDE DEF r
            <4> QED
                BY <1>1, <1>4, <3>1, BlockStored
        <3> QED
            BY <2>1, <3>2
    <2>3. Shape' /\ Handler(c)'
        BY <1>1, <1>2, <1>3, <2>1, <2>2 DEF Shape, Handler, IInv
    <2> QED
        BY <1>3, <2>1, <2>2, <2>3, OthersKept DEF Shape, IInv
<1>5. CASE ~Writes(r)
    <2>1. mem' = mem /\ got' = [got EXCEPT ![c] = <<>> \o Loaded(cells, 1, n)]
        BY <1>2, <1>3, <1>5 DEF Perform
    <2>2. Shape'
        BY <1>1, <1>3, <2>1 DEF Shape
    <2>3. got'[c] = <<>> \o Loaded(cells, 1, n)
        BY <1>1, <2>1 DEF Shape
    <2>4. /\ Len(got'[c]) = n
          /\ \A i, j \in 1 .. n : {cells[i], cells[j]} \subseteq Shared => got'[c][i] = got'[c][j]
        BY <1>1, <2>3, BlockLoaded
    <2>5. Handler(c)'
        BY <1>1, <1>3, <2>4 DEF Handler, Shape, IInv
    <2> QED
        BY <1>1, <1>3, <2>1, <2>2, <2>5, OthersKept DEF Shape
<1> QED
    BY <1>4, <1>5

\* For any number of clients and registers, and any requests that write the
\* shared block as a whole: no response of the Modbus server mixes two writes
\* of it (PlcMemory.cpp:170-204).
THEOREM BlocksRead == Spec => []BlocksWhole
<1>1. Init => IInv
    <2> SUFFICES ASSUME Init PROVE IInv
        OBVIOUS
    <2>1. Shape
        BY DEF Init, Shape, ZeroMemory
    <2>2. \A x, y \in Shared : mem[x] = mem[y]
        BY SharedAssumption DEF Init, ZeroMemory
    <2>3. \A c \in Client : Handler(c)
        BY DEF Init, Handler
    <2> QED
        BY <2>1, <2>2, <2>3 DEF IInv
<1>2. IInv /\ [Next]_vars => IInv'
    <2> SUFFICES ASSUME IInv, [Next]_vars, server' = "modbus" PROVE IInv'
        BY DEF IInv
    <2>0. CASE UNCHANGED vars
        BY <2>0 DEF IInv, Shape, Handler, vars
    <2>1. ASSUME NEW c \in Client, Access(c) PROVE IInv'
        BY <2>1, AccessKeeps DEF Access
    <2>2. ASSUME NEW c \in Client, NEW r \in Sends[c], Send(c, r) PROVE IInv'
        <3>1. server = "modbus" /\ Shape'
            BY <2>2 DEF Send, IInv, Shape
        <3>2. Handler(c)'
            BY <2>2, <3>1 DEF Send, IInv, Shape, Handler
        <3> QED
            BY <2>2, <3>1, <3>2, OthersKept DEF Send, IInv, Shape
    <2>3. ASSUME NEW c \in Client, ReadHeader(c) \/ ReadBody(c) PROVE IInv'
        <3>1. server = "modbus" /\ Shape'
            BY <2>3 DEF ReadHeader, ReadBody, IInv, Shape
        <3>2. Handler(c)'
            BY <2>3, <3>1 DEF ReadHeader, ReadBody, IInv, Shape, Handler
        <3> QED
            BY <2>3, <3>1, <3>2, OthersKept DEF ReadHeader, ReadBody, IInv, Shape
    <2>4. ASSUME NEW c \in Client, RefuseHeader(c) \/ ReadFails(c) PROVE IInv'
        <3>1. server = "modbus" /\ Shape'
            BY <2>4 DEF RefuseHeader, ReadFails, Close, IInv, Shape
        <3>2. Handler(c)'
            BY <2>4, <3>1 DEF RefuseHeader, ReadFails, Close, IInv, Shape, Handler
        <3> QED
            BY <2>4, <3>1, <3>2, OthersKept DEF RefuseHeader, ReadFails, Close, IInv, Shape
    <2>5. ASSUME NEW c \in Client, Answer(c) \/ AnswerFails(c) PROVE IInv'
        <3>1. server = "modbus" /\ Shape'
            BY <2>5 DEF Answer, AnswerFails, IInv, Shape
        <3>2. Handler(c)'
            BY <2>5, <3>1 DEF Answer, AnswerFails, IInv, Shape, Handler
        <3> QED
            BY <2>5, <3>1, <3>2, OthersKept DEF Answer, AnswerFails, IInv, Shape
    <2>6. ASSUME NEW c \in Client, HangUp(c) \/ Connect(c) PROVE IInv'
        <3>1. server = "modbus" /\ Shape'
            BY <2>6 DEF HangUp, Connect, IInv, Shape
        <3>2. Handler(c)'
            BY <2>6, <3>1 DEF HangUp, Connect, IInv, Shape, Handler
        <3> QED
            BY <2>6, <3>1, <3>2, OthersKept DEF HangUp, Connect, IInv, Shape
    <2>7. ASSUME NEW c \in Client, DrainFails(c) PROVE IInv'
        BY <2>7 DEF DrainFails
    <2> QED
        BY <2>0, <2>1, <2>2, <2>3, <2>4, <2>5, <2>6, <2>7 DEF Next, Handle
<1>3. IInv => BlocksWhole
    <2> SUFFICES ASSUME IInv, server = "modbus", NEW c \in Client, Done(c)
                 PROVE  \A i, j \in 1 .. Len(got[c]) :
                            {Cells(req[c])[i], Cells(req[c])[j]} \subseteq Shared => got[c][i] = got[c][j]
        BY DEF BlocksWhole
    <2>1. Handler(c) /\ pc[c] = "access"
        BY DEF IInv, Done
    <2>2. CASE got[c] = <<>>
        BY <2>2
    <2> QED
        BY <2>1, <2>2 DEF Handler
<1> QED
    BY <1>1, <1>2, <1>3, PTL DEF Spec
-----------------------------------------------------------------------------
(***************************************************************************)
(* The stream stays in step.                                               *)
(***************************************************************************)

\* The larger of two numbers.
LEMMA LargerOfTwo ==
    ASSUME NEW a \in Int, NEW b \in Int
    PROVE  Max({a, b}) \in {a, b} /\ Max({a, b}) >= a /\ Max({a, b}) >= b
<1>1. \E x \in {a, b} : \A y \in {a, b} : x >= y
    OBVIOUS
<1> QED
    BY <1>1 DEF Max

\* A handler that does not wait in vain has taken all that was sent: what an
\* exact length field leaves to count is nothing, and what a short one leaves
\* is what the drain layer adds (XgtServer.cpp:195-321).
LEMMA TakenAll ==
    ASSUME NEW r, Taken(r) <= Sent(r),
           r.server = "xgt" =>
             /\ {XgtSent(r), XgtNeeds(r)} \subseteq Nat
             /\ \/ r.exact
                \/ r.cmd \in {"read", "write"} /\ \A i \in 1 .. Len(r.blocks) : r.blocks[i].len # 32
    PROVE  Sent(r) - Taken(r) = 0
<1>1. CASE r.server # "xgt"
    BY <1>1 DEF Sent, Taken
<1>2. CASE r.server = "xgt"
    <2>1. /\ XgtSent(r) \in Nat /\ XgtNeeds(r) \in Nat /\ XgtTaken(r) <= XgtSent(r)
          /\ Sent(r) = XgtSent(r) /\ Taken(r) = XgtTaken(r)
        BY <1>2 DEF Sent, Taken
    <2>2. XgtLength(r) \in Int
        BY <2>1 DEF XgtLength
    <2>3. XgtTaken(r) \in Int /\ XgtTaken(r) >= XgtLength(r) /\ XgtTaken(r) >= XgtNeeds(r)
        <3>1. XgtNeeds(r) \in Int
            BY <2>1
        <3>2. LET m == Max({XgtLength(r), XgtNeeds(r)})
              IN  m \in {XgtLength(r), XgtNeeds(r)} /\ m >= XgtLength(r) /\ m >= XgtNeeds(r)
            BY <2>2, <3>1, LargerOfTwo
        <3> QED
            BY <2>2, <3>1, <3>2 DEF XgtTaken
    <2>4. CASE r.exact
        BY <2>1, <2>3, <2>4 DEF XgtLength
    <2>5. CASE ~r.exact
        <3> DEFINE counted == [i \in 1 .. Len(r.blocks) |-> 2 + NameBytes + CountedBytes(r, i)]
                   sent == [i \in 1 .. Len(r.blocks) |-> 2 + NameBytes + SentBytes(r, i)]
        <3>1. r.cmd \in {"read", "write"} /\ \A i \in 1 .. Len(r.blocks) : r.blocks[i].len # 32
            BY <1>2, <2>5
        <3>2. ASSUME NEW i \in 1 .. Len(r.blocks) PROVE CountedBytes(r, i) = SentBytes(r, i)
            BY <3>1 DEF CountedBytes, SentBytes, DataBytes
        <3>3. counted = sent
            BY <3>2
        <3>4. XgtNeeds(r) = Max({12, 10 + SumFunction(counted)}) /\ XgtSent(r) = 10 + SumFunction(sent)
            BY <3>1 DEF XgtNeeds, XgtSent
        <3>5. XgtNeeds(r) = Max({12, XgtSent(r)})
            BY <3>3, <3>4
        <3>6. XgtNeeds(r) >= XgtSent(r)
            BY <3>5, <2>1, LargerOfTwo
        <3> QED
            BY <2>1, <2>3, <3>6
    <2> QED
        BY <2>4, <2>5
<1> QED
    BY <1>1, <1>2

\* A request in the stream is one its client may send, and nothing is left
\* of the ones before it.
StepInv ==
    /\ DOMAIN left = Client /\ DOMAIN req = Client /\ DOMAIN pc = Client
    /\ InStep
    /\ \A c \in Client :
         /\ pc[c] \in {"header", "body", "closed"} => req[c] = None \/ req[c] \in Sends[c]
         /\ pc[c] = "body" => req[c] # None

\* Every step takes whole requests from the stream.
LEMMA NextStep ==
    ASSUME CountedRequests, StepInv, [Next]_vars
    PROVE  StepInv'
<1> USE DEF StepInv, InStep
<1>1. ASSUME NEW c \in Client, ReadBody(c) PROVE StepInv'
    <2>1. req[c] \in Sends[c] /\ Taken(req[c]) <= Sent(req[c])
        BY <1>1 DEF ReadBody
    <2>2. Sent(req[c]) - Taken(req[c]) = 0
        BY <2>1, TakenAll DEF CountedRequests
    <2> QED
        BY <1>1, <2>2 DEF ReadBody
<1>2. ASSUME NEW c \in Client, NEW r \in Sends[c], Send(c, r) PROVE StepInv'
    BY <1>2 DEF Send
<1>3. ASSUME NEW c \in Client, ReadHeader(c) PROVE StepInv'
    BY <1>3 DEF ReadHeader
<1>4. ASSUME NEW c \in Client, RefuseHeader(c) \/ ReadFails(c) PROVE StepInv'
    BY <1>4 DEF RefuseHeader, ReadFails, Close
<1>5. ASSUME NEW c \in Client, DrainFails(c) PROVE StepInv'
    BY <1>5 DEF DrainFails
<1>6. ASSUME NEW c \in Client, Access(c) PROVE StepInv'
    BY <1>6 DEF Access
<1>7. ASSUME NEW c \in Client, Answer(c) \/ AnswerFails(c) PROVE StepInv'
    BY <1>7 DEF Answer, AnswerFails, Done
<1>8. ASSUME NEW c \in Client, HangUp(c) PROVE StepInv'
    BY <1>8 DEF HangUp
<1>9. ASSUME NEW c \in Client, Connect(c) PROVE StepInv'
    BY <1>9 DEF Connect
<1>10. CASE UNCHANGED vars
    BY <1>10 DEF vars
<1> QED
    BY <1>1, <1>2, <1>3, <1>4, <1>5, <1>6, <1>7, <1>8, <1>9, <1>10 DEF Next, Handle

\* On all three servers, for clients of both length conventions and requests
\* that are cut off or refused: no byte of an answered request is ever read as
\* the start of the next (XgtServer.cpp:195-321).
THEOREM StreamInStep ==
    ASSUME CountedRequests
    PROVE  Spec => []InStep
<1>1. Init => StepInv
    BY DEF Init, StepInv, InStep
<1>2. StepInv /\ [Next]_vars => StepInv'
    BY NextStep
<1>3. StepInv => InStep
    BY DEF StepInv
<1> QED
    BY <1>1, <1>2, <1>3, PTL DEF Spec

-----------------------------------------------------------------------------
(***************************************************************************)
(* A client's own cells.                                                   *)
(***************************************************************************)

\* A sequence read so far, and what the next call appends to it.
LEMMA Appended ==
    ASSUME NEW g, NEW h, NEW m \in Nat, NEW l \in Nat,
           g = [i \in 1 .. m |-> g[i]], h = [i \in 1 .. l |-> h[i]]
    PROVE  /\ g \o h = [i \in 1 .. m + l |-> (g \o h)[i]]
           /\ \A i \in 1 .. m + l : (g \o h)[i] = IF i <= m THEN g[i] ELSE h[i - m]
<1> DEFINE S == {g[i] : i \in 1 .. m} \cup {h[i] : i \in 1 .. l}
<1>1. g \in Seq(S) /\ Len(g) = m /\ h \in Seq(S) /\ Len(h) = l
    <2>1. [i \in 1 .. m |-> g[i]] \in Seq(S) /\ Len([i \in 1 .. m |-> g[i]]) = m
        OBVIOUS
    <2>2. [i \in 1 .. l |-> h[i]] \in Seq(S) /\ Len([i \in 1 .. l |-> h[i]]) = l
        OBVIOUS
    <2> QED
        BY <2>1, <2>2
<1>2. g \o h \in Seq(S) /\ Len(g \o h) = m + l
    BY <1>1
<1> HIDE DEF S
<1>3. g \o h = [i \in 1 .. m + l |-> (g \o h)[i]]
    BY <1>2
<1>4. \A i \in 1 .. m + l : (g \o h)[i] = IF i <= m THEN g[i] ELSE h[i - m]
    BY <1>1
<1> QED
    BY <1>3, <1>4

\* Between requests a client's cells are as it left them.
Idle(c) ==
    /\ k[c] = 1 /\ got[c] = <<>>
    /\ \A x \in Own[c] : mem[x] = due[c][x]

\* A write that is being made has stored, in each cell it has reached, the
\* last value meant for it so far, and nothing elsewhere.
Writing(c) ==
    LET hits(x) == {i \in 1 .. k[c] - 1 : Cells(req[c])[i] = x}
    IN  \A x \in Own[c] :
          \/ hits(x) = {} /\ mem[x] = due[c][x]
          \/ \E i \in hits(x) :
                (\A j \in hits(x) : j <= i) /\ mem[x] = Narrow(x, Value(req[c], i))

\* A read that is being made has found what the client left.
Reading(c) ==
    /\ got[c] = [i \in 1 .. k[c] - 1 |-> got[c][i]]
    /\ \A i \in 1 .. k[c] - 1 : Cells(req[c])[i] \in Own[c] => got[c][i] = due[c][Cells(req[c])[i]]
    /\ \A x \in Own[c] : mem[x] = due[c][x]

\* What a client knows of its own cells while its handler is where it is.
Owner(c) ==
    /\ pc[c] \in {"header", "body", "closed"} => Idle(c)
    /\ pc[c] = "header" => req[c] = None \/ (req[c] \in Sends[c] /\ req[c].server = server)
    /\ pc[c] = "closed" => req[c] = None
    /\ pc[c] = "body" => req[c] \in Sends[c] /\ req[c].server = server /\ ~HeaderRefused(req[c])
    /\ pc[c] = "access" =>
         /\ req[c] \in Processed(c)
         /\ k[c] \in 1 .. Len(Cells(req[c])) + 1
         /\ IF Writes(req[c]) THEN Writing(c) ELSE Reading(c)

OwnShape ==
    /\ server \in Server /\ DOMAIN mem = Cell
    /\ pc \in [Client -> {"header", "body", "access", "closed"}]
    /\ DOMAIN req = Client /\ DOMAIN k = Client /\ DOMAIN got = Client /\ DOMAIN due = Client

OwnInv == OwnShape /\ \A c \in Client : Owner(c)

\* A handler whose variables stay, and whose client's cells do, stays right.
LEMMA OwnerKept ==
    ASSUME NEW d, Owner(d), server' = server,
           pc'[d] = pc[d], req'[d] = req[d], k'[d] = k[d], got'[d] = got[d], due'[d] = due[d],
           \A x \in Own[d] : mem'[x] = mem[x]
    PROVE  Owner(d)'
<1>1. Idle(d) => Idle(d)'
    BY DEF Idle
<1>2. Writing(d) => Writing(d)'
    BY DEF Writing
<1>3. Reading(d) => Reading(d)'
    BY DEF Reading
<1> QED
    BY <1>1, <1>2, <1>3 DEF Owner

\* The accesses of one step: one call of a block accessor, which no cell is
\* twice in, or one of a point's.
LEMMA CallOnce ==
    ASSUME MeantRequests, NEW c \in Client, NEW r \in Processed(c), NEW a \in 1 .. Len(Cells(r))
    PROVE  LET n == IF Atomic(r) THEN Len(Cells(r)) ELSE a
           IN  /\ n \in Nat /\ a <= n /\ n <= Len(Cells(r))
               /\ \A i, j \in a .. n : Cells(r)[i] = Cells(r)[j] => i = j
<1>1. Len(Cells(r)) \in Nat /\ (r \in Sends[c] \/ r.server = "xgt")
    BY DEF MeantRequests
<1>2. CASE Atomic(r)
    <2>1. r.server = "modbus" /\ r \in Sends[c]
        BY <1>1, <1>2 DEF Atomic
    <2>2. Cells(r) = ModbusCells(r) /\ r.start \in Nat /\ r.qty \in Nat
        BY <2>1, ModbusCalls, SharedAssumption DEF WritesWhole
    <2>3. \A i, j \in 1 .. Len(Cells(r)) : Cells(r)[i] = Cells(r)[j] => i = j
        BY <2>2, CellsOnce
    <2> QED
        BY <1>1, <1>2, <2>3
<1>3. CASE ~Atomic(r)
    BY <1>1, <1>3
<1> QED
    BY <1>2, <1>3

\* A step of a write reaches no cell of another client, and leaves in each of
\* its own the last value meant so far.
LEMMA WriteStep ==
    ASSUME MeantRequests, OwnInv, NEW c \in Client, Access(c), Writes(req[c])
    PROVE  OwnInv'
<1> DEFINE r == req[c]
           cells == Cells(r)
           a == k[c]
           n == IF Atomic(r) THEN Len(cells) ELSE a
<1>1. /\ r \in Processed(c) /\ Writes(r) /\ pc[c] = "access"
      /\ Len(cells) \in Nat /\ a \in 1 .. Len(cells) /\ Writing(c)
    BY DEF OwnInv, Owner, Access, MeantRequests
<1>2. /\ mem' = Stored(r, cells, a, n) /\ got' = got /\ k' = [k EXCEPT ![c] = n + 1]
      /\ UNCHANGED <<server, pc, req, left, gone, due>>
    BY DEF Access, Perform
<1>3. /\ n \in Nat /\ a <= n /\ n <= Len(cells)
      /\ \A i, j \in a .. n : cells[i] = cells[j] => i = j
    BY <1>1, CallOnce
<1>4. \A x \in Cell :
        /\ (\A i \in a .. n : cells[i] # x) => mem'[x] = mem[x]
        /\ \A i \in a .. n : cells[i] = x => mem'[x] = Narrow(x, Value(r, i))
    <2> HIDE DEF r, cells, a, n
    <2>1. a \in Nat
        BY <1>1
    <2>2. ASSUME NEW x \in Cell, \A i \in a .. n : cells[i] # x
          PROVE  mem'[x] = mem[x]
        BY <1>2, <2>2 DEF Stored
    <2>3. ASSUME NEW x \in Cell, NEW i \in a .. n, cells[i] = x
          PROVE  mem'[x] = Narrow(x, Value(r, i))
        <3> DEFINE last == Max({j \in a .. n : cells[j] = x})
        <3>1. i \in Nat /\ {j \in a .. n : cells[j] = x} = {i}
            BY <1>3, <2>1, <2>3
        <3>2. last = i
            BY <3>1, OneAccess
        <3>3. x \in {cells[j] : j \in a .. n}
            BY <2>3
        <3> HIDE DEF last
        <3>4. mem'[x] = Narrow(x, Value(r, last))
            BY <1>2, <3>3 DEF Stored, last
        <3> QED
            BY <3>2, <3>4
    <2> QED
        BY <2>2, <2>3
<1>5. \A i \in 1 .. Len(cells), d \in Client : cells[i] \in Own[d] => d = c
    <2>1. WritesAsMeant(c, r)
        BY <1>1 DEF MeantRequests
    <2> HIDE DEF r, cells
    <2> QED
        BY <2>1 DEF WritesAsMeant, cells
<1>6. \A d \in Client : Own[d] \subseteq Cell
    BY RequestsAssumption
<1>7. OwnShape'
    BY <1>2 DEF OwnInv, OwnShape, Stored
<1>8. ASSUME NEW d \in Client, d # c PROVE Owner(d)'
    <2>1. \A x \in Own[d] : \A i \in a .. n : cells[i] # x
        BY <1>1, <1>3, <1>5, <1>8
    <2>2. \A x \in Own[d] : mem'[x] = mem[x]
        BY <1>4, <1>6, <2>1
    <2>3. Owner(d) /\ k'[d] = k[d]
        BY <1>2, <1>8 DEF OwnInv, OwnShape
    <2> QED
        BY <1>2, <2>2, <2>3, OwnerKept
<1>9. Owner(c)'
    <2>1. k'[c] = n + 1 /\ n + 1 \in 1 .. Len(cells) + 1 /\ req'[c] = r /\ pc'[c] = "access"
        BY <1>1, <1>2, <1>3 DEF OwnInv, OwnShape
    <2>2. ASSUME NEW x \in Own[c]
          PROVE  LET hits == {i \in 1 .. n : cells[i] = x}
                 IN  \/ hits = {} /\ mem'[x] = due[c][x]
                     \/ \E i \in hits :
                          (\A j \in hits : j <= i) /\ mem'[x] = Narrow(x, Value(r, i))
        <3> DEFINE before == {i \in 1 .. a - 1 : cells[i] = x}
                   hits == {i \in 1 .. n : cells[i] = x}
        <3>0. x \in Cell
            BY <1>6
        <3>1. CASE \A i \in a .. n : cells[i] # x
            <4>1. mem'[x] = mem[x] /\ hits = before
                BY <1>1, <1>3, <1>4, <3>0, <3>1
            <4>2. \/ before = {} /\ mem[x] = due[c][x]
                  \/ \E i \in before : (\A j \in before : j <= i) /\ mem[x] = Narrow(x, Value(r, i))
                BY <1>1 DEF Writing
            <4> QED
                BY <4>1, <4>2
        <3>2. ASSUME NEW i \in a .. n, cells[i] = x
              PROVE  \E h \in hits : (\A j \in hits : j <= h) /\ mem'[x] = Narrow(x, Value(r, h))
            <4>1. i \in hits /\ mem'[x] = Narrow(x, Value(r, i))
                BY <1>1, <1>3, <1>4, <3>0, <3>2
            <4>2. ASSUME NEW j \in hits PROVE j <= i
                BY <1>1, <1>3, <3>2, <4>2
            <4> QED
                BY <4>1, <4>2
        <3> QED
            BY <3>1, <3>2
    <2>3. Writing(c)'
        <3>1. (k[c] - 1)' = n
            BY <1>3, <2>1
        <3> HIDE DEF n, r, cells
        <3> QED
            BY <1>2, <2>1, <2>2, <3>1 DEF Writing, cells, r
    <2> QED
        BY <1>1, <2>1, <2>3 DEF Owner, Processed
<1> QED
    BY <1>7, <1>8, <1>9 DEF OwnInv

\* A step of a read appends what memory holds.
LEMMA ReadStep ==
    ASSUME MeantRequests, OwnInv, NEW c \in Client, Access(c), ~Writes(req[c])
    PROVE  OwnInv'
<1> DEFINE r == req[c]
           cells == Cells(r)
           a == k[c]
           n == IF Atomic(r) THEN Len(cells) ELSE a
           h == Loaded(cells, a, n)
<1>1. /\ r \in Processed(c) /\ ~Writes(r) /\ pc[c] = "access"
      /\ Len(cells) \in Nat /\ a \in 1 .. Len(cells) /\ Reading(c)
    BY DEF OwnInv, Owner, Access, MeantRequests
<1>2. /\ got' = [got EXCEPT ![c] = @ \o h] /\ mem' = mem /\ k' = [k EXCEPT ![c] = n + 1]
      /\ UNCHANGED <<server, pc, req, left, gone, due>>
    BY DEF Access, Perform
<1>3. n \in Nat /\ a <= n /\ n <= Len(cells)
    BY <1>1, CallOnce
<1>4. \A d \in Client : Own[d] \subseteq Cell
    BY RequestsAssumption
<1>5. OwnShape'
    BY <1>2 DEF OwnInv, OwnShape
<1>6. ASSUME NEW d \in Client, d # c PROVE Owner(d)'
    BY <1>2, <1>6, OwnerKept DEF OwnInv, OwnShape
<1>7. Owner(c)'
    <2>1. k'[c] = n + 1 /\ n + 1 \in 1 .. Len(cells) + 1 /\ req'[c] = r /\ pc'[c] = "access"
        BY <1>1, <1>2, <1>3 DEF OwnInv, OwnShape
    <2>2. got'[c] = got[c] \o h
        BY <1>2 DEF OwnInv, OwnShape
    <2>3. /\ h = [i \in 1 .. n - a + 1 |-> h[i]]
          /\ \A i \in 1 .. n - a + 1 : h[i] = ReadValue(mem, cells[a + i - 1])
        <3> HIDE DEF n, cells, a
        <3> QED
            BY DEF Loaded
    <2>4. got[c] = [i \in 1 .. a - 1 |-> got[c][i]]
        BY <1>1 DEF Reading
    <2>5. /\ got'[c] = [i \in 1 .. n |-> got'[c][i]]
          /\ \A i \in 1 .. n : got'[c][i] = IF i <= a - 1 THEN got[c][i] ELSE h[i - (a - 1)]
        <3> HIDE DEF n, a, h, cells
        <3>1. a - 1 \in Nat /\ n - a + 1 \in Nat /\ (a - 1) + (n - a + 1) = n
            BY <1>1, <1>3
        <3>2. LET g == got[c] \o h
              IN  /\ g = [i \in 1 .. (a - 1) + (n - a + 1) |-> g[i]]
                  /\ \A i \in 1 .. (a - 1) + (n - a + 1) :
                        g[i] = IF i <= a - 1 THEN got[c][i] ELSE h[i - (a - 1)]
            BY <2>3, <2>4, <3>1, Appended
        <3> QED
            BY <2>2, <3>1, <3>2
    <2>6. ASSUME NEW i \in 1 .. n, cells[i] \in Own[c]
          PROVE  got'[c][i] = due[c][cells[i]]
        <3>1. CASE i <= a - 1
            <4>1. i \in 1 .. a - 1
                BY <1>1, <3>1
            <4> QED
                BY <1>1, <2>5, <2>6, <3>1, <4>1 DEF Reading
        <3>2. CASE ~(i <= a - 1)
            <4> HIDE DEF n, a, h, cells
            <4>1. i - (a - 1) \in 1 .. n - a + 1 /\ a + (i - (a - 1)) - 1 = i
                BY <1>1, <1>3, <3>2
            <4>2. got'[c][i] = ReadValue(mem, cells[i])
                BY <2>3, <2>5, <3>2, <4>1
            <4> QED
                BY <1>1, <1>4, <2>6, <4>2 DEF Reading, ReadValue
        <3> QED
            BY <3>1, <3>2
    <2>7. Reading(c)'
        <3>1. (k[c] - 1)' = n
            BY <1>3, <2>1
        <3>2. \A x \in Own[c] : mem'[x] = due'[c][x]
            BY <1>1, <1>2 DEF Reading
        <3> HIDE DEF n, r, h, cells
        <3> QED
            BY <1>2, <2>1, <2>5, <2>6, <3>1, <3>2 DEF Reading, cells, r
    <2> QED
        BY <1>1, <2>1, <2>7 DEF Owner, Processed
<1> QED
    BY <1>5, <1>6, <1>7 DEF OwnInv

\* An answered request has done what its client means.
LEMMA AnswerStep ==
    ASSUME MeantRequests, OwnInv, NEW c \in Client, Answer(c) \/ AnswerFails(c)
    PROVE  OwnInv'
<1> DEFINE r == req[c]
           cells == Cells(r)
<1>1. /\ r \in Processed(c) /\ pc[c] = "access" /\ Len(cells) \in Nat
      /\ k[c] = Len(cells) + 1
      /\ IF Writes(r) THEN Writing(c) /\ WritesAsMeant(c, r) ELSE Reading(c)
    BY DEF OwnInv, Owner, Answer, AnswerFails, Done, MeantRequests
<1>2. /\ pc' = [pc EXCEPT ![c] = pc'[c]] /\ pc'[c] \in {"header", "closed"}
      /\ req' = [req EXCEPT ![c] = None]
      /\ due' = [due EXCEPT ![c] = DueAfter(c, r)]
      /\ k' = [k EXCEPT ![c] = 1] /\ got' = [got EXCEPT ![c] = <<>>]
      /\ UNCHANGED <<mem, server>>
    BY DEF OwnInv, OwnShape, Answer, AnswerFails
<1>3. OwnShape'
    BY <1>2 DEF OwnInv, OwnShape
<1>4. ASSUME NEW d \in Client, d # c PROVE Owner(d)'
    BY <1>2, <1>4, OwnerKept DEF OwnInv, OwnShape
<1>5. ASSUME NEW x \in Own[c] PROVE mem[x] = DueAfter(c, r)[x]
    <2>1. CASE ~Writes(r)
        BY <1>1, <1>5, <2>1 DEF Reading, DueAfter
    <2>2. CASE Writes(r)
        <3> DEFINE hits == {i \in 1 .. Len(cells) : cells[i] = x}
        <3>1. \/ hits = {} /\ mem[x] = due[c][x]
              \/ \E i \in hits : (\A j \in hits : j <= i) /\ mem[x] = Narrow(x, Value(r, i))
            <4>1. k[c] - 1 = Len(cells)
                BY <1>1
            <4> QED
                BY <1>1, <1>5, <2>2, <4>1 DEF Writing
        <3>2. /\ hits = {} <=> MeantFor(r, x) = {}
              /\ \A i \in hits : (\A j \in hits : j <= i) =>
                    Narrow(x, Value(r, i)) = Meaning(r)[Max(MeantFor(r, x))].value
            BY <1>1, <1>5, <2>2 DEF WritesAsMeant
        <3> HIDE DEF hits
        <3>3. mem[x] = IF MeantFor(r, x) = {} THEN due[c][x]
                       ELSE Meaning(r)[Max(MeantFor(r, x))].value
            BY <3>1, <3>2
        <3> QED
            BY <1>5, <2>2, <3>3 DEF DueAfter
    <2> QED
        BY <2>1, <2>2
<1>6. Owner(c)'
    <2>1. k'[c] = 1 /\ got'[c] = <<>> /\ req'[c] = None /\ due'[c] = DueAfter(c, r)
        BY <1>2 DEF OwnInv, OwnShape
    <2>2. Idle(c)'
        BY <1>2, <1>5, <2>1 DEF Idle
    <2> QED
        BY <1>2, <2>1, <2>2 DEF Owner
<1> QED
    BY <1>3, <1>4, <1>6 DEF OwnInv

\* What one client's step does to no cell and no due value.
LEMMA Elsewhere ==
    ASSUME OwnInv, NEW c \in Client, OwnShape', Owner(c)', server' = server, mem' = mem, due' = due,
           \A d \in Client \ {c} : /\ pc'[d] = pc[d] /\ req'[d] = req[d]
                                   /\ k'[d] = k[d] /\ got'[d] = got[d]
    PROVE  OwnInv'
<1>1. ASSUME NEW d \in Client, d # c PROVE Owner(d)'
    BY <1>1, OwnerKept DEF OwnInv
<1> QED
    BY <1>1 DEF OwnInv

\* Every step keeps what the clients know of their cells.
LEMMA OwnNext ==
    ASSUME MeantRequests, OwnInv, [Next]_vars
    PROVE  OwnInv'
<1>1. ASSUME NEW c \in Client, NEW r \in Sends[c], Send(c, r) PROVE OwnInv'
    <2>1. OwnShape' /\ Owner(c)'
        BY <1>1 DEF Send, OwnInv, OwnShape, Owner, Idle
    <2> QED
        BY <1>1, <2>1, Elsewhere DEF Send, OwnInv, OwnShape
<1>2. ASSUME NEW c \in Client, ReadHeader(c) PROVE OwnInv'
    <2>1. OwnShape' /\ Owner(c)'
        BY <1>2 DEF ReadHeader, OwnInv, OwnShape, Owner, Idle
    <2> QED
        BY <1>2, <2>1, Elsewhere DEF ReadHeader, OwnInv, OwnShape
<1>3. ASSUME NEW c \in Client, RefuseHeader(c) \/ ReadFails(c) PROVE OwnInv'
    <2>1. OwnShape' /\ Owner(c)'
        BY <1>3 DEF RefuseHeader, ReadFails, Close, OwnInv, OwnShape, Owner, Idle
    <2> QED
        BY <1>3, <2>1, Elsewhere DEF RefuseHeader, ReadFails, Close, OwnInv, OwnShape
<1>4. ASSUME NEW c \in Client, ReadBody(c) \/ DrainFails(c) PROVE OwnInv'
    <2>1. /\ pc[c] = "body" /\ Idle(c) /\ req[c] \in Sends[c] /\ req[c].server = server
          /\ ~HeaderRefused(req[c]) /\ server \in Server
        BY <1>4 DEF ReadBody, DrainFails, OwnInv, OwnShape, Owner
    <2>2. /\ pc' = [pc EXCEPT ![c] = "access"]
          /\ UNCHANGED <<mem, server, k, got, due>>
          /\ OwnShape' /\ \A d \in Client \ {c} : req'[d] = req[d]
        BY <1>4 DEF ReadBody, DrainFails, OwnInv, OwnShape
    <2>3. req'[c] \in Processed(c)
        <3>1. CASE ReadBody(c)
            BY <2>1, <3>1 DEF ReadBody, Processed
        <3>2. CASE DrainFails(c)
            <4>1. /\ req[c].server = "xgt" /\ XgtLength(req[c]) < XgtNeeds(req[c])
                  /\ req'[c] = [req[c] EXCEPT !.cut = TRUE]
                BY <2>1, <3>2 DEF DrainFails, OwnInv, OwnShape
            <4> QED
                BY <2>1, <4>1 DEF Processed
        <3> QED
            BY <1>4, <3>1, <3>2
    <2>4. Idle(c)'
        BY <2>1, <2>2 DEF Idle
    <2>5. k'[c] = 1 /\ got'[c] = <<>> /\ Len(Cells(req'[c])) \in Nat
        BY <2>1, <2>2, <2>3 DEF Idle, MeantRequests
    <2>6. Writing(c)' /\ Reading(c)'
        BY <2>4, <2>5 DEF Idle, Writing, Reading
    <2>7. Owner(c)'
        <3>1. pc'[c] = "access"
            BY <2>2 DEF OwnInv, OwnShape
        <3> QED
            BY <2>3, <2>5, <2>6, <3>1 DEF Owner, Processed
    <2> QED
        BY <2>2, <2>7, Elsewhere DEF OwnInv, OwnShape
<1>5. ASSUME NEW c \in Client, HangUp(c) PROVE OwnInv'
    BY <1>5, OwnerKept DEF HangUp, OwnInv, OwnShape
<1>6. ASSUME NEW c \in Client, Connect(c) PROVE OwnInv'
    <2>1. OwnShape' /\ Owner(c)'
        BY <1>6 DEF Connect, OwnInv, OwnShape, Owner, Idle
    <2> QED
        BY <1>6, <2>1, Elsewhere DEF Connect, OwnInv, OwnShape
<1>7. CASE UNCHANGED vars
    BY <1>7, OwnerKept DEF vars, OwnInv, OwnShape
<1> QED
    BY <1>1, <1>2, <1>3, <1>4, <1>5, <1>6, <1>7, WriteStep, ReadStep, AnswerStep DEF Next, Handle

\* The clients' memory starts as they know it.
LEMMA OwnInit == Init => OwnInv
<1> SUFFICES ASSUME Init PROVE OwnInv
    OBVIOUS
<1>1. OwnShape
    BY DEF Init, OwnShape, ZeroMemory
<1>2. ASSUME NEW c \in Client PROVE Owner(c)
    BY RequestsAssumption DEF Init, Owner, Idle, ZeroMemory
<1> QED
    BY <1>1, <1>2 DEF OwnInv

\* On all three servers: what a client has written to cells nobody else writes
\* stays there, whatever the other clients send, and whatever it sends and is
\* refused itself; a write that is half done has stored nothing it does not
\* mean (handleClient of the three servers, each with its memory calls).
THEOREM OwnWritesStay ==
    ASSUME MeantRequests
    PROVE  Spec => []OwnWritesHold
<1>1. OwnInv => OwnWritesHold
    <2> SUFFICES ASSUME OwnInv, NEW c \in Client, NEW x \in Own[c], mem[x] # due[c][x]
                 PROVE  /\ req[c] # None
                        /\ Writes(req[c])
                        /\ \E i \in 1 .. Len(req[c].meant) :
                              req[c].meant[i] = [cell |-> x, value |-> mem[x]]
        BY DEF OwnWritesHold
    <2>1. pc[c] = "access" /\ req[c] \in Processed(c) /\ Writes(req[c]) /\ Writing(c)
        BY DEF OwnInv, OwnShape, Owner, Idle, Reading
    <2>2. req[c].server \in Server /\ WritesAsMeant(c, req[c]) /\ Len(Cells(req[c])) \in Nat
          /\ k[c] \in 1 .. Len(Cells(req[c])) + 1
        BY <2>1 DEF MeantRequests, OwnInv, Owner
    <2>3. req[c] # None
        BY <2>2, RequestsAssumption DEF None
    <2>4. PICK i \in 1 .. k[c] - 1 : Cells(req[c])[i] = x /\ mem[x] = Narrow(x, Value(req[c], i))
        BY <2>1 DEF Writing
    <2>5. i \in 1 .. Len(Cells(req[c]))
        BY <2>2
    <2>6. \E j \in 1 .. Len(req[c].meant) :
             req[c].meant[j] = [cell |-> x, value |-> Narrow(x, Value(req[c], i))]
        BY <2>2, <2>4, <2>5 DEF WritesAsMeant
    <2> QED
        BY <2>1, <2>3, <2>4, <2>6
<1> QED
    BY <1>1, OwnInit, OwnNext, PTL DEF Spec

\* On all three servers: a client that reads its own cells gets what it last
\* wrote to them, each at its place in the response (handleClient of the three
\* servers, each with its memory calls).
THEOREM OwnWritesRead ==
    ASSUME MeantRequests
    PROVE  Spec => []ReadsOwnWrites
<1>1. OwnInv => ReadsOwnWrites
    <2> SUFFICES ASSUME OwnInv, NEW c \in Client, Done(c), ~Writes(req[c]),
                        NEW i \in 1 .. Len(Meaning(req[c])), Meaning(req[c])[i].cell \in Own[c]
                 PROVE  got[c][i] = due[c][Meaning(req[c])[i].cell]
        BY DEF ReadsOwnWrites
    <2>1. /\ req[c] \in Processed(c) /\ Reading(c) /\ Len(Cells(req[c])) \in Nat
          /\ k[c] = Len(Cells(req[c])) + 1
        BY DEF OwnInv, Owner, Done, MeantRequests
    <2>2. i <= Len(Cells(req[c])) /\ Cells(req[c])[i] = Meaning(req[c])[i].cell
        BY <2>1 DEF MeantRequests, ReadsAsMeant
    <2>3. i \in 1 .. k[c] - 1
        BY <2>1, <2>2
    <2> QED
        BY <2>1, <2>2, <2>3 DEF Reading
<1> QED
    BY <1>1, OwnInit, OwnNext, PTL DEF Spec
=============================================================================
