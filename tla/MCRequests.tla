----------------------------- MODULE MCRequests ----------------------------
(* Two clients of one server, with the requests each may send and what it  *)
(* means by them.  bob owns the first half of the cells, amy the second.   *)
EXTENDS Requests

Areas1 == {"COIL", "M"}
Areas16 == {"HR", "D", "W"}
Sizes == [a \in Area |-> IF a \in Areas1 THEN 2 ELSE 4]

bob == "bob"
amy == "amy"
Both == {amy, bob}
JustAmy == {amy}
AllServers == {"modbus", "mc", "xgt"}

First(c) == IF c = amy THEN 2 ELSE 0
OwnCells ==
    [c \in Both |->
        {Ref(a, First(c) \div 2) : a \in Areas1 \cup {"HR"}}
            \cup {Ref(a, First(c) + i) : a \in {"D", "W"}, i \in {0, 1}}]
SharedBlock == {Ref("HR", 2), Ref("HR", 3)}

\* The writes (or, for a read, the cells) a client means: consecutive cells.
Meant(area, start, data) ==
    [i \in 1 .. Len(data) |-> [cell |-> Ref(area, start + i - 1), value |-> data[i]]]

Twice(v) == <<v, v>>

-----------------------------------------------------------------------------
\* Modbus: PDUs as a client builds them.
Modbus(fc, start, qty, data, area) ==
    [server |-> "modbus", modbus |-> TRUE, fc |-> fc, start |-> start, qty |-> qty,
     data |-> data, bytes |-> IF fc \in {15, 16} THEN ByteCount(fc, qty) ELSE 0,
     size |-> IF fc \in {15, 16} THEN 6 + ByteCount(fc, qty) ELSE 5,
     meant |-> Meant(area, start, data)]

\* A client of the memory's first or second half; registers 2 and 3 are the
\* shared block.  Refused: past the end, no registers, a byte count that does
\* not fit, no coil value, a function nobody has.  Cut off: a long write.
ModbusRequests(c) ==
    LET i == First(c) \div 2 IN
    {Modbus(6, i, v, <<v>>, "HR") : v \in {1, 2}}
      \cup {Modbus(16, 2, 2, Twice(v), "HR") : v \in {1, 2}}
      \cup {Modbus(5, i, On, <<1>>, "COIL"), Modbus(15, i, 1, <<0>>, "COIL")}
      \cup {Modbus(3, 0, 4, <<0, 0, 0, 0>>, "HR"), Modbus(1, 0, 2, <<0, 0>>, "COIL")}
      \cup {[Modbus(16, 3, 2, Twice(1), "HR") EXCEPT !.meant = <<>>],
            [Modbus(16, i, 0, <<>>, "HR") EXCEPT !.meant = <<>>],
            [Modbus(16, i, 1, <<2>>, "HR") EXCEPT !.bytes = 4, !.meant = <<>>],
            [Modbus(5, i, 1, <<1>>, "COIL") EXCEPT !.meant = <<>>],
            [Modbus(7, 0, 0, <<>>, "HR") EXCEPT !.size = 1],
            [Modbus(16, 0, 3, <<2, 2, 2>>, "HR") EXCEPT !.meant = <<>>]}

-----------------------------------------------------------------------------
\* MC: 3E frames as a client builds them.
Mc(cmd, unit, device, start, data) ==
    [server |-> "mc", subheader |-> TRUE, cmd |-> cmd, unit |-> unit, device |-> device,
     start |-> start, points |-> Len(data), data |-> data,
     length |-> 12 + (IF cmd = "read" THEN 0
                      ELSE IF unit = "word" THEN 2 * Len(data) ELSE (Len(data) + 1) \div 2),
     meant |-> Meant(device, start, data)]

\* Also: a batch past the area's end, whose last point is dropped, and one
\* past the last address, which goes on at address 0.  Refused: an unknown
\* device, a bit device addressed by words, missing data, other commands.
McRequests(c) ==
    LET s == First(c) IN
    {Mc("write", "word", "D", s, <<v, 3 - v>>) : v \in IF c = amy THEN {1, 2} ELSE {1}}
      \cup {Mc("write", "bit", "M", s \div 2, <<v>>) : v \in {0, 1}}
      \cup {Mc("read", "word", "D", 0, <<0, 0, 0, 0>>), Mc("read", "bit", "M", 0, <<0, 0>>)}
      \cup {IF c = bob THEN [Mc("write", "word", "D", 7, <<1, 2>>)
                               EXCEPT !.meant = Meant("D", 0, <<2>>)]
                       ELSE Mc("write", "word", "D", 3, <<1, 2>>),
            [Mc("write", "word", "TN", s, <<1>>) EXCEPT !.meant = <<>>],
            [Mc("write", "word", "M", s, <<1>>) EXCEPT !.meant = <<>>],
            [Mc("write", "word", "D", s, <<1, 1>>) EXCEPT !.length = 14, !.meant = <<>>],
            [Mc("read", "word", "D", s, <<0>>) EXCEPT !.length = 6, !.meant = <<>>],
            [Mc("write", "word", "D", s, <<1>>) EXCEPT !.subheader = FALSE, !.meant = <<>>]}

-----------------------------------------------------------------------------
\* XGT: names and blocks, from clients that count every byte and from PyXGT.
Name(type, nums) == [area |-> "M", type |-> type, nums |-> nums]
Block(name, data) == [name |-> name, len |-> IF name.type = "X" THEN 1 ELSE 2 * Len(data),
                      data |-> data]

Xgt(exact, cmd, continuous, blocks, meant) ==
    [server |-> "xgt", company |-> TRUE, exact |-> exact, cut |-> FALSE, cmd |-> cmd,
     continuous |-> continuous, blocks |-> blocks, meant |-> meant]

\* Refused: an unknown name, alone or behind a good block.
XgtRequests(c) ==
    LET s == First(c)
        byte == Name("B", <<2 * s>>)
        word == Name("W", <<s>>)
        bit == Name("X", <<0, s \div 2>>)
        bad == Name("D", <<0>>)
    IN  UNION {
          {Xgt(exact, "write", TRUE, <<Block(byte, <<1, 2>>)>>, Meant("W", s, <<1, 2>>)),
           Xgt(exact, "write", FALSE, <<Block(word, <<2>>), Block(bit, <<1>>)>>,
               Meant("W", s, <<2>>) \o Meant("M", s \div 2, <<1>>)),
           Xgt(exact, "write", FALSE, <<Block(bit, <<0>>), Block(bad, <<1>>), Block(word, <<1>>)>>,
               Meant("M", s \div 2, <<0>>)),
           Xgt(exact, "write", TRUE, <<Block(bad, <<1, 1>>)>>, <<>>),
           Xgt(exact, "read", TRUE, <<Block(Name("W", <<0>>), <<0, 0, 0, 0>>)>>,
               Meant("W", 0, <<0, 0, 0, 0>>)),
           Xgt(exact, "read", FALSE, <<Block(bit, <<0>>), Block(byte, <<0>>)>>,
               Meant("M", s \div 2, <<0>>) \o Meant("W", s, <<0>>))}
          : exact \in BOOLEAN}
        \cup {Xgt(TRUE, "status", FALSE, <<Block(word, <<>>)>>, <<>>),
              [Xgt(TRUE, "read", TRUE, <<Block(word, <<0>>)>>, <<>>) EXCEPT !.company = FALSE]}

\* Amy sends everything, bob what can get in her way.
Brief(r) ==
    CASE r.server = "modbus" -> r.fc \in {3, 16} /\ r.qty = r.bytes \div 2 + (IF r.fc = 3 THEN 4 ELSE 0)
      [] r.server = "mc" -> r.unit = "word" /\ r.cmd = "write" /\ r.length = 16
      [] r.server = "xgt" -> ~r.exact /\ r.cmd = "write" /\ Len(r.meant) > 1

Everything ==
    [c \in Both |->
        LET all == ModbusRequests(c) \cup McRequests(c) \cup XgtRequests(c)
        IN  IF c = amy THEN all ELSE {r \in all : Brief(r)}]

\* What the theorems suppose of single requests holds of all of these.
ASSUME Premises == CountedRequests /\ MeantRequests
=============================================================================
