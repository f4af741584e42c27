---------------------------- MODULE XgtRequest -----------------------------
(***************************************************************************)
(* What XgtServer makes of one request: how many bytes handleClient takes  *)
(* from the stream for it, and what processRequest then accesses.          *)
(*                                                                         *)
(* A request is a record: company, whether it starts with a company id;    *)
(* exact, whether its length field counts every byte after the 18-byte     *)
(* header, or 2 fewer as PyXGT's does; cmd; continuous, data type 0x0014;  *)
(* blocks, each with a name and, in a continuous request or a write, a     *)
(* length field len; writes add data, the words or the bit written; cut,   *)
(* whether the client hung up before the end of its last block.            *)
(* A name is [area, type, nums]: its letters and the numbers after them,   *)
(* none if they are not numbers.                                           *)
(***************************************************************************)
EXTENDS PlcMemory, FiniteSetsExt, Sequences

CONSTANTS
    NameBytes,      \* bytes of every variable name: 4, as in %MW1
    PointAddresses  \* number of 16-bit addresses: 65536

ASSUME XgtAssumption == NameBytes \in Nat /\ PointAddresses \in Nat \ {0}

-----------------------------------------------------------------------------
\* resolveAddress: the area and the type must be known, the numbers numbers.
Resolves(name) ==
    /\ name.area \in {"I", "Q", "M"}
    /\ name.type \in {"X", "W", "B"}
    /\ name.nums # <<>>

\* The bit a name denotes: its last two numbers are a byte and a bit, a
\* single number is a byte.  The areas keep bits apart.
BitRef(name) ==
    LET n == Len(name.nums)
        bit == IF n = 1 THEN 8 * name.nums[1] ELSE 8 * name.nums[n - 1] + name.nums[n]
    IN  Ref(name.area, bit % PointAddresses)

\* The index of the word a name denotes, a byte address halved.  In a
\* continuous request a bit name's index counts words as well.
WordIndex(name) ==
    CASE name.type = "W" -> name.nums[1]
      [] name.type = "B" -> (name.nums[1] % PointAddresses) \div 2
      [] name.type = "X" -> IF Len(name.nums) = 1 THEN name.nums[1]
                                                  ELSE name.nums[Len(name.nums) - 1]

\* All areas share the words.
WordRef(index) == Ref("W", index % PointAddresses)

-----------------------------------------------------------------------------
\* The data length the server works with: 0x0020 is taken for two bytes.
DataBytes(len) == IF len = 32 THEN 2 ELSE len

\* Mutant: a read is taken to carry a byte count in every block.
CountedBytesAlways(r, i) ==
    CASE r.cmd = "write" -> 2 + DataBytes(r.blocks[i].len)
      [] r.cmd = "read" -> 2
      [] OTHER -> 0

\* Bytes of block i behind its name, when the server counts them and as sent.
CountedBytes(r, i) ==
    CASE r.cmd = "write" -> 2 + DataBytes(r.blocks[i].len)
      [] r.cmd = "read" /\ r.continuous -> 2
      [] OTHER -> 0

SentBytes(r, i) ==
    CASE r.cmd = "write" -> 2 + r.blocks[i].len
      [] r.cmd = "read" /\ r.continuous -> 2
      [] OTHER -> 0

\* Bytes of the request behind the 18-byte header.
XgtSent(r) == 10 + SumFunction([i \in 1 .. Len(r.blocks) |-> 2 + NameBytes + SentBytes(r, i)])

\* Its length field.
XgtLength(r) == IF r.exact THEN XgtSent(r) ELSE XgtSent(r) - 2

XgtHeaderRefused(r) == ~r.company \/ XgtLength(r) = 0 \/ XgtLength(r) > 2048

\* Mutant: the drain stops before the data of a write.
XgtNeedsHeads(r) ==
    LET block == [i \in 1 .. Len(r.blocks) |->
                     2 + NameBytes + IF r.cmd = "write" THEN 2 ELSE CountedBytes(r, i)]
    IN  Max({12, 10 + SumFunction(block)})

\* The length the drain layer waits for before the request is processed: up
\* to the first name's length for any request, to the end of the last block
\* for a read or a write.
XgtNeeds(r) ==
    LET block == [i \in 1 .. Len(r.blocks) |-> 2 + NameBytes + CountedBytes(r, i)]
    IN  IF r.cmd \in {"read", "write"} THEN Max({12, 10 + SumFunction(block)}) ELSE 12

\* The bytes the handler takes: the length field's, and what the drain adds.
XgtTaken(r) == Max({XgtLength(r), XgtNeeds(r)})

-----------------------------------------------------------------------------
\* Words of a continuous request.
Words(r) == (IF r.cmd = "write" THEN DataBytes(r.blocks[1].len) ELSE r.blocks[1].len) \div 2

\* The blocks that have come whole.
Complete(r) == IF r.cut THEN Len(r.blocks) - 1 ELSE Len(r.blocks)

\* The blocks an individual request gets through: all before the first that
\* is not there or has a name that does not resolve.
Reached(r) == Max({n \in 0 .. Complete(r) : \A i \in 1 .. n : Resolves(r.blocks[i].name)})

\* An error status in the response.
XgtRefused(r) ==
    \/ r.cmd \notin {"read", "write"}
    \/ Reached(r) < Len(r.blocks)

BlockRef(name) == IF name.type = "X" THEN BitRef(name) ELSE WordRef(WordIndex(name))

\* The cells of a request, one accessor call each.  A continuous request is
\* refused before its first access, an individual one stops at a bad block.
XgtCells(r) ==
    IF r.cmd \notin {"read", "write"} THEN <<>>
    ELSE IF ~r.continuous THEN [i \in 1 .. Reached(r) |-> BlockRef(r.blocks[i].name)]
    ELSE IF XgtRefused(r) THEN <<>>
    ELSE [i \in 1 .. Words(r) |-> WordRef(WordIndex(r.blocks[1].name) + i - 1)]

XgtValue(r, i) == IF r.continuous THEN r.blocks[1].data[i] ELSE r.blocks[i].data[1]
=============================================================================
