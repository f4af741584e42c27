----------------------------- MODULE PlcMemory -----------------------------
(***************************************************************************)
(* The memory every server, the scan thread, the mapping engine and the    *)
(* web handlers share: src/core/PlcMemory.cpp.                             *)
(*                                                                         *)
(* The class holds one vector per area.  Every accessor takes mutex_ for   *)
(* its own duration only, so one access is one atomic step of a model and  *)
(* a sequence of accesses is not.  This module holds no variable: it is    *)
(* the data type (a memory is a function from cells to words) and the      *)
(* operations on it, for the modules that own a variable mem.              *)
(***************************************************************************)
EXTENDS Naturals

CONSTANTS
    BitArea,    \* areas of vector<bool>: COIL DI PE PA X Y M L B F SM I Q ...
    WordArea,   \* areas of vector<uint16_t>: IR HR DB1 DB2 D W R ZR SD ...
    Size,       \* Size[a]: number of cells of area a
    WordMax     \* largest word: 65535 in the code

Area == BitArea \cup WordArea

ASSUME MemoryAssumption ==
    /\ Area \subseteq STRING
    /\ BitArea \cap WordArea = {}
    /\ Size \in [Area -> Nat]
    /\ WordMax \in Nat \ {0}

Word == 0 .. WordMax
Bit  == 0 .. 1

\* A MemoryRef that parseAddress returns names an area and an index; area
\* names outside Area and indexes beyond the area's size are references too.
Ref(area, index) == [area |-> area, index |-> index]

MemoryRef == [area : STRING, index : Nat]

\* The cells that exist: every index below the size of its vector.
Cell == UNION {{Ref(a, i) : i \in 0 .. (Size[a] - 1)} : a \in Area}

BitCell  == {c \in Cell : c.area \in BitArea}
WordCell == {c \in Cell : c.area \in WordArea}

ZeroMemory == [c \in Cell |-> 0]

\* The memory's type: a cell of a vector<bool> only ever holds 0 or 1.
MemoryType == {m \in [Cell -> Word] : \A c \in BitCell : m[c] \in Bit}

\* What an area keeps of a word: value != 0 for bits, the word for words.
Narrow(ref, value) ==
    IF ref \in BitCell THEN (IF value = 0 THEN 0 ELSE 1) ELSE value

\* A read outside the vectors, or of an unknown area, returns 0.
ReadValue(m, ref) == IF ref \in Cell THEN m[ref] ELSE 0

\* A write outside the vectors, or to an unknown area, is dropped silently.
WriteValue(m, ref, value) ==
    IF ref \in Cell THEN [m EXCEPT ![ref] = Narrow(ref, value)] ELSE m
=============================================================================
