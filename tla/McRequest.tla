----------------------------- MODULE McRequest -----------------------------
(***************************************************************************)
(* What McServer makes of one 3E frame: the checks on the header in        *)
(* handleClient and the batch commands of processRequest.  A request is a  *)
(* record: subheader, whether it is 50 00; length, the request data length *)
(* of the header; cmd; unit, the subcommand; device, the area the device   *)
(* code stands for or no area; start; points; data.  End codes are left    *)
(* out: a request is refused or it is not.                                 *)
(***************************************************************************)
EXTENDS PlcMemory, Sequences

CONSTANTS
    MaxFrame,   \* longest request body handleClient accepts: 2048
    Addresses   \* number of 16-bit addresses: 65536

ASSUME McAssumption == MaxFrame \in Nat /\ Addresses \in Nat \ {0}

McHeaderRefused(r) == ~r.subheader \/ r.length = 0 \/ r.length > MaxFrame

\* Bytes of a batch: two to a word, one to two bits.
BatchBytes(r) == IF r.unit = "word" THEN 2 * r.points ELSE (r.points + 1) \div 2

\* Device codes come in two tables, one for each subcommand.
McDevice(unit) ==
    IF unit = "word" THEN {"D", "W", "R", "ZR", "SD"}
                     ELSE {"X", "Y", "M", "L", "B", "F", "SM"}

\* Timer, command, subcommand, address, device and points take 12 bytes.
McRefused(r) ==
    \/ r.length < 12
    \/ r.cmd \notin {"read", "write"}
    \/ r.unit \notin {"word", "bit"}
    \/ r.device \notin McDevice(r.unit)
    \/ r.cmd = "write" /\ r.length < 12 + BatchBytes(r)

\* The cells of a batch, one accessor call each.  The 24-bit address of a
\* point is cut to 16 bits; one beyond the area reads 0 and takes no write.
McCells(r) ==
    IF McRefused(r) THEN <<>>
    ELSE [i \in 1 .. r.points |-> Ref(r.device, (r.start + i - 1) % Addresses)]
=============================================================================
