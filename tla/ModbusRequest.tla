--------------------------- MODULE ModbusRequest ---------------------------
(***************************************************************************)
(* What ModbusServer makes of one request: the checks on the MBAP header   *)
(* in handleClient and the function codes of processRequest.  A request is *)
(* a record: fc; start; qty, which is the value for function codes 5 and   *)
(* 6; bytes, the byte count of 15 and 16; data, the bits or registers that *)
(* follow it; size, the bytes of the PDU; modbus, protocol identifier 0.   *)
(* Exception codes are left out: a request is refused or it is not.        *)
(***************************************************************************)
EXTENDS PlcMemory, Sequences

CONSTANTS
    MaxBits,         \* coils or inputs in one request: 2000
    MaxReadWords,    \* registers in one read: 125
    MaxWriteWords,   \* registers in one write: 123
    MaxLength        \* largest MBAP length handleClient accepts: 250

ASSUME ModbusAssumption ==
    {MaxBits, MaxReadWords, MaxWriteWords, MaxLength} \subseteq Nat

On == 65280   \* 0xFF00

Singles == {5, 6}
Blocks == {1, 2, 3, 4, 15, 16}

ModbusArea(fc) ==
    CASE fc \in {1, 5, 15} -> "COIL"
      [] fc = 2 -> "DI"
      [] fc \in {3, 6, 16} -> "HR"
      [] fc = 4 -> "IR"

QuantityLimit(fc) ==
    CASE fc \in {1, 2, 15} -> MaxBits
      [] fc \in {3, 4} -> MaxReadWords
      [] fc = 16 -> MaxWriteWords

ByteCount(fc, qty) == IF fc = 15 THEN (qty + 7) \div 8 ELSE 2 * qty

\* The MBAP length counts the unit identifier, which is part of the header.
ModbusHeaderRefused(r) ==
    \/ ~r.modbus
    \/ r.size + 1 < 2
    \/ r.size + 1 > MaxLength

\* The byte count of a block write, against the PDU and the quantity.
BadByteCount(r) ==
    \/ r.size < 6
    \/ r.size < 6 + r.bytes
    \/ r.bytes # ByteCount(r.fc, r.qty)

\* Any exception response.
ModbusRefused(r) ==
    \/ r.size < 5
    \/ r.fc \notin Singles \cup Blocks
    \/ r.fc \in {15, 16} /\ BadByteCount(r)
    \/ r.fc \in Blocks /\ (r.qty < 1 \/ r.qty > QuantityLimit(r.fc))
    \/ r.fc \in Blocks /\ r.start + r.qty > Size[ModbusArea(r.fc)]
    \/ r.fc \in Singles /\ r.start >= Size[ModbusArea(r.fc)]
    \/ r.fc = 5 /\ r.qty \notin {0, On}

ModbusWrites(r) == r.fc \in {5, 6, 15, 16}

\* The cells of the one block accessor the request calls, and what it writes.
ModbusCells(r) ==
    IF ModbusRefused(r) THEN <<>>
    ELSE [i \in 1 .. (IF r.fc \in Singles THEN 1 ELSE r.qty) |->
             Ref(ModbusArea(r.fc), r.start + i - 1)]

ModbusValue(r, i) ==
    CASE r.fc = 5 -> IF r.qty = On THEN 1 ELSE 0
      [] r.fc = 6 -> r.qty
      [] OTHER -> r.data[i]
=============================================================================
