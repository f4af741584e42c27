------------------------------- MODULE S7Sync -------------------------------
(***************************************************************************)
(* The S7 server: src/s7/S7Server.cpp.  Snap7's worker threads store what  *)
(* clients write straight into buffers registered with it; sync_thread_    *)
(* compares the DB buffers with shadow copies to detect those stores,      *)
(* carries them into the memory, and then publishes the memory's S7 areas  *)
(* into the buffers, for ever, with a sleep of 10 ms in between.           *)
(*                                                                         *)
(* Nothing locks the buffers: they are read and written byte by byte, in   *)
(* the order the compiler chose, while a worker stores a word in the same  *)
(* way.  The memory is written by other threads at any moment.             *)
(*                                                                         *)
(* A word is kept as its two bytes, so joining and splitting host values   *)
(* is the identity on the model's words and not hidden arithmetic.         *)
(***************************************************************************)
EXTENDS Naturals

CONSTANTS
    NReg,      \* words of DB1 and DB2, walked in this order (2 * 1024)
    NBit,      \* bits of PE and PA, walked in this order (2 * 2048)
    PerByte,   \* bits of a buffer byte (8)
    Byte       \* values of half a word

ASSUME S7Assumption ==
    /\ NReg \in Nat /\ NBit \in Nat /\ PerByte \in Nat \ {0}
    /\ 0 \in Byte

Reg == 1 .. NReg
BitNo == 1 .. NBit
Half == {"h", "l"}
Word == [Half -> Byte]
ZeroWord == [x \in Half |-> 0]
NoBits == [n \in BitNo |-> 0]
Unset == 2   \* no bit value

VARIABLES
    word, bit,      \* the memory's S7 areas
    db, shadow,     \* db1_buffer_, db2_buffer_ and their shadows
    image,          \* pe_buffer_ and pa_buffer_
    running,        \* is_running_
    phase,          \* what sync_thread_ is doing
    i,              \* its loop counter
    todo,           \* bytes it has still to load or store for word i
    curr,           \* curr_h and curr_l, or h and l
    val,            \* the bit it is publishing, or Unset
    loaded,         \* the byte it loaded to change that bit of it
    client          \* the worker's store in progress, if any

syncVars == <<phase, i, todo, curr, val, loaded>>
s7Vars == <<word, bit, db, shadow, image, running, syncVars, client>>

NoStore == [reg |-> 0, todo |-> {}, word |-> ZeroWord]

S7Init ==
    /\ word = [r \in Reg |-> ZeroWord]
    /\ bit = NoBits
    /\ db = word /\ shadow = word
    /\ image = bit
    /\ running = TRUE
    /\ phase = "loop" /\ i = 1
    /\ todo = Half /\ curr = ZeroWord
    /\ val = Unset /\ loaded = NoBits
    /\ client = NoStore

\* The bits that share a buffer byte with bit n.
SameByte(n) == {m \in BitNo : (m - 1) \div PerByte = (n - 1) \div PerByte}

-----------------------------------------------------------------------------
\* sync_thread_ enters a loop over words or bits at its first element.
Enter(next) == phase' = next /\ i' = 1 /\ todo' = Half

\* syncLoop tests is_running_, and syncBeforeCycle tests it again.
LoopTop ==
    /\ phase = "loop"
    /\ IF running THEN Enter("detect") ELSE phase' = "done" /\ UNCHANGED <<i, todo>>
    /\ UNCHANGED <<word, bit, db, shadow, image, running, curr, val, loaded, client>>

\* One of the two loads of the current register's bytes.
LoadByte(x) ==
    /\ phase = "detect" /\ i \in Reg
    /\ x \in todo
    /\ curr' = [curr EXCEPT ![x] = db[i][x]]
    /\ todo' = todo \ {x}
    /\ UNCHANGED <<word, bit, db, shadow, image, running, phase, i, val, loaded, client>>

\* Mutant: only a change of both bytes counts as a client's store.
DetectBothBytes ==
    /\ phase = "detect" /\ i \in Reg
    /\ todo = {}
    /\ IF \A x \in Half : curr[x] # shadow[i][x]
       THEN /\ word' = [word EXCEPT ![i] = curr]
            /\ shadow' = [shadow EXCEPT ![i] = curr]
       ELSE UNCHANGED <<word, shadow>>
    /\ i' = i + 1 /\ todo' = Half /\ curr' = ZeroWord
    /\ UNCHANGED <<bit, db, image, running, phase, val, loaded, client>>

\* A byte that differs from the shadow is a client's: the word is carried
\* into the memory.  shadow is sync_thread_'s own, hence one step.
Detect ==
    /\ phase = "detect" /\ i \in Reg
    /\ todo = {}
    /\ IF curr # shadow[i]
       THEN /\ word' = [word EXCEPT ![i] = curr]
            /\ shadow' = [shadow EXCEPT ![i] = curr]
       ELSE UNCHANGED <<word, shadow>>
    /\ i' = i + 1 /\ todo' = Half /\ curr' = ZeroWord
    /\ UNCHANGED <<bit, db, image, running, phase, val, loaded, client>>

\* syncAfterCycle returns at once when is_running_ was cleared meanwhile.
EndDetect ==
    /\ phase = "detect" /\ i > NReg
    /\ IF running THEN Enter("bits") ELSE Enter("loop")
    /\ UNCHANGED <<word, bit, db, shadow, image, running, curr, val, loaded, client>>

\* readS7PE or readS7PA, then the load half of |= or &= on the buffer byte:
\* one step, as what others do between the two could have come before both
\* (a client's store) or after both (a write of the memory).
LoadBit ==
    /\ phase = "bits" /\ i \in BitNo
    /\ val = Unset
    /\ val' = bit[i]
    /\ loaded' = [n \in BitNo |-> IF n \in SameByte(i) THEN image[n] ELSE 0]
    /\ UNCHANGED <<word, bit, db, shadow, image, running, phase, i, todo, curr, client>>

\* Mutant: a bit once set is never cleared.
StoreBitOrsOnly ==
    /\ phase = "bits" /\ i \in BitNo
    /\ val # Unset
    /\ image' = [n \in BitNo |-> IF n = i /\ val = 1 THEN 1
                                 ELSE IF n \in SameByte(i) THEN loaded[n] ELSE image[n]]
    /\ val' = Unset /\ loaded' = NoBits
    /\ i' = i + 1
    /\ UNCHANGED <<word, bit, db, shadow, running, phase, todo, curr, client>>

\* The store half: the whole byte, with one bit of it changed.
StoreBit ==
    /\ phase = "bits" /\ i \in BitNo
    /\ val # Unset
    /\ image' = [n \in BitNo |-> IF n = i THEN val
                                 ELSE IF n \in SameByte(i) THEN loaded[n] ELSE image[n]]
    /\ val' = Unset /\ loaded' = NoBits
    /\ i' = i + 1
    /\ UNCHANGED <<word, bit, db, shadow, running, phase, todo, curr, client>>

EndBits ==
    /\ phase = "bits" /\ i > NBit
    /\ Enter("read")
    /\ UNCHANGED <<word, bit, db, shadow, image, running, curr, val, loaded, client>>

\* readS7DB1 or readS7DB2.
ReadMemory ==
    /\ phase = "read" /\ i \in Reg
    /\ curr' = word[i]
    /\ phase' = "store"
    /\ UNCHANGED <<word, bit, db, shadow, image, running, i, todo, val, loaded, client>>

\* Mutant: the high byte's shadow is forgotten.
StoreByteNoShadow(x) ==
    /\ phase = "store"
    /\ x \in todo
    /\ db' = [db EXCEPT ![i][x] = curr[x]]
    /\ shadow' = IF x = "h" THEN shadow ELSE [shadow EXCEPT ![i][x] = curr[x]]
    /\ todo' = todo \ {x}
    /\ UNCHANGED <<word, bit, image, running, phase, i, curr, val, loaded, client>>

\* One byte of the word is published, and its shadow with it.
StoreByte(x) ==
    /\ phase = "store"
    /\ x \in todo
    /\ db' = [db EXCEPT ![i][x] = curr[x]]
    /\ shadow' = [shadow EXCEPT ![i][x] = curr[x]]
    /\ todo' = todo \ {x}
    /\ UNCHANGED <<word, bit, image, running, phase, i, curr, val, loaded, client>>

\* Mutant: the loop goes on to the next word without reading the memory.
NextWordStale ==
    /\ phase = "store"
    /\ todo = {}
    /\ i' = i + 1 /\ todo' = Half
    /\ UNCHANGED <<word, bit, db, shadow, image, running, phase, curr, val, loaded, client>>

NextWord ==
    /\ phase = "store"
    /\ todo = {}
    /\ phase' = "read"
    /\ i' = i + 1 /\ todo' = Half /\ curr' = ZeroWord
    /\ UNCHANGED <<word, bit, db, shadow, image, running, val, loaded, client>>

\* The loop body is over; sleep_for follows.
EndPublish ==
    /\ phase = "read" /\ i > NReg
    /\ Enter("loop")
    /\ UNCHANGED <<word, bit, db, shadow, image, running, curr, val, loaded, client>>

SyncThread ==
    \/ LoopTop \/ EndDetect \/ EndBits \/ EndPublish
    \/ \E x \in Half : LoadByte(x) \/ StoreByte(x)
    \/ Detect \/ LoadBit \/ StoreBit \/ ReadMemory \/ NextWord

-----------------------------------------------------------------------------
\* A snap7 worker starts to store a client's word, and stores one byte of it.
ClientBegin(r, w) ==
    /\ running
    /\ client = NoStore
    /\ client' = [reg |-> r, todo |-> Half, word |-> w]
    /\ UNCHANGED <<word, bit, db, shadow, image, running, syncVars>>

ClientStore(x) ==
    /\ x \in client.todo
    /\ db' = [db EXCEPT ![client.reg][x] = client.word[x]]
    /\ client' = IF client.todo = {x} THEN NoStore ELSE [client EXCEPT !.todo = @ \ {x}]
    /\ UNCHANGED <<word, bit, shadow, image, running, syncVars>>

\* A worker stores one bit of a PE or PA byte for a client.
ClientStoreBit(n, v) ==
    /\ running
    /\ image' = [image EXCEPT ![n] = v]
    /\ UNCHANGED <<word, bit, db, shadow, running, syncVars, client>>

\* The mapping engine, the web handlers and the TUI write the memory.
MemoryWrite(r, w) ==
    /\ word' = [word EXCEPT ![r] = w]
    /\ UNCHANGED <<bit, db, shadow, image, running, syncVars, client>>

MemoryWriteBit(n, v) ==
    /\ bit' = [bit EXCEPT ![n] = v]
    /\ UNCHANGED <<word, db, shadow, image, running, syncVars, client>>

\* stop clears the flag and joins sync_thread_, which ends at its next test.
Stop ==
    /\ running
    /\ running' = FALSE
    /\ UNCHANGED <<word, bit, db, shadow, image, syncVars, client>>
=============================================================================
