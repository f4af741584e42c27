----------------------------- MODULE S7Proofs -----------------------------
(***************************************************************************)
(* For any number of registers and any bytes: the S7 server's types; that  *)
(* it never takes what it published itself for a client's store, that an   *)
(* undisturbed loop leaves buffers, shadows and memory in agreement, and   *)
(* that a store outside the window arrives whole.                          *)
(***************************************************************************)
EXTENDS S7History, TLAPS

\* Storing one byte of one word leaves an array of words.
LEMMA ByteStored ==
    ASSUME NEW f \in [Reg -> Word], NEW r \in Reg, NEW x \in Half, NEW v \in Byte
    PROVE  [f EXCEPT ![r][x] = v] \in [Reg -> Word]
<1>1. [f[r] EXCEPT ![x] = v] \in Word
    BY DEF Word
<1> QED
    BY <1>1

\* The word of zeros the locals are reset to is a word.
LEMMA ZeroIsWord == ZeroWord \in Word
BY S7Assumption DEF S7Assumption, ZeroWord, Word

\* Every step of sync_thread_ keeps the types (S7Server.cpp:89-202).
LEMMA SyncTypes ==
    ASSUME TypeOK, Sync
    PROVE  TypeOK'
<1> USE S7Assumption DEF S7Assumption, TypeOK, Enter, Reg, BitNo
<1>1. CASE Top
    BY <1>1 DEF Top, LoopTop
<1>2. CASE Publish
    BY <1>2 DEF Publish, ReadMemory
<1>3. CASE EndDetect /\ UNCHANGED <<touched, undisturbed>>
    BY <1>3 DEF EndDetect
<1>4. CASE EndBits /\ UNCHANGED <<touched, undisturbed>>
    BY <1>4 DEF EndBits
<1>5. CASE EndPublish /\ UNCHANGED <<touched, undisturbed>>
    BY <1>5 DEF EndPublish
<1>6. ASSUME NEW x \in Half, LoadByte(x), UNCHANGED <<touched, undisturbed>>
      PROVE  TypeOK'
    <2>1. curr' \in Word
        BY <1>6 DEF LoadByte, Word
    <2> QED
        BY <1>6, <2>1 DEF LoadByte
<1>7. ASSUME NEW x \in Half, StoreByte(x), UNCHANGED <<touched, undisturbed>>
      PROVE  TypeOK'
    <2>1. i \in Reg /\ curr[x] \in Byte
        BY <1>7 DEF StoreByte, Word
    <2>2. db' \in [Reg -> Word] /\ shadow' \in [Reg -> Word]
        BY <1>7, <2>1, ByteStored DEF StoreByte
    <2> QED
        BY <1>7, <2>2 DEF StoreByte
<1>8. CASE Detect /\ UNCHANGED <<touched, undisturbed>>
    BY <1>8, ZeroIsWord DEF Detect
<1>9. CASE LoadBit /\ UNCHANGED <<touched, undisturbed>>
    BY <1>9 DEF LoadBit, Unset
<1>10. CASE StoreBit /\ UNCHANGED <<touched, undisturbed>>
    BY <1>10 DEF StoreBit, NoBits, Unset
<1>11. CASE NextWord /\ UNCHANGED <<touched, undisturbed>>
    BY <1>11, ZeroIsWord DEF NextWord
<1> QED
    BY <1>1, <1>2, <1>3, <1>4, <1>5, <1>6, <1>7, <1>8, <1>9, <1>10, <1>11 DEF Sync, Proceed

\* Every step of the clients and of the other threads keeps the types.
LEMMA OthersTypes ==
    ASSUME TypeOK, Next, ~Sync
    PROVE  TypeOK'
<1> USE S7Assumption, TargetAssumption
    DEF S7Assumption, TargetAssumption, TypeOK, syncVars, Reg, BitNo
<1>1. ASSUME NEW r \in Reg, NEW w \in Sent, BeginStore(r, w)
      PROVE  TypeOK'
    BY <1>1 DEF BeginStore, ClientBegin, Half
<1>2. ASSUME NEW r \in Reg, NEW w \in Sent, WriteWord(r, w)
      PROVE  TypeOK'
    BY <1>2 DEF WriteWord, MemoryWrite
<1>3. ASSUME NEW x \in Half, Store(x)
      PROVE  TypeOK'
    <2>1. client.reg \in Reg
        BY <1>3 DEF Store, ClientStore
    <2>2. NoStore \in [reg : 0 .. NReg, todo : SUBSET Half, word : Word]
        BY ZeroIsWord DEF NoStore
    <2>3. client' \in [reg : 0 .. NReg, todo : SUBSET Half, word : Word]
        BY <1>3, <2>2 DEF Store, ClientStore
    <2>4. client'.todo # {} <=> client'.reg # 0
        BY <1>3, <2>1 DEF Store, ClientStore, NoStore
    <2>5. client.word[x] \in Byte
        BY DEF Word
    <2>6. db' \in [Reg -> Word] /\ touched' \in SUBSET Reg
        BY <1>3, <2>1, <2>5, ByteStored DEF Store, ClientStore
    <2> QED
        BY <1>3, <2>3, <2>4, <2>6 DEF Store, ClientStore
<1>4. ASSUME NEW n \in BitNo, NEW v \in 0 .. 1, StoreOutput(n, v)
      PROVE  TypeOK'
    BY <1>4 DEF StoreOutput, ClientStoreBit
<1>5. ASSUME NEW n \in BitNo, NEW v \in 0 .. 1, WriteBit(n, v)
      PROVE  TypeOK'
    BY <1>5 DEF WriteBit, MemoryWriteBit
<1>6. CASE Halt
    BY <1>6 DEF Halt, Stop, historyVars
<1> QED
    BY <1>1, <1>2, <1>3, <1>4, <1>5, <1>6 DEF Next

\* The types hold in every reachable state, for any number of registers and
\* bits and any bytes: the thread's indexes stay inside the buffers
\* (S7Server.cpp:110-202).
THEOREM S7Typing == Spec => []TypeOK
<1>1. Init => TypeOK
    BY S7Assumption
    DEF S7Assumption, Init, S7Init, TypeOK, Reg, BitNo, Word, Half, ZeroWord, NoBits, Unset, NoStore
<1>2. TypeOK /\ [Next]_vars => TypeOK'
    <2> SUFFICES ASSUME TypeOK, [Next]_vars PROVE TypeOK'
        OBVIOUS
    <2>1. CASE Sync
        BY <2>1, SyncTypes
    <2>2. CASE Next /\ ~Sync
        BY <2>2, OthersTypes
    <2>3. CASE UNCHANGED vars
        BY <2>3 DEF TypeOK, vars, s7Vars, syncVars, historyVars
    <2> QED
        BY <2>1, <2>2, <2>3
<1> QED
    BY <1>1, <1>2, PTL DEF Spec

-----------------------------------------------------------------------------
\* Why the thread never answers itself.  A register no client stored to since
\* its publication began agrees with its shadow, but for the bytes that
\* publication has still to store; and what the comparison has loaded of such
\* a register is its shadow.
Untouched ==
    /\ \A r \in Reg \ touched : \A x \in Half :
          \/ db[r][x] = shadow[r][x]
          \/ phase = "store" /\ i = r /\ x \in todo
    /\ phase = "detect" /\ i \in Reg \ touched =>
          \A x \in Half \ todo : curr[x] = shadow[i][x]

\* Comparing an untouched register finds nothing (S7Server.cpp:122).
LEMMA NothingDetected ==
    ASSUME TypeOK, Untouched, Detect, i \notin touched
    PROVE  curr = shadow[i]
<1>1. \A x \in Half : curr[x] = shadow[i][x]
    BY DEF Untouched, Detect
<1>2. curr \in Word /\ shadow[i] \in Word
    BY DEF TypeOK, Detect
<1> QED
    BY <1>1, <1>2 DEF Word

\* The steps of the publication and of the comparison keep Untouched.
LEMMA SyncUntouched ==
    ASSUME TypeOK, Untouched, Sync
    PROVE  Untouched'
<1> USE DEF TypeOK, Untouched, Reg
<1>1. CASE Top
    BY <1>1 DEF Top, LoopTop, Enter
<1>2. CASE Publish
    <2>1. phase = "read" /\ phase' = "store" /\ touched' = touched \ {i} /\ UNCHANGED <<db, shadow, i, todo>>
        BY <1>2 DEF Publish, ReadMemory
    <2>2. todo = Half
        BY <2>1
    <2> QED
        BY <2>1, <2>2
<1>3. CASE (EndDetect \/ EndBits \/ EndPublish) /\ UNCHANGED <<touched, undisturbed>>
    <2>1. phase # "store" /\ phase' \notin {"store", "detect"} /\ UNCHANGED <<db, shadow, touched>>
        BY <1>3 DEF EndDetect, EndBits, EndPublish, Enter
    <2> QED
        BY <2>1
<1>4. ASSUME NEW x \in Half, LoadByte(x), UNCHANGED <<touched, undisturbed>>
      PROVE  Untouched'
    BY <1>4 DEF LoadByte, Word
<1>5. ASSUME NEW x \in Half, StoreByte(x), UNCHANGED <<touched, undisturbed>>
      PROVE  Untouched'
    BY <1>5 DEF StoreByte, Word
<1>6. CASE Detect /\ UNCHANGED <<touched, undisturbed>>
    <2>1. i \in Reg \ touched => UNCHANGED shadow
        BY <1>6, NothingDetected DEF Detect
    <2>2. \A r \in Reg \ touched : shadow'[r] = shadow[r]
        BY <1>6, <2>1 DEF Detect
    <2> QED
        BY <1>6, <2>2 DEF Detect
<1>7. CASE (LoadBit \/ StoreBit) /\ UNCHANGED <<touched, undisturbed>>
    <2>1. phase # "store" /\ phase' \notin {"store", "detect"} /\ UNCHANGED <<db, shadow, touched>>
        BY <1>7 DEF LoadBit, StoreBit
    <2> QED
        BY <2>1
<1>8. CASE NextWord /\ UNCHANGED <<touched, undisturbed>>
    BY <1>8 DEF NextWord
<1> QED
    BY <1>1, <1>2, <1>3, <1>4, <1>5, <1>6, <1>7, <1>8 DEF Sync, Proceed

\* Clients' stores mark the register; nobody else writes buffer or shadow.
LEMMA OthersUntouched ==
    ASSUME TypeOK, Untouched, Next, ~Sync
    PROVE  Untouched'
<1>1. ASSUME NEW x \in Half, Store(x)
      PROVE  Untouched'
    <2>1. \A r \in Reg \ touched' : db'[r] = db[r]
        BY <1>1 DEF Store, ClientStore, TypeOK
    <2>2. touched' = touched \cup {client.reg} /\ UNCHANGED <<shadow, syncVars>>
        BY <1>1 DEF Store, ClientStore
    <2> QED
        BY <2>1, <2>2 DEF Untouched, syncVars
<1>2. CASE UNCHANGED <<db, shadow, touched, syncVars>>
    BY <1>2 DEF Untouched, syncVars
<1>3. ASSUME NEW r \in Reg, NEW w \in Sent, BeginStore(r, w) \/ WriteWord(r, w)
      PROVE  Untouched'
    BY <1>2, <1>3 DEF BeginStore, ClientBegin, WriteWord, MemoryWrite
<1>4. ASSUME NEW n \in BitNo, NEW v \in 0 .. 1, StoreOutput(n, v) \/ WriteBit(n, v)
      PROVE  Untouched'
    BY <1>2, <1>4 DEF StoreOutput, ClientStoreBit, WriteBit, MemoryWriteBit
<1>5. CASE Halt
    BY <1>2, <1>5 DEF Halt, Stop, historyVars
<1> QED
    BY <1>1, <1>3, <1>4, <1>5 DEF Next

\* For any number of registers, any bytes and any interleaving: sync_thread_
\* writes a register of the memory only after a client stored to it
\* (S7Server.cpp:122-127, 183-186).
THEOREM S7NoEcho == Spec => NoEcho
<1>1. Init => Untouched
    BY DEF Init, S7Init, Untouched
<1>2. TypeOK /\ Untouched /\ [Next]_vars => Untouched'
    <2> SUFFICES ASSUME TypeOK, Untouched, [Next]_vars PROVE Untouched'
        OBVIOUS
    <2>1. CASE Sync
        BY <2>1, SyncUntouched
    <2>2. CASE Next /\ ~Sync
        BY <2>2, OthersUntouched
    <2>3. CASE UNCHANGED vars
        BY <2>3 DEF Untouched, vars, s7Vars, syncVars, historyVars
    <2> QED
        BY <2>1, <2>2, <2>3
<1>3. TypeOK /\ Untouched =>
        [\A r \in Reg : Detect /\ word'[r] # word[r] => r \in touched]_vars
    <2> SUFFICES ASSUME TypeOK, Untouched, NEW r \in Reg, Detect, word'[r] # word[r]
                 PROVE  r \in touched
        OBVIOUS
    <2>1. r = i /\ curr # shadow[i]
        BY DEF Detect, TypeOK
    <2> QED
        BY <2>1, NothingDetected
<1> QED
    BY <1>1, <1>2, <1>3, S7Typing, PTL DEF Spec, NoEcho
-----------------------------------------------------------------------------
\* Why an undisturbed loop leaves everything in agreement: the bits and words
\* before the counter have been published and nobody changed them since.
Settles ==
    undisturbed =>
        /\ phase = "bits" => \A n \in BitNo : n < i => image[n] = bit[n]
        /\ val # Unset => val = bit[i] /\ \A n \in SameByte(i) : loaded[n] = image[n]
        /\ phase \in {"read", "store"} =>
              image = bit /\ \A r \in Reg : r < i => db[r] = word[r] /\ shadow[r] = word[r]
        /\ phase = "store" =>
              /\ curr = word[i]
              /\ \A x \in Half \ todo : db[i][x] = curr[x] /\ shadow[i][x] = curr[x]
        /\ phase = "loop" /\ running => db = word /\ shadow = word /\ image = bit

\* The walk over the bits: a bit is stored with the neighbours it was loaded
\* with, which are still there (S7Server.cpp:152-176).
LEMMA BitsSettle ==
    ASSUME TypeOK, Settles, LoadBit \/ StoreBit \/ EndBits, UNCHANGED undisturbed
    PROVE  Settles'
<1> USE DEF TypeOK, Settles
<1>1. CASE LoadBit
    <2>1. SameByte(i) \subseteq BitNo
        BY DEF SameByte
    <2> QED
        BY <1>1, <2>1 DEF LoadBit
<1>2. CASE StoreBit
    <2>1. /\ phase = "bits" /\ phase' = "bits" /\ i \in BitNo /\ i' = i + 1 /\ bit' = bit
          /\ val # Unset /\ val' = Unset
          /\ \A n \in BitNo : image'[n] = IF n = i THEN val
                                          ELSE IF n \in SameByte(i) THEN loaded[n] ELSE image[n]
        BY <1>2 DEF StoreBit
    <2>2. undisturbed => \A n \in BitNo : n < i + 1 => image'[n] = bit[n]
        BY <2>1 DEF BitNo
    <2> QED
        BY <2>1, <2>2
<1>3. CASE EndBits
    <2>1. i \in Nat /\ i > NBit /\ NBit \in Nat /\ phase = "bits" /\ phase' = "read" /\ val = Unset
          /\ i' = 1 /\ UNCHANGED <<image, bit, val>>
        BY <1>3, S7Assumption DEF EndBits, Enter, BitNo, S7Assumption
    <2>2. undisturbed => \A n \in BitNo : image[n] = bit[n]
        BY <2>1 DEF BitNo
    <2>3. undisturbed => image = bit
        BY <2>2
    <2> QED
        BY <2>1, <2>3 DEF Reg
<1> QED
    BY <1>1, <1>2, <1>3

\* The walk over the words (S7Server.cpp:179-202).
LEMMA WordsSettle ==
    ASSUME TypeOK, Settles, UNCHANGED undisturbed,
           ReadMemory \/ NextWord \/ EndPublish \/ \E x \in Half : StoreByte(x)
    PROVE  Settles'
<1> USE DEF TypeOK, Settles
<1>1. CASE ReadMemory
    BY <1>1 DEF ReadMemory
<1>2. ASSUME NEW x \in Half, StoreByte(x)
      PROVE  Settles'
    <2>1. /\ phase = "store" /\ phase' = "store" /\ i \in Reg /\ x \in todo /\ todo' = todo \ {x}
          /\ UNCHANGED <<word, bit, image, running, i, curr, val>>
        BY <1>2 DEF StoreByte
    <2>2. /\ \A r \in Reg \ {i} : db'[r] = db[r] /\ shadow'[r] = shadow[r]
          /\ \A y \in Half \ {x} : db'[i][y] = db[i][y] /\ shadow'[i][y] = shadow[i][y]
          /\ db'[i][x] = curr[x] /\ shadow'[i][x] = curr[x]
        BY <1>2, <2>1 DEF StoreByte, Word
    <2>3. val = Unset
        BY <2>1
    <2> QED
        BY <2>1, <2>2, <2>3 DEF Reg
<1>3. CASE NextWord
    <2>1. /\ phase = "store" /\ phase' = "read" /\ i \in Reg /\ todo = {} /\ i' = i + 1
          /\ UNCHANGED <<word, bit, db, shadow, image, running, val>> /\ val = Unset
        BY <1>3 DEF NextWord
    <2>2. undisturbed => db[i] = word[i] /\ shadow[i] = word[i]
        <3>1. undisturbed => \A x \in Half : db[i][x] = word[i][x] /\ shadow[i][x] = word[i][x]
            BY <2>1
        <3>2. db[i] \in Word /\ shadow[i] \in Word /\ word[i] \in Word
            BY <2>1
        <3> QED
            BY <3>1, <3>2 DEF Word
    <2> QED
        BY <2>1, <2>2 DEF Reg
<1>4. CASE EndPublish
    <2>1. i \in Nat /\ i > NReg /\ NReg \in Nat /\ phase = "read" /\ phase' = "loop" /\ val = Unset
          /\ UNCHANGED <<word, bit, db, shadow, image, running, val>>
        BY <1>4, S7Assumption DEF EndPublish, Enter, BitNo, S7Assumption
    <2>2. undisturbed => \A r \in Reg : db[r] = word[r] /\ shadow[r] = word[r]
        BY <2>1 DEF Reg
    <2>3. undisturbed => db = word /\ shadow = word
        BY <2>2
    <2> QED
        BY <2>1, <2>3
<1> QED
    BY <1>1, <1>2, <1>3, <1>4

\* The other steps of the thread publish nothing, and the other threads' steps
\* that change a buffer or the memory disturb the loop.
LEMMA OthersSettle ==
    ASSUME TypeOK, Settles, Next,
           ~(UNCHANGED undisturbed /\
             (\/ LoadBit \/ StoreBit \/ EndBits
              \/ ReadMemory \/ NextWord \/ EndPublish \/ \E x \in Half : StoreByte(x)))
    PROVE  Settles'
<1> USE DEF TypeOK, Settles
<1>1. CASE Top
    BY <1>1 DEF Top, LoopTop, Enter
<1>2. CASE EndDetect /\ UNCHANGED undisturbed
    BY <1>2 DEF EndDetect, Enter, BitNo
<1>3. ASSUME NEW x \in Half, LoadByte(x)
      PROVE  Settles'
    BY <1>3 DEF LoadByte
<1>4. CASE Detect
    BY <1>4 DEF Detect
<1>5. ASSUME NEW r \in Reg, NEW w \in Sent, BeginStore(r, w) \/ WriteWord(r, w)
      PROVE  Settles'
    BY <1>5 DEF BeginStore, ClientBegin, WriteWord, syncVars
<1>6. ASSUME NEW x \in Half, Store(x)
      PROVE  Settles'
    BY <1>6 DEF Store
<1>7. ASSUME NEW n \in BitNo, NEW v \in 0 .. 1, StoreOutput(n, v) \/ WriteBit(n, v)
      PROVE  Settles'
    BY <1>7 DEF StoreOutput, WriteBit
<1>8. CASE Halt
    BY <1>8 DEF Halt, Stop, historyVars, syncVars
<1> QED
    BY <1>1, <1>2, <1>3, <1>4, <1>5, <1>6, <1>7, <1>8 DEF Next, Sync, Proceed, Publish

\* For any number of registers, bits and bits to a byte: after a loop in which
\* nobody else stored or wrote, buffers, shadows and memory agree, whatever
\* was stored, torn or overwritten before (S7Server.cpp:148-202).
THEOREM S7LoopAgrees == Spec => []LoopAgrees
<1>1. Init => Settles
    BY DEF Init, Settles
<1>2. TypeOK /\ Settles /\ [Next]_vars => Settles'
    <2> SUFFICES ASSUME TypeOK, Settles, [Next]_vars PROVE Settles'
        OBVIOUS
    <2>1. CASE UNCHANGED vars
        BY <2>1 DEF Settles, SameByte, vars, s7Vars, syncVars, historyVars
    <2> QED
        BY <2>1, BitsSettle, WordsSettle, OthersSettle
<1>3. Settles => LoopAgrees
    BY DEF Settles, LoopAgrees
<1> QED
    BY <1>1, <1>2, <1>3, S7Typing, PTL DEF Spec

-----------------------------------------------------------------------------
\* Why a store outside the window arrives.  While it is being made, memory and
\* shadow hold the old word and the buffer each byte's old or new value; once
\* it is whole the buffer holds it until the comparison has carried it into
\* the memory, and what is published afterwards is the same word.
Command ==
    /\ cmd \in [kind : {"none", "overtaken", "storing", "lone"},
                word : Word, before : Word, exposed : BOOLEAN]
    /\ cmd.kind = "storing" => client.reg = Target
    /\ cmd.kind = "lone" => client.reg # Target

UnderWay ==
    cmd.kind = "storing" /\ ~cmd.exposed =>
        /\ ~WindowOpen
        /\ client.word = cmd.word
        /\ word[Target] = cmd.before /\ shadow[Target] = cmd.before
        /\ \A x \in Half :
              db[Target][x] = IF x \in client.todo THEN cmd.before[x] ELSE cmd.word[x]

Whole ==
    cmd.kind = "lone" /\ ~cmd.exposed =>
        /\ db[Target] = cmd.word
        /\ shadow[Target] = word[Target] /\ word[Target] \in {cmd.before, cmd.word}
        /\ phase = "detect" /\ i = Target => \A x \in Half \ todo : curr[x] = cmd.word[x]
        /\ WindowOpen /\ ~(phase = "detect" /\ i = Target) => word[Target] = cmd.word
        /\ phase = "store" /\ i = Target => curr = cmd.word

Arrives == Command /\ UnderWay /\ Whole

\* What the thread's steps do to the command: nothing, or it becomes exposed.
LEMMA SyncCommand ==
    ASSUME TypeOK, Command, Sync
    PROVE  /\ Command' /\ client' = client
           /\ cmd'.kind = cmd.kind /\ cmd'.word = cmd.word /\ cmd'.before = cmd.before
           /\ cmd.exposed => cmd'.exposed
           /\ Top \/ Publish \/ (cmd.kind = "storing" /\ ~cmd'.exposed => ~WindowOpen')
<1>1. client' = client
    BY DEF Sync, Top, LoopTop, Publish, ReadMemory, Proceed, EndDetect, EndBits, EndPublish,
           LoadByte, StoreByte, Detect, LoadBit, StoreBit, NextWord
<1>2. CASE Top \/ Publish
    <2>1. cmd' = cmd
        BY <1>2 DEF Top, Publish
    <2> QED
        BY <1>1, <1>2, <2>1 DEF Command
<1>3. CASE Proceed
    BY <1>1, <1>3 DEF Proceed, Command
<1> QED
    BY <1>2, <1>3 DEF Sync

\* A command under way that stays unexposed: the thread does not come near
\* Target (S7Server.cpp:110-127).
LEMMA SyncUnderWay ==
    ASSUME TypeOK, Arrives, Sync
    PROVE  UnderWay'
<1> SUFFICES ASSUME cmd'.kind = "storing", ~cmd'.exposed
             PROVE  UnderWay'
    BY DEF UnderWay
<1>1. /\ cmd.kind = "storing" /\ ~cmd.exposed /\ client' = client
      /\ cmd'.word = cmd.word /\ cmd'.before = cmd.before
      /\ (Top \/ Publish \/ ~WindowOpen')
    BY SyncCommand DEF Arrives
<1>2. ~WindowOpen /\ client.word = cmd.word /\ word[Target] = cmd.before /\ shadow[Target] = cmd.before
      /\ \A x \in Half : db[Target][x] = IF x \in client.todo THEN cmd.before[x] ELSE cmd.word[x]
    BY <1>1 DEF Arrives, UnderWay
<1>3. ~WindowOpen'
    <2>1. CASE Top
        BY <2>1, TargetAssumption
        DEF Top, LoopTop, Enter, WindowOpen, TargetAssumption, Reg
    <2>2. CASE Publish
        BY <2>2, <1>2 DEF Publish, ReadMemory, WindowOpen
    <2> QED
        BY <2>1, <2>2, <1>1
<1>4. word'[Target] = word[Target] /\ shadow'[Target] = shadow[Target] /\ db'[Target] = db[Target]
    <2>1. CASE Detect
        <3>1. i # Target
            BY <2>1, <1>2 DEF Detect, WindowOpen, Half
        <3> QED
            BY <3>1, <2>1, TargetAssumption DEF Detect, TypeOK, TargetAssumption
    <2>2. ASSUME NEW x \in Half, StoreByte(x)
          PROVE  /\ word'[Target] = word[Target] /\ shadow'[Target] = shadow[Target]
                 /\ db'[Target] = db[Target]
        <3>1. i \in Reg /\ i # Target
            BY <2>2, <1>2 DEF StoreByte, WindowOpen, TypeOK, Reg
        <3> QED
            BY <3>1, <2>2, TargetAssumption DEF StoreByte, TypeOK, TargetAssumption
    <2>3. CASE UNCHANGED <<word, shadow, db>>
        BY <2>3
    <2> QED
        BY <2>1, <2>2, <2>3 DEF Sync, Top, LoopTop, Publish, ReadMemory, Proceed, EndDetect,
            EndBits, EndPublish, LoadByte, LoadBit, StoreBit, NextWord
<1> QED
    BY <1>1, <1>2, <1>3, <1>4 DEF UnderWay

\* The comparison finds a whole word and carries it into the memory, and every
\* later publication reads it from there (S7Server.cpp:110-127, 179-202).
LEMMA SyncWhole ==
    ASSUME TypeOK, Arrives, Sync
    PROVE  Whole'
<1> SUFFICES ASSUME cmd'.kind = "lone", ~cmd'.exposed
             PROVE  Whole'
    BY DEF Whole
<1>1. cmd.kind = "lone" /\ ~cmd.exposed /\ cmd'.word = cmd.word /\ cmd'.before = cmd.before
    BY SyncCommand DEF Arrives
<1>2. /\ db[Target] = cmd.word
      /\ shadow[Target] = word[Target] /\ word[Target] \in {cmd.before, cmd.word}
      /\ phase = "detect" /\ i = Target => \A x \in Half \ todo : curr[x] = cmd.word[x]
      /\ WindowOpen /\ ~(phase = "detect" /\ i = Target) => word[Target] = cmd.word
      /\ phase = "store" /\ i = Target => curr = cmd.word
    BY <1>1 DEF Arrives, Whole
<1>3. Target \in Reg /\ Target \in Nat /\ i \in Nat /\ NReg \in Nat /\ cmd.word \in Word
    BY TargetAssumption, S7Assumption
    DEF TargetAssumption, S7Assumption, TypeOK, Reg, BitNo, Arrives, Command
<1> USE DEF TypeOK
<1>4. CASE Top
    BY <1>1, <1>2, <1>3, <1>4 DEF Top, LoopTop, Enter, Whole, WindowOpen, Reg
<1>5. CASE Publish
    BY <1>1, <1>2, <1>3, <1>5 DEF Publish, ReadMemory, Whole, WindowOpen
<1>6. CASE EndDetect \/ EndBits \/ EndPublish
    BY <1>1, <1>2, <1>3, <1>6 DEF EndDetect, EndBits, EndPublish, Enter, Whole, WindowOpen, Reg
<1>7. ASSUME NEW x \in Half, LoadByte(x)
      PROVE  Whole'
    BY <1>1, <1>2, <1>3, <1>7 DEF LoadByte, Whole, WindowOpen, Word
<1>8. ASSUME NEW x \in Half, StoreByte(x)
      PROVE  Whole'
    <2>1. phase = "store" /\ i \in Reg /\ phase' = "store" /\ i' = i /\ curr' = curr /\ word' = word
        BY <1>8 DEF StoreByte
    <2>2. i # Target => db'[Target] = db[Target] /\ shadow'[Target] = shadow[Target]
        BY <1>8, <1>3, <2>1 DEF StoreByte
    <2>3. i = Target => db'[Target] = cmd.word /\ shadow'[Target] = cmd.word
        <3> SUFFICES ASSUME i = Target
                     PROVE  db'[Target] = cmd.word /\ shadow'[Target] = cmd.word
            OBVIOUS
        <3>1. WindowOpen /\ word[Target] = cmd.word /\ curr = cmd.word
            BY <1>2, <1>3, <2>1 DEF WindowOpen
        <3>2. db'[Target] = [db[Target] EXCEPT ![x] = curr[x]]
              /\ shadow'[Target] = [shadow[Target] EXCEPT ![x] = curr[x]]
            BY <1>8, <1>3 DEF StoreByte
        <3> QED
            BY <1>2, <1>3, <3>1, <3>2 DEF Word
    <2>4. i = Target => word[Target] = cmd.word
        BY <1>2, <1>3, <2>1 DEF WindowOpen
    <2> QED
        BY <1>1, <1>2, <1>3, <2>1, <2>2, <2>3, <2>4 DEF Whole, WindowOpen
<1>9. CASE Detect
    <2>1. /\ phase = "detect" /\ phase' = "detect" /\ i \in Reg /\ todo = {} /\ todo' = Half
          /\ i' = i + 1 /\ db' = db
        BY <1>9 DEF Detect
    <2>2. i # Target => word'[Target] = word[Target] /\ shadow'[Target] = shadow[Target]
        BY <1>9, <1>3 DEF Detect
    <2>3. i = Target => word'[Target] = cmd.word /\ shadow'[Target] = cmd.word
        <3> SUFFICES ASSUME i = Target
                     PROVE  word'[Target] = cmd.word /\ shadow'[Target] = cmd.word
            OBVIOUS
        <3>1. curr = cmd.word
            BY <1>2, <1>3, <2>1 DEF Word
        <3> QED
            BY <1>2, <1>3, <1>9, <3>1 DEF Detect
    <2> QED
        BY <1>1, <1>2, <1>3, <2>1, <2>2, <2>3 DEF Whole, WindowOpen
<1>10. CASE LoadBit \/ StoreBit
    BY <1>1, <1>2, <1>3, <1>10 DEF LoadBit, StoreBit, Whole, WindowOpen
<1>11. CASE NextWord
    BY <1>1, <1>2, <1>3, <1>11 DEF NextWord, Whole, WindowOpen
<1> QED
    BY <1>4, <1>5, <1>6, <1>7, <1>8, <1>9, <1>10, <1>11 DEF Sync, Proceed

\* A client begins to store a word.
LEMMA BeginArrives ==
    ASSUME TypeOK, Untouched, Arrives, NEW r \in Reg, NEW w \in Sent, BeginStore(r, w)
    PROVE  Arrives'
<1>1. /\ UNCHANGED <<word, db, shadow, phase, i, todo, curr>>
      /\ client.reg = 0 /\ client' = [reg |-> r, todo |-> Half, word |-> w]
    BY DEF BeginStore, ClientBegin, syncVars, NoStore
<1>2. Target \in Reg /\ Target # 0 /\ w \in Word /\ WindowOpen' = WindowOpen
    BY <1>1, TargetAssumption DEF TargetAssumption, Reg, WindowOpen
<1>3. CASE r # Target
    <2>1. cmd' = cmd
        BY <1>3 DEF BeginStore
    <2>2. cmd.kind # "storing"
        BY <1>1, <1>2 DEF Arrives, Command
    <2> QED
        BY <1>1, <1>2, <1>3, <2>1, <2>2 DEF Arrives, Command, UnderWay, Whole
<1>4. CASE r = Target /\ Calm
    <2>1. cmd' = [kind |-> "storing", word |-> w, before |-> word[Target], exposed |-> FALSE]
        BY <1>4 DEF BeginStore
    <2>2. db[Target] = word[Target] /\ ~WindowOpen /\ Target \notin touched
        BY <1>4 DEF Calm
    <2>3. ~(phase = "store" /\ i = Target)
        BY <2>2, <1>2 DEF WindowOpen, Reg
    <2>4. shadow[Target] = db[Target]
        <3>1. \A x \in Half : db[Target][x] = shadow[Target][x]
            BY <1>2, <2>2, <2>3 DEF Untouched
        <3>2. db[Target] \in Word /\ shadow[Target] \in Word
            BY <1>2 DEF TypeOK
        <3> QED
            BY <3>1, <3>2 DEF Word
    <2>5. word[Target] \in Word
        BY <1>2 DEF TypeOK
    <2> QED
        BY <1>1, <1>2, <1>4, <2>1, <2>2, <2>4, <2>5 DEF Arrives, Command, UnderWay, Whole
<1>5. CASE r = Target /\ ~Calm
    <2>1. cmd' = Overtaken
        BY <1>5 DEF BeginStore
    <2> QED
        BY <2>1, ZeroIsWord DEF Arrives, Command, UnderWay, Whole, Overtaken, NoCommand
<1> QED
    BY <1>3, <1>4, <1>5

\* A worker stores one byte of it; with the last one the store is whole.
LEMMA StoreArrives ==
    ASSUME TypeOK, Arrives, NEW x \in Half, Store(x)
    PROVE  Arrives'
<1>1. /\ UNCHANGED <<word, shadow, phase, i, todo, curr>> /\ x \in client.todo
      /\ db' = [db EXCEPT ![client.reg][x] = client.word[x]]
      /\ client.todo = {x} => client' = NoStore
      /\ client.todo # {x} => client' = [client EXCEPT !.todo = @ \ {x}]
    BY DEF Store, ClientStore, syncVars
<1>2. /\ Target \in Reg /\ Target # 0 /\ client.reg \in Reg /\ client.word \in Word
      /\ client \in [reg : 0 .. NReg, todo : SUBSET Half, word : Word]
      /\ db \in [Reg -> Word] /\ WindowOpen' = WindowOpen
    BY <1>1, TargetAssumption DEF TargetAssumption, TypeOK, Reg, WindowOpen
<1>3. CASE client.reg # Target
    <2>1. cmd' = cmd /\ cmd.kind # "storing"
        BY <1>3 DEF Store, Arrives, Command
    <2>2. db'[Target] = db[Target] /\ client'.reg # Target
        BY <1>1, <1>2, <1>3 DEF NoStore
    <2> QED
        BY <1>1, <1>2, <2>1, <2>2 DEF Arrives, Command, UnderWay, Whole
<1>4. CASE client.reg = Target /\ cmd.kind # "storing"
    <2>1. cmd' = cmd /\ cmd.kind # "lone"
        BY <1>4 DEF Store, Arrives, Command
    <2> QED
        BY <1>4, <2>1 DEF Arrives, Command, UnderWay, Whole
<1>5. CASE client.reg = Target /\ cmd.kind = "storing"
    <2>1. /\ cmd'.word = cmd.word /\ cmd'.before = cmd.before
          /\ cmd'.exposed = (cmd.exposed \/ WindowOpen)
          /\ cmd'.kind = IF client' = NoStore THEN "lone" ELSE "storing"
          /\ cmd' \in [kind : {"none", "overtaken", "storing", "lone"},
                       word : Word, before : Word, exposed : BOOLEAN]
        BY <1>5 DEF Store, Arrives, Command
    <2>2. CASE client.todo = {x}
        <3>1. cmd'.kind = "lone" /\ client'.reg # Target
            BY <1>1, <1>2, <2>1, <2>2 DEF NoStore
        <3>2. ASSUME ~cmd'.exposed
              PROVE  db'[Target] = cmd.word /\ shadow[Target] = cmd.before
                     /\ word[Target] = cmd.before /\ ~WindowOpen
            <4>1. /\ ~WindowOpen /\ client.word = cmd.word
                  /\ word[Target] = cmd.before /\ shadow[Target] = cmd.before
                  /\ \A y \in Half \ {x} : db[Target][y] = cmd.word[y]
                BY <1>5, <2>1, <2>2, <3>2 DEF Arrives, UnderWay
            <4>2. db'[Target] = [db[Target] EXCEPT ![x] = cmd.word[x]]
                BY <1>1, <1>2, <1>5, <4>1
            <4>3. db'[Target] = cmd.word
                BY <1>2, <4>1, <4>2, <2>1 DEF Word, Arrives, Command
            <4> QED
                BY <4>1, <4>3
        <3>3. ~WindowOpen => ~(phase = "store" /\ i = Target)
                             /\ (phase = "detect" /\ i = Target => todo = Half)
            BY <1>2 DEF WindowOpen, Reg
        <3> QED
            BY <1>1, <1>2, <2>1, <3>1, <3>2, <3>3 DEF Arrives, Command, UnderWay, Whole
    <2>3. CASE client.todo # {x}
        <3>1. client'.reg = Target /\ client'.word = client.word /\ client'.todo = client.todo \ {x}
            BY <1>1, <1>2, <1>5, <2>3
        <3>2. cmd'.kind = "storing"
            BY <1>2, <2>1, <3>1 DEF NoStore
        <3>3. ASSUME ~cmd'.exposed
              PROVE  UnderWay'
            <4>1. /\ ~WindowOpen /\ client.word = cmd.word
                  /\ word[Target] = cmd.before /\ shadow[Target] = cmd.before
                  /\ \A y \in Half : db[Target][y] = IF y \in client.todo
                                                     THEN cmd.before[y] ELSE cmd.word[y]
                BY <1>5, <2>1, <3>3 DEF Arrives, UnderWay
            <4>2. \A y \in Half : db'[Target][y] = IF y = x THEN cmd.word[x] ELSE db[Target][y]
                BY <1>1, <1>2, <1>5, <4>1 DEF Word
            <4> QED
                BY <1>1, <1>2, <2>1, <3>1, <4>1, <4>2 DEF UnderWay
        <3> QED
            BY <2>1, <3>1, <3>2, <3>3 DEF Arrives, Command, UnderWay, Whole
    <2> QED
        BY <2>2, <2>3
<1> QED
    BY <1>3, <1>4, <1>5

\* The other steps of the clients and of the other threads.
LEMMA OthersArrive ==
    ASSUME TypeOK, Untouched, Arrives, Next, ~Sync
    PROVE  Arrives'
<1> USE DEF Arrives, Command, UnderWay, Whole, WindowOpen, syncVars
<1>1. ASSUME NEW r \in Reg, NEW w \in Sent, WriteWord(r, w)
      PROVE  Arrives'
    <2>1. UNCHANGED <<db, shadow, client, phase, i, todo, curr>>
        BY <1>1 DEF WriteWord, MemoryWrite
    <2>2. r # Target => word'[Target] = word[Target] /\ cmd' = cmd
        BY <1>1, TargetAssumption DEF WriteWord, MemoryWrite, TypeOK, TargetAssumption
    <2>3. r = Target => cmd' = Overtaken \/ (cmd' = cmd /\ cmd.kind = "none")
        BY <1>1 DEF WriteWord
    <2>4. r = Target => Arrives'
        BY <2>1, <2>3, ZeroIsWord DEF Overtaken, NoCommand
    <2> QED
        BY <2>1, <2>2, <2>4
<1>2. ASSUME NEW n \in BitNo, NEW v \in 0 .. 1, StoreOutput(n, v) \/ WriteBit(n, v)
      PROVE  Arrives'
    BY <1>2 DEF StoreOutput, ClientStoreBit, WriteBit, MemoryWriteBit
<1>3. CASE Halt
    BY <1>3 DEF Halt, Stop, historyVars
<1> QED
    BY <1>1, <1>2, <1>3, BeginArrives, StoreArrives DEF Next

\* For any number of registers, any bytes and any interleaving: a word stored
\* whole outside the window is in the buffer or in the memory until somebody
\* else writes the register, and the memory never has half of it
\* (S7Server.cpp:110-146).
THEOREM S7QuietStore == Spec => []QuietStoreArrives
<1>1. Init => Untouched /\ Arrives
    BY ZeroIsWord DEF Init, S7Init, Untouched, Arrives, Command, UnderWay, Whole, NoCommand
<1>2. TypeOK /\ Untouched /\ Arrives /\ [Next]_vars => Untouched' /\ Arrives'
    <2> SUFFICES ASSUME TypeOK, Untouched, Arrives, [Next]_vars PROVE Untouched' /\ Arrives'
        OBVIOUS
    <2>1. CASE Sync
        BY <2>1, SyncUntouched, SyncCommand, SyncUnderWay, SyncWhole DEF Arrives
    <2>2. CASE Next /\ ~Sync
        BY <2>2, OthersUntouched, OthersArrive
    <2>3. CASE UNCHANGED vars
        BY <2>3 DEF Untouched, Arrives, Command, UnderWay, Whole, WindowOpen,
                    vars, s7Vars, syncVars, historyVars
    <2> QED
        BY <2>1, <2>2, <2>3
<1>3. Arrives => QuietStoreArrives
    BY DEF Arrives, Whole, QuietStoreArrives
<1> QED
    BY <1>1, <1>2, <1>3, S7Typing, PTL DEF Spec
=============================================================================
