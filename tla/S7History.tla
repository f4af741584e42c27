----------------------------- MODULE S7History -----------------------------
(***************************************************************************)
(* The S7 server with what an observer remembers of it: which registers a  *)
(* client has stored to, the last client command to one register, and      *)
(* whether the running loop was disturbed.                                 *)
(***************************************************************************)
EXTENDS S7Sync

CONSTANTS
    Target,      \* the register whose commands are followed
    Sent         \* words clients and other threads write

ASSUME TargetAssumption ==
    Target \in Reg /\ Sent \subseteq Word

VARIABLES
    touched,     \* registers a client stored to since their last publication
    cmd,         \* the client's last word to Target, if nothing overtook it
    undisturbed  \* the loop began and nobody else stored or wrote since

historyVars == <<touched, cmd, undisturbed>>
vars == <<s7Vars, historyVars>>

NoCommand == [kind |-> "none", word |-> ZeroWord, before |-> ZeroWord, exposed |-> FALSE]
Overtaken == [NoCommand EXCEPT !.kind = "overtaken"]

\* sync_thread_ is between its first load of Target's bytes and the end of
\* Target's publication: what a client stores now may be overwritten unseen.
WindowOpen ==
    \/ phase = "detect" /\ (i > Target \/ (i = Target /\ todo # Half))
    \/ phase = "bits"
    \/ phase = "read" /\ i <= Target
    \/ phase = "store" /\ i <= Target

\* Nobody stored to Target, and buffer, shadow and memory agree on it.
Calm == Target \notin touched /\ ~WindowOpen /\ db[Target] = word[Target]

Init ==
    /\ S7Init
    /\ touched = {}
    /\ cmd = NoCommand
    /\ undisturbed = FALSE

Top ==
    /\ LoopTop
    /\ undisturbed' = running
    /\ UNCHANGED <<touched, cmd>>

Publish ==
    /\ ReadMemory
    /\ touched' = touched \ {i}
    /\ UNCHANGED <<cmd, undisturbed>>

Proceed ==
    /\ \/ EndDetect \/ EndBits \/ EndPublish
       \/ \E x \in Half : LoadByte(x) \/ StoreByte(x)
       \/ Detect \/ LoadBit \/ StoreBit \/ NextWord
    /\ cmd' = IF cmd.kind = "storing" /\ WindowOpen' THEN [cmd EXCEPT !.exposed = TRUE] ELSE cmd
    /\ UNCHANGED <<touched, undisturbed>>

Sync == Top \/ Publish \/ Proceed

BeginStore(r, w) ==
    /\ ClientBegin(r, w)
    /\ cmd' = IF r # Target THEN cmd
              ELSE IF Calm THEN [kind |-> "storing", word |-> w, before |-> word[r], exposed |-> FALSE]
              ELSE Overtaken
    /\ UNCHANGED <<touched, undisturbed>>

Store(x) ==
    /\ ClientStore(x)
    /\ touched' = touched \cup {client.reg}
    /\ cmd' = IF client.reg # Target \/ cmd.kind # "storing" THEN cmd
              ELSE [cmd EXCEPT !.kind = IF client' = NoStore THEN "lone" ELSE "storing",
                               !.exposed = @ \/ WindowOpen]
    /\ undisturbed' = FALSE

StoreOutput(n, v) ==
    /\ ClientStoreBit(n, v)
    /\ undisturbed' = FALSE
    /\ UNCHANGED <<touched, cmd>>

WriteWord(r, w) ==
    /\ MemoryWrite(r, w)
    /\ cmd' = IF r = Target /\ cmd.kind # "none" THEN Overtaken ELSE cmd
    /\ undisturbed' = FALSE
    /\ UNCHANGED touched

WriteBit(n, v) ==
    /\ MemoryWriteBit(n, v)
    /\ undisturbed' = FALSE
    /\ UNCHANGED <<touched, cmd>>

Halt == Stop /\ UNCHANGED historyVars

Next ==
    \/ Sync
    \/ \E r \in Reg, w \in Sent : BeginStore(r, w) \/ WriteWord(r, w)
    \/ \E x \in Half : Store(x)
    \/ \E n \in BitNo, v \in 0 .. 1 : StoreOutput(n, v) \/ WriteBit(n, v)
    \/ Halt

Spec == Init /\ [][Next]_vars
-----------------------------------------------------------------------------
\* Types; locals are live only in the loops that use them.
TypeOK ==
    /\ word \in [Reg -> Word] /\ db \in [Reg -> Word] /\ shadow \in [Reg -> Word]
    /\ bit \in [BitNo -> 0 .. 1] /\ image \in [BitNo -> 0 .. 1] /\ loaded \in [BitNo -> 0 .. 1]
    /\ running \in BOOLEAN
    /\ phase \in {"loop", "detect", "bits", "read", "store", "done"}
    /\ phase = "store" => i \in Reg
    /\ i \in 1 .. NReg + NBit + 1
    /\ todo \in SUBSET Half
    /\ phase = "read" => todo = Half
    /\ curr \in Word
    /\ val \in {0, 1, Unset}
    /\ val # Unset => phase = "bits" /\ i \in BitNo
    /\ client \in [reg : 0 .. NReg, todo : SUBSET Half, word : Word]
    /\ client.todo # {} <=> client.reg # 0
    /\ touched \in SUBSET Reg

\* What the thread itself published is never taken for a client's store,
\* whatever other threads write to the memory while it publishes byte by byte
\* (S7Server.cpp:122-127, 183-186).
NoEcho ==
    [][\A r \in Reg : Detect /\ word'[r] # word[r] => r \in touched]_vars

\* A word stored whole while the thread is not between Target's comparison
\* and its publication is in the buffer or in the memory until somebody else
\* writes Target, and the memory is not seen with half of it
\* (S7Server.cpp:110-146).
QuietStoreArrives ==
    cmd.kind = "lone" /\ ~cmd.exposed =>
        /\ cmd.word \in {db[Target], word[Target]}
        /\ word[Target] \in {cmd.before, cmd.word}

\* After a loop in which nobody else stored or wrote, buffers, shadows and
\* memory agree on every word and bit, whatever was stored, torn or
\* overwritten before (S7Server.cpp:148-202).
LoopAgrees ==
    phase = "loop" /\ running /\ undisturbed =>
        db = word /\ shadow = word /\ image = bit
=============================================================================
